--------------------------- MODULE MCDomainStore ---------------------------
(***************************************************************************)
(* DomainStore on names of two to four labels over a two-letter alphabet.   *)
(***************************************************************************)
EXTENDS DomainStore

CONSTANTS a, b

MCLabel == {a, b}

\* "b.a", "a.b.a", "*.b.a", "*.a.b.a" and the sibling zone "*.a.a".
MCRule == {Unqualified(l) : l \in {<<b, a>>, <<a, b, a>>, <<Star, b, a>>,
                                   <<Star, a, b, a>>, <<Star, a, a>>}}

\* Every query of at most four labels that ends in the label a, the root
\* name and a query that spells a wildcard out.
MCQuery ==
    {Qualified(l \o <<a>>) : l \in UNION {[1 .. n -> MCLabel] : n \in 0 .. 3}}
        \cup {Qualified(<<>>), Qualified(<<Star, b, a>>)}
=============================================================================
