-------------------------- MODULE MCAdblockEngine --------------------------
(***************************************************************************)
(* Instances of AdblockEngine.  Names are built from the labels x and top;  *)
(* "x.top." is the name queries ask about, and "*.top" the wildcard that    *)
(* covers it.                                                               *)
(***************************************************************************)
EXTENDS AdblockEngine, TLC

CONSTANTS x, top

MCLabel == {x, top}
MCName  == Unqualified(<<x, top>>)
MCAny   == Unqualified(<<Star, top>>)
MCAlias == Unqualified(<<top, top>>)
MCQuery == {Qualified(<<x, top>>)}
Rewrite(n, to) == [domain |-> n, alias |-> to]
Rule(n)        == Rewrite(n, n)     \* the lists do not look at the alias
MCRevision == {1, 2}

\* Instance "guards": one list with one rule that comes and goes, so that the
\* lifetimes of databases under two queries can be followed to the end.
GuardSource == {"deny"}
GuardParsed == "deny" :> <<<<Rule(MCName)>>, <<>>>>
GuardConfig == {[whitelist |-> <<>>, blacklist |-> <<"deny">>, rewrites |-> <<>>]}

\* Instance "live": two configurations and two sources that change.  One
\* configuration has the same source as a whitelist and as a blacklist, so that
\* what arrives of it decides; the other has two sources of overrides, in which
\* the last override of the name wins, within a source and across sources.
LiveSource == {"names", "over"}
LiveParsed ==
    "names" :> <<<<Rule(MCName)>>, <<>>>>
    @@ "over" :> <<<<Rule(MCName), Rewrite(MCName, MCAlias)>>, <<Rewrite(MCAny, MCName)>>>>
LiveConfig ==
    {[whitelist |-> <<"names">>, blacklist |-> <<"names">>, rewrites |-> <<>>],
     [whitelist |-> <<>>, blacklist |-> <<>>, rewrites |-> <<"names", "over">>]}

Symmetry == Permutations(Db) \cup Permutations(Reader)
=============================================================================
