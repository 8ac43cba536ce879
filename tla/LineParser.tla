----------------------------- MODULE LineParser -----------------------------
(***************************************************************************)
(* The line parsers (src/src/compiler/parser/): what each of the formats    *)
(* domains, hosts and cname makes of one line of a source.                  *)
(*                                                                          *)
(* A line is a sequence of characters, one for each class the expressions   *)
(* tell apart.  Two words stand for a character each, since nothing looks   *)
(* inside them: "I" is an IPv4 address, "C" is CNAME.  Letters outside      *)
(* ASCII, which IDNA encodes, are left out.                                 *)
(***************************************************************************)
EXTENDS Integers, Sequences, FiniteSetsExt

CONSTANTS
    MinHead, MaxHead,   \* .{2,200}, the part of a name before its last dot
    MinTld, MaxTld,     \* [a-z]{2,6}, the part after it
    MaxLabel,           \* the longest label of a legal name: 63
    None,               \* no rule in the line
    Piece, MaxPieces    \* what the lines of the sources are put together from

ASSUME BoundAssumption ==
    /\ MinHead \in Nat \ {0} /\ MaxHead \in Nat /\ MinHead <= MaxHead
    /\ MinTld \in Nat \ {0} /\ MaxTld \in Nat /\ MinTld <= MaxTld
    /\ MaxLabel \in Nat /\ MaxPieces \in Nat

Lower == {"a", "b"}
Alnum == Lower \cup {"A", "1", "I", "C"}
Char  == Alnum \cup {".", "-", "*", "#", " "}

ASSUME LineAssumption == Piece \subseteq Seq(Char) /\ None \notin Seq(Char)

Cut(s, first, last) == SubSeq(s, first, last)
-----------------------------------------------------------------------------
(***************************************************************************)
(* The regular expressions.  The leftmost match counts and, among those     *)
(* that start there, the one in which each part takes as much as it can,    *)
(* the earlier parts first.                                                 *)
(***************************************************************************)

\* .{2,200}\.[a-z]{2,6} at i: the lengths the two parts can have.
NameAt(s, i) ==
    {m \in (MinHead .. MaxHead) \X (MinTld .. MaxTld) :
        /\ i + m[1] + m[2] <= Len(s)
        /\ s[i + m[1]] = "."
        /\ \A k \in 1 .. m[2] : s[i + m[1] + k] \in Lower}

\* Faulty variant of Greedy: as few letters as possible.
Greedy_lazy(ms) ==
    CHOOSE m \in ms : \A o \in ms : o[1] < m[1] \/ (o[1] = m[1] /\ o[2] >= m[2])

Greedy(ms) ==
    CHOOSE m \in ms : \A o \in ms : o[1] < m[1] \/ (o[1] = m[1] /\ o[2] <= m[2])

EndOf(i, m) == i + m[1] + m[2]

\* \s+ from i up to j
Gap(s, i, j) == i < j /\ \A k \in i .. j - 1 : s[k] = " "

\* Where a name can begin after a gap that begins at i.
AfterGap(s, i) == {j \in i + 1 .. Len(s) : Gap(s, i, j)}

trim(s) == Cut(s, Min({i \in DOMAIN s : s[i] # " "}), Len(s))
-----------------------------------------------------------------------------
\* Labels of letters, digits and inner hyphens, none empty and none too long.
parse_domain_name(n) ==
    /\ n # <<>>
    /\ \A i \in DOMAIN n :
          /\ n[i] \in Alnum \cup {".", "-"}
          /\ i = 1 \/ n[i - 1] = "." => n[i] \in Alnum
          /\ i = Len(n) \/ n[i + 1] = "." => n[i] \in Alnum
          /\ \E k \in i .. i + MaxLabel : k > Len(n) \/ n[k] = "."

\* Faulty variant of domain_to_ascii: the case is left as it is.
domain_to_ascii_missing(n) == n

\* idna::domain_to_ascii
domain_to_ascii(n) == [i \in DOMAIN n |-> IF n[i] = "A" THEN "a" ELSE n[i]]

\* str::replace("*.", "")
WithoutStars(n) ==
    LET Of(i) == n[i] = "*" /\ i < Len(n) /\ n[i + 1] = "."
        kept == {i \in DOMAIN n : ~Of(i) /\ ~(i > 1 /\ Of(i - 1))}
        nth[k \in 1 .. Cardinality(kept)] ==
            CHOOSE i \in kept : Cardinality({j \in kept : j <= i}) = k
    IN [k \in DOMAIN nth |-> n[nth[k]]]

HasStar(n) == Len(n) >= 2 /\ n[1] = "*" /\ n[2] = "."

\* Faulty variant of Checked: a wildcard loses its star.
Checked_starless(n) ==
    LET bare == IF HasStar(n) THEN WithoutStars(n) ELSE n
    IN IF ~parse_domain_name(bare) THEN None ELSE domain_to_ascii(bare)

\* A match is a rule when it is a legal name; stars are put aside meanwhile.
Checked(n) ==
    LET star == IF HasStar(n) THEN <<"*", ".">> ELSE <<>>
        bare == IF HasStar(n) THEN WithoutStars(n) ELSE n
    IN IF ~parse_domain_name(bare) THEN None ELSE star \o domain_to_ascii(bare)

parse_domain(s) ==
    LET starts == {i \in DOMAIN s : NameAt(s, i) # {}}
        i == Min(starts)
    IN IF starts = {} THEN None ELSE Checked(Cut(s, i, EndOf(i, Greedy(NameAt(s, i)))))

\* The name is cut out of the line first and parsed a second time.
parse_host(s) ==
    LET names(i) == {j \in AfterGap(s, i + 1) : NameAt(s, j) # {}}
        starts == {i \in DOMAIN s : s[i] = "I" /\ names(i) # {}}
        j == Max(names(Min(starts)))
    IN IF starts = {} THEN None
       ELSE parse_domain(trim(Cut(s, j, EndOf(j, Greedy(NameAt(s, j))))))

\* The aliases at j: they end in a dot.
AliasAt(s, j) == {m \in NameAt(s, j) : EndOf(j, m) < Len(s) /\ s[EndOf(j, m) + 1] = "."}

\* Where an alias can begin when the name before it ends at e.
Aliases(s, e) ==
    {j \in UNION {AfterGap(s, k + 1) : k \in {k \in AfterGap(s, e + 1) : s[k] = "C"}} :
        AliasAt(s, j) # {}}

parse_cname(s) ==
    LET names(i) == {m \in NameAt(s, i) : Aliases(s, EndOf(i, m)) # {}}
        starts == {i \in DOMAIN s : names(i) # {}}
        i == Min(starts)
        e == EndOf(i, Greedy(names(i)))
        j == Max(Aliases(s, e))
        domain == parse_domain(trim(Cut(s, i, e)))
        alias  == parse_domain(trim(Cut(s, j, EndOf(j, Greedy(AliasAt(s, j))))))
    IN IF starts = {} \/ None \in {domain, alias} THEN None
       ELSE [domain |-> domain, alias |-> alias]

into_domain(c) == IF c = None THEN None ELSE c.domain

\* ParseBlacklist, ParseWhitelist and the parser of the overrides.
parse(s) ==
    [domains |-> parse_domain(s), hosts |-> parse_host(s),
     zone |-> into_domain(parse_cname(s)), cname |-> parse_cname(s)]
-----------------------------------------------------------------------------
VARIABLES
    line,       \* a line of a source
    pieces,     \* how many pieces it is put together from
    rule        \* what each format makes of it
vars == <<line, pieces, rule>>

Init == line = <<>> /\ pieces = 0 /\ rule = parse(line)

Next ==
    /\ pieces < MaxPieces
    /\ \E p \in Piece : line' = line \o p
    /\ pieces' = pieces + 1
    /\ rule' = parse(line')

Spec == Init /\ [][Next]_vars
-----------------------------------------------------------------------------
(***************************************************************************)
(* Properties, in terms of the words of a line and not of the expressions.  *)
(***************************************************************************)
IsLabel(w) ==
    /\ Len(w) \in 1 .. MaxLabel
    /\ \A k \in DOMAIN w : w[k] \in Alnum \/ (w[k] = "-" /\ k \notin {1, Len(w)})

\* Labels with dots between them.
IsName(w) ==
    LET dots == {k \in DOMAIN w : w[k] = "."} \cup {0, Len(w) + 1} IN
    \A i \in dots \ {Len(w) + 1} :
        IsLabel(Cut(w, i + 1, Min({j \in dots : j > i}) - 1))

Starless(w) == IF HasStar(w) THEN Cut(w, 3, Len(w)) ELSE w

\* A name as the lists have it: with or without a star, under a top-level
\* domain of letters of the usual length, and neither very short nor very long.
IsRule(w) ==
    /\ \E d \in DOMAIN w :
          /\ w[d] = "." /\ d - 1 \in MinHead .. MaxHead
          /\ Len(w) - d \in MinTld .. MaxTld
          /\ \A k \in d + 1 .. Len(w) : w[k] \in Lower
    /\ IsName(Starless(w))

lowercase(w) == [k \in DOMAIN w |-> IF w[k] = "A" THEN "a" ELSE w[k]]

\* The words of the line from i on, when those before are as in a hosts file.
FirstWord(i, j) ==
    /\ i \in DOMAIN line /\ i <= j /\ (j = Len(line) \/ line[j + 1] = " ")
    /\ i > 1 => line[1] = "I" /\ Gap(line, 2, i)

TypeOK ==
    /\ line \in Seq(Char) /\ pieces \in 0 .. MaxPieces
    /\ \A f \in {"domains", "hosts", "zone"} : rule[f] # None =>
            rule[f] = lowercase(rule[f]) /\ IsName(Starless(rule[f]))

\* A rule followed by whatever else is taken as it is written or not at all;
\* and it is taken unless the rest holds a dot.
TakenAsWritten ==
    \A i, j \in DOMAIN line :
        FirstWord(i, j) /\ IsRule(Cut(line, i, j)) =>
            LET found == IF i = 1 THEN rule.domains ELSE rule.hosts
                word  == lowercase(Cut(line, i, j))
            IN \/ found = word
               \/ found = None /\ \E k \in j + 1 .. Len(line) : line[k] = "."

\* domain.rs:75, test_parse_domain_none("# abc.example.com"): a line that is
\* commented out is no rule (in the hosts format it is one).
CommentNoRule ==
    line # <<>> /\ line[1] = "#" /\ Len(line) <= MaxHead =>
        rule.domains = None /\ rule.zone = None

\* The lists mean what they say: a name of the usual form is taken as written, a
\* line that is commented out is none.
RuleOrNothing == TakenAsWritten /\ CommentNoRule

\* An override is taken whole, name and alias as written.
OverrideWhole ==
    \A i, k \in DOMAIN line :
        /\ FirstWord(1, i) /\ line[Len(line)] = "." /\ i + 3 < k
        /\ Gap(line, i + 1, i + 2) /\ line[i + 2] = "C" /\ Gap(line, i + 3, k)
        /\ IsRule(Cut(line, 1, i)) /\ IsRule(Cut(line, k, Len(line) - 1))
        => rule.cname = [domain |-> lowercase(Cut(line, 1, i)),
                         alias  |-> lowercase(Cut(line, k, Len(line) - 1))]

\* host.rs:60, test_parse_host_some("127.0.0.1 abc.example.com", "127.0.0.1",
\* "abc.example.com"): an address and a name are a rule for that name.  It may
\* be left out, but is never a rule for another name.
EntryKept ==
    \A i \in DOMAIN line \ {1} :
        FirstWord(i, Len(line)) /\ IsName(Cut(line, i, Len(line))) =>
            rule.hosts \in {None, lowercase(Cut(line, i, Len(line)))}
=============================================================================
