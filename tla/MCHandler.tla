----------------------------- MODULE MCHandler -----------------------------
(***************************************************************************)
(* Requests of two clients, one after another, for one name, under policies *)
(* that allow it, block it, except it from a blocked zone, or redirect it.  *)
(***************************************************************************)
EXTENDS Handler

CONSTANTS x, top

MCLabel == {x, top}
MCName  == Qualified(<<x, top>>)
MCQuery == {MCName}

Empty   == Policy!EmptyPolicy
Zone    == put(EmptyStore, Unqualified(<<Star, top>>))
Exact   == put(EmptyStore, Unqualified(<<x, top>>))
Alias   == put_alias(EmptyStore, Unqualified(<<x, top>>), Unqualified(<<top, top>>))

MCPublished ==
    {Empty,
     [Empty EXCEPT !.blacklist = Zone],
     [Empty EXCEPT !.blacklist = Zone, !.whitelist = Exact],
     [Empty EXCEPT !.blacklist = Exact, !.rewrites = Alias]}
=============================================================================
