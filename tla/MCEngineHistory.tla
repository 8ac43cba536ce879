-------------------------- MODULE MCEngineHistory --------------------------
(***************************************************************************)
(* An instance of EngineHistory.  The name is blocked by revision 1 of the  *)
(* sources and redirected, instead, by revision 2.                          *)
(***************************************************************************)
EXTENDS EngineHistory, TLC

CONSTANTS x, top

MCLabel == {x, top}
MCName  == Unqualified(<<x, top>>)
MCAlias == Unqualified(<<top, top>>)
MCQuery == {Qualified(<<x, top>>)}

MCSource == {"deny", "over"}
MCParsed ==
    "deny" :> <<<<[domain |-> MCName, alias |-> MCName]>>, <<>>>>
    @@ "over" :> <<<<>>, <<[domain |-> MCName, alias |-> MCAlias]>>>>
MCConfig ==
    {[whitelist |-> <<>>, blacklist |-> <<"deny">>, rewrites |-> <<"over">>]}
MCRevision == {1, 2}
=============================================================================
