---------------------------- MODULE MCLineParser ----------------------------
(***************************************************************************)
(* Lines of up to five pieces: names, among them a very short one and one   *)
(* under a long top-level domain, and what can stand around them.  The      *)
(* limits on the parts of a name are scaled down, 2 to 9 for 2 to 200       *)
(* characters before the last dot and 1 to 2 for 2 to 6 letters after it.   *)
(***************************************************************************)
EXTENDS LineParser

MCPiece ==
    {<<"a", "b", ".", "a">>, <<"b", ".", "a">>, <<"A", "-", "1", ".", "a", "b">>,
     <<"a", "a", ".", "a", "b", "a">>, <<" ", "C", " ">>, <<"*", ".">>,
     <<" ">>, <<".">>, <<"#">>, <<"I">>}
=============================================================================
