---------------------------- MODULE MCLifecycle ----------------------------
(***************************************************************************)
(* The process under all four combinations of arguments that matter, with   *)
(* listeners of both address families.                                      *)
(***************************************************************************)
EXTENDS Lifecycle
=============================================================================
