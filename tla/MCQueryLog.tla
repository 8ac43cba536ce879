----------------------------- MODULE MCQueryLog -----------------------------
(***************************************************************************)
(* The query log with two tasks that may be overtaken by one unit of time,  *)
(* which is enough to put an old entry behind a young one, and a page that  *)
(* is put together meanwhile.                                               *)
(***************************************************************************)
EXTENDS AdminPages, TLC

Symmetry == Permutations(Task) \cup Permutations(Ip)
=============================================================================
