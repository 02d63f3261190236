------------------------------ MODULE MCPager -------------------------------
(* Two programs on one database of two pages. *)
EXTENDS Pager, TLC

Alike == Permutations(Procs) \cup Permutations(Values)
=============================================================================
