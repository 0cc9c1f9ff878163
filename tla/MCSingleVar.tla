----------------------------- MODULE MCSingleVar -----------------------------
(***************************************************************************)
(* SingleVar for TLC: three tasks that call any method at any time, with   *)
(* waits that end by themselves.                                           *)
(***************************************************************************)
EXTENDS SingleVar, TLC

CONSTANTS t1, t2, t3, v1, v2

MCTasks == {t1, t2, t3}
MCVals == {v1, v2}
MCOps == Methods

Symmetry == Permutations(MCTasks) \cup Permutations(MCVals)
=============================================================================
