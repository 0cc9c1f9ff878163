------------------------- MODULE MCSplitPhaseBarrier -------------------------
(***************************************************************************)
(* SplitPhaseBarrier for TLC: a handful of tasks instead of the test's 7.  *)
(***************************************************************************)
EXTENDS SplitPhaseBarrier
=============================================================================
