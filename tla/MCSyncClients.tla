---------------------------- MODULE MCSyncClients ----------------------------
(***************************************************************************)
(* SyncClients for TLC: one program per run.  The values are numbers, all  *)
(* different within a program.                                             *)
(***************************************************************************)
EXTENDS SyncClients, TLC

CONSTANTS t1, t2, t3, t4

MCTasks == {t1, t2, t3, t4}
MCVals == {"v1", "v2", "v3"}
MCOps == Methods

Do(o) == [op |-> o, arg |-> Default]
Write(o, v) == [op |-> o, arg |-> v]

\* Two writers and two readers of three values: each side can block, and the
\* readers and the writers compete.
BalancedProgram ==
  t1 :> <<Write("writeEF", "v1"), Write("writeEF", "v2")>> @@
  t2 :> <<Write("writeEF", "v3")>> @@
  t3 :> <<Do("readFE"), Do("readFE")>> @@
  t4 :> <<Do("readFE"), Do("isFull")>>

\* Two tasks wait for the variable to become full, and it does.
TwoReadFF ==
  t1 :> <<Do("readFF")>> @@
  t2 :> <<Do("readFF")>> @@
  t3 :> <<Write("writeEF", "v1")>> @@
  t4 :> <<>>

OneWriteXF ==
  t1 :> <<Write("writeXF", "v1")>> @@
  t2 :> <<Do("readXX")>> @@
  t3 :> <<>> @@
  t4 :> <<>>
=============================================================================
