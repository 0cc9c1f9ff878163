---------------------------- MODULE SyncHandshake ----------------------------
(***************************************************************************)
(* testSyncVariable of library/test/unit/sync_variable.cpp: main posts a   *)
(* chplx::begin task that captures two local sync variables by reference,  *)
(* hands it a 1 through sync_sy and waits for sync_done.  begin            *)
(* (begin.hpp) is fire-and-forget: nothing joins the task.                 *)
(*                                                                         *)
(* Each statement of main and of the task is one call of a Sync method     *)
(* with the results its HPX_TEST accepts; "failed" collects the lines of   *)
(* the tests that failed.  (HPX_TEST counts a failure and goes on.)        *)
(***************************************************************************)
EXTENDS Naturals, Sequences

CONSTANT NoTask

Threads == {"main", "task"}

VARIABLES
  ip,       \* ip[t]: the next statement of t; 0 for a task not yet posted
  failed,   \* the lines whose HPX_TEST has failed
  sValue, sFull, sMtx, sRead, sWrite, sPc, sCall, sRet,   \* Sync<int> sync_sy
  dValue, dFull, dMtx, dRead, dWrite, dPc, dCall, dRet    \* Sync<bool> sync_done

sy == <<sValue, sFull, sMtx, sRead, sWrite, sPc, sCall, sRet>>
done == <<dValue, dFull, dMtx, dRead, dWrite, dPc, dCall, dRet>>
vars == <<ip, failed, sy, done>>

UsedOps == {"isFull", "readXX", "readFE", "writeEF"}

Sy == INSTANCE SyncVar WITH
  Tasks <- Threads, Vals <- {1}, Default <- 0, Ops <- UsedOps,
  TrivialMove <- TRUE, Spurious <- FALSE,
  value <- sValue, full <- sFull, mtx <- sMtx, cv_read <- sRead,
  cv_write <- sWrite, pc <- sPc, call <- sCall, ret <- sRet

Done == INSTANCE SyncVar WITH
  Tasks <- Threads, Vals <- {TRUE}, Default <- FALSE, Ops <- UsedOps,
  TrivialMove <- TRUE, Spurious <- FALSE,
  value <- dValue, full <- dFull, mtx <- dMtx, cv_read <- dRead,
  cv_write <- dWrite, pc <- dPc, call <- dCall, ret <- dRet

\* A call whose result nothing tests, and one under an HPX_TEST.
Plain(on, op, arg) == [on |-> on, op |-> op, arg |-> arg, tested |-> FALSE]
Test(line, on, op, arg, want) ==
  [on |-> on, op |-> op, arg |-> arg, tested |-> TRUE, line |-> line, want |-> want]

Program ==
  [main |-> <<
     Test(24, "sy", "isFull", 0, FALSE), Test(25, "sy", "readXX", 0, 0),
     Test(28, "done", "isFull", FALSE, FALSE), Test(29, "sy", "readXX", 0, 0),
     [on |-> "begin"],
     Plain("sy", "writeEF", 1),
     Test(42, "sy", "isFull", 0, TRUE), Test(43, "sy", "readXX", 0, 1),
     Plain("done", "readFE", FALSE), Test(46, "done", "isFull", FALSE, FALSE)>>,
   task |-> <<
     Test(34, "sy", "readFE", 0, 1), Test(33, "sy", "isFull", 0, FALSE),
     Test(36, "done", "readXX", FALSE, FALSE),
     Plain("done", "writeEF", TRUE), Test(38, "done", "isFull", FALSE, TRUE)>>]

Init ==
  /\ Sy!Init /\ ~sFull
  /\ Done!Init /\ ~dFull
  /\ ip = [main |-> 1, task |-> 0]
  /\ failed = {}
-----------------------------------------------------------------------------
Running(t) == ip[t] \in DOMAIN Program[t]
Statement(t) == Program[t][ip[t]]
Advance(t) == ip' = [ip EXCEPT ![t] = @ + 1]

\* chplx::begin: the task may run from now on.
Begin(t) ==
  /\ Running(t) /\ Statement(t).on = "begin"
  /\ ip' = [ip EXCEPT ![t] = @ + 1, !["task"] = 1]
  /\ UNCHANGED <<failed, sy, done>>

Enter(t) ==
  /\ Running(t)
  /\ \/ /\ Statement(t).on = "sy"
        /\ Sy!Call(t, Statement(t).op, Statement(t).arg) /\ UNCHANGED done
     \/ /\ Statement(t).on = "done"
        /\ Done!Call(t, Statement(t).op, Statement(t).arg) /\ UNCHANGED sy
  /\ UNCHANGED <<ip, failed>>

Judge(t, result) ==
  failed' = IF Statement(t).tested /\ result # Statement(t).want
            THEN failed \cup {Statement(t).line} ELSE failed

Leave(t) ==
  /\ Running(t)
  /\ \/ Sy!Return(t) /\ Judge(t, sRet[t]) /\ UNCHANGED done
     \/ Done!Return(t) /\ Judge(t, dRet[t]) /\ UNCHANGED sy
  /\ Advance(t)

Library(t) ==
  /\ \/ Sy!Run(t) /\ UNCHANGED done
     \/ Done!Run(t) /\ UNCHANGED sy
  /\ UNCHANGED <<ip, failed>>

Ended == ~Running("main") /\ ~Running("task") /\ UNCHANGED vars

Next ==
  \/ \E t \in Threads : Begin(t) \/ Enter(t) \/ Leave(t) \/ Library(t)
  \/ Ended

Fairness ==
  \A t \in Threads :
     WF_vars(Begin(t)) /\ WF_vars(Enter(t)) /\ WF_vars(Leave(t)) /\ WF_vars(Library(t))

Spec == Init /\ [][Next]_vars /\ Fairness
-----------------------------------------------------------------------------
\* The tests whose outcome the hand-over does order never fail: the task gets
\* the 1 main wrote (34), it emptied sync_sy (33), nobody has signalled before
\* it (36), main still reads the 1 (43) and has emptied sync_done (46).
OrderedTestsHold == failed \subseteq {38, 42}

\* main comes back only once the task has written sync_done, so no result of
\* the task's work can be missed (45 against 37).
MainWaitsForTask == ip["main"] > 9 => ip["task"] >= 4

\* Both come to their end: no interleaving leaves main or the task waiting.
BothEnd == <>(ip["main"] > 10 /\ ip["task"] > 5)
=============================================================================
