-------------------------- MODULE SplitPhaseBarrier --------------------------
(***************************************************************************)
(* The split-phase barrier of library/test/unit/single_variable.cpp: N     *)
(* tasks of one coforall meet at a Sync<int> that counts them down and     *)
(* serves as a lock, and a Single<bool> that lets them go.  The two        *)
(* variables are the modules SyncVar and SingleVar, lock, waits and        *)
(* notifications included; coforall (coforall_loop.hpp) runs one task per  *)
(* index and joins them with wait_all.                                     *)
(***************************************************************************)
EXTENDS Naturals, FiniteSets

CONSTANTS N,         \* constexpr int n
          NoTask

ASSUME BarrierAssumption == N \in Nat \ {0} /\ NoTask \notin 0 .. N

Workers == 1 .. N
Main == 0

VARIABLES
  at,       \* at[t]: the statement worker t is at, or main
  myc,      \* myc[t]: the local variable of worker t
  checked,  \* what main's last count.readXX() returned, 0 before
  cValue, cFull, cMtx, cRead, cWrite, cPc, cCall, cRet,   \* Sync<int> count(n)
  rValue, rFull, rMtx, rWrite, rAborted, rPc, rCall, rRet, rEarly \* Single<bool> release

count == <<cValue, cFull, cMtx, cRead, cWrite, cPc, cCall, cRet>>
release == <<rValue, rFull, rMtx, rWrite, rAborted, rPc, rCall, rRet, rEarly>>
vars == <<at, myc, checked, count, release>>

Count == INSTANCE SyncVar WITH
  Tasks <- Workers \cup {Main}, Vals <- Workers, Default <- 0,
  Ops <- {"readFE", "writeEF", "readXX"}, TrivialMove <- TRUE, Spurious <- FALSE,
  value <- cValue, full <- cFull, mtx <- cMtx, cv_read <- cRead,
  cv_write <- cWrite, pc <- cPc, call <- cCall, ret <- cRet

Release == INSTANCE SingleVar WITH
  Tasks <- Workers \cup {Main}, Vals <- {TRUE}, Default <- FALSE,
  Ops <- {"readFF", "writeEF"}, Asserts <- TRUE, Spurious <- TRUE,
  value <- rValue, full <- rFull, mtx <- rMtx, cv_write <- rWrite,
  aborted <- rAborted, pc <- rPc, call <- rCall, ret <- rRet, early <- rEarly

Init ==
  /\ Count!Init /\ cFull /\ cValue = N
  /\ Release!Init /\ ~rFull
  /\ at = [t \in Workers \cup {Main} |-> IF t = Main THEN "join" ELSE "start"]
  /\ myc = [t \in Workers |-> 0]
  /\ checked = 0
-----------------------------------------------------------------------------
Goto(t, from, to) == at[t] = from /\ at' = [at EXCEPT ![t] = to]

CallCount(t, o, a) == Count!Call(t, o, a) /\ UNCHANGED <<myc, checked, release>>
CallRelease(t, o, a) == Release!Call(t, o, a) /\ UNCHANGED <<myc, checked, count>>
ReleaseReturns(t) == Release!Return(t) /\ UNCHANGED <<myc, checked, count>>

\* int myc = count.readFE();
Take(t) == Goto(t, "start", "taking") /\ CallCount(t, "readFE", 0)

\* Mutant: the last arrival is taken to be the one that reads a 2.
MutTaken_Two(t) ==
  /\ at[t] = "taking"
  /\ Count!Return(t)
  /\ myc' = [myc EXCEPT ![t] = cRet[t]]
  /\ at' = [at EXCEPT ![t] = IF cRet[t] # 2 THEN "early" ELSE "last"]
  /\ UNCHANGED <<checked, release>>

Taken(t) ==
  /\ at[t] = "taking"
  /\ Count!Return(t)
  /\ myc' = [myc EXCEPT ![t] = cRet[t]]
  /\ at' = [at EXCEPT ![t] = IF cRet[t] # 1 THEN "early" ELSE "last"]
  /\ UNCHANGED <<checked, release>>

\* Mutant: the count is put back as it was.
MutPutBack_Same(t) == Goto(t, "early", "putting") /\ CallCount(t, "writeEF", myc[t])

\* count.writeEF(myc - 1);
PutBack(t) == Goto(t, "early", "putting") /\ CallCount(t, "writeEF", myc[t] - 1)

\* Mutant: everybody opens the barrier.
MutPut_Opens(t) ==
  /\ Goto(t, "putting", "last")
  /\ Count!Return(t)
  /\ UNCHANGED <<myc, checked, release>>

Put(t) ==
  /\ Goto(t, "putting", "put")
  /\ Count!Return(t)
  /\ UNCHANGED <<myc, checked, release>>

\* (void)release.readFF();
Await(t) == Goto(t, "put", "awaiting") /\ CallRelease(t, "readFF", FALSE)

Awaited(t) == Goto(t, "awaiting", "end") /\ ReleaseReturns(t)

\* release.writeEF(true);
Open(t) == Goto(t, "last", "opening") /\ CallRelease(t, "writeEF", TRUE)

Opened(t) == Goto(t, "opening", "end") /\ ReleaseReturns(t)

\* hpx::wait_all at the end of coforall, then main's count.readXX()
Join ==
  /\ \A t \in Workers : at[t] = "end"
  /\ Goto(Main, "join", "checking")
  /\ CallCount(Main, "readXX", 0)

Check ==
  /\ Goto(Main, "checking", "end")
  /\ Count!Return(Main)
  /\ checked' = cRet[Main]
  /\ UNCHANGED <<myc, release>>

Worker(t) ==
  \/ Take(t) \/ Taken(t)
  \/ PutBack(t) \/ Put(t)
  \/ Await(t) \/ Awaited(t)
  \/ Open(t) \/ Opened(t)

Library(t) ==
  /\ \/ Count!Run(t) /\ UNCHANGED release
     \/ Release!Run(t) /\ UNCHANGED count
  /\ UNCHANGED <<at, myc, checked>>

\* A worker's wait for release ends by itself.  Nothing makes it do so.
WaitEnds(t) == Release!SpuriousWake(t) /\ UNCHANGED <<at, myc, checked, count>>

\* The test has ended; a state in which it hangs is not this one.
Ended == at[Main] = "end" /\ UNCHANGED vars

Next ==
  \/ \E t \in Workers : Worker(t)
  \/ \E t \in Workers \cup {Main} : Library(t)
  \/ \E t \in Workers : WaitEnds(t)
  \/ Join \/ Check
  \/ Ended

\* Every HPX thread that can run is run; a blocked one gives up its core.
Fairness ==
  /\ \A t \in Workers : WF_vars(Worker(t))
  /\ \A t \in Workers \cup {Main} : WF_vars(Library(t))
  /\ WF_vars(Join) /\ WF_vars(Check)

Spec == Init /\ [][Next]_vars /\ Fairness
-----------------------------------------------------------------------------
\* The workers whose readFE has taken the count, and those whose writeEF has
\* put it back.
Arrived(t) ==
  \/ at[t] \notin {"start", "taking"}
  \/ at[t] = "taking" /\ cPc[t] \in {"notify", "done"}
Passed(t) ==
  \/ at[t] \in {"put", "awaiting"}
  \/ at[t] = "putting" /\ cPc[t] \in {"notify", "done"}
  \/ at[t] = "end" /\ myc[t] # 1

\* The barrier: no worker goes on before all of them have arrived (45-51), but
\* for one whose wait in release.readFF() ended by itself, against which Single
\* has no loop.
NoneLeavesEarly ==
  \A t \in Workers \ rEarly : at[t] = "end" => \A u \in Workers : Arrived(u)

\* The count tells how many have yet to arrive, and at most one worker holds
\* it: "counter which also serves as a lock" (14).
CountIsALock ==
  LET holders == {t \in Workers : Arrived(t) /\ ~Passed(t)}
  IN  /\ cFull => holders = {} /\ cValue = N - Cardinality({t \in Workers : Arrived(t)})
      /\ ~cFull => Cardinality(holders) = 1

\* One worker alone opens the barrier: HPX_ASSERT(!full) in Single::writeEF
\* holds (single_variable.hpp:67).
OpenedOnce == ~rAborted

\* HPX_TEST_EQ(count.readXX(), 1) (54)
CountEndsAtOne == at[Main] = "end" => checked = 1

\* Everybody gets through, and main gets past the coforall.
Terminates == <>(at[Main] = "end")
=============================================================================
