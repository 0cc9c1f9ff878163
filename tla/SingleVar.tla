------------------------------ MODULE SingleVar ------------------------------
(***************************************************************************)
(* chplx::Single<T> (library/include/chplx/single_variable.hpp): a cell    *)
(* that is written once and then stays full.  One spinlock, one condition  *)
(* variable; writeEF wakes everybody, and readFF tests "full" only once,   *)
(* with an if: a wait that ends by itself, which a condition variable may  *)
(* do, ends the readFF with it.                                            *)
(*                                                                         *)
(* A task in a method is at one of                                         *)
(*   "lock"     about to take mtx on entry                                 *)
(*   "held"     it holds mtx and is about to run the body                  *)
(*   "wait"     inside cv_write.wait, mtx released                         *)
(*   "woken"    cv_write.wait is about to take mtx again                   *)
(*   "resumed"  it holds mtx after the wait and will read the value        *)
(*   "notify"   it has unlocked mtx and is about to call notify_all        *)
(*   "done"     about to return to its caller                              *)
(* and "idle" outside.                                                     *)
(***************************************************************************)

CONSTANTS
  Tasks,        \* the tasks that share the variable
  NoTask,       \* the owner of a free mtx
  Vals,         \* the values the clients store
  Default,      \* T{}
  Ops,          \* the methods the clients call
  Asserts,      \* HPX_ASSERT is compiled in (a debug build) and aborts
  Spurious      \* cv_write.wait may return without a notification

Methods == {"isFull", "readFF", "readXX", "writeEF"}

ASSUME SingleAssumption ==
  /\ NoTask \notin Tasks
  /\ Ops \subseteq Methods
  /\ Asserts \in BOOLEAN
  /\ Spurious \in BOOLEAN

VARIABLES
  value, full,  \* the data members
  mtx,          \* the task that holds the spinlock, or NoTask
  cv_write,     \* the tasks in cv_write.wait
  aborted,      \* HPX_ASSERT has ended the program
  pc,           \* pc[t]: where t is in the method it called
  call,         \* call[t]: that method and its argument
  ret,          \* ret[t]: the value it returns
  early         \* history: the tasks whose last call had its wait end by itself

vars == <<value, full, mtx, cv_write, aborted, pc, call, ret, early>>

NoCall == [op |-> "none", arg |-> Default]
Args(o) == IF o = "writeEF" THEN Vals ELSE {Default}

\* Both constructors: empty with T{}, or full from a given value.
Init ==
  /\ \/ value = Default /\ full = FALSE
     \/ value \in Vals /\ full = TRUE
  /\ mtx = NoTask
  /\ cv_write = {}
  /\ aborted = FALSE
  /\ pc = [t \in Tasks |-> "idle"]
  /\ call = [t \in Tasks |-> NoCall]
  /\ ret = [t \in Tasks |-> Default]
  /\ early = {}
-----------------------------------------------------------------------------
Call(t, o, a) ==
  /\ ~aborted
  /\ pc[t] = "idle"
  /\ pc' = [pc EXCEPT ![t] = "lock"]
  /\ call' = [call EXCEPT ![t] = [op |-> o, arg |-> a]]
  /\ early' = early \ {t}
  /\ UNCHANGED <<value, full, mtx, cv_write, aborted, ret>>

\* std::unique_lock / std::scoped_lock, and the re-lock at the end of cv.wait
Lock(t) ==
  /\ ~aborted
  /\ pc[t] \in {"lock", "woken"}
  /\ mtx = NoTask
  /\ mtx' = t
  /\ pc' = [pc EXCEPT ![t] = IF pc[t] = "lock" THEN "held" ELSE "resumed"]
  /\ UNCHANGED <<value, full, cv_write, aborted, call, ret, early>>

\* Mutant: readFF does not wait.
MutWaitFull_Never(t) ==
  /\ ~aborted
  /\ pc[t] = "held" /\ call[t].op = "readFF"
  /\ ~full
  /\ pc' = [pc EXCEPT ![t] = "resumed"]
  /\ UNCHANGED <<value, full, mtx, cv_write, aborted, call, ret, early>>

\* if (!full) cv_write.wait(l)
WaitFull(t) ==
  /\ ~aborted
  /\ pc[t] = "held" /\ call[t].op = "readFF"
  /\ ~full
  /\ cv_write' = cv_write \cup {t}
  /\ mtx' = NoTask
  /\ pc' = [pc EXCEPT ![t] = "wait"]
  /\ UNCHANGED <<value, full, aborted, call, ret, early>>

\* cv_write.wait returns with nobody having called notify_all.
SpuriousWake(t) ==
  /\ Spurious
  /\ ~aborted
  /\ pc[t] = "wait"
  /\ cv_write' = cv_write \ {t}
  /\ early' = early \cup {t}
  /\ pc' = [pc EXCEPT ![t] = "woken"]
  /\ UNCHANGED <<value, full, mtx, aborted, call, ret>>

\* The end of the critical section of method o.
Leave(t, o, next, result) ==
  /\ ~aborted
  /\ call[t].op = o
  /\ mtx' = NoTask
  /\ pc' = [pc EXCEPT ![t] = next]
  /\ ret' = [ret EXCEPT ![t] = result]
  /\ UNCHANGED <<cv_write, aborted, call, early>>

IsFull(t) ==
  /\ pc[t] = "held"
  /\ Leave(t, "isFull", "done", full)
  /\ UNCHANGED <<value, full>>

\* Mutant: readFF reads the variable full or not.
MutReadFF_Early(t) ==
  /\ pc[t] \in {"held", "resumed"}
  /\ Leave(t, "readFF", "done", value)
  /\ UNCHANGED <<value, full>>

\* Either it found the variable full, or it has waited; after the wait it
\* returns the value without another test.
ReadFF(t) ==
  /\ \/ pc[t] = "held" /\ full
     \/ pc[t] = "resumed"
  /\ Leave(t, "readFF", "done", value)
  /\ UNCHANGED <<value, full>>

ReadXX(t) ==
  /\ pc[t] = "held"
  /\ Leave(t, "readXX", "done", value)
  /\ UNCHANGED <<value, full>>

\* Mutant: writeEF has lost its assertion.
MutWriteEF_NoAssert(t) ==
  /\ pc[t] = "held"
  /\ Leave(t, "writeEF", "notify", Default)
  /\ value' = call[t].arg
  /\ full' = TRUE

\* With the assertion compiled out a second write replaces the first.
WriteEF(t) ==
  /\ pc[t] = "held"
  /\ Asserts => ~full
  /\ Leave(t, "writeEF", "notify", Default)
  /\ value' = call[t].arg
  /\ full' = TRUE

\* HPX_ASSERT(!full) fails: the program ends here.
AssertFails(t) ==
  /\ ~aborted
  /\ pc[t] = "held" /\ call[t].op = "writeEF"
  /\ Asserts /\ full
  /\ aborted' = TRUE
  /\ UNCHANGED <<value, full, mtx, cv_write, pc, call, ret, early>>

\* Mutant: notify_one in the place of notify_all.
MutNotifyAll_One(t) ==
  /\ ~aborted
  /\ pc[t] = "notify"
  /\ \/ \E w \in cv_write : cv_write' = cv_write \ {w}
                          /\ pc' = [pc EXCEPT ![t] = "done", ![w] = "woken"]
     \/ cv_write = {} /\ pc' = [pc EXCEPT ![t] = "done"] /\ UNCHANGED cv_write
  /\ UNCHANGED <<value, full, mtx, aborted, call, ret, early>>

NotifyAll(t) ==
  /\ ~aborted
  /\ pc[t] = "notify"
  /\ pc' = [u \in Tasks |-> IF u = t THEN "done"
                           ELSE IF u \in cv_write THEN "woken" ELSE pc[u]]
  /\ cv_write' = {}
  /\ UNCHANGED <<value, full, mtx, aborted, call, ret, early>>

Return(t) ==
  /\ ~aborted
  /\ pc[t] = "done"
  /\ pc' = [pc EXCEPT ![t] = "idle"]
  /\ call' = [call EXCEPT ![t] = NoCall]
  /\ ret' = [ret EXCEPT ![t] = Default]
  /\ UNCHANGED <<value, full, mtx, cv_write, aborted, early>>
-----------------------------------------------------------------------------
Body(t) == IsFull(t) \/ ReadFF(t) \/ ReadXX(t) \/ WriteEF(t)

\* What the library does by itself once a method has been called.
Run(t) == Lock(t) \/ WaitFull(t) \/ Body(t) \/ AssertFails(t) \/ NotifyAll(t)

Next ==
  \E t \in Tasks :
     \/ \E o \in Ops : \E a \in Args(o) : Call(t, o, a)
     \/ Run(t)
     \/ SpuriousWake(t)
     \/ Return(t)

Spec == Init /\ [][Next]_vars
-----------------------------------------------------------------------------
Values == Vals \cup {Default}

TypeOK ==
  /\ value \in Values
  /\ full \in BOOLEAN
  /\ mtx \in Tasks \cup {NoTask}
  /\ cv_write \subseteq Tasks
  /\ aborted \in BOOLEAN
  /\ pc \in [Tasks -> {"idle", "lock", "held", "wait", "woken", "resumed",
                       "notify", "done"}]
  /\ call \in [Tasks -> [op : Ops \cup {"none"}, arg : Values]]
  /\ ret \in [Tasks -> Values \cup BOOLEAN]
  /\ early \subseteq Tasks

\* The task inside the critical section is the one that holds mtx.
MutualExclusion == \A t \in Tasks : pc[t] \in {"held", "resumed"} <=> mtx = t

\* cv_write holds exactly the readFF calls that wait.
WaitersAreQueued ==
  \A t \in Tasks :
     /\ pc[t] = "wait" <=> t \in cv_write
     /\ pc[t] \in {"wait", "woken", "resumed"} => call[t].op = "readFF"

\* A reader that sleeps on a full variable is about to be notified: writeEF has
\* set full and not yet called notify_all (71).
NoStrandedReader ==
  full /\ cv_write # {} =>
     \E t \in Tasks : pc[t] = "notify"

\* "Blocks until the single variable is full." (43): readFF hands out no value
\* before there is one.  One test of "full", at line 47, is too few for that.
ReadFFBlocksUntilFull ==
  \A t \in Tasks :
     call[t].op = "readFF" /\ pc[t] \in {"resumed", "done"} => full

\* What the one test of "full" is enough for (45-51): a readFF that did not
\* wait, or that a notify_all woke, hands out no value before there is one,
\* however late after the notification it comes to take mtx again.
NotifiedReadFFIsFull ==
  \A t \in Tasks \ early :
     call[t].op = "readFF" /\ pc[t] \in {"resumed", "done"} => full

\* Once full, the variable keeps its value for ever, so that all readers agree;
\* the assertion at line 67 stands between this and a second writeEF.
WrittenOnce == [][full => full' /\ value' = value]_vars
-----------------------------------------------------------------------------
Phase(t) ==
  CASE pc[t] = "idle" -> "idle"
    [] pc[t] \in {"lock", "held", "wait", "woken", "resumed"} -> "pending"
    [] OTHER -> "done"

Abstract == INSTANCE SyncSpec WITH phase <- [t \in Tasks |-> Phase(t)]

\* A readFF whose wait ended by itself gives what the variable holds, empty or
\* not, where its comment has it block (49-51).
EarlyReadFF(t) ==
  /\ Abstract!Effect(t, "readFF", value)
  /\ UNCHANGED <<value, full>>

\* Single implements the comments above its methods, which are those of Sync:
\* each takes effect atomically between its call and its return, readFF only
\* when there is a value, writeEF only when there is none (37-72).  The one
\* exception is a readFF whose wait ended by itself.
ImplementsSyncSpec ==
  /\ Abstract!Init
  /\ [][Abstract!Next \/ \E t \in early : EarlyReadFF(t)]_(Abstract!vars)
=============================================================================
