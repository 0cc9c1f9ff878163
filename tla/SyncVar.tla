------------------------------- MODULE SyncVar -------------------------------
(***************************************************************************)
(* chplx::Sync<T> (library/include/chplx/sync_variable.hpp): a full/empty  *)
(* cell guarded by one spinlock, with two condition variables.  cv_read is *)
(* where writers wait for the variable to become empty, cv_write where     *)
(* readers (and writeFF) wait for it to become full.                       *)
(*                                                                         *)
(* A task in a method is at one of                                         *)
(*   "lock"    about to take mtx: on entry, and again when cv.wait returns *)
(*   "held"    it holds mtx and is about to test the loop condition and,   *)
(*             if that allows, to run the body and unlock                  *)
(*   "wait"    inside cv.wait: on the condition variable, mtx released     *)
(*   "notify"  it has unlocked mtx and is about to call notify_one         *)
(*   "done"    about to return to its caller                               *)
(* and "idle" outside.  A body runs under mtx, so with its unlock it is    *)
(* one step; taking mtx, the wait and the notification are steps of their  *)
(* own, between which the other tasks run.                                 *)
(***************************************************************************)

CONSTANTS
  Tasks,        \* the tasks that share the variable
  NoTask,       \* the owner of a free mtx
  Vals,         \* the values the clients store
  Default,      \* T{}: the value of "T value{}"
  Ops,          \* the methods the clients call
  TrivialMove,  \* std::move leaves the source as it was (T = int, bool, ...)
  Spurious      \* cv.wait may return without a notification

Methods ==
  {"isFull", "reset", "readFE", "readFF", "readXX", "writeEF", "writeFF", "writeXF"}

ASSUME SyncAssumption ==
  /\ NoTask \notin Tasks
  /\ Ops \subseteq Methods
  /\ TrivialMove \in BOOLEAN
  /\ Spurious \in BOOLEAN

VARIABLES
  value, full,  \* the data members
  mtx,          \* the task that holds the spinlock, or NoTask
  cv_read,      \* the tasks in cv_read.wait
  cv_write,     \* the tasks in cv_write.wait
  pc,           \* pc[t]: where t is in the method it called
  call,         \* call[t]: that method and its argument
  ret           \* ret[t]: the value it returns

vars == <<value, full, mtx, cv_read, cv_write, pc, call, ret>>

NoCall == [op |-> "none", arg |-> Default]

\* The methods that take a value, and the arguments of a call.
Writes == {"writeEF", "writeFF", "writeXF"}
Args(o) == IF o \in Writes THEN Vals ELSE {Default}

\* Both constructors: empty with T{}, or full from a given value.
Init ==
  /\ \/ value = Default /\ full = FALSE
     \/ value \in Vals /\ full = TRUE
  /\ mtx = NoTask
  /\ cv_read = {}
  /\ cv_write = {}
  /\ pc = [t \in Tasks |-> "idle"]
  /\ call = [t \in Tasks |-> NoCall]
  /\ ret = [t \in Tasks |-> Default]
-----------------------------------------------------------------------------
(***************************************************************************)
(* Steps common to the methods.                                            *)
(***************************************************************************)

Call(t, o, a) ==
  /\ pc[t] = "idle"
  /\ pc' = [pc EXCEPT ![t] = "lock"]
  /\ call' = [call EXCEPT ![t] = [op |-> o, arg |-> a]]
  /\ UNCHANGED <<value, full, mtx, cv_read, cv_write, ret>>

\* std::unique_lock / std::scoped_lock, and the re-lock at the end of cv.wait
Lock(t) ==
  /\ pc[t] = "lock"
  /\ mtx = NoTask
  /\ mtx' = t
  /\ pc' = [pc EXCEPT ![t] = "held"]
  /\ UNCHANGED <<value, full, cv_read, cv_write, call, ret>>

NeedsFull == {"readFE", "readFF", "writeFF"}    \* while (!full) ...
NeedsEmpty == {"writeEF"}                       \* while (full) ...
\* Mutants: reset forgets to notify; readFE does; writeEF does.
MutNotifiesRead_NoReset == {"readFE"}
MutNotifiesRead_NoRead == {"reset"}
MutNotifiesWrite_None == {}

NotifiesRead == {"readFE", "reset"}             \* ... cv_read.notify_one()
NotifiesWrite == {"writeEF"}                    \* ... cv_write.notify_one()

\* while (!full) cv_write.wait(l): enqueued and unlocked in one step
WaitFull(t) ==
  /\ pc[t] = "held" /\ call[t].op \in NeedsFull
  /\ ~full
  /\ cv_write' = cv_write \cup {t}
  /\ mtx' = NoTask
  /\ pc' = [pc EXCEPT ![t] = "wait"]
  /\ UNCHANGED <<value, full, cv_read, call, ret>>

\* Mutant: writeEF waits on the condition variable of the readers.
MutWaitEmpty_OnCvWrite(t) ==
  /\ pc[t] = "held" /\ call[t].op \in NeedsEmpty
  /\ full
  /\ cv_write' = cv_write \cup {t}
  /\ mtx' = NoTask
  /\ pc' = [pc EXCEPT ![t] = "wait"]
  /\ UNCHANGED <<value, full, cv_read, call, ret>>

\* while (full) cv_read.wait(l)
WaitEmpty(t) ==
  /\ pc[t] = "held" /\ call[t].op \in NeedsEmpty
  /\ full
  /\ cv_read' = cv_read \cup {t}
  /\ mtx' = NoTask
  /\ pc' = [pc EXCEPT ![t] = "wait"]
  /\ UNCHANGED <<value, full, cv_write, call, ret>>

\* The end of the critical section of method o: unlock, then notify or return.
Leave(t, o, result) ==
  /\ pc[t] = "held"
  /\ call[t].op = o
  /\ mtx' = NoTask
  /\ pc' = [pc EXCEPT ![t] =
              IF o \in NotifiesRead \cup NotifiesWrite THEN "notify" ELSE "done"]
  /\ ret' = [ret EXCEPT ![t] = result]
  /\ UNCHANGED <<cv_read, cv_write, call>>
-----------------------------------------------------------------------------
(***************************************************************************)
(* The critical sections of the methods.                                   *)
(***************************************************************************)

IsFull(t) == Leave(t, "isFull", full) /\ UNCHANGED <<value, full>>

Reset(t) == Leave(t, "reset", Default) /\ full' = FALSE /\ UNCHANGED value

\* What "std::move(value)" may leave behind.
AfterMove == IF TrivialMove THEN {value} ELSE {value, Default}

\* Mutants: readFE leaves the variable full; it does not wait.
MutReadFE_LeavesFull(t) == full /\ Leave(t, "readFE", value) /\ UNCHANGED <<value, full>>
MutReadFE_NoWait(t) == Leave(t, "readFE", value) /\ value' \in AfterMove /\ full' = FALSE

ReadFE(t) ==
  /\ full
  /\ Leave(t, "readFE", value)
  /\ value' \in AfterMove
  /\ full' = FALSE

ReadFF(t) == full /\ Leave(t, "readFF", value) /\ UNCHANGED <<value, full>>

ReadXX(t) == Leave(t, "readXX", value) /\ UNCHANGED <<value, full>>

\* Mutant: writeEF tests "full" with an if.
MutWriteEF_If(t) ==
  /\ Leave(t, "writeEF", Default)
  /\ value' = call[t].arg
  /\ full' = TRUE

WriteEF(t) ==
  /\ ~full
  /\ Leave(t, "writeEF", Default)
  /\ value' = call[t].arg
  /\ full' = TRUE

\* Mutant: writeFF without its wait.
MutWriteFF_NoWait(t) ==
  /\ Leave(t, "writeFF", Default)
  /\ value' = call[t].arg
  /\ UNCHANGED full

WriteFF(t) ==
  /\ full
  /\ Leave(t, "writeFF", Default)
  /\ value' = call[t].arg
  /\ UNCHANGED full

WriteXF(t) ==
  /\ Leave(t, "writeXF", Default)
  /\ value' = call[t].arg
  /\ UNCHANGED full
-----------------------------------------------------------------------------
(***************************************************************************)
(* The condition variables.  Which waiter notify_one wakes is not fixed;   *)
(* with nobody waiting it does nothing.                                    *)
(***************************************************************************)

Woken(t, w) == pc' = [pc EXCEPT ![t] = "done", ![w] = "lock"]

NotifyRead(t) ==
  /\ pc[t] = "notify" /\ call[t].op \in NotifiesRead
  /\ \/ \E w \in cv_read : cv_read' = cv_read \ {w} /\ Woken(t, w)
     \/ cv_read = {} /\ pc' = [pc EXCEPT ![t] = "done"] /\ UNCHANGED cv_read
  /\ UNCHANGED <<value, full, mtx, cv_write, call, ret>>

NotifyWrite(t) ==
  /\ pc[t] = "notify" /\ call[t].op \in NotifiesWrite
  /\ \/ \E w \in cv_write : cv_write' = cv_write \ {w} /\ Woken(t, w)
     \/ cv_write = {} /\ pc' = [pc EXCEPT ![t] = "done"] /\ UNCHANGED cv_write
  /\ UNCHANGED <<value, full, mtx, cv_read, call, ret>>

\* cv.wait returns with nobody having called notify_one.
SpuriousWake(t) ==
  /\ Spurious
  /\ pc[t] = "wait"
  /\ cv_read' = cv_read \ {t}
  /\ cv_write' = cv_write \ {t}
  /\ pc' = [pc EXCEPT ![t] = "lock"]
  /\ UNCHANGED <<value, full, mtx, call, ret>>

Return(t) ==
  /\ pc[t] = "done"
  /\ pc' = [pc EXCEPT ![t] = "idle"]
  /\ call' = [call EXCEPT ![t] = NoCall]
  /\ ret' = [ret EXCEPT ![t] = Default]
  /\ UNCHANGED <<value, full, mtx, cv_read, cv_write>>
-----------------------------------------------------------------------------
Body(t) ==
  \/ IsFull(t) \/ Reset(t)
  \/ ReadFE(t) \/ ReadFF(t) \/ ReadXX(t)
  \/ WriteEF(t) \/ WriteFF(t) \/ WriteXF(t)

\* What the library does by itself once a method has been called.
Run(t) ==
  \/ Lock(t)
  \/ WaitFull(t) \/ WaitEmpty(t)
  \/ Body(t)
  \/ NotifyRead(t) \/ NotifyWrite(t)

Next ==
  \E t \in Tasks :
     \/ \E o \in Ops : \E a \in Args(o) : Call(t, o, a)
     \/ Run(t)
     \/ SpuriousWake(t)
     \/ Return(t)

Spec == Init /\ [][Next]_vars
-----------------------------------------------------------------------------
Values == Vals \cup {Default}

TypeOK ==
  /\ value \in Values
  /\ full \in BOOLEAN
  /\ mtx \in Tasks \cup {NoTask}
  /\ cv_read \subseteq Tasks
  /\ cv_write \subseteq Tasks
  /\ pc \in [Tasks -> {"idle", "lock", "held", "wait", "notify", "done"}]
  /\ call \in [Tasks -> [op : Ops \cup {"none"}, arg : Values]]
  /\ ret \in [Tasks -> Values \cup BOOLEAN]

\* mtx is held by the one task between its lock and its unlock or wait.
MutualExclusion == \A t \in Tasks : pc[t] = "held" <=> mtx = t

\* A task is inside cv.wait exactly when one condition variable knows it: the
\* one of the state its method waits for.
WaitersAreQueued ==
  /\ \A t \in cv_read : pc[t] = "wait" /\ call[t].op \in NeedsEmpty
  /\ \A t \in cv_write : pc[t] = "wait" /\ call[t].op \in NeedsFull
  /\ \A t \in Tasks : pc[t] = "wait" => t \in cv_read \cup cv_write

\* The lock, the two queues and the tasks' positions agree: one task at most is
\* between the lock and the unlock of mtx, and a task that waits is on the one
\* condition variable that is notified when what it waits for comes true
\* (writeEF on cv_read, 96-100; readFE, readFF and writeFF on cv_write, 58-62).
Consistent == TypeOK /\ MutualExclusion /\ WaitersAreQueued

Awake(t) == pc[t] \in {"lock", "held"}

\* A writer that sleeps on an empty variable has somebody on the way: a reader
\* or reset that has yet to call cv_read.notify_one, or an awake writer that
\* will look at the variable again (writeEF, 94-105, against 67-68 and 51).
NoStrandedWriter ==
  ~full /\ cv_read # {} =>
     \E t \in Tasks :
        \/ pc[t] = "notify" /\ call[t].op \in NotifiesRead
        \/ Awake(t) /\ call[t].op \in NeedsEmpty

\* The dual, for a task that sleeps while the variable is full.  notify_one
\* wakes one sleeper, so it holds for ever only where every sleeper empties the
\* variable in its turn, which readFF and writeFF do not.
NoStrandedReader ==
  full /\ cv_write # {} =>
     \E t \in Tasks :
        \/ pc[t] = "notify" /\ call[t].op \in NotifiesWrite
        \/ Awake(t) /\ call[t].op \in NeedsFull

\* Whatever methods are mixed, nothing but a readFF or a writeFF that ends
\* leaves a sleeper behind on a full variable: they use up the wakeup of a
\* writeEF and pass it on to nobody (77-81, 110-116, against 104).
OnlyFFStrands ==
  [][NoStrandedReader =>
       NoStrandedReader' \/ \E t \in Tasks : ReadFF(t) \/ WriteFF(t)]_vars
-----------------------------------------------------------------------------
\* The spinlock and the condition variables hide behind the call: every step
\* of the code is one step of the promised behaviour or none of it.
Phase(t) ==
  CASE pc[t] = "idle" -> "idle"
    [] pc[t] \in {"lock", "held", "wait"} -> "pending"
    [] OTHER -> "done"

Abstract == INSTANCE SyncSpec WITH phase <- [t \in Tasks |-> Phase(t)]

\* writeXF stores its value and leaves the variable empty if it was, where its
\* comment has it "leave the variable full" (118-122).
EmptyWriteXF(t) ==
  /\ ~full
  /\ Abstract!Effect(t, "writeXF", Default)
  /\ value' = call[t].arg
  /\ UNCHANGED full

\* Sync implements the comments above its methods: every method takes effect
\* atomically between its call and its return, only in the state it blocks for
\* (36-116).  The one exception is a writeXF on an empty variable.
ImplementsSyncSpec ==
  /\ Abstract!Init
  /\ [][Abstract!Next \/ \E t \in Tasks : EmptyWriteXF(t)]_(Abstract!vars)
=============================================================================
