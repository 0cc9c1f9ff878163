----------------------------- MODULE SyncProofs -----------------------------
(***************************************************************************)
(* First what holds of chplx::Sync for any number of tasks, any values,    *)
(* with or without spurious wakeups, and whatever moving a value leaves    *)
(* behind.  Consistent is inductive.  The lost-wakeup theorems add one     *)
(* conjunct each: a task that sleeps in the state it waits for is owed a   *)
(* step by another.                                                        *)
(*                                                                         *)
(* Then what holds of its clients, for any tasks and programs that hand    *)
(* values over: each value that was written is received by one reader,     *)
(* once.  Consistent says where a task may be in a method; Placed says     *)
(* which call of its program that is, Exactly where every value is.        *)
(***************************************************************************)
EXTENDS SyncClients, FiniteSetTheorems, TLAPS

(* Consistent at the start: nobody has called anything. *)
LEMMA ConsistentInit == Init => Consistent
<1> SUFFICES ASSUME Init PROVE Consistent
  OBVIOUS
<1>1. TypeOK
  BY DEF Init, TypeOK, NoCall, Values
<1>2. MutualExclusion /\ WaitersAreQueued
  BY SyncAssumption DEF Init, MutualExclusion, WaitersAreQueued
<1> QED
  BY <1>1, <1>2 DEF Consistent

(* What the bodies of the eight methods have in common: they end with the *)
(* unlock, a result of its type, and a value and a flag of theirs.        *)
LEMMA BodyLeaves ==
  ASSUME TypeOK, NEW t \in Tasks, Body(t)
  PROVE  \E o, result :
            /\ Leave(t, o, result)
            /\ result \in Values \cup BOOLEAN
            /\ value' \in Values /\ full' \in BOOLEAN
<1> DEFINE Left(o, result) ==
             /\ Leave(t, o, result)
             /\ result \in Values \cup BOOLEAN
             /\ value' \in Values /\ full' \in BOOLEAN
<1> USE DEF TypeOK, Values
<1>0. Default \in Values /\ call[t].arg \in Values
  OBVIOUS
<1>1. CASE IsFull(t)
  <2> Left("isFull", full)
    BY <1>1 DEF IsFull
  <2> QED OBVIOUS
<1>2. CASE Reset(t)
  <2> Left("reset", Default)
    BY <1>2 DEF Reset
  <2> QED OBVIOUS
<1>3. CASE ReadFE(t)
  <2> Left("readFE", value)
    BY <1>3 DEF ReadFE, AfterMove
  <2> QED OBVIOUS
<1>4. CASE ReadFF(t)
  <2> Left("readFF", value)
    BY <1>4 DEF ReadFF
  <2> QED OBVIOUS
<1>5. CASE ReadXX(t)
  <2> Left("readXX", value)
    BY <1>5 DEF ReadXX
  <2> QED OBVIOUS
<1>6. CASE WriteEF(t)
  <2> Left("writeEF", Default)
    BY <1>0, <1>6 DEF WriteEF
  <2> QED OBVIOUS
<1>7. CASE WriteFF(t)
  <2> Left("writeFF", Default)
    BY <1>0, <1>7 DEF WriteFF
  <2> QED OBVIOUS
<1>8. CASE WriteXF(t)
  <2> Left("writeXF", Default)
    BY <1>0, <1>8 DEF WriteXF
  <2> QED OBVIOUS
<1> QED
  BY <1>1, <1>2, <1>3, <1>4, <1>5, <1>6, <1>7, <1>8 DEF Body

(* Consistent is kept by every step. *)
LEMMA ConsistentStep == Consistent /\ [Next]_vars => Consistent'
<1> USE SyncAssumption DEF Consistent, TypeOK, MutualExclusion, WaitersAreQueued, Values
<1> SUFFICES ASSUME Consistent, [Next]_vars PROVE Consistent'
  OBVIOUS
<1>1. ASSUME NEW t \in Tasks, NEW o \in Ops, NEW a \in Args(o), Call(t, o, a)
      PROVE Consistent'
  BY <1>1 DEF Call, Args
<1>2. ASSUME NEW t \in Tasks, Lock(t) PROVE Consistent'
  BY <1>2 DEF Lock
<1>3. ASSUME NEW t \in Tasks, WaitFull(t) PROVE Consistent'
  BY <1>3 DEF WaitFull, NeedsFull, NeedsEmpty
<1>4. ASSUME NEW t \in Tasks, WaitEmpty(t) PROVE Consistent'
  BY <1>4 DEF WaitEmpty, NeedsFull, NeedsEmpty
<1>5. ASSUME NEW t \in Tasks, Body(t) PROVE Consistent'
  <2>1. PICK o, result :
          /\ Leave(t, o, result)
          /\ result \in Values \cup BOOLEAN
          /\ value' \in Values /\ full' \in BOOLEAN
    BY <1>5, BodyLeaves
  <2>2. /\ t \in Tasks /\ pc[t] = "held"
        /\ mtx' = NoTask
        /\ \E p \in {"notify", "done"} : pc' = [pc EXCEPT ![t] = p]
        /\ ret' = [ret EXCEPT ![t] = result]
        /\ UNCHANGED <<cv_read, cv_write, call>>
    BY <2>1 DEF Leave
  <2>3. TypeOK'
    BY <2>1, <2>2
  <2>4. MutualExclusion' /\ WaitersAreQueued'
    BY <2>2
  <2> QED
    BY <2>3, <2>4
<1>6. ASSUME NEW t \in Tasks, NotifyRead(t) PROVE Consistent'
  <2>1. CASE cv_read = {}
    <3>1. pc' = [pc EXCEPT ![t] = "done"] /\ pc[t] = "notify"
      BY <1>6, <2>1 DEF NotifyRead
    <3> QED
      BY <1>6, <2>1, <3>1 DEF NotifyRead
  <2>2. ASSUME NEW w \in cv_read, cv_read' = cv_read \ {w}, Woken(t, w) PROVE Consistent'
    <3>1. w # t /\ pc[w] = "wait" /\ pc[t] = "notify" /\ w \notin cv_write
      BY <1>6, <2>2 DEF NotifyRead, NeedsEmpty, NeedsFull
    <3>2. TypeOK'
      BY <1>6, <2>2 DEF NotifyRead, Woken
    <3>3. MutualExclusion'
      BY <1>6, <2>2, <3>1 DEF NotifyRead, Woken
    <3>4. WaitersAreQueued'
      BY <1>6, <2>2, <3>1 DEF NotifyRead, Woken
    <3> QED
      BY <3>2, <3>3, <3>4
  <2> QED
    BY <1>6, <2>1, <2>2 DEF NotifyRead
<1>7. ASSUME NEW t \in Tasks, NotifyWrite(t) PROVE Consistent'
  <2>1. CASE cv_write = {}
    <3>1. pc' = [pc EXCEPT ![t] = "done"] /\ pc[t] = "notify"
      BY <1>7, <2>1 DEF NotifyWrite
    <3> QED
      BY <1>7, <2>1, <3>1 DEF NotifyWrite
  <2>2. ASSUME NEW w \in cv_write, cv_write' = cv_write \ {w}, Woken(t, w) PROVE Consistent'
    <3>1. w # t /\ pc[w] = "wait" /\ pc[t] = "notify" /\ w \notin cv_read
      BY <1>7, <2>2 DEF NotifyWrite, NeedsEmpty, NeedsFull
    <3>2. TypeOK'
      BY <1>7, <2>2 DEF NotifyWrite, Woken
    <3>3. MutualExclusion'
      BY <1>7, <2>2, <3>1 DEF NotifyWrite, Woken
    <3>4. WaitersAreQueued'
      BY <1>7, <2>2, <3>1 DEF NotifyWrite, Woken
    <3> QED
      BY <3>2, <3>3, <3>4
  <2> QED
    BY <1>7, <2>1, <2>2 DEF NotifyWrite
<1>8. ASSUME NEW t \in Tasks, SpuriousWake(t) PROVE Consistent'
  BY <1>8 DEF SpuriousWake
<1>9. ASSUME NEW t \in Tasks, Return(t) PROVE Consistent'
  BY <1>9 DEF Return, NoCall
<1>10. CASE UNCHANGED vars
  BY <1>10 DEF vars
<1> QED
  BY <1>1, <1>2, <1>3, <1>4, <1>5, <1>6, <1>7, <1>8, <1>9, <1>10 DEF Next, Run

(* Throughout, every variable has its type, one task at most is between    *)
(* the lock and the unlock of mtx, and the two queues tell who waits for   *)
(* what: no sleeper is forgotten, none is on the wrong one (59-62, 97-100).*)
THEOREM AlwaysConsistent == Spec => []Consistent
<1> QED
  BY ConsistentInit, ConsistentStep, PTL DEF Spec
-----------------------------------------------------------------------------
\* What the end of a critical section changes of the queues and positions.
LEMMA LeaveMoves ==
  ASSUME Consistent, NEW t \in Tasks, NEW o, NEW result, Leave(t, o, result)
  PROVE  /\ pc[t] = "held" /\ call[t].op = o
         /\ \A u \in Tasks : u # t => pc'[u] = pc[u]
         /\ o \in NotifiesRead \cup NotifiesWrite => pc'[t] = "notify"
         /\ UNCHANGED <<cv_read, cv_write, call>>
  BY DEF Leave, Consistent, TypeOK

\* A method that does not wait for "empty" leaves a variable it found empty
\* empty, or fills one: whoever was on the way to a writer still is.
LEMMA WriterKept ==
  ASSUME Consistent, NoStrandedWriter, NEW t \in Tasks, NEW o, NEW result,
         Leave(t, o, result), o \notin NeedsEmpty, ~full' => ~full
  PROVE  NoStrandedWriter'
<1> SUFFICES ASSUME ~full', cv_read' # {}
             PROVE  \E u \in Tasks :
                      \/ pc'[u] = "notify" /\ call'[u].op \in NotifiesRead
                      \/ pc'[u] \in {"lock", "held"} /\ call'[u].op \in NeedsEmpty
  BY DEF NoStrandedWriter, Awake
<1>1. ~full /\ cv_read # {}
  BY LeaveMoves
<1>2. PICK u \in Tasks :
         \/ pc[u] = "notify" /\ call[u].op \in NotifiesRead
         \/ pc[u] \in {"lock", "held"} /\ call[u].op \in NeedsEmpty
  BY <1>1 DEF NoStrandedWriter, Awake
<1>3. u # t
  BY <1>2, LeaveMoves
<1> QED
  BY <1>2, <1>3, LeaveMoves

(* A method that empties the variable has a notification to give; one that *)
(* does not is not the one a waiting writer relies on.                     *)
LEMMA WriterBody ==
  ASSUME Consistent, NoStrandedWriter, NEW t \in Tasks, Body(t)
  PROVE  NoStrandedWriter'
<1> USE DEF NeedsEmpty
<1>1. ASSUME NEW o \in NotifiesRead, NEW result, Leave(t, o, result)
      PROVE  NoStrandedWriter'
  BY <1>1, LeaveMoves DEF NoStrandedWriter
<1>2. CASE IsFull(t)
  BY <1>2, WriterKept DEF IsFull
<1>3. CASE ReadXX(t)
  BY <1>3, WriterKept DEF ReadXX
<1>4. CASE ReadFF(t)
  BY <1>4, WriterKept DEF ReadFF
<1>5. CASE WriteFF(t)
  BY <1>5, WriterKept DEF WriteFF
<1>6. CASE WriteXF(t)
  BY <1>6, WriterKept DEF WriteXF
<1>7. CASE Reset(t)
  BY <1>1, <1>7 DEF Reset, NotifiesRead
<1>8. CASE ReadFE(t)
  BY <1>1, <1>8 DEF ReadFE, NotifiesRead
<1>9. CASE WriteEF(t)
  BY <1>9 DEF WriteEF, NoStrandedWriter
<1> QED
  BY <1>2, <1>3, <1>4, <1>5, <1>6, <1>7, <1>8, <1>9 DEF Body

(* No step strands a writer. *)
LEMMA WriterStep ==
  ASSUME Consistent, NoStrandedWriter, [Next]_vars
  PROVE  NoStrandedWriter'
<1> USE SyncAssumption DEF Consistent, TypeOK, MutualExclusion, WaitersAreQueued,
        NoStrandedWriter, Awake, NeedsEmpty, NeedsFull, NotifiesRead, NotifiesWrite
<1>1. ASSUME NEW t \in Tasks, NEW o \in Ops, NEW a \in Args(o), Call(t, o, a)
      PROVE NoStrandedWriter'
  BY <1>1 DEF Call
<1>2. ASSUME NEW t \in Tasks, Lock(t) PROVE NoStrandedWriter'
  BY <1>2 DEF Lock
<1>3. ASSUME NEW t \in Tasks, WaitFull(t) PROVE NoStrandedWriter'
  BY <1>3 DEF WaitFull
<1>4. ASSUME NEW t \in Tasks, WaitEmpty(t) PROVE NoStrandedWriter'
  BY <1>4 DEF WaitEmpty
<1>5. ASSUME NEW t \in Tasks, Body(t) PROVE NoStrandedWriter'
  BY <1>5, WriterBody
<1>6. ASSUME NEW t \in Tasks, NotifyRead(t) PROVE NoStrandedWriter'
  BY <1>6 DEF NotifyRead, Woken
<1>7. ASSUME NEW t \in Tasks, NotifyWrite(t) PROVE NoStrandedWriter'
  BY <1>7 DEF NotifyWrite, Woken
<1>8. ASSUME NEW t \in Tasks, SpuriousWake(t) PROVE NoStrandedWriter'
  BY <1>8 DEF SpuriousWake
<1>9. ASSUME NEW t \in Tasks, Return(t) PROVE NoStrandedWriter'
  BY <1>9 DEF Return
<1>10. CASE UNCHANGED vars
  BY <1>10 DEF vars
<1> QED
  BY <1>1, <1>2, <1>3, <1>4, <1>5, <1>6, <1>7, <1>8, <1>9, <1>10 DEF Next, Run

\* Whatever methods the clients mix, a writeEF never sleeps on an empty variable
\* without a notification or another writer on its way.
THEOREM WritersNeverStranded == Spec => []NoStrandedWriter
<1>1. Init => Consistent /\ NoStrandedWriter
  BY ConsistentInit DEF Init, NoStrandedWriter
<1>2. Consistent /\ NoStrandedWriter /\ [Next]_vars => (Consistent /\ NoStrandedWriter)'
  BY ConsistentStep, WriterStep
<1> QED
  BY <1>1, <1>2, PTL DEF Spec
-----------------------------------------------------------------------------
\* The dual of WriterKept.
LEMMA ReaderKept ==
  ASSUME Consistent, NoStrandedReader, NEW t \in Tasks, NEW o, NEW result,
         Leave(t, o, result), o \notin NeedsFull \cup NotifiesWrite, full' => full
  PROVE  NoStrandedReader'
<1> SUFFICES ASSUME full', cv_write' # {}
             PROVE  \E u \in Tasks :
                      \/ pc'[u] = "notify" /\ call'[u].op \in NotifiesWrite
                      \/ pc'[u] \in {"lock", "held"} /\ call'[u].op \in NeedsFull
  BY DEF NoStrandedReader, Awake
<1>1. full /\ cv_write # {}
  BY LeaveMoves
<1>2. PICK u \in Tasks :
         \/ pc[u] = "notify" /\ call[u].op \in NotifiesWrite
         \/ pc[u] \in {"lock", "held"} /\ call[u].op \in NeedsFull
  BY <1>1 DEF NoStrandedReader, Awake
<1>3. u # t
  BY <1>2, LeaveMoves
<1> QED
  BY <1>2, <1>3, LeaveMoves

(* The dual for readers: each task that is let in on a full variable       *)
(* empties it, but for the two methods that leave it full.                 *)
LEMMA ReaderBody ==
  ASSUME Consistent, NoStrandedReader, NEW t \in Tasks, Body(t)
  PROVE  NoStrandedReader' \/ ReadFF(t) \/ WriteFF(t)
<1> USE DEF NeedsFull, NotifiesWrite
<1>1. CASE IsFull(t)
  BY <1>1, ReaderKept DEF IsFull
<1>2. CASE ReadXX(t)
  BY <1>2, ReaderKept DEF ReadXX
<1>3. CASE WriteXF(t)
  BY <1>3, ReaderKept DEF WriteXF
<1>4. CASE Reset(t)
  BY <1>4 DEF Reset, NoStrandedReader
<1>5. CASE ReadFE(t)
  BY <1>5 DEF ReadFE, NoStrandedReader
<1>6. CASE WriteEF(t)
  BY <1>6, LeaveMoves DEF WriteEF, NoStrandedReader
<1> QED
  BY <1>1, <1>2, <1>3, <1>4, <1>5, <1>6 DEF Body

(* No step strands a reader but the end of a readFF or a writeFF. *)
LEMMA ReaderStep ==
  ASSUME Consistent, NoStrandedReader, [Next]_vars
  PROVE  NoStrandedReader' \/ \E t \in Tasks : ReadFF(t) \/ WriteFF(t)
<1> USE SyncAssumption DEF Consistent, TypeOK, MutualExclusion, WaitersAreQueued,
        NoStrandedReader, Awake, NeedsEmpty, NeedsFull, NotifiesRead, NotifiesWrite
<1>1. ASSUME NEW t \in Tasks, NEW o \in Ops, NEW a \in Args(o), Call(t, o, a)
      PROVE NoStrandedReader'
  BY <1>1 DEF Call
<1>2. ASSUME NEW t \in Tasks, Lock(t) PROVE NoStrandedReader'
  BY <1>2 DEF Lock
<1>3. ASSUME NEW t \in Tasks, WaitFull(t) PROVE NoStrandedReader'
  BY <1>3 DEF WaitFull
<1>4. ASSUME NEW t \in Tasks, WaitEmpty(t) PROVE NoStrandedReader'
  BY <1>4 DEF WaitEmpty
<1>5. ASSUME NEW t \in Tasks, Body(t)
      PROVE NoStrandedReader' \/ ReadFF(t) \/ WriteFF(t)
  BY <1>5, ReaderBody
<1>6. ASSUME NEW t \in Tasks, NotifyRead(t) PROVE NoStrandedReader'
  BY <1>6 DEF NotifyRead, Woken
<1>7. ASSUME NEW t \in Tasks, NotifyWrite(t) PROVE NoStrandedReader'
  BY <1>7 DEF NotifyWrite, Woken
<1>8. ASSUME NEW t \in Tasks, SpuriousWake(t) PROVE NoStrandedReader'
  BY <1>8 DEF SpuriousWake
<1>9. ASSUME NEW t \in Tasks, Return(t) PROVE NoStrandedReader'
  BY <1>9 DEF Return
<1>10. CASE UNCHANGED vars
  BY <1>10 DEF vars
<1> QED
  BY <1>1, <1>2, <1>3, <1>4, <1>5, <1>6, <1>7, <1>8, <1>9, <1>10 DEF Next, Run

(* Whatever methods are mixed, a wakeup that a reader is owed is used up   *)
(* by nothing but a readFF or a writeFF.                                   *)
THEOREM OnlyFFStrandReaders == Spec => OnlyFFStrands
<1>1. Consistent /\ [Next]_vars =>
        [NoStrandedReader =>
           NoStrandedReader' \/ \E t \in Tasks : ReadFF(t) \/ WriteFF(t)]_vars
  BY ReaderStep
<1> QED
  BY <1>1, ConsistentInit, ConsistentStep, PTL DEF Spec, OnlyFFStrands

(* Where every method that waits for "full" empties the variable, no       *)
(* reader sleeps on a full variable without a notification or another      *)
(* reader on its way: the one notify_one of writeEF (104) is enough.       *)
THEOREM ReadersNeverStranded ==
  ASSUME Ops \cap {"readFF", "writeFF"} = {}
  PROVE  Spec => []NoStrandedReader
<1>1. Init => Consistent /\ NoStrandedReader
  BY ConsistentInit DEF Init, NoStrandedReader
<1>2. ASSUME Consistent, NEW t \in Tasks PROVE ~ReadFF(t) /\ ~WriteFF(t)
  <2>1. ASSUME NEW o, NEW result, Leave(t, o, result)
        PROVE  o \notin {"readFF", "writeFF"}
    BY <1>2, <2>1, LeaveMoves DEF Consistent, TypeOK
  <2> QED
    BY <2>1 DEF ReadFF, WriteFF
<1>3. Consistent /\ NoStrandedReader /\ [Next]_vars => (Consistent /\ NoStrandedReader)'
  BY <1>2, ConsistentStep, ReaderStep
<1> QED
  BY <1>1, <1>3, PTL DEF Spec
-----------------------------------------------------------------------------
Phases == [t \in Tasks |-> Phase(t)]

\* A step that moves t alone moves its phase alone.
LEMMA PhaseMove ==
  ASSUME TypeOK, NEW t \in Tasks, NEW p, pc' = [pc EXCEPT ![t] = p]
  PROVE  /\ p \in {"lock", "held", "wait"} =>
              Phases' = [Phases EXCEPT ![t] = "pending"]
         /\ p \in {"notify", "done"} => Phases' = [Phases EXCEPT ![t] = "done"]
         /\ p = "idle" => Phases' = [Phases EXCEPT ![t] = "idle"]
  BY DEF TypeOK, Phases, Phase

(* The body of a method has the effect SyncSpec gives the method, or is    *)
(* that of a writeXF on an empty variable.                                 *)
LEMMA AbstractBody ==
  ASSUME Consistent, NEW t \in Tasks, Body(t)
  PROVE  Abstract!Do(t) \/ EmptyWriteXF(t)
<1>1. ASSUME NEW o, NEW result, Leave(t, o, result)
      PROVE  Abstract!Effect(t, o, result)
  <2>1. pc[t] = "held" /\ Phases[t] = "pending"
    BY <1>1 DEF Leave, Phases, Phase, Consistent, TypeOK
  <2>2. PICK p \in {"notify", "done"} : pc' = [pc EXCEPT ![t] = p]
    BY <1>1 DEF Leave
  <2>3. Phases' = [Phases EXCEPT ![t] = "done"]
    BY <2>2, PhaseMove DEF Consistent
  <2> QED
    BY <1>1, <2>1, <2>3 DEF Leave, Abstract!Effect, Phases
<1>2. CASE IsFull(t)
  BY <1>1, <1>2 DEF IsFull, Abstract!IsFull, Abstract!Do
<1>3. CASE Reset(t)
  BY <1>1, <1>3 DEF Reset, Abstract!Reset, Abstract!Do
<1>4. CASE ReadFE(t)
  BY <1>1, <1>4 DEF ReadFE, AfterMove, Abstract!ReadFE, Abstract!Do
<1>5. CASE ReadFF(t)
  BY <1>1, <1>5 DEF ReadFF, Abstract!ReadFF, Abstract!Do
<1>6. CASE ReadXX(t)
  BY <1>1, <1>6 DEF ReadXX, Abstract!ReadXX, Abstract!Do
<1>7. CASE WriteEF(t)
  BY <1>1, <1>7 DEF WriteEF, Abstract!WriteEF, Abstract!Do
<1>8. CASE WriteFF(t)
  BY <1>1, <1>8 DEF WriteFF, Abstract!WriteFF, Abstract!Do
<1>9. CASE WriteXF(t)
  <2>1. Abstract!Effect(t, "writeXF", Default) /\ value' = call[t].arg /\ UNCHANGED full
    BY <1>1, <1>9 DEF WriteXF
  <2>2. CASE full
    BY <2>1, <2>2 DEF Abstract!WriteXF, Abstract!Do, Consistent, TypeOK
  <2>3. CASE ~full
    BY <2>1, <2>3 DEF EmptyWriteXF
  <2> QED BY <2>2, <2>3
<1> QED
  BY <1>2, <1>3, <1>4, <1>5, <1>6, <1>7, <1>8, <1>9 DEF Body

(* Every step of the code is a step of SyncSpec or a stutter, but for a    *)
(* writeXF on an empty variable.                                           *)
LEMMA AbstractStep ==
  ASSUME Consistent, [Next]_vars
  PROVE  [Abstract!Next \/ \E t \in Tasks : EmptyWriteXF(t)]_(Abstract!vars)
<1> USE DEF Abstract!Next
<1>1. ASSUME NEW t \in Tasks, NEW o \in Ops, NEW a \in Args(o), Call(t, o, a)
      PROVE Abstract!Call(t, o, a) /\ a \in Abstract!Args(o)
  <2>1. Phases[t] = "idle" /\ Phases' = [Phases EXCEPT ![t] = "pending"]
    BY <1>1, PhaseMove DEF Call, Phases, Phase, Consistent
  <2> QED
    BY <1>1, <2>1 DEF Call, Abstract!Call, Phases, Args, Abstract!Args, Writes,
       Abstract!Writes
<1>2. ASSUME NEW t \in Tasks, Lock(t) \/ WaitFull(t) \/ WaitEmpty(t) \/ SpuriousWake(t)
      PROVE UNCHANGED Abstract!vars
  <2>1. Phases' = Phases
    BY <1>2 DEF Lock, WaitFull, WaitEmpty, SpuriousWake, Phases, Phase, Consistent, TypeOK
  <2> QED
    BY <1>2, <2>1 DEF Lock, WaitFull, WaitEmpty, SpuriousWake, Abstract!vars, Phases
<1>3. ASSUME NEW t \in Tasks, NotifyRead(t) \/ NotifyWrite(t)
      PROVE UNCHANGED Abstract!vars
  <2>1. Phases' = Phases
    BY <1>3 DEF NotifyRead, NotifyWrite, Woken, Phases, Phase, Consistent, TypeOK,
       WaitersAreQueued
  <2> QED
    BY <1>3, <2>1 DEF NotifyRead, NotifyWrite, Abstract!vars, Phases
<1>4. ASSUME NEW t \in Tasks, Return(t) PROVE Abstract!Return(t)
  <2>1. Phases[t] = "done" /\ Phases' = [Phases EXCEPT ![t] = "idle"]
    BY <1>4, PhaseMove DEF Return, Phases, Phase, Consistent
  <2> QED
    BY <1>4, <2>1 DEF Return, Abstract!Return, Phases, NoCall, Abstract!NoCall
<1>5. CASE UNCHANGED vars
  BY <1>5 DEF vars, Abstract!vars, Phase
<1> QED
  BY <1>1, <1>2, <1>3, <1>4, <1>5, AbstractBody DEF Next, Run

(* The spinlock, the two condition variables and the wakeups add nothing a *)
(* caller can see: every method takes effect at once, between its call and *)
(* its return, as its comment says, but for a writeXF on an empty variable.*)
THEOREM Implements == Spec => ImplementsSyncSpec
<1>1. Init => Abstract!Init
  BY DEF Init, Abstract!Init, NoCall, Abstract!NoCall, Phase
<1>2. Consistent /\ [Next]_vars =>
        [Abstract!Next \/ \E t \in Tasks : EmptyWriteXF(t)]_(Abstract!vars)
  BY AbstractStep
<1> QED
  BY <1>1, <1>2, ConsistentInit, ConsistentStep, PTL DEF Spec, ImplementsSyncSpec
-----------------------------------------------------------------------------
(***************************************************************************)
(* The clients.                                                            *)
(***************************************************************************)

\* The programs in question: a value is written with writeEF only, and is
\* taken out with readFE only; reading it without taking is free.
HandOverOnly ==
  \A t \in Tasks : \A i \in DOMAIN Program[t] :
     Program[t][i].op \notin {"reset", "writeFF", "writeXF"}

\* No two writeEF of the programs write the same value.
ValuesDiffer ==
  \A t, u \in Tasks : \A i \in DOMAIN Program[t], j \in DOMAIN Program[u] :
     /\ Program[t][i].op = "writeEF" /\ Program[u][j].op = "writeEF"
     /\ Program[t][i].arg = Program[u][j].arg
     => t = u /\ i = j

Calls == [op : Ops, arg : Values]
Begun(t) == Len(Program[t]) - Len(todo[t])
Past == {"notify", "done", "idle"}

\* A task is in the call its program has come to, and the rest is to do.
Placed ==
  /\ todo \in [Tasks -> Seq(Calls)]
  /\ received \in [Tasks -> Seq(Values \cup BOOLEAN)]
  /\ \A t \in Tasks :
       /\ Begun(t) \in 0..Len(Program[t])
       /\ \A i \in 1..Len(todo[t]) : todo[t][i] = Program[t][Begun(t) + i]
       /\ IF pc[t] = "idle" THEN call[t] = NoCall
          ELSE Begun(t) > 0 /\ call[t] = Program[t][Begun(t)]

Stored == IF full THEN {value} ELSE {}
Written == UNION {HandedOver(t) : t \in Tasks}
Taken == UNION {TakenOut(t) : t \in Tasks}
Pending(t) == call[t].op = "readFE" /\ pc[t] \in {"notify", "done"}

\* Nobody receives a value twice.
NoRepeat(t) ==
  /\ \A i, j \in 1..Len(received[t]) : i # j => received[t][i] # received[t][j]
  /\ Pending(t) => ret[t] \notin Elements(received[t])

Exactly ==
  /\ Written = Stored \cup Taken
  /\ Stored \cap Taken = {}
  /\ \A t, u \in Tasks : t # u => TakenOut(t) \cap TakenOut(u) = {}
  /\ \A t \in Tasks : NoRepeat(t)

ClientInv == Consistent /\ Placed /\ Exactly
-----------------------------------------------------------------------------
\* A sequence without repetitions has as many elements as it is long.
LEMMA AllDifferent ==
  ASSUME NEW S, NEW s \in Seq(S), \A i, j \in 1..Len(s) : i # j => s[i] # s[j]
  PROVE  Cardinality(Elements(s)) = Len(s)
<1> DEFINE n == Len(s)
           E == Elements(s)
           f == [i \in 1..n |-> s[i]]
<1>1. n \in Nat /\ DOMAIN s = 1..n
  OBVIOUS
<1>2. f \in [1..n -> E]
  BY <1>1 DEF Elements
<1>3. f \in Bijection(1..n, E)
  BY <1>1, <1>2 DEF Bijection, Injection, Surjection, IsInjective, Elements
<1>4. ExistsBijection(1..n, E)
  BY <1>3 DEF ExistsBijection
<1> QED
  BY <1>1, <1>4, FS_CountingElements

\* What Exactly says is ExactlyOnce.
LEMMA ExactlyIsOnce == ASSUME Placed, Exactly PROVE ExactlyOnce
<1>1. ASSUME NEW t \in Tasks
      PROVE  Cardinality(Elements(received[t])) = Len(received[t])
  <2>1. received[t] \in Seq(Values \cup BOOLEAN)
    BY DEF Placed
  <2>2. \A i, j \in 1..Len(received[t]) : i # j => received[t][i] # received[t][j]
    BY DEF Exactly, NoRepeat
  <2> QED
    BY <2>1, <2>2, AllDifferent
<1> QED
  BY <1>1 DEF Exactly, ExactlyOnce, Written, Stored, Taken
-----------------------------------------------------------------------------
\* A task's program as a function of its type.
LEMMA ProgramTyped ==
  ASSUME NEW t \in Tasks
  PROVE  /\ Program[t] \in Seq(Calls)
         /\ Len(Program[t]) \in Nat /\ DOMAIN Program[t] = 1..Len(Program[t])
         /\ \A i \in 1..Len(Program[t]) :
              /\ Program[t][i] \in Calls
              /\ Program[t][i].op \in Ops
              /\ Program[t][i].arg \in Args(Program[t][i].op)
<1>1. Program[t] \in Seq(Calls)
  BY ProgramAssumption DEF Calls
<1>2. Len(Program[t]) \in Nat /\ DOMAIN Program[t] = 1..Len(Program[t])
  BY <1>1
<1>3. ASSUME NEW i \in 1..Len(Program[t])
      PROVE  /\ Program[t][i] \in Calls
             /\ Program[t][i].op \in Ops
             /\ Program[t][i].arg \in Args(Program[t][i].op)
  <2>1. Program[t][i] \in Calls
    BY <1>1, <1>3
  <2>2. Program[t][i].op \in Ops
    BY <2>1 DEF Calls
  <2>3. Program[t][i].arg \in Args(Program[t][i].op)
    BY <1>2, <1>3, ProgramAssumption
  <2> QED
    BY <2>1, <2>2, <2>3
<1> QED
  BY <1>1, <1>2, <1>3

\* Every step of the clients is one of the variable's.
LEMMA ClientsCall ==
  ASSUME Placed, [ClientNext]_clientVars
  PROVE  [Next]_vars
<1>1. ASSUME NEW t \in Tasks, ClientCall(t) PROVE Next
  <2> DEFINE c == Head(todo[t])
  <2>1. todo[t] \in Seq(Calls) /\ todo[t] # <<>>
    BY <1>1 DEF ClientCall, Placed
  <2>2. 1 \in 1..Len(todo[t]) /\ c = todo[t][1] /\ Len(todo[t]) \in Nat \ {0}
    BY <2>1
  <2>3. c = Program[t][Begun(t) + 1]
    BY <2>2 DEF Placed
  <2>4. Begun(t) + 1 \in 1..Len(Program[t])
    <3>1. Len(Program[t]) \in Nat
      BY ProgramTyped
    <3> QED
      BY <2>2, <3>1 DEF Placed, Begun
  <2>5. c.op \in Ops /\ c.arg \in Args(c.op)
    BY <2>3, <2>4, ProgramTyped
  <2> QED
    BY <1>1, <2>5 DEF ClientCall, Next
<1>2. ASSUME NEW t \in Tasks, Library(t) PROVE Next
  BY <1>2 DEF Library, Next
<1>3. ASSUME NEW t \in Tasks, ClientReturn(t) PROVE Next
  BY <1>3 DEF ClientReturn, Next
<1>4. CASE Terminated \/ UNCHANGED clientVars
  BY <1>4 DEF Terminated, clientVars, vars
<1> QED
  BY <1>1, <1>2, <1>3, <1>4 DEF ClientNext
-----------------------------------------------------------------------------
(***************************************************************************)
(* How one step moves the values.                                          *)
(***************************************************************************)

\* A task has handed over the same values if neither the calls it has begun
\* nor the place of a writeEF in progress changed.
LEMMA HandedOverSame ==
  ASSUME Placed, NEW t \in Tasks, todo'[t] = todo[t],
         \/ pc'[t] \in Past <=> pc[t] \in Past
         \/ pc[t] # "idle" /\ call[t].op # "writeEF"
  PROVE  HandedOver(t)' = HandedOver(t)
<1> DEFINE P == Program[t]
           n == Begun(t)
<1>1. Begun(t)' = n
  BY DEF Begun
<1>2. pc[t] # "idle" => call[t] = P[n]
  BY DEF Placed
<1>3. ASSUME NEW j \in 1..n
      PROVE  (P[j].op = "writeEF" /\ (j = n => pc'[t] \in Past))
               <=> (P[j].op = "writeEF" /\ (j = n => pc[t] \in Past))
  BY <1>2
<1> DEFINE A == {j \in 1..n : P[j].op = "writeEF" /\ (j = n => pc[t] \in Past)}
           B == {j \in 1..n : P[j].op = "writeEF" /\ (j = n => pc'[t] \in Past)}
<1>4. A = B
  BY <1>3
<1>5. HandedOver(t) = {P[i].arg : i \in A}
  BY DEF HandedOver, Begun, Past
<1>6. HandedOver(t)' = {P[i].arg : i \in B}
  BY <1>1 DEF HandedOver, Begun, Past
<1> QED
  BY <1>4, <1>5, <1>6

\* It has taken out the same values if it received none and no readFE of its
\* took effect.
LEMMA TakenOutSame ==
  ASSUME NEW t \in Tasks, received'[t] = received[t],
         Pending(t)' <=> Pending(t), Pending(t) => ret'[t] = ret[t]
  PROVE  TakenOut(t)' = TakenOut(t) /\ (NoRepeat(t) => NoRepeat(t)')
<1>1. Elements(received[t])' = Elements(received[t])
  BY DEF Elements
<1> QED
  BY <1>1 DEF TakenOut, NoRepeat, Pending

\* A step that moves no value.
LEMMA NothingMoved ==
  ASSUME Exactly, Stored' = Stored,
         \A t \in Tasks : HandedOver(t)' = HandedOver(t),
         \A t \in Tasks : TakenOut(t)' = TakenOut(t),
         \A t \in Tasks : NoRepeat(t)'
  PROVE  Exactly'
<1>1. Written' = Written
  BY DEF Written
<1>2. Taken' = Taken
  BY DEF Taken
<1> QED
  BY <1>1, <1>2 DEF Exactly
-----------------------------------------------------------------------------
\* At the start no call is begun and no value is anywhere.
LEMMA ClientsStart == ASSUME ClientInit PROVE Placed /\ Exactly
<1>1. /\ \A t \in Tasks : todo[t] = Program[t] /\ Begun(t) = 0
      /\ \A t \in Tasks : received[t] = <<>> /\ pc[t] = "idle" /\ call[t] = NoCall
      /\ ~full
  BY ProgramTyped DEF ClientInit, Init, Begun
<1>2. Placed
  <2>1. todo \in [Tasks -> Seq(Calls)]
    BY ProgramAssumption DEF ClientInit, Calls
  <2>2. received \in [Tasks -> Seq(Values \cup BOOLEAN)]
    BY DEF ClientInit
  <2> QED
    BY <1>1, <2>1, <2>2, ProgramTyped DEF Placed
<1>3. \A t \in Tasks : HandedOver(t) = {} /\ TakenOut(t) = {} /\ NoRepeat(t)
  <2>1. TAKE t \in Tasks
  <2>2. HandedOver(t) = {}
    BY <1>1 DEF HandedOver, Begun
  <2>3. Elements(received[t]) = {} /\ Len(received[t]) = 0 /\ ~Pending(t)
    BY <1>1 DEF Elements, Pending
  <2> QED
    BY <2>2, <2>3 DEF TakenOut, NoRepeat, Pending
<1>4. Written = {} /\ Taken = {} /\ Stored = {}
  BY <1>1, <1>3 DEF Written, Taken, Stored
<1>5. Exactly
  BY <1>3, <1>4 DEF Exactly
<1> QED
  BY <1>2, <1>5

\* A call: the next one of the task's program.
LEMMA CallKeeps ==
  ASSUME Consistent, Placed, Exactly, NEW t \in Tasks, ClientCall(t)
  PROVE  Placed' /\ Exactly'
<1> DEFINE P == Program[t]
           n == Begun(t)
           c == Head(todo[t])
<1>1. /\ todo[t] # <<>> /\ pc[t] = "idle"
      /\ todo' = [todo EXCEPT ![t] = Tail(@)]
      /\ pc' = [pc EXCEPT ![t] = "lock"]
      /\ call' = [call EXCEPT ![t] = [op |-> c.op, arg |-> c.arg]]
      /\ UNCHANGED <<received, value, full, ret>>
  BY DEF ClientCall, Call
<1>2. /\ todo \in [Tasks -> Seq(Calls)]
      /\ pc \in [Tasks -> {"idle", "lock", "held", "wait", "notify", "done"}]
      /\ DOMAIN call = Tasks
  BY DEF Placed, Consistent, TypeOK
<1>3. todo[t] \in Seq(Calls) /\ Len(todo[t]) \in Nat \ {0} /\ 1 \in 1..Len(todo[t])
  BY <1>1, <1>2
<1>4. n \in 0..Len(P) /\ Len(P) \in Nat
  BY ProgramTyped DEF Placed
<1>5. Len(todo[t]) = Len(P) - n
  BY <1>3, <1>4 DEF Begun
<1>6. c = P[n + 1] /\ n + 1 \in 1..Len(P)
  <2>1. c = todo[t][1]
    BY <1>3
  <2> QED
    BY <1>3, <1>4, <1>5, <2>1 DEF Placed
<1>7. [op |-> c.op, arg |-> c.arg] = c
  BY <1>6, ProgramTyped DEF Calls
<1>8. /\ Tail(todo[t]) \in Seq(Calls) /\ Len(Tail(todo[t])) = Len(todo[t]) - 1
      /\ \A i \in 1..Len(Tail(todo[t])) : Tail(todo[t])[i] = todo[t][i + 1]
  BY <1>1, <1>3
<1>9. Begun(t)' = n + 1
  BY <1>1, <1>2, <1>3, <1>4, <1>8 DEF Begun
<1>10. \A u \in Tasks \ {t} :
          /\ todo'[u] = todo[u] /\ pc'[u] = pc[u] /\ call'[u] = call[u]
          /\ Begun(u)' = Begun(u)
  BY <1>1, <1>2 DEF Begun
<1>11. Placed'
  <2>1. todo' \in [Tasks -> Seq(Calls)] /\ received' \in [Tasks -> Seq(Values \cup BOOLEAN)]
    BY <1>1, <1>2, <1>8 DEF Placed
  <2>2. \A i \in 1..Len(todo'[t]) : todo'[t][i] = Program[t][Begun(t)' + i]
    <3>1. TAKE i \in 1..Len(todo'[t])
    <3>2. todo'[t] = Tail(todo[t])
      BY <1>1, <1>2
    <3>3. i + 1 \in 1..Len(todo[t]) /\ todo'[t][i] = todo[t][i + 1]
      BY <1>3, <1>8, <3>1, <3>2
    <3>4. todo[t][i + 1] = P[n + (i + 1)]
      BY <3>3 DEF Placed
    <3>5. i \in Int /\ n \in Int
      BY <1>4, <1>8, <3>1, <3>2, <1>3
    <3>6. n + (i + 1) = (n + 1) + i
      BY <3>5
    <3> QED
      BY <1>9, <3>3, <3>4, <3>6
  <2>3. call'[t] = Program[t][Begun(t)'] /\ pc'[t] # "idle" /\ Begun(t)' > 0
    BY <1>1, <1>2, <1>4, <1>6, <1>7, <1>9
  <2>4. Begun(t)' \in 0..Len(Program[t])
    BY <1>6, <1>9
  <2>5. \A u \in Tasks \ {t} :
          /\ Begun(u)' \in 0..Len(Program[u])
          /\ \A i \in 1..Len(todo'[u]) : todo'[u][i] = Program[u][Begun(u)' + i]
          /\ IF pc'[u] = "idle" THEN call'[u] = NoCall
             ELSE Begun(u)' > 0 /\ call'[u] = Program[u][Begun(u)']
    <3>1. TAKE u \in Tasks \ {t}
    <3>2. /\ Begun(u) \in 0..Len(Program[u])
          /\ \A i \in 1..Len(todo[u]) : todo[u][i] = Program[u][Begun(u) + i]
          /\ IF pc[u] = "idle" THEN call[u] = NoCall
             ELSE Begun(u) > 0 /\ call[u] = Program[u][Begun(u)]
      BY DEF Placed
    <3> QED
      BY <1>10, <3>2
  <2> QED
    BY <2>1, <2>2, <2>3, <2>4, <2>5 DEF Placed
<1>12. HandedOver(t)' = HandedOver(t)
  <2> DEFINE A == {j \in 1..n : P[j].op = "writeEF" /\ (j = n => pc[t] \in Past)}
             B == {j \in 1..n + 1 : P[j].op = "writeEF" /\ (j = n + 1 => pc'[t] \in Past)}
  <2>1. A = B
    BY <1>1, <1>2, <1>4 DEF Past
  <2>2. HandedOver(t) = {P[i].arg : i \in A}
    BY DEF HandedOver, Begun, Past
  <2>3. HandedOver(t)' = {P[i].arg : i \in B}
    BY <1>9 DEF HandedOver, Begun, Past
  <2> QED
    BY <2>1, <2>2, <2>3
<1>13. \A u \in Tasks \ {t} : HandedOver(u)' = HandedOver(u)
  BY <1>10, HandedOverSame
<1>14. \A u \in Tasks : TakenOut(u)' = TakenOut(u) /\ NoRepeat(u)'
  <2>1. TAKE u \in Tasks
  <2>2. Pending(u)' <=> Pending(u)
    BY <1>1, <1>2, <1>10 DEF Pending
  <2> QED
    BY <1>1, <2>2, TakenOutSame DEF Exactly
<1>15. Stored' = Stored
  BY <1>1 DEF Stored
<1> QED
  BY <1>11, <1>12, <1>13, <1>14, <1>15, NothingMoved

\* Append puts one element behind the others.
LEMMA Appended ==
  ASSUME NEW S, NEW s \in Seq(S), NEW e \in S
  PROVE  /\ Len(Append(s, e)) = Len(s) + 1 /\ DOMAIN Append(s, e) = 1..Len(s) + 1
         /\ \A i \in 1..Len(s) : Append(s, e)[i] = s[i]
         /\ Append(s, e)[Len(s) + 1] = e
         /\ Elements(Append(s, e)) = Elements(s) \cup {e}
<1> DEFINE longer == Append(s, e)
<1>1. /\ Len(longer) = Len(s) + 1 /\ DOMAIN longer = 1..Len(s) + 1
      /\ \A i \in 1..Len(s) : longer[i] = s[i]
      /\ longer[Len(s) + 1] = e
  OBVIOUS
<1>2. Elements(longer) = Elements(s) \cup {e}
  <2> HIDE DEF longer
  <2>1. DOMAIN s = 1..Len(s) /\ Len(s) \in Nat
    OBVIOUS
  <2> QED
    BY <1>1, <2>1 DEF Elements
<1> QED
  BY <1>1, <1>2

\* A return: what readFE returns joins what the task received.
LEMMA ReturnKeeps ==
  ASSUME Consistent, Placed, Exactly, NEW t \in Tasks, ClientReturn(t)
  PROVE  Placed' /\ Exactly'
<1> DEFINE old == received[t]
           new == received'[t]
<1>1. /\ pc[t] = "done" /\ pc' = [pc EXCEPT ![t] = "idle"]
      /\ call' = [call EXCEPT ![t] = NoCall]
      /\ ret' = [ret EXCEPT ![t] = Default]
      /\ UNCHANGED <<value, full, todo>>
  BY DEF ClientReturn, Return
<1>2. /\ pc \in [Tasks -> {"idle", "lock", "held", "wait", "notify", "done"}]
      /\ DOMAIN call = Tasks /\ ret \in [Tasks -> Values \cup BOOLEAN]
      /\ received \in [Tasks -> Seq(Values \cup BOOLEAN)]
  BY DEF Placed, Consistent, TypeOK
<1>3. new = IF call[t].op = "readFE" THEN Append(old, ret[t]) ELSE old
  BY <1>2 DEF ClientReturn
<1>4. old \in Seq(Values \cup BOOLEAN) /\ Len(old) \in Nat /\ DOMAIN old = 1..Len(old)
  BY <1>2
<1>5. \A u \in Tasks \ {t} :
        /\ received'[u] = received[u] /\ pc'[u] = pc[u] /\ call'[u] = call[u]
        /\ ret'[u] = ret[u]
  BY <1>1, <1>2 DEF ClientReturn
<1>6. \A u \in Tasks : Begun(u)' = Begun(u)
  BY <1>1 DEF Begun
<1>7. Placed'
  <2>1. received' \in [Tasks -> Seq(Values \cup BOOLEAN)]
    BY <1>2, <1>4 DEF ClientReturn
  <2>2. pc'[t] = "idle" /\ call'[t] = NoCall
    BY <1>1, <1>2
  <2> QED
    BY <1>1, <1>5, <1>6, <2>1, <2>2 DEF Placed
<1>8. \A u \in Tasks : HandedOver(u)' = HandedOver(u)
  BY <1>1, <1>2, <1>5, HandedOverSame DEF Past
<1>9. TakenOut(t)' = TakenOut(t) /\ NoRepeat(t)'
  <2>1. ~Pending(t)'
    BY <1>1, <1>2 DEF Pending
  <2>2. TakenOut(t)' = Elements(new)
    BY <2>1 DEF TakenOut, Pending, Elements
  <2>3. CASE call[t].op # "readFE"
    <3>1. new = old /\ ~Pending(t)
      BY <1>3, <2>3 DEF Pending
    <3> QED
      BY <2>1, <3>1, TakenOutSame DEF Exactly
  <2>4. CASE call[t].op = "readFE"
    <3>1. Pending(t) /\ new = Append(old, ret[t])
      BY <1>1, <1>3, <2>4 DEF Pending
    <3>2. /\ Len(new) = Len(old) + 1 /\ DOMAIN new = 1..Len(old) + 1
          /\ \A i \in 1..Len(old) : new[i] = old[i]
          /\ new[Len(old) + 1] = ret[t]
          /\ Elements(new) = Elements(old) \cup {ret[t]}
      <4>1. ret[t] \in Values \cup BOOLEAN
        BY <1>2
      <4> DEFINE longer == Append(old, ret[t])
      <4>2. /\ Len(longer) = Len(old) + 1 /\ DOMAIN longer = 1..Len(old) + 1
            /\ \A i \in 1..Len(old) : longer[i] = old[i]
            /\ longer[Len(old) + 1] = ret[t]
            /\ Elements(longer) = Elements(old) \cup {ret[t]}
        BY <1>4, <4>1, Appended
      <4>3. new = longer
        BY <3>1
      <4> HIDE DEF old, new, longer
      <4> QED
        BY <4>2, <4>3
    <3>3. Elements(new) = Elements(old) \cup {ret[t]}
      BY <3>2
    <3>4. TakenOut(t) = Elements(old) \cup {ret[t]}
      BY <3>1 DEF TakenOut, Pending
    <3>5. /\ ret[t] \notin Elements(old)
          /\ \A i, j \in 1..Len(old) : i # j => old[i] # old[j]
      BY <3>1 DEF Exactly, NoRepeat
    <3>6. \A i, j \in 1..Len(new) : i # j => new[i] # new[j]
      <4>1. \A i \in 1..Len(old) : old[i] # ret[t]
        BY <1>4, <3>5 DEF Elements
      <4>2. TAKE i, j \in 1..Len(new)
      <4>3. \A k \in 1..Len(new) : k \in 1..Len(old) \/ k = Len(old) + 1
        BY <1>4, <3>2
      <4> QED
        BY <3>2, <3>5, <4>1, <4>2, <4>3
    <3> QED
      BY <2>1, <2>2, <3>3, <3>4, <3>6 DEF NoRepeat
  <2> QED
    BY <2>3, <2>4
<1>10. \A u \in Tasks \ {t} : TakenOut(u)' = TakenOut(u) /\ NoRepeat(u)'
  <2>1. TAKE u \in Tasks \ {t}
  <2>2. Pending(u)' <=> Pending(u)
    BY <1>5 DEF Pending
  <2> QED
    BY <1>5, <2>2, TakenOutSame DEF Exactly
<1>11. Stored' = Stored
  BY <1>1 DEF Stored
<1> QED
  BY <1>7, <1>8, <1>9, <1>10, <1>11, NothingMoved
-----------------------------------------------------------------------------
\* A step of the library leaves todo and received; Placed looks at nothing
\* else but which tasks are in a call.
LEMMA LibraryPlaced ==
  ASSUME Placed, UNCHANGED <<todo, received, call>>,
         \A t \in Tasks : pc'[t] = "idle" <=> pc[t] = "idle"
  PROVE  Placed'
<1>1. \A t \in Tasks : Begun(t)' = Begun(t)
  BY DEF Begun
<1> QED
  BY <1>1 DEF Placed

\* Taking mtx, waiting and notifying move no value: the tasks they move, in
\* cv.wait the ones, at the notification the other, stay before or after it.
LEMMA QuietKeeps ==
  ASSUME Consistent, Placed, Exactly, NEW t \in Tasks,
         \/ Lock(t) \/ WaitFull(t) \/ WaitEmpty(t)
         \/ NotifyRead(t) \/ NotifyWrite(t),
         UNCHANGED <<todo, received>>
  PROVE  Placed' /\ Exactly'
<1>1. pc \in [Tasks -> {"idle", "lock", "held", "wait", "notify", "done"}]
  BY DEF Consistent, TypeOK
<1>2. UNCHANGED <<value, full, call, ret>>
  BY DEF Lock, WaitFull, WaitEmpty, NotifyRead, NotifyWrite
<1> DEFINE Same(u) ==
             /\ pc'[u] = "idle" <=> pc[u] = "idle"
             /\ pc'[u] \in {"notify", "done"} <=> pc[u] \in {"notify", "done"}
<1>3. \A u \in Tasks : Same(u)
  <2>1. CASE Lock(t) \/ WaitFull(t) \/ WaitEmpty(t)
    BY <1>1, <2>1 DEF Lock, WaitFull, WaitEmpty
  <2>2. CASE NotifyRead(t) \/ NotifyWrite(t)
    <3>1. pc[t] = "notify"
      BY <2>2 DEF NotifyRead, NotifyWrite
    <3>2. CASE pc' = [pc EXCEPT ![t] = "done"]
      BY <1>1, <3>1, <3>2
    <3>3. ASSUME NEW w \in cv_read \cup cv_write, Woken(t, w)
          PROVE  \A u \in Tasks : Same(u)
      <4>1. w \in Tasks /\ pc[w] = "wait"
        BY <3>3 DEF Consistent, TypeOK, WaitersAreQueued
      <4> QED
        BY <1>1, <3>1, <3>3, <4>1 DEF Woken
    <3> QED
      BY <2>2, <3>2, <3>3 DEF NotifyRead, NotifyWrite
  <2> QED
    BY <2>1, <2>2
<1>4. Placed'
  BY <1>2, <1>3, LibraryPlaced
<1>5. \A u \in Tasks : HandedOver(u)' = HandedOver(u)
  <2>1. TAKE u \in Tasks
  <2>2. pc'[u] \in Past <=> pc[u] \in Past
    BY <1>3 DEF Past
  <2> QED
    BY <2>2, HandedOverSame
<1>6. \A u \in Tasks : TakenOut(u)' = TakenOut(u) /\ NoRepeat(u)'
  <2>1. TAKE u \in Tasks
  <2>2. Pending(u)' <=> Pending(u)
    BY <1>2, <1>3 DEF Pending
  <2> QED
    BY <1>2, <2>2, TakenOutSame DEF Exactly
<1>7. Stored' = Stored
  BY <1>2 DEF Stored
<1> QED
  BY <1>4, <1>5, <1>6, <1>7, NothingMoved

\* A body: readFE moves the value out of the variable, writeEF one into it.
LEMMA BodyKeeps ==
  ASSUME HandOverOnly, ValuesDiffer,
         Consistent, Placed, Exactly, NEW t \in Tasks, Body(t),
         UNCHANGED <<todo, received>>
  PROVE  Placed' /\ Exactly'
<1> DEFINE c == call[t]
           n == Begun(t)
<1>1. PICK o, result :
         /\ Leave(t, o, result)
         /\ result \in Values \cup BOOLEAN
         /\ value' \in Values /\ full' \in BOOLEAN
  BY BodyLeaves DEF Consistent
<1>2. /\ pc \in [Tasks -> {"idle", "lock", "held", "wait", "notify", "done"}]
      /\ ret \in [Tasks -> Values \cup BOOLEAN]
  BY DEF Consistent, TypeOK
<1>3. /\ pc[t] = "held" /\ pc'[t] \in {"notify", "done"}
      /\ ret'[t] = result
      /\ UNCHANGED call
      /\ \A u \in Tasks \ {t} : pc'[u] = pc[u] /\ ret'[u] = ret[u]
  BY <1>1, <1>2 DEF Leave
<1>4. Placed'
  BY <1>3, LibraryPlaced
<1>5. /\ n \in 1..Len(Program[t]) /\ c = Program[t][n]
      /\ c.op \notin {"reset", "writeFF", "writeXF"}
  <2>1. n \in 0..Len(Program[t]) /\ n > 0 /\ c = Program[t][n]
    BY <1>3 DEF Placed
  <2>2. n \in 1..Len(Program[t])
    BY <2>1, ProgramTyped
  <2> QED
    BY <2>1, <2>2, ProgramTyped DEF HandOverOnly
<1>6. \A u \in Tasks \ {t} :
        HandedOver(u)' = HandedOver(u) /\ TakenOut(u)' = TakenOut(u) /\ NoRepeat(u)'
  <2>1. TAKE u \in Tasks \ {t}
  <2>2. pc'[u] \in Past <=> pc[u] \in Past
    BY <1>3
  <2>3. Pending(u)' <=> Pending(u)
    BY <1>3 DEF Pending
  <2> QED
    BY <1>3, <2>2, <2>3, HandedOverSame, TakenOutSame DEF Exactly
<1>7. c.op # "writeEF" => HandedOver(t)' = HandedOver(t)
  BY <1>3, HandedOverSame
<1>8. c.op # "readFE" => TakenOut(t)' = TakenOut(t) /\ NoRepeat(t)'
  <2>1. c.op # "readFE" => ~Pending(t) /\ ~Pending(t)'
    BY <1>3 DEF Pending
  <2> QED
    BY <2>1, TakenOutSame DEF Exactly
<1>9. ~Pending(t) /\ TakenOut(t) = Elements(received[t])
  BY <1>3 DEF Pending, TakenOut
<1>10. CASE IsFull(t) \/ ReadFF(t) \/ ReadXX(t)
  <2>1. c.op \in {"isFull", "readFF", "readXX"} /\ UNCHANGED <<value, full>>
    BY <1>10 DEF IsFull, ReadFF, ReadXX, Leave
  <2>2. Stored' = Stored
    BY <2>1 DEF Stored
  <2> QED
    BY <1>4, <1>6, <1>7, <1>8, <2>1, <2>2, NothingMoved
<1>11. CASE ReadFE(t)
  <2>1. c.op = "readFE" /\ full /\ ~full' /\ ret'[t] = value
    BY <1>2, <1>11 DEF ReadFE, Leave
  <2>2. Stored = {value} /\ Stored' = {}
    BY <2>1 DEF Stored
  <2>3. TakenOut(t)' = TakenOut(t) \cup {value}
    <3>1. Pending(t)'
      BY <1>3, <2>1 DEF Pending
    <3> QED
      BY <1>9, <2>1, <3>1 DEF TakenOut, Pending, Elements
  <2>4. value \notin Taken
    BY <2>2 DEF Exactly
  <2>5. \A u \in Tasks : value \notin TakenOut(u)
    BY <2>4 DEF Taken
  <2>6. Taken' = Taken \cup {value}
    BY <1>6, <2>3 DEF Taken
  <2>7. Written' = Written
    BY <1>6, <1>7, <2>1 DEF Written
  <2>8. NoRepeat(t)'
    BY <1>9, <2>1, <2>5 DEF NoRepeat, Exactly, Elements
  <2>9. ASSUME NEW u \in Tasks, NEW v \in Tasks, u # v
        PROVE  TakenOut(u)' \cap TakenOut(v)' = {}
    <3>1. TakenOut(u) \cap TakenOut(v) = {}
      BY <2>9 DEF Exactly
    <3> QED
      BY <1>6, <2>3, <2>5, <2>9, <3>1
  <2> QED
    BY <1>4, <1>6, <2>2, <2>6, <2>7, <2>8, <2>9 DEF Exactly
<1>12. CASE WriteEF(t)
  <2>1. c.op = "writeEF" /\ ~full /\ full' /\ value' = c.arg
    BY <1>12 DEF WriteEF, Leave
  <2>2. Stored = {} /\ Stored' = {c.arg}
    BY <2>1 DEF Stored
  <2>3. HandedOver(t)' = HandedOver(t) \cup {c.arg}
    <3> DEFINE P == Program[t]
               A == {j \in 1..n : P[j].op = "writeEF" /\ (j = n => pc[t] \in Past)}
               B == {j \in 1..n : P[j].op = "writeEF" /\ (j = n => pc'[t] \in Past)}
    <3>1. n \in 1..n /\ P[n].op = "writeEF" /\ P[n].arg = c.arg
      BY <1>5, <2>1, ProgramTyped
    <3>2. B = A \cup {n}
      BY <1>3, <3>1 DEF Past
    <3>3. HandedOver(t) = {P[i].arg : i \in A}
      BY DEF HandedOver, Begun, Past
    <3>4. Begun(t)' = n
      BY DEF Begun
    <3>5. HandedOver(t)' = {P[i].arg : i \in B}
      BY <3>4 DEF HandedOver, Begun, Past
    <3> QED
      BY <3>1, <3>2, <3>3, <3>5
  <2>4. ASSUME NEW u \in Tasks PROVE c.arg \notin HandedOver(u)
    <3>1. SUFFICES ASSUME c.arg \in HandedOver(u) PROVE FALSE
      OBVIOUS
    <3>2. PICK j \in 1..Begun(u) :
             /\ Program[u][j].op = "writeEF" /\ Program[u][j].arg = c.arg
             /\ j = Begun(u) => pc[u] \in Past
      BY <3>1 DEF HandedOver, Begun, Past
    <3>3. j \in 1..Len(Program[u])
      BY ProgramTyped DEF Placed
    <3>4. u = t /\ j = n
      BY <1>5, <2>1, <3>2, <3>3, ProgramTyped DEF ValuesDiffer
    <3> QED
      BY <1>3, <3>2, <3>4 DEF Past
  <2>5. c.arg \notin Written
    BY <2>4 DEF Written
  <2>6. Written' = Written \cup {c.arg}
    BY <1>6, <2>3 DEF Written
  <2>7. Taken' = Taken
    BY <1>6, <1>8, <2>1 DEF Taken
  <2>8. Written' = Stored' \cup Taken' /\ Stored' \cap Taken' = {}
    BY <2>2, <2>5, <2>6, <2>7 DEF Exactly
  <2> QED
    BY <1>4, <1>6, <1>8, <2>1, <2>8 DEF Exactly
<1>13. CASE Reset(t) \/ WriteFF(t) \/ WriteXF(t)
  BY <1>5, <1>13 DEF Reset, WriteFF, WriteXF, Leave
<1> QED
  BY <1>10, <1>11, <1>12, <1>13 DEF Body

\* The invariant is kept by every step of the clients.
LEMMA ClientsKeep ==
  ASSUME HandOverOnly, ValuesDiffer, ClientInv, [ClientNext]_clientVars
  PROVE  ClientInv'
<1>1. Consistent'
  BY ClientsCall, ConsistentStep DEF ClientInv
<1>2. ASSUME NEW t \in Tasks, Library(t) PROVE Placed' /\ Exactly'
  BY <1>2, QuietKeeps, BodyKeeps DEF ClientInv, Library, Run
<1>3. ASSUME NEW t \in Tasks, ClientCall(t) \/ ClientReturn(t) PROVE Placed' /\ Exactly'
  BY <1>3, CallKeeps, ReturnKeeps DEF ClientInv
<1>4. ASSUME Terminated \/ UNCHANGED clientVars PROVE Placed' /\ Exactly'
  <2>1. UNCHANGED clientVars
    BY <1>4 DEF Terminated
  <2>2. /\ UNCHANGED <<todo, received, call, ret, pc, value, full>>
        /\ Stored' = Stored
    BY <2>1 DEF clientVars, Stored
  <2>3. Placed'
    BY <2>2, LibraryPlaced DEF ClientInv
  <2>4. \A t \in Tasks : HandedOver(t)' = HandedOver(t)
    BY <2>2, HandedOverSame DEF ClientInv
  <2>5. \A t \in Tasks : TakenOut(t)' = TakenOut(t) /\ NoRepeat(t)'
    BY <2>2, TakenOutSame DEF ClientInv, Exactly, Pending
  <2> QED
    BY <2>2, <2>3, <2>4, <2>5, NothingMoved DEF ClientInv
<1>5. Placed' /\ Exactly'
  BY <1>2, <1>3, <1>4 DEF ClientNext
<1> QED
  BY <1>1, <1>5 DEF ClientInv

(* Tasks that hand values over with writeEF and readFE, reading them without *)
(* taking as they like, lose none of them and receive none twice, for any    *)
(* number of tasks and any programs (56-70, 94-105).                         *)
THEOREM ReceivedExactlyOnce ==
  ASSUME HandOverOnly, ValuesDiffer
  PROVE  ClientSpec => []ExactlyOnce
<1>1. ClientInit => ClientInv
  BY ConsistentInit, ClientsStart DEF ClientInit, ClientInv
<1>2. ClientInv /\ [ClientNext]_clientVars => ClientInv'
  BY ClientsKeep
<1>3. ClientInv => ExactlyOnce
  BY ExactlyIsOnce DEF ClientInv
<1> QED
  BY <1>1, <1>2, <1>3, PTL DEF ClientSpec
=============================================================================
