-------------------------- MODULE SingleVarProofs --------------------------
(***************************************************************************)
(* What holds of chplx::Single for any number of tasks and any values,     *)
(* whether waits end by themselves or not.                                 *)
(*                                                                         *)
(* What the one test of "full" in readFF is enough for is Handed: a task   *)
(* that a notify_all woke finds the variable full, for notify_all comes    *)
(* after the write, which nothing takes back.  Of a task in early nothing  *)
(* is known.                                                               *)
(***************************************************************************)
EXTENDS SingleVar, TLAPS

Base == TypeOK /\ MutualExclusion /\ WaitersAreQueued

Handed ==
  \A t \in Tasks :
     /\ pc[t] = "notify" => full
     /\ pc[t] \in {"woken", "resumed"} /\ t \notin early => full
     /\ pc[t] = "done" /\ call[t].op = "readFF" /\ t \notin early => full

(* The invariants at the start: nobody has called anything. *)
LEMMA BaseInit == Init => Base /\ Handed /\ NoStrandedReader
<1> SUFFICES ASSUME Init PROVE Base /\ Handed /\ NoStrandedReader
  OBVIOUS
<1>1. TypeOK
  BY DEF Init, TypeOK, NoCall, Values
<1>2. MutualExclusion /\ WaitersAreQueued /\ Handed /\ NoStrandedReader
  BY SingleAssumption DEF Init, MutualExclusion, WaitersAreQueued, Handed, NoStrandedReader
<1> QED
  BY <1>1, <1>2 DEF Base

-----------------------------------------------------------------------------
(* What the end of the critical section of method o does, whichever it is. *)
Ends(t, o, result) ==
  /\ Leave(t, o, IF o = "writeEF" THEN "notify" ELSE "done", result)
  /\ pc[t] \in {"held", "resumed"}
  /\ result \in Values \cup BOOLEAN /\ value' \in Values
  /\ full' = (full \/ o = "writeEF")
  /\ \/ o = "isFull" /\ result = full /\ value' = value
     \/ o = "readFF" /\ (full \/ pc[t] = "resumed") /\ result = value /\ value' = value
     \/ o = "readXX" /\ result = value /\ value' = value
     \/ o = "writeEF" /\ (Asserts => ~full) /\ result = Default /\ value' = call[t].arg

(* The bodies of the four methods as one: what each gives back and writes. *)
LEMMA BodyEnds ==
  ASSUME TypeOK, NEW t \in Tasks, Body(t)
  PROVE  \E o, result : Ends(t, o, result)
<1> USE DEF TypeOK, Values, Ends
<1>0. Default \in Values /\ call[t].arg \in Values
  OBVIOUS
<1>1. CASE IsFull(t)
  <2> Ends(t, "isFull", full)
    BY <1>1 DEF IsFull
  <2> QED OBVIOUS
<1>2. CASE ReadFF(t)
  <2> Ends(t, "readFF", value)
    BY <1>2 DEF ReadFF
  <2> QED OBVIOUS
<1>3. CASE ReadXX(t)
  <2> Ends(t, "readXX", value)
    BY <1>3 DEF ReadXX
  <2> QED OBVIOUS
<1>4. CASE WriteEF(t)
  <2> Ends(t, "writeEF", Default)
    BY <1>0, <1>4 DEF WriteEF
  <2> QED OBVIOUS
<1> QED
  BY <1>1, <1>2, <1>3, <1>4 DEF Body

(* The end of a critical section moves the task that owns mtx and no other. *)
LEMMA EndsMove ==
  ASSUME Base, NEW t \in Tasks, NEW o, NEW result, Ends(t, o, result)
  PROVE  /\ mtx = t /\ mtx' = NoTask
         /\ call[t].op = o
         /\ \A u \in Tasks : u # t => pc'[u] = pc[u]
         /\ pc'[t] = IF o = "writeEF" THEN "notify" ELSE "done"
         /\ UNCHANGED <<cv_write, aborted, call, early>>
  BY DEF Ends, Leave, Base, TypeOK, MutualExclusion

(* Base is kept by every step. *)
LEMMA BaseStep == Base /\ [Next]_vars => Base'
<1> USE SingleAssumption DEF Base, TypeOK, MutualExclusion, WaitersAreQueued, Values
<1> SUFFICES ASSUME Base, [Next]_vars PROVE Base'
  OBVIOUS
<1>1. ASSUME NEW t \in Tasks, NEW o \in Ops, NEW a \in Args(o), Call(t, o, a)
      PROVE Base'
  BY <1>1 DEF Call, Args
<1>2. ASSUME NEW t \in Tasks, Lock(t) PROVE Base'
  BY <1>2 DEF Lock
<1>3. ASSUME NEW t \in Tasks, WaitFull(t) PROVE Base'
  BY <1>3 DEF WaitFull
<1>4. ASSUME NEW t \in Tasks, Body(t) PROVE Base'
  <2>1. PICK o, result : Ends(t, o, result)
    BY <1>4, BodyEnds
  <2>2. TypeOK'
    BY <2>1 DEF Ends, Leave
  <2>3. MutualExclusion' /\ WaitersAreQueued'
    BY <2>1, EndsMove
  <2> QED BY <2>2, <2>3
<1>5. ASSUME NEW t \in Tasks, AssertFails(t) PROVE Base'
  BY <1>5 DEF AssertFails
<1>6. ASSUME NEW t \in Tasks, NotifyAll(t) PROVE Base'
  BY <1>6 DEF NotifyAll
<1>7. ASSUME NEW t \in Tasks, Return(t) PROVE Base'
  BY <1>7 DEF Return, NoCall
<1>8. ASSUME NEW t \in Tasks, SpuriousWake(t) PROVE Base'
  BY <1>8 DEF SpuriousWake
<1>9. CASE UNCHANGED vars
  BY <1>9 DEF vars
<1> QED
  BY <1>1, <1>2, <1>3, <1>4, <1>5, <1>6, <1>7, <1>8, <1>9 DEF Next, Run

(* Throughout, every member and every local has its type, one task at most *)
(* is in a critical section, and cv_write holds just the readFF that wait. *)
THEOREM TypeCorrect == Spec => [](TypeOK /\ MutualExclusion /\ WaitersAreQueued)
<1>1. Init => Base  BY BaseInit
<1>2. Base /\ [Next]_vars => Base'  BY BaseStep
<1> QED
  BY <1>1, <1>2, PTL DEF Spec, Base
-----------------------------------------------------------------------------
(* Handed is kept by every step: what wakes a task is notify_all, which    *)
(* comes after the write, or puts the task into early.                     *)
LEMMA HandedStep == Base /\ Handed /\ [Next]_vars => Handed'
<1> SUFFICES ASSUME Base, Handed, [Next]_vars PROVE Handed'
  OBVIOUS
<1> USE DEF Base, TypeOK, Handed
<1>1. ASSUME NEW t \in Tasks, NEW o \in Ops, NEW a \in Args(o), Call(t, o, a)
      PROVE Handed'
  BY <1>1 DEF Call
<1>2. ASSUME NEW t \in Tasks,
             Lock(t) \/ WaitFull(t) \/ SpuriousWake(t) \/ AssertFails(t) \/ Return(t)
      PROVE Handed'
  BY <1>2 DEF Lock, WaitFull, SpuriousWake, AssertFails, Return
<1>3. ASSUME NEW t \in Tasks, Body(t) PROVE Handed'
  <2>1. PICK o, result : Ends(t, o, result)
    BY <1>3, BodyEnds
  <2>2. full => full'
    BY <2>1 DEF Ends
  <2>3. o = "writeEF" \/ (o = "readFF" /\ t \notin early) => full'
    BY <2>1 DEF Ends
  <2> QED BY <2>1, <2>2, <2>3, EndsMove
<1>4. ASSUME NEW t \in Tasks, NotifyAll(t) PROVE Handed'
  BY <1>4 DEF NotifyAll, WaitersAreQueued
<1>5. CASE UNCHANGED vars
  BY <1>5 DEF vars
<1> QED
  BY <1>1, <1>2, <1>3, <1>4, <1>5 DEF Next, Run

(* A readFF that did not wait, or that a notification woke, hands out no   *)
(* value before there is one, although it does not look again after its    *)
(* wait.                                                                   *)
THEOREM NotifiedReadFFNeverEarly == Spec => []NotifiedReadFFIsFull
<1>1. Init => Base /\ Handed  BY BaseInit
<1>2. Base /\ Handed /\ [Next]_vars => (Base /\ Handed)'  BY BaseStep, HandedStep
<1>3. Base /\ Handed => NotifiedReadFFIsFull
  BY DEF Base, WaitersAreQueued, Handed, NotifiedReadFFIsFull
<1> QED
  BY <1>1, <1>2, <1>3, PTL DEF Spec

(* No step strands a reader: notify_all empties the queue, and the task that *)
(* owes it is the one that wrote.                                            *)
LEMMA StrandedStep == Base /\ NoStrandedReader /\ [Next]_vars => NoStrandedReader'
<1> SUFFICES ASSUME Base, NoStrandedReader, [Next]_vars, full', cv_write' # {}
             PROVE  \E u \in Tasks : pc'[u] = "notify"
  BY DEF NoStrandedReader
<1> USE DEF Base, TypeOK, NoStrandedReader
<1>1. ASSUME NEW t \in Tasks, NEW o \in Ops, NEW a \in Args(o), Call(t, o, a)
      PROVE \E u \in Tasks : pc'[u] = "notify"
  BY <1>1 DEF Call
<1>2. ASSUME NEW t \in Tasks, Lock(t) \/ SpuriousWake(t) \/ AssertFails(t) \/ Return(t)
      PROVE \E u \in Tasks : pc'[u] = "notify"
  BY <1>2 DEF Lock, SpuriousWake, AssertFails, Return
<1>3. ASSUME NEW t \in Tasks, WaitFull(t) PROVE FALSE
  BY <1>3 DEF WaitFull
<1>4. ASSUME NEW t \in Tasks, Body(t) PROVE \E u \in Tasks : pc'[u] = "notify"
  <2>1. PICK o, result : Ends(t, o, result)
    BY <1>4, BodyEnds
  <2>2. CASE o = "writeEF"
    BY <2>1, <2>2, EndsMove
  <2>3. CASE o # "writeEF"
    <3>1. full /\ cv_write # {}
      BY <2>1, <2>3, EndsMove DEF Ends
    <3>2. PICK u \in Tasks : pc[u] = "notify"
      BY <3>1
    <3>3. u # t
      BY <3>2, <2>1 DEF Ends
    <3> QED BY <2>1, <3>2, <3>3, EndsMove
  <2> QED BY <2>2, <2>3
<1>5. ASSUME NEW t \in Tasks, NotifyAll(t) PROVE FALSE
  BY <1>5 DEF NotifyAll
<1>6. CASE UNCHANGED vars
  BY <1>6 DEF vars
<1> QED
  BY <1>1, <1>2, <1>3, <1>4, <1>5, <1>6 DEF Next, Run

(* No readFF sleeps on a full variable unless its notify_all is to come.   *)
THEOREM ReadersNeverStranded == Spec => []NoStrandedReader
<1>1. Init => Base /\ NoStrandedReader  BY BaseInit
<1>2. Base /\ NoStrandedReader /\ [Next]_vars => (Base /\ NoStrandedReader)'
  BY BaseStep, StrandedStep
<1> QED
  BY <1>1, <1>2, PTL DEF Spec
-----------------------------------------------------------------------------
(* The value, once there, is there for good.                               *)
LEMMA KeepsValue ==
  ASSUME Asserts, Base, [Next]_vars, full
  PROVE  full' /\ value' = value
<1>1. ASSUME NEW t \in Tasks, Body(t) PROVE full' /\ value' = value
  <2>1. PICK o, result : Ends(t, o, result)
    BY <1>1, BodyEnds DEF Base
  <2> QED BY <2>1 DEF Ends
<1> QED
  BY <1>1 DEF Next, Run, Call, Lock, WaitFull, SpuriousWake, AssertFails, NotifyAll, Return,
              vars

(* With the assertion compiled in nobody ever replaces the value: all the  *)
(* readers agree.                                                          *)
THEOREM WrittenAtMostOnce ==
  ASSUME Asserts
  PROVE  Spec => WrittenOnce
<1>1. Init => Base  BY BaseInit
<1>2. Base /\ [Next]_vars => Base'  BY BaseStep
<1>3. Base /\ [Next]_vars => [full => full' /\ value' = value]_vars
  BY KeepsValue
<1> QED
  BY <1>1, <1>2, <1>3, PTL DEF Spec, WrittenOnce
-----------------------------------------------------------------------------
Phases == [t \in Tasks |-> Phase(t)]

(* A step that moves t alone moves its phase alone.                        *)
LEMMA PhaseMove ==
  ASSUME TypeOK, NEW t \in Tasks, NEW p, pc' = [pc EXCEPT ![t] = p]
  PROVE  /\ p \in {"lock", "held", "wait", "woken", "resumed"} =>
              Phases' = [Phases EXCEPT ![t] = "pending"]
         /\ p \in {"notify", "done"} => Phases' = [Phases EXCEPT ![t] = "done"]
         /\ p = "idle" => Phases' = [Phases EXCEPT ![t] = "idle"]
  BY DEF TypeOK, Phases, Phase

(* The body of a method has the effect SyncSpec gives the method, or is a  *)
(* readFF whose wait ended by itself.                                      *)
LEMMA AbstractBody ==
  ASSUME Asserts, Base, Handed, NEW t \in Tasks, Body(t)
  PROVE  Abstract!Do(t) \/ (t \in early /\ EarlyReadFF(t))
<1>1. PICK o, result : Ends(t, o, result)
  BY BodyEnds DEF Base
<1>2. Abstract!Effect(t, o, result)
  <2>1. Phases[t] = "pending"
    BY <1>1 DEF Ends, Phases, Phase
  <2>2. \E p \in {"notify", "done"} : pc' = [pc EXCEPT ![t] = p]
    BY <1>1 DEF Ends, Leave
  <2>3. Phases' = [Phases EXCEPT ![t] = "done"]
    BY <2>2, PhaseMove DEF Base
  <2> QED
    BY <1>1, <2>1, <2>3 DEF Ends, Leave, Abstract!Effect, Phases
<1>3. CASE o = "isFull"
  BY <1>1, <1>2, <1>3 DEF Ends, Base, TypeOK, Abstract!IsFull, Abstract!Do
<1>4. CASE o = "readFF"
  <2>1. result = value /\ UNCHANGED <<value, full>>
    BY <1>1, <1>4 DEF Ends, Base, TypeOK
  <2>2. CASE full
    BY <1>2, <1>4, <2>1, <2>2 DEF Abstract!ReadFF, Abstract!Do
  <2>3. CASE ~full
    <3>1. t \in early
      BY <1>1, <1>4, <2>3 DEF Ends, Handed
    <3> QED BY <1>2, <1>4, <2>1, <3>1 DEF EarlyReadFF
  <2> QED BY <2>2, <2>3
<1>5. CASE o = "readXX"
  BY <1>1, <1>2, <1>5 DEF Ends, Base, TypeOK, Abstract!ReadXX, Abstract!Do
<1>6. CASE o = "writeEF"
  BY <1>1, <1>2, <1>6 DEF Ends, Abstract!WriteEF, Abstract!Do
<1> QED
  BY <1>1, <1>3, <1>4, <1>5, <1>6 DEF Ends

(* Every step of the code is a step of SyncSpec or a stutter, but for the  *)
(* readFF whose wait ended by itself.                                      *)
LEMMA AbstractStep ==
  ASSUME Asserts, Base, Handed, [Next]_vars
  PROVE  [Abstract!Next \/ \E t \in early : EarlyReadFF(t)]_(Abstract!vars)
<1> USE DEF Abstract!Next
<1>1. ASSUME NEW t \in Tasks, NEW o \in Ops, NEW a \in Args(o), Call(t, o, a)
      PROVE Abstract!Call(t, o, a) /\ a \in Abstract!Args(o)
  <2>1. Phases[t] = "idle" /\ Phases' = [Phases EXCEPT ![t] = "pending"]
    BY <1>1, PhaseMove DEF Call, Phases, Phase, Base
  <2>2. o \in Methods
    BY SingleAssumption
  <2> QED
    BY <1>1, <2>1, <2>2 DEF Call, Abstract!Call, Phases, Args, Abstract!Args,
       Abstract!Writes, Methods
<1>2. ASSUME NEW t \in Tasks, Lock(t) \/ WaitFull(t) \/ SpuriousWake(t) \/ AssertFails(t)
      PROVE UNCHANGED Abstract!vars
  <2>1. Phases' = Phases
    BY <1>2 DEF Lock, WaitFull, SpuriousWake, AssertFails, Phases, Phase, Base, TypeOK
  <2> QED
    BY <1>2, <2>1 DEF Lock, WaitFull, SpuriousWake, AssertFails, Abstract!vars, Phases
<1>3. ASSUME NEW t \in Tasks, NotifyAll(t) PROVE UNCHANGED Abstract!vars
  <2>1. Phases' = Phases
    BY <1>3 DEF NotifyAll, Phases, Phase, Base, TypeOK, WaitersAreQueued
  <2> QED
    BY <1>3, <2>1 DEF NotifyAll, Abstract!vars, Phases
<1>4. ASSUME NEW t \in Tasks, Return(t) PROVE Abstract!Return(t)
  <2>1. Phases[t] = "done" /\ Phases' = [Phases EXCEPT ![t] = "idle"]
    BY <1>4, PhaseMove DEF Return, Phases, Phase, Base
  <2> QED
    BY <1>4, <2>1 DEF Return, Abstract!Return, Phases, NoCall, Abstract!NoCall
<1>5. CASE UNCHANGED vars
  BY <1>5 DEF vars, Abstract!vars, Phase
<1> QED
  BY <1>1, <1>2, <1>3, <1>4, <1>5, AbstractBody DEF Next, Run

(* With the assertion compiled in, every method takes effect at once       *)
(* between its call and its return, in the state its comment names, but    *)
(* for a readFF whose wait ended by itself, which reads what there is.     *)
THEOREM SingleImplements ==
  ASSUME Asserts
  PROVE  Spec => ImplementsSyncSpec
<1>1. Init => Base /\ Handed  BY BaseInit
<1>2. Base /\ Handed /\ [Next]_vars => (Base /\ Handed)'  BY BaseStep, HandedStep
<1>3. Init => Abstract!Init
  BY DEF Init, Abstract!Init, NoCall, Abstract!NoCall, Phase
<1>4. Base /\ Handed /\ [Next]_vars =>
        [Abstract!Next \/ \E t \in early : EarlyReadFF(t)]_(Abstract!vars)
  BY AbstractStep
<1> QED
  BY <1>1, <1>2, <1>3, <1>4, PTL DEF Spec, ImplementsSyncSpec
=============================================================================
