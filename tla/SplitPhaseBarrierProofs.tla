---------------------- MODULE SplitPhaseBarrierProofs ----------------------
(***************************************************************************)
(* The split-phase barrier for any number of workers.  What is known of a  *)
(* sync and a single variable whatever their clients do comes from         *)
(* SyncProofs and SingleVarProofs; what these clients make of them is      *)
(* in Places (which call each worker is in), Counted (the count and its    *)
(* holder) and Gate (who opens the barrier, and who got through).          *)
(***************************************************************************)
EXTENDS SplitPhaseBarrier, Sequences, FiniteSetTheorems, TLAPS

NoCalls == [t \in Workers \cup {Main} |-> <<>>]
CountP == INSTANCE SyncProofs WITH      \* the part about SyncVar; no SyncClients
  Program <- NoCalls, todo <- NoCalls, received <- NoCalls,
  Tasks <- Workers \cup {Main}, Vals <- Workers, Default <- 0,
  Ops <- {"readFE", "writeEF", "readXX"}, TrivialMove <- TRUE, Spurious <- FALSE,
  value <- cValue, full <- cFull, mtx <- cMtx, cv_read <- cRead,
  cv_write <- cWrite, pc <- cPc, call <- cCall, ret <- cRet

ReleaseP == INSTANCE SingleVarProofs WITH
  Tasks <- Workers \cup {Main}, Vals <- {TRUE}, Default <- FALSE,
  Ops <- {"readFF", "writeEF"}, Asserts <- TRUE, Spurious <- TRUE,
  value <- rValue, full <- rFull, mtx <- rMtx, cv_write <- rWrite,
  aborted <- rAborted, pc <- rPc, call <- rCall, ret <- rRet, early <- rEarly

All == Workers \cup {Main}

(* A worker is inside a call of count or of release exactly where its      *)
(* program says, in the method and with the argument its program says.     *)
Places ==
  /\ DOMAIN at = All /\ DOMAIN myc = Workers
  /\ \A t \in Workers :
       /\ at[t] \in {"start", "taking", "early", "putting", "put", "awaiting",
                     "last", "opening", "end"}
       /\ myc[t] \in 0 .. N
       /\ cPc[t] # "idle" <=> at[t] \in {"taking", "putting"}
       /\ at[t] = "taking" => cCall[t].op = "readFE"
       /\ at[t] = "putting" => cCall[t].op = "writeEF" /\ cCall[t].arg = myc[t] - 1
       /\ rPc[t] # "idle" <=> at[t] \in {"awaiting", "opening"}
       /\ at[t] = "awaiting" => rCall[t].op = "readFF"
       /\ at[t] = "opening" => rCall[t].op = "writeEF"
       /\ at[t] \in {"early", "putting", "put", "awaiting"} => myc[t] > 1
       /\ at[t] \in {"last", "opening"} => myc[t] = 1
       /\ at[t] = "end" => myc[t] > 0
  /\ at[Main] \in {"join", "checking", "end"}
  /\ cPc[Main] # "idle" <=> at[Main] = "checking"
  /\ at[Main] = "checking" => cCall[Main].op = "readXX"
  /\ at[Main] # "join" => \A t \in Workers : at[t] = "end"
  /\ rPc[Main] = "idle"

Here == {t \in Workers : Arrived(t)}
Holder(t) == Arrived(t) /\ ~Passed(t)

(* What a worker that has arrived took out of the count.                   *)
Took(t) == IF at[t] = "taking" THEN cRet[t] ELSE myc[t]

(* The count is full and tells how many are missing, or it is empty and in *)
(* the hands of one worker, who took out what was left before it came.     *)
Counted ==
  /\ cFull => /\ cValue > 0 /\ cValue = N - Cardinality(Here)
              /\ \A t \in Workers : ~Holder(t)
  /\ ~cFull => \E h \in Workers :
                 /\ Holder(h) /\ \A t \in Workers : Holder(t) => t = h
                 /\ Took(h) = N + 1 - Cardinality(Here)
                 /\ cValue = Took(h)

(* The barrier is open when the worker that took a 1 has opened it, and    *)
(* nobody gets to its end before but those whose wait ended by itself.     *)
Opener(t) ==
  /\ myc[t] = 1
  /\ at[t] = "end" \/ (at[t] = "opening" /\ rPc[t] \in {"notify", "done"})
Gate ==
  /\ ~rAborted
  /\ rFull => \E t \in Workers : Opener(t)
  /\ \A t \in Workers :
       /\ at[t] = "end" /\ t \notin rEarly => rFull
       /\ at[t] = "opening" /\ rPc[t] \in {"notify", "done"} => rFull

(* What main's last count.readXX() returns.                                *)
Checked ==
  /\ at[Main] = "checking" /\ cPc[Main] \in {"notify", "done"} => cRet[Main] = 1
  /\ at[Main] = "end" => checked = 1

(* The barrier has no SyncClients, so their programs are as they should be. *)
LEMMA NobodyCalls == CountP!ProgramAssumption
<1> DEFINE Calls == [op : {"readFE", "writeEF", "readXX"}, arg : CountP!Values]
<1>1. <<>> \in Seq(Calls) /\ \A i \in DOMAIN <<>> : FALSE
  OBVIOUS
<1> HIDE DEF Calls
<1>2. NoCalls \in [Workers \cup {Main} -> Seq(Calls)]
  BY <1>1 DEF NoCalls
<1> QED
  BY <1>1, <1>2 DEF CountP!ProgramAssumption, NoCalls, Calls

Vars == CountP!Consistent /\ ReleaseP!Base /\ ReleaseP!Handed
-----------------------------------------------------------------------------
(* The workers that have arrived are a finite set of at most N.            *)
LEMMA HereIsFinite ==
  /\ IsFiniteSet(Here) /\ Cardinality(Here) \in 0 .. N
  /\ Cardinality(Here) = N => Here = Workers
<1>1. IsFiniteSet(Workers) /\ Cardinality(Workers) = N
  BY BarrierAssumption, FS_Interval DEF Workers
<1>2. Here \subseteq Workers
  BY DEF Here
<1> QED
  BY <1>1, <1>2, FS_Subset, FS_CardinalityType

(* One more arrival, one more worker here.                                 *)
LEMMA OneMore ==
  ASSUME NEW t \in Workers, ~Arrived(t), Arrived(t)',
         \A u \in Workers : u # t => (Arrived(u)' <=> Arrived(u))
  PROVE  Cardinality(Here') = Cardinality(Here) + 1
<1>1. Here' = Here \cup {t} /\ t \notin Here
  BY DEF Here
<1> QED
  BY <1>1, HereIsFinite, FS_AddElement

(* Who took a 1 came last.                                                 *)
LEMMA LastTookOne ==
  ASSUME Places, Counted, NEW h \in Workers, at[h] \in {"last", "opening", "end"}, myc[h] = 1
  PROVE  /\ \A u \in Workers : Arrived(u)
         /\ ~cFull /\ cValue = 1
         /\ \A u \in Workers : Holder(u) => u = h
<1>1. Holder(h) /\ Took(h) = 1
  BY DEF Holder, Arrived, Passed, Took
<1>2. ~cFull /\ Took(h) = N + 1 - Cardinality(Here) /\ cValue = Took(h)
      /\ \A u \in Workers : Holder(u) => u = h
  BY <1>1 DEF Counted
<1>3. Cardinality(Here) = N
  BY <1>1, <1>2, HereIsFinite, BarrierAssumption
<1>4. Here = Workers
  BY <1>3, HereIsFinite
<1> QED
  BY <1>1, <1>2, <1>4 DEF Here

(* A step that moves nobody past its readFE or its writeEF.                *)
LEMMA CountStays ==
  ASSUME Counted, cFull' = cFull, cValue' = cValue,
         \A t \in Workers : /\ Arrived(t)' <=> Arrived(t)
                            /\ Passed(t)' <=> Passed(t)
                            /\ Arrived(t) => Took(t)' = Took(t)
  PROVE  Counted'
<1>1. Here' = Here
  BY DEF Here
<1>2. \A t \in Workers : Holder(t)' <=> Holder(t)
  BY DEF Holder
<1>3. \A t \in Workers : Holder(t) => Took(t)' = Took(t)
  BY DEF Holder
<1>4. CASE cFull
  BY <1>1, <1>2, <1>4 DEF Counted
<1>5. CASE ~cFull
  BY <1>1, <1>2, <1>3, <1>5 DEF Counted
<1> QED
  BY <1>4, <1>5
-----------------------------------------------------------------------------
(* The steps the two variables can take, seen from here.                   *)
LEMMA CallsOfCount ==
  ASSUME Places, NEW t \in All, NEW o, NEW a, Count!Call(t, o, a),
         \/ o \in {"readFE", "readXX"} /\ a = 0
         \/ o = "writeEF" /\ a \in Workers
  PROVE  CountP!Next
<1>1. /\ CountP!Call(t, o, a) /\ a \in CountP!Args(o)
      /\ o \in {"readFE", "writeEF", "readXX"}
  BY DEF Count!Call, CountP!Call, CountP!Args, CountP!Writes
<1> QED
  BY <1>1 DEF CountP!Next, All

(* The calls of release are calls of ReleaseP's clients.                   *)
LEMMA CallsOfRelease ==
  ASSUME NEW t \in All, NEW o, NEW a, Release!Call(t, o, a),
         \/ o = "readFF" /\ a = FALSE
         \/ o = "writeEF" /\ a = TRUE
  PROVE  ReleaseP!Next
<1>1. /\ ReleaseP!Call(t, o, a) /\ a \in ReleaseP!Args(o)
      /\ o \in {"readFF", "writeEF"}
  BY DEF Release!Call, ReleaseP!Call, ReleaseP!Args
<1> QED
  BY <1>1 DEF ReleaseP!Next, All

(* What the library does in a call of count is what CountP speaks of.      *)
LEMMA RunsOfCount == ASSUME NEW t \in All, Count!Run(t) PROVE CountP!Run(t)
  BY DEF Count!Run, Count!Lock, Count!WaitFull, Count!WaitEmpty, Count!NeedsFull,
         Count!NeedsEmpty, Count!NotifyRead, Count!NotifyWrite, Count!NotifiesRead,
         Count!NotifiesWrite, Count!Woken, Count!Body, Count!IsFull, Count!Reset,
         Count!ReadFE, Count!ReadFF, Count!ReadXX, Count!WriteEF, Count!WriteFF,
         Count!WriteXF, Count!Leave, Count!AfterMove,
         CountP!Run, CountP!Lock, CountP!WaitFull, CountP!WaitEmpty, CountP!NeedsFull,
         CountP!NeedsEmpty, CountP!NotifyRead, CountP!NotifyWrite, CountP!NotifiesRead,
         CountP!NotifiesWrite, CountP!Woken, CountP!Body, CountP!IsFull, CountP!Reset,
         CountP!ReadFE, CountP!ReadFF, CountP!ReadXX, CountP!WriteEF, CountP!WriteFF,
         CountP!WriteXF, CountP!Leave, CountP!AfterMove

(* The same of release.                                                    *)
LEMMA RunsOfRelease == ASSUME NEW t \in All, Release!Run(t) PROVE ReleaseP!Run(t)
  BY DEF Release!Run, Release!Lock, Release!WaitFull, Release!AssertFails,
         Release!NotifyAll, Release!Body, Release!IsFull, Release!ReadFF,
         Release!ReadXX, Release!WriteEF, Release!Leave,
         ReleaseP!Run, ReleaseP!Lock, ReleaseP!WaitFull, ReleaseP!AssertFails,
         ReleaseP!NotifyAll, ReleaseP!Body, ReleaseP!IsFull, ReleaseP!ReadFF,
         ReleaseP!ReadXX, ReleaseP!WriteEF, ReleaseP!Leave

(* A wait that ends by itself is one of ReleaseP's too.                    *)
LEMMA WaitEndsOfRelease ==
  ASSUME NEW t \in Workers, WaitEnds(t)
  PROVE  ReleaseP!SpuriousWake(t) /\ ReleaseP!Next /\ UNCHANGED count
<1>1. ReleaseP!SpuriousWake(t) /\ UNCHANGED count
  BY DEF WaitEnds, Release!SpuriousWake, ReleaseP!SpuriousWake
<1> QED
  BY <1>1 DEF ReleaseP!Next

(* The workers and main are clients of both variables: what the two proof  *)
(* modules say of any clients is preserved here.                           *)
LEMMA VarsStep == Vars /\ Places /\ [Next]_vars => Vars'
<1> SUFFICES ASSUME Vars, Places, [Next]_vars PROVE Vars'
  OBVIOUS
<1>1. /\ CountP!Next \/ UNCHANGED CountP!vars
      /\ ReleaseP!Next \/ UNCHANGED ReleaseP!vars
  <2>1. ASSUME NEW t \in Workers, Take(t) PROVE <1>1!1 /\ <1>1!2
    BY <2>1, CallsOfCount DEF Take, CallCount, All, release, ReleaseP!vars
  <2>2. ASSUME NEW t \in Workers, PutBack(t) PROVE <1>1!1 /\ <1>1!2
    <3>1. myc[t] - 1 \in Workers
      BY <2>2, BarrierAssumption DEF PutBack, Goto, Places, Workers
    <3> QED
      BY <2>2, <3>1, CallsOfCount DEF PutBack, CallCount, All, release, ReleaseP!vars
  <2>3. CASE Join
    BY <2>3, CallsOfCount DEF Join, CallCount, All, release, ReleaseP!vars
  <2>4. ASSUME NEW t \in All, Count!Return(t), UNCHANGED release PROVE <1>1!1 /\ <1>1!2
    BY <2>4 DEF All, release, ReleaseP!vars, CountP!Next, CountP!Return, CountP!NoCall,
                Count!Return, Count!NoCall
  <2>5. ASSUME NEW t \in Workers, Await(t) \/ Open(t) PROVE <1>1!1 /\ <1>1!2
    BY <2>5, CallsOfRelease DEF Await, Open, CallRelease, All, count, CountP!vars
  <2>6. ASSUME NEW t \in Workers, ReleaseReturns(t) PROVE <1>1!1 /\ <1>1!2
    BY <2>6 DEF ReleaseReturns, All, count, CountP!vars, ReleaseP!Next, ReleaseP!Return,
                ReleaseP!NoCall, Release!Return, Release!NoCall
  <2>7. ASSUME NEW t \in All, Library(t) PROVE <1>1!1 /\ <1>1!2
    BY <2>7, RunsOfCount, RunsOfRelease
    DEF Library, All, count, release, CountP!vars, ReleaseP!vars, CountP!Next, ReleaseP!Next
  <2>8. ASSUME NEW t \in Workers, WaitEnds(t) PROVE <1>1!1 /\ <1>1!2
    BY <2>8, WaitEndsOfRelease DEF count, CountP!vars
  <2>9. CASE UNCHANGED vars
    BY <2>9 DEF vars, count, release, CountP!vars, ReleaseP!vars
  <2>10. Main \in All /\ Workers \subseteq All
    BY DEF All
  <2> QED
    BY <2>1, <2>2, <2>3, <2>4, <2>5, <2>6, <2>7, <2>8, <2>9, <2>10
    DEF Next, Worker, Taken, Put, Awaited, Opened, Check, Ended, All
<1>2. NoTask \notin Workers \cup {Main}
  BY BarrierAssumption DEF Workers, Main
<1>3. CountP!Consistent'
  BY <1>1, <1>2, NobodyCalls, CountP!ConsistentStep DEF CountP!SyncAssumption, CountP!Methods, Vars
<1>4. ReleaseP!Base' /\ ReleaseP!Handed'
  BY <1>1, <1>2, ReleaseP!BaseStep, ReleaseP!HandedStep
  DEF ReleaseP!SingleAssumption, ReleaseP!Methods, Vars
<1> QED
  BY <1>3, <1>4 DEF Vars
-----------------------------------------------------------------------------
(* Past the end of its critical section.                                   *)
Past == {"notify", "done"}

(* What the library does in a call of count: it moves a task on, or it is  *)
(* one of the three bodies.                                                *)
CountMoves ==
  /\ UNCHANGED <<cValue, cFull, cCall, cRet>>
  /\ \A u \in All : /\ cPc'[u] = "idle" <=> cPc[u] = "idle"
                    /\ cPc'[u] \in Past <=> cPc[u] \in Past
CountEnds(t, result) ==
  /\ UNCHANGED cCall /\ cPc[t] = "held" /\ cPc'[t] \in Past
  /\ \A u \in All : u # t => cPc'[u] = cPc[u] /\ cRet'[u] = cRet[u]
  /\ cRet'[t] = result

(* What each of the three bodies of count does, and in which place of the  *)
(* program it can be.                                                      *)
LEMMA CountSteps ==
  ASSUME Vars, Places, NEW t \in All, Count!Run(t)
  PROVE  \/ CountMoves
         \/ /\ t \in Workers /\ at[t] = "taking" /\ CountEnds(t, cValue)
            /\ cFull /\ cFull' = FALSE /\ cValue' = cValue
         \/ /\ t \in Workers /\ at[t] = "putting" /\ CountEnds(t, 0)
            /\ ~cFull /\ cFull' = TRUE /\ cValue' = cCall[t].arg
         \/ /\ t = Main /\ at[t] = "checking" /\ CountEnds(t, cValue)
            /\ UNCHANGED <<cFull, cValue>>
<1>1. /\ cPc \in [All -> {"idle", "lock", "held", "wait", "notify", "done"}]
      /\ DOMAIN cRet = All
      /\ \A u \in All : cCall[u].op \in {"readFE", "writeEF", "readXX", "none"}
      /\ \A u \in cRead \cup cWrite : u \in All /\ cPc[u] = "wait"
  BY DEF Vars, CountP!Consistent, CountP!TypeOK, CountP!WaitersAreQueued, All
<1>2. cPc[t] # "idle" =>
        \/ t \in Workers /\ at[t] = "taking" /\ cCall[t].op = "readFE"
        \/ t \in Workers /\ at[t] = "putting" /\ cCall[t].op = "writeEF"
        \/ t = Main /\ at[t] = "checking" /\ cCall[t].op = "readXX"
  BY DEF Places, All
<1>3. CASE Count!Lock(t) \/ Count!WaitFull(t) \/ Count!WaitEmpty(t)
  BY <1>1, <1>3 DEF Count!Lock, Count!WaitFull, Count!WaitEmpty, CountMoves, Past
<1>4. CASE Count!NotifyRead(t) \/ Count!NotifyWrite(t)
  BY <1>1, <1>4 DEF Count!NotifyRead, Count!NotifyWrite, Count!Woken, CountMoves, Past
<1>5. ASSUME NEW o, NEW result, Count!Leave(t, o, result)
      PROVE  CountEnds(t, result) /\ cCall[t].op = o
  BY <1>1, <1>5 DEF Count!Leave, CountEnds, Past
<1>6. CASE Count!ReadFE(t)
  <2>1. Count!Leave(t, "readFE", cValue) /\ cFull /\ cFull' = FALSE /\ cValue' = cValue
    BY <1>6 DEF Count!ReadFE, Count!AfterMove
  <2>2. CountEnds(t, cValue) /\ cCall[t].op = "readFE"
    BY <1>5, <2>1
  <2>3. t \in Workers /\ at[t] = "taking"
    BY <1>2, <2>2 DEF CountEnds
  <2> QED
    BY <2>1, <2>2, <2>3
<1>7. CASE Count!WriteEF(t)
  <2>1. Count!Leave(t, "writeEF", 0) /\ ~cFull /\ cFull' = TRUE /\ cValue' = cCall[t].arg
    BY <1>7 DEF Count!WriteEF
  <2>2. CountEnds(t, 0) /\ cCall[t].op = "writeEF"
    BY <1>5, <2>1
  <2>3. t \in Workers /\ at[t] = "putting"
    BY <1>2, <2>2 DEF CountEnds
  <2> QED
    BY <2>1, <2>2, <2>3
<1>8. CASE Count!ReadXX(t)
  <2>1. Count!Leave(t, "readXX", cValue) /\ UNCHANGED <<cFull, cValue>>
    BY <1>8 DEF Count!ReadXX
  <2> QED
    BY <1>2, <1>5, <2>1 DEF CountEnds
<1>9. ~(Count!IsFull(t) \/ Count!Reset(t) \/ Count!ReadFF(t) \/ Count!WriteFF(t)
          \/ Count!WriteXF(t))
  BY <1>1 DEF Count!IsFull, Count!Reset, Count!ReadFF, Count!WriteFF, Count!WriteXF,
              Count!Leave
<1> QED
  BY <1>3, <1>4, <1>6, <1>7, <1>8, <1>9 DEF Count!Run, Count!Body

(* The same of release: a step of the library moves a task on, opens the   *)
(* barrier or fails the assertion of writeEF.                              *)
LEMMA ReleaseSteps ==
  ASSUME Vars, Places, NEW t \in All, Release!Run(t)
  PROVE  /\ UNCHANGED <<rCall, rEarly>>
         /\ \A u \in All : rPc'[u] = "idle" <=> rPc[u] = "idle"
         /\ \/ /\ UNCHANGED <<rFull, rAborted>>
               /\ \A u \in Workers :
                    at[u] = "opening" => (rPc'[u] \in Past <=> rPc[u] \in Past)
            \/ /\ t \in Workers /\ at[t] = "opening" /\ rPc'[t] \in Past
               /\ ~rFull /\ rFull' = TRUE /\ UNCHANGED rAborted
               /\ \A u \in Workers : u # t => rPc'[u] = rPc[u]
            \/ t \in Workers /\ at[t] = "opening" /\ rPc[t] = "held" /\ rFull
<1>1. /\ rPc \in [All -> {"idle", "lock", "held", "wait", "woken", "resumed", "notify", "done"}]
      /\ \A u \in All : rCall[u].op \in {"readFF", "writeEF", "none"}
      /\ \A u \in rWrite : u \in All /\ rPc[u] = "wait"
      /\ \A u \in All : rPc[u] = "wait" => rCall[u].op = "readFF"
  BY DEF Vars, ReleaseP!Base, ReleaseP!TypeOK, ReleaseP!WaitersAreQueued, All
<1>2. rPc[t] # "idle" =>
        \/ t \in Workers /\ at[t] = "awaiting" /\ rCall[t].op = "readFF"
        \/ t \in Workers /\ at[t] = "opening" /\ rCall[t].op = "writeEF"
  BY DEF Places, All
<1>3. CASE Release!Lock(t) \/ Release!WaitFull(t)
  BY <1>1, <1>3 DEF Release!Lock, Release!WaitFull, Past, All
<1>4. CASE Release!NotifyAll(t)
  BY <1>1, <1>4 DEF Release!NotifyAll, Past, All
<1>5. CASE Release!ReadFF(t)
  BY <1>1, <1>2, <1>5 DEF Release!ReadFF, Release!Leave, Past, All
<1>6. CASE Release!WriteEF(t)
  BY <1>1, <1>2, <1>6 DEF Release!WriteEF, Release!Leave, Past, All
<1>7. CASE Release!AssertFails(t)
  BY <1>1, <1>2, <1>7 DEF Release!AssertFails, Past, All
<1>8. ~(Release!IsFull(t) \/ Release!ReadXX(t))
  BY <1>1 DEF Release!IsFull, Release!ReadXX, Release!Leave
<1> QED
  BY <1>3, <1>4, <1>5, <1>6, <1>7, <1>8 DEF Release!Run, Release!Body
-----------------------------------------------------------------------------
Inv == Places /\ Counted /\ Gate /\ Checked

(* A step of count in a call keeps the invariant: a readFE brings a worker *)
(* here and makes it the holder, a writeEF lets the holder pass.           *)
LEMMA CountKeeps ==
  ASSUME Vars, Inv, NEW t \in All, Count!Run(t), UNCHANGED <<release, at, myc, checked>>
  PROVE  Inv'
<1>0. /\ Main \notin Workers /\ Workers \subseteq All /\ Main \in All
      /\ Places /\ Counted /\ Gate /\ Checked
      /\ UNCHANGED <<at, myc, checked, rFull, rPc, rCall, rAborted, rEarly>>
  BY DEF Inv, Workers, Main, All, release
<1>1. \/ CountMoves
      \/ /\ t \in Workers /\ at[t] = "taking" /\ CountEnds(t, cValue)
         /\ cFull /\ cFull' = FALSE /\ cValue' = cValue
      \/ /\ t \in Workers /\ at[t] = "putting" /\ CountEnds(t, 0)
         /\ ~cFull /\ cFull' = TRUE /\ cValue' = cCall[t].arg
      \/ /\ t = Main /\ at[t] = "checking" /\ CountEnds(t, cValue)
         /\ UNCHANGED <<cFull, cValue>>
  BY <1>0, CountSteps
<1>2. Gate'
  BY <1>0 DEF Gate, Opener
<1>3. Places'
  BY <1>0, <1>1 DEF Places, CountMoves, CountEnds, Past
<1>4. CASE CountMoves
  <2>1. Counted'
    BY <1>0, <1>4, CountStays DEF CountMoves, Past, Arrived, Passed, Took
  <2>2. Checked'
    BY <1>0, <1>4 DEF CountMoves, Past, Checked
  <2> QED
    BY <1>2, <1>3, <2>1, <2>2 DEF Inv
<1>5. CASE /\ t \in Workers /\ at[t] = "taking" /\ CountEnds(t, cValue)
           /\ cFull /\ cFull' = FALSE /\ cValue' = cValue
  <2>1. /\ ~Arrived(t) /\ Arrived(t)' /\ ~Passed(t)'
        /\ \A u \in Workers : u # t =>
             (Arrived(u)' <=> Arrived(u)) /\ (Passed(u)' <=> Passed(u))
    BY <1>0, <1>5 DEF CountEnds, Past, Arrived, Passed
  <2>2. Cardinality(Here') = Cardinality(Here) + 1
    BY <1>5, <2>1, OneMore
  <2>3. /\ cValue = N - Cardinality(Here) /\ cValue > 0
        /\ \A u \in Workers : ~Holder(u)
    BY <1>0, <1>5 DEF Counted
  <2>4. Holder(t)' /\ \A u \in Workers : Holder(u)' => u = t
    BY <2>1, <2>3 DEF Holder
  <2>5. Took(t)' = cValue
    BY <1>0, <1>5 DEF Took, CountEnds
  <2>6. cValue = N + 1 - Cardinality(Here)'
    BY <2>2, <2>3, HereIsFinite, BarrierAssumption
  <2>7. Counted'
    BY <1>5, <2>4, <2>5, <2>6 DEF Counted
  <2>8. Checked'
    BY <1>0, <1>5 DEF Checked, CountEnds
  <2> QED
    BY <1>2, <1>3, <2>7, <2>8 DEF Inv
<1>6. CASE /\ t \in Workers /\ at[t] = "putting" /\ CountEnds(t, 0)
           /\ ~cFull /\ cFull' = TRUE /\ cValue' = cCall[t].arg
  <2>1. /\ Holder(t) /\ Took(t) = myc[t] /\ Passed(t)'
        /\ \A u \in Workers : /\ Arrived(u)' <=> Arrived(u)
                              /\ u # t => (Passed(u)' <=> Passed(u))
    BY <1>0, <1>6 DEF CountEnds, Past, Arrived, Passed, Holder, Took
  <2>2. /\ \A u \in Workers : Holder(u) => u = t
        /\ myc[t] = N + 1 - Cardinality(Here)
    BY <1>0, <1>6, <2>1 DEF Counted
  <2>3. \A u \in Workers : ~Holder(u)'
    BY <2>1, <2>2 DEF Holder
  <2>4. Here' = Here
    BY <2>1 DEF Here
  <2>5. cValue' = myc[t] - 1 /\ myc[t] > 1 /\ myc[t] \in 0 .. N
    BY <1>0, <1>6 DEF Places
  <2>6. cValue' > 0 /\ cValue' = N - Cardinality(Here)'
    BY <2>2, <2>4, <2>5, HereIsFinite, BarrierAssumption
  <2>7. Counted'
    BY <1>6, <2>3, <2>6 DEF Counted
  <2>8. Checked'
    BY <1>0, <1>6 DEF Checked, CountEnds
  <2> QED
    BY <1>2, <1>3, <2>7, <2>8 DEF Inv
<1>7. CASE /\ t = Main /\ at[t] = "checking" /\ CountEnds(t, cValue)
           /\ UNCHANGED <<cFull, cValue>>
  <2>1. Counted'
    BY <1>0, <1>7, CountStays DEF CountEnds, Arrived, Passed, Took
  <2>2. cValue = 1
    <3>1. 1 \in Workers /\ \A u \in Workers : Holder(u) => at[u] = "end" /\ myc[u] = 1
      BY <1>0, <1>7, BarrierAssumption DEF Places, Workers, Holder, Arrived, Passed
    <3>2. \E h \in Workers : Holder(h)
      <4>1. CASE cFull
        <5>1. Here = Workers
          BY <1>0, <1>7 DEF Places, Here, Arrived
        <5>2. Cardinality(Here) = N
          BY <5>1, BarrierAssumption, FS_Interval DEF Workers
        <5> QED
          BY <1>0, <4>1, <5>2, BarrierAssumption DEF Counted
      <4>2. CASE ~cFull
        BY <1>0, <4>2 DEF Counted
      <4> QED
        BY <4>1, <4>2
    <3> QED
      BY <1>0, <3>1, <3>2, LastTookOne
  <2>3. Checked'
    BY <1>0, <1>7, <2>2 DEF Checked, CountEnds
  <2> QED
    BY <1>2, <1>3, <2>1, <2>3 DEF Inv
<1> QED
  BY <1>1, <1>4, <1>5, <1>6, <1>7

(* A step of release in a call keeps the invariant: the worker that opens  *)
(* is the last holder of the count, so that no other has opened before it. *)
LEMMA ReleaseKeeps ==
  ASSUME Vars, Inv, NEW t \in All, Release!Run(t), UNCHANGED <<count, at, myc, checked>>
  PROVE  Inv'
<1>0. /\ Main \notin Workers /\ Workers \subseteq All /\ Main \in All
      /\ Places /\ Counted /\ Gate /\ Checked
      /\ UNCHANGED <<at, myc, checked, cValue, cFull, cPc, cCall, cRet>>
  BY DEF Inv, Workers, Main, All, count
<1>1. /\ UNCHANGED <<rCall, rEarly>>
      /\ \A u \in All : rPc'[u] = "idle" <=> rPc[u] = "idle"
      /\ \/ /\ UNCHANGED <<rFull, rAborted>>
            /\ \A u \in Workers :
                 at[u] = "opening" => (rPc'[u] \in Past <=> rPc[u] \in Past)
         \/ /\ t \in Workers /\ at[t] = "opening" /\ rPc'[t] \in Past
            /\ ~rFull /\ rFull' = TRUE /\ UNCHANGED rAborted
            /\ \A u \in Workers : u # t => rPc'[u] = rPc[u]
         \/ t \in Workers /\ at[t] = "opening" /\ rPc[t] = "held" /\ rFull
  BY <1>0, ReleaseSteps
<1>2. Places'
  BY <1>0, <1>1 DEF Places
<1>3. Counted'
  BY <1>0, CountStays DEF Arrived, Passed, Took
<1>4. Checked'
  BY <1>0 DEF Checked
<1>5. ~(t \in Workers /\ at[t] = "opening" /\ rPc[t] = "held" /\ rFull)
  <2> SUFFICES ASSUME t \in Workers, at[t] = "opening", rPc[t] = "held", rFull PROVE FALSE
    OBVIOUS
  <2>1. PICK h \in Workers : Opener(h)
    BY <1>0 DEF Gate
  <2>2. myc[t] = 1 /\ Holder(t) /\ Holder(h)
    BY <1>0, <2>1 DEF Places, Opener, Holder, Arrived, Passed
  <2>3. t = h
    BY <1>0, <2>2, LastTookOne
  <2> QED
    BY <2>1, <2>3 DEF Opener
<1>6. Gate'
  <2>1. CASE /\ UNCHANGED <<rFull, rAborted>>
             /\ \A u \in Workers :
                  at[u] = "opening" => (rPc'[u] \in Past <=> rPc[u] \in Past)
    BY <1>0, <1>1, <2>1 DEF Gate, Opener, Past
  <2>2. CASE /\ t \in Workers /\ at[t] = "opening" /\ rPc'[t] \in Past
             /\ ~rFull /\ rFull' = TRUE /\ UNCHANGED rAborted
    <3>1. Opener(t)'
      BY <1>0, <2>2 DEF Places, Opener, Past
    <3> QED
      BY <1>0, <2>2, <3>1 DEF Gate
  <2> QED
    BY <1>1, <1>5, <2>1, <2>2
<1> QED
  BY <1>2, <1>3, <1>4, <1>6 DEF Inv

(* The calls and the returns of the workers keep the invariant.            *)
LEMMA WorkerKeeps ==
  ASSUME Vars, Inv, NEW t \in Workers, Worker(t)
  PROVE  Inv'
<1>0. /\ Main \notin Workers /\ Workers \subseteq All /\ Main \in All
      /\ Places /\ Counted /\ Gate /\ Checked
      /\ cPc \in [All -> {"idle", "lock", "held", "wait", "notify", "done"}]
      /\ DOMAIN cCall = All /\ DOMAIN cRet = All
      /\ DOMAIN rCall = All /\ DOMAIN rPc = All
      /\ \A u \in All : rPc[u] = "done" /\ rCall[u].op = "readFF" /\ u \notin rEarly => rFull
  BY DEF Inv, Vars, Workers, Main, All, CountP!Consistent, CountP!TypeOK,
         ReleaseP!Base, ReleaseP!TypeOK, ReleaseP!Handed
<1>1. ASSUME NEW from, NEW to, Goto(t, from, to)
      PROVE  at[t] = from /\ at'[t] = to /\ (\A u \in All : u # t => at'[u] = at[u])
             /\ DOMAIN at' = All
  BY <1>0, <1>1 DEF Goto, Places
<1>2. CASE Take(t)
  <2>1. /\ at[t] = "start" /\ at'[t] = "taking" /\ UNCHANGED <<myc, checked, release>>
        /\ DOMAIN at' = All
        /\ cPc[t] = "idle" /\ cPc'[t] = "lock" /\ UNCHANGED <<cFull, cValue>>
        /\ cCall'[t].op = "readFE"
        /\ \A u \in All : u # t => /\ at'[u] = at[u] /\ cPc'[u] = cPc[u]
                               /\ cCall'[u] = cCall[u] /\ cRet'[u] = cRet[u]
    BY <1>0, <1>2 DEF Take, Goto, CallCount, Count!Call, Places
  <2>2. Places'
    BY <1>0, <2>1 DEF Places, release
  <2>3. Counted'
    BY <1>0, <2>1, CountStays DEF Places, Arrived, Passed, Took, release
  <2>4. Gate'
    BY <1>0, <2>1 DEF Places, Gate, Opener, release
  <2>5. Checked'
    BY <1>0, <2>1 DEF Checked, release
  <2> QED
    BY <2>2, <2>3, <2>4, <2>5 DEF Inv
<1>3. CASE Taken(t)
  <2>1. /\ at[t] = "taking" /\ at'[t] = IF cRet[t] # 1 THEN "early" ELSE "last"
        /\ myc' = [myc EXCEPT ![t] = cRet[t]] /\ UNCHANGED <<checked, release>>
        /\ DOMAIN at' = All
        /\ cPc[t] = "done" /\ cPc'[t] = "idle" /\ UNCHANGED <<cFull, cValue>>
        /\ \A u \in All : u # t => /\ at'[u] = at[u] /\ cPc'[u] = cPc[u]
                               /\ cCall'[u] = cCall[u] /\ cRet'[u] = cRet[u]
    BY <1>0, <1>3 DEF Taken, Goto, Count!Return, Count!NoCall, Places
  <2>2. Places'
    <3>1. Holder(t) /\ Took(t) = cRet[t]
      BY <2>1 DEF Holder, Arrived, Passed, Took
    <3>2. cRet[t] = N + 1 - Cardinality(Here)
      BY <1>0, <3>1 DEF Counted
    <3>3. Cardinality(Here) # 0
      BY <3>1, HereIsFinite, FS_EmptySet DEF Holder, Here
    <3>4. cRet[t] \in 1 .. N
      BY <3>2, <3>3, HereIsFinite, BarrierAssumption
    <3> QED
      BY <1>0, <2>1, <3>4 DEF Places, release
  <2>3. Counted'
    BY <1>0, <2>1, CountStays DEF Places, Arrived, Passed, Took, release
  <2>4. Gate'
    BY <1>0, <2>1 DEF Places, Gate, Opener, release
  <2>5. Checked'
    BY <1>0, <2>1 DEF Checked, release
  <2> QED
    BY <2>2, <2>3, <2>4, <2>5 DEF Inv
<1>4. CASE PutBack(t)
  <2>1. /\ at[t] = "early" /\ at'[t] = "putting" /\ UNCHANGED <<myc, checked, release>>
        /\ DOMAIN at' = All
        /\ cPc[t] = "idle" /\ cPc'[t] = "lock" /\ UNCHANGED <<cFull, cValue>>
        /\ cCall'[t].op = "writeEF" /\ cCall'[t].arg = myc[t] - 1
        /\ \A u \in All : u # t => /\ at'[u] = at[u] /\ cPc'[u] = cPc[u]
                               /\ cCall'[u] = cCall[u] /\ cRet'[u] = cRet[u]
    BY <1>0, <1>4 DEF PutBack, Goto, CallCount, Count!Call, Places
  <2>2. Places'
    BY <1>0, <2>1 DEF Places, release
  <2>3. Counted'
    BY <1>0, <2>1, CountStays DEF Places, Arrived, Passed, Took, release
  <2>4. Gate'
    BY <1>0, <2>1 DEF Places, Gate, Opener, release
  <2>5. Checked'
    BY <1>0, <2>1 DEF Checked, release
  <2> QED
    BY <2>2, <2>3, <2>4, <2>5 DEF Inv
<1>5. CASE Put(t)
  <2>1. /\ at[t] = "putting" /\ at'[t] = "put" /\ UNCHANGED <<myc, checked, release>>
        /\ DOMAIN at' = All
        /\ cPc[t] = "done" /\ cPc'[t] = "idle" /\ UNCHANGED <<cFull, cValue>>
        /\ \A u \in All : u # t => /\ at'[u] = at[u] /\ cPc'[u] = cPc[u]
                               /\ cCall'[u] = cCall[u] /\ cRet'[u] = cRet[u]
    BY <1>0, <1>5 DEF Put, Goto, Count!Return, Count!NoCall, Places
  <2>2. Places'
    BY <1>0, <2>1 DEF Places, release
  <2>3. Counted'
    BY <1>0, <2>1, CountStays DEF Places, Arrived, Passed, Took, release
  <2>4. Gate'
    BY <1>0, <2>1 DEF Places, Gate, Opener, release
  <2>5. Checked'
    BY <1>0, <2>1 DEF Checked, release
  <2> QED
    BY <2>2, <2>3, <2>4, <2>5 DEF Inv
<1>6. CASE Await(t)
  <2>1. /\ at[t] = "put" /\ at'[t] = "awaiting" /\ UNCHANGED <<myc, checked, count>>
        /\ DOMAIN at' = All
        /\ rPc[t] = "idle" /\ rPc'[t] = "lock" /\ UNCHANGED <<rFull, rValue, rAborted>>
        /\ rEarly' = rEarly \ {t}
        /\ rCall'[t].op = "readFF"
        /\ \A u \in All : u # t => /\ at'[u] = at[u] /\ rPc'[u] = rPc[u]
                               /\ rCall'[u] = rCall[u]
    BY <1>0, <1>6 DEF Await, Goto, CallRelease, Release!Call, Places
  <2>2. Places'
    BY <1>0, <2>1 DEF Places, count
  <2>3. Counted'
    BY <1>0, <2>1, CountStays DEF Places, Arrived, Passed, Took, count
  <2>4. Gate'
    BY <1>0, <2>1 DEF Places, Gate, Opener, count
  <2>5. Checked'
    BY <1>0, <2>1 DEF Checked, count
  <2> QED
    BY <2>2, <2>3, <2>4, <2>5 DEF Inv
<1>7. CASE Awaited(t)
  <2>1. /\ at[t] = "awaiting" /\ at'[t] = "end" /\ UNCHANGED <<myc, checked, count>>
        /\ DOMAIN at' = All
        /\ rPc[t] = "done" /\ rPc'[t] = "idle" /\ UNCHANGED <<rFull, rValue, rAborted, rEarly>>
        /\ \A u \in All : u # t => /\ at'[u] = at[u] /\ rPc'[u] = rPc[u]
                               /\ rCall'[u] = rCall[u]
    BY <1>0, <1>7 DEF Awaited, Goto, ReleaseReturns, Release!Return, Release!NoCall, Places
  <2>2. Places'
    BY <1>0, <2>1 DEF Places, count
  <2>3. Counted'
    BY <1>0, <2>1, CountStays DEF Places, Arrived, Passed, Took, count
  <2>4. Gate'
    BY <1>0, <2>1 DEF Places, Gate, Opener, count
  <2>5. Checked'
    BY <1>0, <2>1 DEF Checked, count
  <2> QED
    BY <2>2, <2>3, <2>4, <2>5 DEF Inv
<1>8. CASE Open(t)
  <2>1. /\ at[t] = "last" /\ at'[t] = "opening" /\ UNCHANGED <<myc, checked, count>>
        /\ DOMAIN at' = All
        /\ rPc[t] = "idle" /\ rPc'[t] = "lock" /\ UNCHANGED <<rFull, rValue, rAborted>>
        /\ rEarly' = rEarly \ {t}
        /\ rCall'[t].op = "writeEF"
        /\ \A u \in All : u # t => /\ at'[u] = at[u] /\ rPc'[u] = rPc[u]
                               /\ rCall'[u] = rCall[u]
    BY <1>0, <1>8 DEF Open, Goto, CallRelease, Release!Call, Places
  <2>2. Places'
    BY <1>0, <2>1 DEF Places, count
  <2>3. Counted'
    BY <1>0, <2>1, CountStays DEF Places, Arrived, Passed, Took, count
  <2>4. Gate'
    BY <1>0, <2>1 DEF Places, Gate, Opener, count
  <2>5. Checked'
    BY <1>0, <2>1 DEF Checked, count
  <2> QED
    BY <2>2, <2>3, <2>4, <2>5 DEF Inv
<1>9. CASE Opened(t)
  <2>1. /\ at[t] = "opening" /\ at'[t] = "end" /\ UNCHANGED <<myc, checked, count>>
        /\ DOMAIN at' = All
        /\ rPc[t] = "done" /\ rPc'[t] = "idle" /\ UNCHANGED <<rFull, rValue, rAborted, rEarly>>
        /\ \A u \in All : u # t => /\ at'[u] = at[u] /\ rPc'[u] = rPc[u]
                               /\ rCall'[u] = rCall[u]
    BY <1>0, <1>9 DEF Opened, Goto, ReleaseReturns, Release!Return, Release!NoCall, Places
  <2>2. Places'
    BY <1>0, <2>1 DEF Places, count
  <2>3. Counted'
    BY <1>0, <2>1, CountStays DEF Places, Arrived, Passed, Took, count
  <2>4. Gate'
    BY <1>0, <2>1 DEF Places, Gate, Opener, count
  <2>5. Checked'
    BY <1>0, <2>1 DEF Checked, count
  <2> QED
    BY <2>2, <2>3, <2>4, <2>5 DEF Inv
<1> QED
  BY <1>2, <1>3, <1>4, <1>5, <1>6, <1>7, <1>8, <1>9 DEF Worker

(* So does the end of a wait: the worker it ends for has not got through.  *)
LEMMA WaitEndsKeeps ==
  ASSUME Vars, Inv, NEW t \in Workers, WaitEnds(t)
  PROVE  Inv'
<1>1. /\ rPc[t] = "wait" /\ rPc'[t] = "woken" /\ rEarly' = rEarly \cup {t}
      /\ \A u \in All : u # t => rPc'[u] = rPc[u]
      /\ UNCHANGED <<at, myc, checked, count, rFull, rAborted, rCall>>
      /\ t \in All /\ Main \notin Workers
  BY WaitEndsOfRelease
  DEF ReleaseP!SpuriousWake, WaitEnds, Vars, ReleaseP!Base, ReleaseP!TypeOK, All, Workers, Main
<1>2. Places'
  BY <1>1 DEF Inv, Places, All, count
<1>3. Counted'
  BY <1>1, CountStays DEF Inv, Arrived, Passed, Took, count
<1>4. Gate'
  BY <1>1 DEF Inv, Gate, Opener, All
<1>5. Checked'
  BY <1>1 DEF Inv, Checked, count
<1> QED
  BY <1>2, <1>3, <1>4, <1>5 DEF Inv

(* So do the steps of main.                                                *)
LEMMA MainKeeps ==
  ASSUME Vars, Inv, Join \/ Check
  PROVE  Inv'
<1>0. /\ Main \notin Workers /\ Workers \subseteq All /\ Main \in All
      /\ Places /\ Counted /\ Gate /\ Checked
      /\ DOMAIN cPc = All /\ DOMAIN cCall = All /\ DOMAIN cRet = All
  BY DEF Inv, Vars, Workers, Main, All, CountP!Consistent, CountP!TypeOK
<1>1. /\ UNCHANGED <<myc, release, cFull, cValue>> /\ DOMAIN at' = All
      /\ \A u \in Workers : /\ at'[u] = at[u] /\ cPc'[u] = cPc[u]
                            /\ cCall'[u] = cCall[u] /\ cRet'[u] = cRet[u]
  BY <1>0 DEF Join, Check, Goto, CallCount, Count!Call, Count!Return, Count!NoCall, Places
<1>2. Counted'
  BY <1>0, <1>1, CountStays DEF Arrived, Passed, Took
<1>3. Gate'
  BY <1>0, <1>1 DEF Gate, Opener, release
<1>4. CASE Join
  <2>1. /\ at'[Main] = "checking" /\ \A u \in Workers : at[u] = "end"
        /\ cPc'[Main] = "lock" /\ cCall'[Main].op = "readXX"
    BY <1>0, <1>4 DEF Join, Goto, CallCount, Count!Call, Places
  <2>2. Places'
    BY <1>0, <1>1, <2>1 DEF Places, release
  <2>3. Checked'
    BY <2>1 DEF Checked
  <2> QED
    BY <1>2, <1>3, <2>2, <2>3 DEF Inv
<1>5. CASE Check
  <2>1. /\ at[Main] = "checking" /\ at'[Main] = "end"
        /\ cPc[Main] = "done" /\ cPc'[Main] = "idle" /\ checked' = cRet[Main]
    BY <1>0, <1>5 DEF Check, Goto, Count!Return, Places
  <2>2. Places'
    BY <1>0, <1>1, <2>1 DEF Places, release
  <2>3. Checked'
    BY <1>0, <2>1 DEF Checked
  <2> QED
    BY <1>2, <1>3, <2>2, <2>3 DEF Inv
<1> QED
  BY <1>4, <1>5

(* The invariant holds at the start, when the count is full and nobody has *)
(* arrived.                                                                *)
LEMMA InvInit == Init => Vars /\ Inv
<1> SUFFICES ASSUME Init PROVE Vars /\ Inv
  OBVIOUS
<1>0. /\ Main \notin Workers /\ Main \in All /\ Workers \subseteq All
      /\ NoTask \notin Workers \cup {Main}
  BY BarrierAssumption DEF Workers, Main, All
<1>1. CountP!Init /\ ReleaseP!Init
  BY DEF Init, Count!Init, Count!NoCall, CountP!Init, CountP!NoCall,
         Release!Init, Release!NoCall, ReleaseP!Init, ReleaseP!NoCall
<1>2. Vars
  BY <1>0, <1>1, NobodyCalls, CountP!ConsistentInit, ReleaseP!BaseInit
  DEF CountP!SyncAssumption, CountP!Methods, ReleaseP!SingleAssumption, ReleaseP!Methods, Vars
<1>3. /\ at = [t \in All |-> IF t = Main THEN "join" ELSE "start"]
      /\ myc = [t \in Workers |-> 0]
      /\ cPc = [t \in All |-> "idle"] /\ rPc = [t \in All |-> "idle"]
      /\ cFull /\ cValue = N /\ ~rFull /\ ~rAborted
  BY DEF Init, All, Count!Init, Release!Init
<1>4. Places
  BY <1>0, <1>3, BarrierAssumption DEF Places
<1>5. Counted
  <2>1. \A t \in Workers : ~Arrived(t)
    BY <1>0, <1>3 DEF Arrived
  <2>2. Here = {}
    BY <2>1 DEF Here
  <2>3. Cardinality(Here) = 0
    BY <2>2, FS_EmptySet
  <2> QED
    BY <1>3, <2>1, <2>3, BarrierAssumption DEF Counted, Holder
<1>6. Gate /\ Checked
  BY <1>0, <1>3 DEF Gate, Checked
<1> QED
  BY <1>2, <1>4, <1>5, <1>6 DEF Inv

(* And it is kept by every step.                                           *)
LEMMA InvStep == Vars /\ Inv /\ [Next]_vars => Vars' /\ Inv'
<1> SUFFICES ASSUME Vars, Inv, [Next]_vars PROVE Inv'
  BY VarsStep DEF Inv
<1>1. ASSUME NEW t \in All, Library(t) PROVE Inv'
  <2>1. UNCHANGED <<at, myc, checked>>
    BY <1>1 DEF Library
  <2>2. CASE Count!Run(t) /\ UNCHANGED release
    BY <2>1, <2>2, CountKeeps
  <2>3. CASE Release!Run(t) /\ UNCHANGED count
    BY <2>1, <2>3, ReleaseKeeps
  <2> QED
    BY <1>1, <2>2, <2>3 DEF Library
<1>2. CASE UNCHANGED vars
  <2>1. Counted'
    BY <1>2, CountStays DEF Inv, vars, count, release, Arrived, Passed, Took
  <2>2. Places' /\ Gate' /\ Checked'
    BY <1>2 DEF Inv, vars, count, release, Places, Gate, Opener, Checked
  <2> QED
    BY <2>1, <2>2 DEF Inv
<1> QED
  BY <1>1, <1>2, WorkerKeeps, WaitEndsKeeps, MainKeeps DEF Next, Ended, All
-----------------------------------------------------------------------------
(* Throughout, for any number of workers: the inductive invariant.         *)
THEOREM BarrierInvariant == Spec => [](Vars /\ Inv)
<1> QED
  BY InvInit, InvStep, PTL DEF Spec

(* The count is always one of two things: full, and the number of workers  *)
(* that are missing; or empty, and one worker has it.                      *)
THEOREM CountLocks == Spec => []CountIsALock
<1>1. Counted => CountIsALock
  <2> SUFFICES ASSUME Counted PROVE CountIsALock
    OBVIOUS
  <2> DEFINE holders == {t \in Workers : Arrived(t) /\ ~Passed(t)}
  <2>1. holders = {t \in Workers : Holder(t)} /\ Here = {t \in Workers : Arrived(t)}
    BY DEF Holder, Here
  <2>2. ASSUME cFull PROVE holders = {} /\ cValue = N - Cardinality(Here)
    BY <2>1, <2>2 DEF Counted
  <2>3. ASSUME ~cFull PROVE Cardinality(holders) = 1
    <3>1. PICK h \in Workers : Holder(h) /\ \A t \in Workers : Holder(t) => t = h
      BY <2>3 DEF Counted
    <3>2. holders = {h}
      BY <2>1, <3>1
    <3> QED
      BY <3>2, FS_Singleton
  <2> QED
    BY <2>1, <2>2, <2>3 DEF CountIsALock
<1> QED
  BY <1>1, BarrierInvariant, PTL DEF Inv

(* Nobody leaves the barrier before everybody has come to it, but for one  *)
(* whose wait ended by itself.                                             *)
THEOREM BarrierHolds == Spec => []NoneLeavesEarly
<1>1. Inv => NoneLeavesEarly
  <2> SUFFICES ASSUME Inv, NEW t \in Workers \ rEarly, at[t] = "end"
               PROVE  \A u \in Workers : Arrived(u)
    BY DEF NoneLeavesEarly
  <2>1. PICK h \in Workers : Opener(h)
    BY DEF Inv, Gate
  <2> QED
    BY <2>1, LastTookOne DEF Inv, Opener
<1> QED
  BY <1>1, BarrierInvariant, PTL

(* One worker opens the barrier: the assertion of Single::writeEF holds.   *)
THEOREM OpenedByOne == Spec => []OpenedOnce
<1>1. Inv => OpenedOnce
  BY DEF Inv, Gate, OpenedOnce
<1> QED
  BY <1>1, BarrierInvariant, PTL

(* What is left of the count at the end is 1, as the test says.            *)
THEOREM OneIsLeft == Spec => []CountEndsAtOne
<1>1. Inv => CountEndsAtOne
  BY DEF Inv, Checked, CountEndsAtOne
<1> QED
  BY <1>1, BarrierInvariant, PTL
=============================================================================
