------------------------- MODULE SyncHandshakeProofs -------------------------
(***************************************************************************)
(* testSyncVariable, whose two threads mix the methods of two sync         *)
(* variables: how far each thread has come decides what the variables      *)
(* hold.  A statement counts from the moment its method has had its effect *)
(* (Effects), which is before its thread goes on.                          *)
(*                                                                         *)
(* What happens to one variable inside a method, however the lock and the  *)
(* condition variables behave, is said of a record of its state (SyCell,   *)
(* DoneCell), so that the lemmas about it serve both.                      *)
(***************************************************************************)
EXTENDS SyncHandshake, Integers, TLAPS

AfterEffect == {"notify", "done"}
Places == {"idle", "lock", "held", "wait", "notify", "done"}
Results == {0, 1, FALSE, TRUE}
Statements(at, t) == Program[t][at[t]]

\* A sync variable of the test: its data, and where the threads are in it.
SyCell ==
  [value |-> sValue, full |-> sFull, pc |-> sPc, call |-> sCall, ret |-> sRet,
   readers |-> sRead, writers |-> sWrite]
DoneCell ==
  [value |-> dValue, full |-> dFull, pc |-> dPc, call |-> dCall, ret |-> dRet,
   readers |-> dRead, writers |-> dWrite]

\* A thread in a method of cell c is in the call of its next statement, one
\* on c, and the sleepers are asleep.
InStep(at, on, c) ==
  /\ c.pc \in [Threads -> Places]
  /\ c.ret \in [Threads -> Results]
  /\ c.call \in [Threads -> [op : UsedOps \cup {"none"}, arg : Results]]
  /\ c.readers \subseteq Threads /\ c.writers \subseteq Threads
  /\ c.readers \cap c.writers = {}
  /\ \A t \in c.readers \cup c.writers : c.pc[t] = "wait"
  /\ \A t \in Threads : c.pc[t] # "idle" =>
        /\ at[t] \in DOMAIN Program[t]
        /\ Statements(at, t).on = on
        /\ c.call[t].op = Statements(at, t).op
        /\ c.call[t].arg = Statements(at, t).arg

\* How many statements of t have had their effect.
Effects(t) ==
  IF sPc[t] \in AfterEffect \/ dPc[t] \in AfterEffect THEN ip[t] ELSE ip[t] - 1

\* Where the threads may be relative to each other, and what that makes of
\* the two variables.
Positions ==
  /\ ip \in [Threads -> Nat] /\ ip["main"] \in 1..11 /\ ip["task"] \in 0..6
  /\ ip["task"] = 0 <=> ip["main"] <= 5
  /\ Effects("task") >= 1 => Effects("main") >= 6
  /\ Effects("main") >= 9 => Effects("task") >= 4

Cells ==
  /\ sFull \in BOOLEAN /\ dFull \in BOOLEAN /\ dValue \in BOOLEAN
  /\ sFull <=> Effects("main") >= 6 /\ Effects("task") < 1
  /\ sValue = IF Effects("main") >= 6 THEN 1 ELSE 0
  /\ dFull <=> Effects("task") >= 4 /\ Effects("main") < 9
  /\ dValue <=> Effects("task") >= 4

\* A result that waits to be judged passes, except in the two tests the
\* hand-over does not order.
Unordered == {38, 42}
Passes(at, t, result) ==
  Statements(at, t).tested /\ Statements(at, t).line \notin Unordered =>
    result = Statements(at, t).want
Judged(at, c) == \A t \in Threads : c.pc[t] \in AfterEffect => Passes(at, t, c.ret[t])

HandshakeInv ==
  /\ InStep(ip, "sy", SyCell) /\ InStep(ip, "done", DoneCell)
  /\ Positions /\ Cells
  /\ Judged(ip, SyCell) /\ Judged(ip, DoneCell) /\ failed \subseteq Unordered
-----------------------------------------------------------------------------
\* The two programs, statement by statement.
MainSays(i, s) ==
  /\ s.on = IF i = 5 THEN "begin" ELSE IF i \in {3, 9, 10} THEN "done" ELSE "sy"
  /\ i \in {1, 3, 7, 10} => s.op = "isFull"
  /\ i \in {2, 4, 8} => s.op = "readXX"
  /\ i = 6 => s.op = "writeEF" /\ s.arg = 1 /\ ~s.tested
  /\ i = 9 => s.op = "readFE" /\ ~s.tested
  /\ i \in {1, 2, 4, 7, 8} => s.arg = 0
  /\ i \in {3, 9, 10} => s.arg = FALSE
  /\ i \in {1, 3, 10} => s.want = FALSE
  /\ i \in {2, 4} => s.want = 0
  /\ i = 7 => s.line = 42
  /\ i = 8 => s.want = 1

TaskSays(i, s) ==
  /\ s.on = IF i \in {1, 2} THEN "sy" ELSE "done"
  /\ i \in {2, 5} => s.op = "isFull"
  /\ i = 1 => s.op = "readFE" /\ s.want = 1
  /\ i = 3 => s.op = "readXX"
  /\ i = 4 => s.op = "writeEF" /\ s.arg = TRUE /\ ~s.tested
  /\ i \in {1, 2} => s.arg = 0
  /\ i \in {3, 5} => s.arg = FALSE
  /\ i \in {2, 3} => s.want = FALSE
  /\ i = 5 => s.line = 38

\* What main runs, and how long.
LEMMA MainProgram ==
  ASSUME Positions
  PROVE  /\ Running("main") <=> ip["main"] <= 10
         /\ Running("main") => MainSays(ip["main"], Statements(ip, "main"))
<1> DEFINE P == Program["main"]
<1>1. DOMAIN P = 1..10
  BY DEF Program
<1>2. \A i \in 1..10 : MainSays(i, P[i])
  <2>1. MainSays(1, P[1])
    <3>1. P[1] = Test(24, "sy", "isFull", 0, FALSE)
      BY DEF Program
    <3>2. MainSays(1, Test(24, "sy", "isFull", 0, FALSE))
      BY DEF MainSays, Test, Plain, Unordered
    <3> QED  BY <3>1, <3>2
  <2>2. MainSays(2, P[2])
    <3>1. P[2] = Test(25, "sy", "readXX", 0, 0)
      BY DEF Program
    <3>2. MainSays(2, Test(25, "sy", "readXX", 0, 0))
      BY DEF MainSays, Test, Plain, Unordered
    <3> QED  BY <3>1, <3>2
  <2>3. MainSays(3, P[3])
    <3>1. P[3] = Test(28, "done", "isFull", FALSE, FALSE)
      BY DEF Program
    <3>2. MainSays(3, Test(28, "done", "isFull", FALSE, FALSE))
      BY DEF MainSays, Test, Plain, Unordered
    <3> QED  BY <3>1, <3>2
  <2>4. MainSays(4, P[4])
    <3>1. P[4] = Test(29, "sy", "readXX", 0, 0)
      BY DEF Program
    <3>2. MainSays(4, Test(29, "sy", "readXX", 0, 0))
      BY DEF MainSays, Test, Plain, Unordered
    <3> QED  BY <3>1, <3>2
  <2>5. MainSays(5, P[5])
    <3>1. P[5] = [on |-> "begin"]
      BY DEF Program
    <3>2. MainSays(5, [on |-> "begin"])
      BY DEF MainSays, Test, Plain, Unordered
    <3> QED  BY <3>1, <3>2
  <2>6. MainSays(6, P[6])
    <3>1. P[6] = Plain("sy", "writeEF", 1)
      BY DEF Program
    <3>2. MainSays(6, Plain("sy", "writeEF", 1))
      BY DEF MainSays, Test, Plain, Unordered
    <3> QED  BY <3>1, <3>2
  <2>7. MainSays(7, P[7])
    <3>1. P[7] = Test(42, "sy", "isFull", 0, TRUE)
      BY DEF Program
    <3>2. MainSays(7, Test(42, "sy", "isFull", 0, TRUE))
      BY DEF MainSays, Test, Plain, Unordered
    <3> QED  BY <3>1, <3>2
  <2>8. MainSays(8, P[8])
    <3>1. P[8] = Test(43, "sy", "readXX", 0, 1)
      BY DEF Program
    <3>2. MainSays(8, Test(43, "sy", "readXX", 0, 1))
      BY DEF MainSays, Test, Plain, Unordered
    <3> QED  BY <3>1, <3>2
  <2>9. MainSays(9, P[9])
    <3>1. P[9] = Plain("done", "readFE", FALSE)
      BY DEF Program
    <3>2. MainSays(9, Plain("done", "readFE", FALSE))
      BY DEF MainSays, Test, Plain, Unordered
    <3> QED  BY <3>1, <3>2
  <2>10. MainSays(10, P[10])
    <3>1. P[10] = Test(46, "done", "isFull", FALSE, FALSE)
      BY DEF Program
    <3>2. MainSays(10, Test(46, "done", "isFull", FALSE, FALSE))
      BY DEF MainSays, Test, Plain, Unordered
    <3> QED  BY <3>1, <3>2
  <2> HIDE DEF P
  <2> QED
    BY <2>1, <2>2, <2>3, <2>4, <2>5, <2>6, <2>7, <2>8, <2>9, <2>10
<1> QED
  BY <1>1, <1>2 DEF Positions, Running, Statements

\* What the task runs, once it has been posted.
LEMMA TaskProgram ==
  ASSUME Positions
  PROVE  /\ Running("task") <=> ip["task"] \in 1..5
         /\ Running("task") => TaskSays(ip["task"], Statements(ip, "task"))
<1> DEFINE P == Program["task"]
<1>1. DOMAIN P = 1..5
  BY DEF Program
<1>2. \A i \in 1..5 : TaskSays(i, P[i])
  <2>1. TaskSays(1, P[1])
    <3>1. P[1] = Test(34, "sy", "readFE", 0, 1)
      BY DEF Program
    <3>2. TaskSays(1, Test(34, "sy", "readFE", 0, 1))
      BY DEF TaskSays, Test, Plain, Unordered
    <3> QED  BY <3>1, <3>2
  <2>2. TaskSays(2, P[2])
    <3>1. P[2] = Test(33, "sy", "isFull", 0, FALSE)
      BY DEF Program
    <3>2. TaskSays(2, Test(33, "sy", "isFull", 0, FALSE))
      BY DEF TaskSays, Test, Plain, Unordered
    <3> QED  BY <3>1, <3>2
  <2>3. TaskSays(3, P[3])
    <3>1. P[3] = Test(36, "done", "readXX", FALSE, FALSE)
      BY DEF Program
    <3>2. TaskSays(3, Test(36, "done", "readXX", FALSE, FALSE))
      BY DEF TaskSays, Test, Plain, Unordered
    <3> QED  BY <3>1, <3>2
  <2>4. TaskSays(4, P[4])
    <3>1. P[4] = Plain("done", "writeEF", TRUE)
      BY DEF Program
    <3>2. TaskSays(4, Plain("done", "writeEF", TRUE))
      BY DEF TaskSays, Test, Plain, Unordered
    <3> QED  BY <3>1, <3>2
  <2>5. TaskSays(5, P[5])
    <3>1. P[5] = Test(38, "done", "isFull", FALSE, TRUE)
      BY DEF Program
    <3>2. TaskSays(5, Test(38, "done", "isFull", FALSE, TRUE))
      BY DEF TaskSays, Test, Plain, Unordered
    <3> QED  BY <3>1, <3>2
  <2> HIDE DEF P
  <2> QED
    BY <2>1, <2>2, <2>3, <2>4, <2>5
<1> QED
  BY <1>1, <1>2 DEF Positions, Running, Statements

\* The cells at the start.
LEMMA HandshakeInit == Init => HandshakeInv
<1> SUFFICES ASSUME Init PROVE HandshakeInv
  OBVIOUS
<1> USE DEF Init, Sy!Init, Done!Init, Threads,
            Sy!NoCall, Done!NoCall
<1>1. InStep(ip, "sy", SyCell) /\ InStep(ip, "done", DoneCell)
  BY DEF InStep, SyCell, DoneCell, Places, Results
<1>2. /\ sPc["main"] = "idle" /\ sPc["task"] = "idle"
      /\ dPc["main"] = "idle" /\ dPc["task"] = "idle"
  OBVIOUS
<1>3. Effects("main") = 0 /\ Effects("task") = -1
  BY <1>2 DEF Effects, AfterEffect
<1>4. sFull = FALSE /\ sValue = 0 /\ dFull = FALSE /\ dValue = FALSE
  OBVIOUS
<1>5. Cells
  <2>1. sFull \in BOOLEAN /\ dFull \in BOOLEAN /\ dValue \in BOOLEAN
    BY <1>4
  <2> QED
    BY <1>3, <1>4, <2>1 DEF Cells
<1>6. Positions
  BY <1>3 DEF Positions
<1>7. Judged(ip, SyCell) /\ Judged(ip, DoneCell) /\ failed \subseteq Unordered
  BY <1>2 DEF Judged, AfterEffect, SyCell, DoneCell
<1> QED
  BY <1>1, <1>5, <1>6, <1>7 DEF HandshakeInv
-----------------------------------------------------------------------------
\* A thread's method has its effect on cell c: what it returns, what it leaves.
CellEffect(op, arg, c, d, result) ==
  \/ op = "isFull" /\ result = c.full /\ d.value = c.value /\ d.full = c.full
  \/ op = "readXX" /\ result = c.value /\ d.value = c.value /\ d.full = c.full
  \/ op = "readFE" /\ c.full /\ result = c.value /\ d.value = c.value /\ d.full = FALSE
  \/ op = "writeEF" /\ ~c.full /\ d.value = arg /\ d.full = TRUE
  \/ op \notin UsedOps

\* What a step of the library on behalf of t makes of a cell: nothing that a
\* caller could see, or the effect of t's method.
Unseen(c, d, t) ==
  /\ d.value = c.value /\ d.full = c.full /\ d.ret = c.ret /\ d.call = c.call
  /\ \/ /\ c.pc[t] = "lock" /\ d.pc = [c.pc EXCEPT ![t] = "held"]
        /\ d.readers = c.readers /\ d.writers = c.writers
     \/ /\ c.pc[t] = "held" /\ d.pc = [c.pc EXCEPT ![t] = "wait"]
        /\ \/ d.readers = c.readers \cup {t} /\ d.writers = c.writers
           \/ d.writers = c.writers \cup {t} /\ d.readers = c.readers
     \/ /\ c.pc[t] = "notify" /\ d.pc = [c.pc EXCEPT ![t] = "done"]
        /\ d.readers = c.readers /\ d.writers = c.writers
     \/ \E w \in c.readers \cup c.writers :
          /\ c.pc[t] = "notify" /\ d.pc = [c.pc EXCEPT ![t] = "done", ![w] = "lock"]
          /\ d.readers = c.readers \ {w} /\ d.writers = c.writers \ {w}

Visible(c, d, t) ==
  /\ c.pc[t] = "held" /\ d.call = c.call
  /\ d.readers = c.readers /\ d.writers = c.writers
  /\ \E p \in AfterEffect : d.pc = [c.pc EXCEPT ![t] = p]
  /\ \E result \in Results :
       /\ d.ret = [c.ret EXCEPT ![t] = result]
       /\ CellEffect(c.call[t].op, c.call[t].arg, c, d, result)

\* A step of the library on sync_sy is one of the two kinds ...
LEMMA SyStep ==
  ASSUME NEW t \in Threads, InStep(ip, "sy", SyCell), Sy!Run(t),
         sValue \in Results, sFull \in BOOLEAN
  PROVE  Unseen(SyCell, SyCell', t) \/ Visible(SyCell, SyCell', t)
<1> USE DEF SyCell
<1>1. /\ sRead \cap sWrite = {}
      /\ sCall[t].op \in UsedOps \cup {"none"}
  BY DEF InStep
<1>2. CASE Sy!Lock(t)
  BY <1>2 DEF Sy!Lock, Unseen
<1>3. CASE Sy!WaitFull(t) \/ Sy!WaitEmpty(t)
  BY <1>3 DEF Sy!WaitFull, Sy!WaitEmpty, Unseen
<1>4. CASE Sy!NotifyRead(t)
  BY <1>1, <1>4 DEF Sy!NotifyRead, Sy!Woken, Unseen
<1>5. CASE Sy!NotifyWrite(t)
  BY <1>1, <1>5 DEF Sy!NotifyWrite, Sy!Woken, Unseen
<1>6. CASE Sy!Body(t)
  <2>1. ASSUME NEW o, NEW result \in Results, Sy!Leave(t, o, result),
               CellEffect(o, sCall[t].arg, SyCell, SyCell', result)
        PROVE  Visible(SyCell, SyCell', t)
    BY <2>1 DEF Sy!Leave, Visible, AfterEffect
  <2> USE DEF CellEffect, Results, UsedOps
  <2>2. CASE Sy!IsFull(t)
    BY <2>1, <2>2 DEF Sy!IsFull
  <2>3. CASE Sy!ReadXX(t)
    BY <2>1, <2>3 DEF Sy!ReadXX
  <2>4. CASE Sy!ReadFE(t)
    BY <2>1, <2>4 DEF Sy!ReadFE, Sy!AfterMove
  <2>5. CASE Sy!WriteEF(t)
    BY <2>1, <2>5 DEF Sy!WriteEF
  <2>6. CASE Sy!Reset(t)
    BY <2>1, <2>6 DEF Sy!Reset
  <2>7. CASE Sy!ReadFF(t)
    BY <2>1, <2>7 DEF Sy!ReadFF
  <2>8. CASE Sy!WriteFF(t)
    BY <2>1, <2>8 DEF Sy!WriteFF
  <2>9. CASE Sy!WriteXF(t)
    BY <2>1, <2>9 DEF Sy!WriteXF
  <2> QED
    BY <1>6, <2>2, <2>3, <2>4, <2>5, <2>6, <2>7, <2>8, <2>9 DEF Sy!Body
<1> QED
  BY <1>2, <1>3, <1>4, <1>5, <1>6 DEF Sy!Run

\* ... and so is one on sync_done.
LEMMA DoneStep ==
  ASSUME NEW t \in Threads, InStep(ip, "done", DoneCell), Done!Run(t),
         dValue \in Results, dFull \in BOOLEAN
  PROVE  Unseen(DoneCell, DoneCell', t) \/ Visible(DoneCell, DoneCell', t)
<1> USE DEF DoneCell
<1>1. /\ dRead \cap dWrite = {}
      /\ dCall[t].op \in UsedOps \cup {"none"}
  BY DEF InStep
<1>2. CASE Done!Lock(t)
  BY <1>2 DEF Done!Lock, Unseen
<1>3. CASE Done!WaitFull(t) \/ Done!WaitEmpty(t)
  BY <1>3 DEF Done!WaitFull, Done!WaitEmpty, Unseen
<1>4. CASE Done!NotifyRead(t)
  BY <1>1, <1>4 DEF Done!NotifyRead, Done!Woken, Unseen
<1>5. CASE Done!NotifyWrite(t)
  BY <1>1, <1>5 DEF Done!NotifyWrite, Done!Woken, Unseen
<1>6. CASE Done!Body(t)
  <2>1. ASSUME NEW o, NEW result \in Results, Done!Leave(t, o, result),
               CellEffect(o, dCall[t].arg, DoneCell, DoneCell', result)
        PROVE  Visible(DoneCell, DoneCell', t)
    BY <2>1 DEF Done!Leave, Visible, AfterEffect
  <2> USE DEF CellEffect, Results, UsedOps
  <2>2. CASE Done!IsFull(t)
    BY <2>1, <2>2 DEF Done!IsFull
  <2>3. CASE Done!ReadXX(t)
    BY <2>1, <2>3 DEF Done!ReadXX
  <2>4. CASE Done!ReadFE(t)
    BY <2>1, <2>4 DEF Done!ReadFE, Done!AfterMove
  <2>5. CASE Done!WriteEF(t)
    BY <2>1, <2>5 DEF Done!WriteEF
  <2>6. CASE Done!Reset(t)
    BY <2>1, <2>6 DEF Done!Reset
  <2>7. CASE Done!ReadFF(t)
    BY <2>1, <2>7 DEF Done!ReadFF
  <2>8. CASE Done!WriteFF(t)
    BY <2>1, <2>8 DEF Done!WriteFF
  <2>9. CASE Done!WriteXF(t)
    BY <2>1, <2>9 DEF Done!WriteXF
  <2> QED
    BY <1>6, <2>2, <2>3, <2>4, <2>5, <2>6, <2>7, <2>8, <2>9 DEF Done!Body
<1> QED
  BY <1>2, <1>3, <1>4, <1>5, <1>6 DEF Done!Run

\* Whatever the library does, the threads stay in the calls they made.
LEMMA CellKept ==
  ASSUME NEW at, NEW on, NEW c, NEW d, NEW t \in Threads,
         InStep(at, on, c), Unseen(c, d, t) \/ Visible(c, d, t)
  PROVE  InStep(at, on, d)
<1>1. d.pc \in [Threads -> Places] /\ d.ret \in [Threads -> Results] /\ d.call = c.call
  <2>1. CASE Visible(c, d, t)
    BY <2>1 DEF InStep, Visible, Places, AfterEffect
  <2>2. CASE Unseen(c, d, t)
    BY <2>2 DEF InStep, Unseen, Places
  <2> QED
    BY <2>1, <2>2
<1>2. \A u \in Threads : d.pc[u] # "idle" => c.pc[u] # "idle"
  BY DEF InStep, Unseen, Visible
<1> DEFINE Queues == /\ d.readers \subseteq Threads /\ d.writers \subseteq Threads
                     /\ d.readers \cap d.writers = {}
                     /\ \A u \in d.readers \cup d.writers : d.pc[u] = "wait"
<1>3. Queues
  <2>1. CASE Visible(c, d, t)
    BY <2>1 DEF InStep, Visible
  <2>2. CASE d.readers = c.readers /\ d.writers = c.writers /\ Unseen(c, d, t)
    BY <2>2 DEF InStep, Unseen
  <2>3. ASSUME c.pc[t] = "held", d.pc = [c.pc EXCEPT ![t] = "wait"],
               \/ d.readers = c.readers \cup {t} /\ d.writers = c.writers
               \/ d.writers = c.writers \cup {t} /\ d.readers = c.readers
        PROVE  Queues
    BY <2>3 DEF InStep
  <2>4. ASSUME NEW w \in c.readers \cup c.writers, c.pc[t] = "notify",
               d.pc = [c.pc EXCEPT ![t] = "done", ![w] = "lock"],
               d.readers = c.readers \ {w}, d.writers = c.writers \ {w}
        PROVE  Queues
    BY <2>4 DEF InStep
  <2> QED
    BY <2>1, <2>2, <2>3, <2>4 DEF Unseen
<1> QED
  BY <1>1, <1>2, <1>3 DEF InStep

\* An unseen step is the effect of nobody's method ...
LEMMA UnseenKeeps ==
  ASSUME NEW at, NEW on, NEW c, NEW d, NEW t \in Threads,
         InStep(at, on, c), Unseen(c, d, t)
  PROVE  \A u \in Threads : d.pc[u] \in AfterEffect <=> c.pc[u] \in AfterEffect
  BY DEF InStep, Unseen, AfterEffect

\* ... and a visible one that of the statement its thread is at.
LEMMA VisibleMoves ==
  ASSUME NEW at, NEW on, NEW c, NEW d, NEW t \in Threads,
         InStep(at, on, c), Visible(c, d, t)
  PROVE  /\ c.pc[t] = "held" /\ d.pc[t] \in AfterEffect
         /\ at[t] \in DOMAIN Program[t] /\ Statements(at, t).on = on
         /\ \A u \in Threads \ {t} : d.pc[u] = c.pc[u] /\ d.ret[u] = c.ret[u]
         /\ CellEffect(Statements(at, t).op, Statements(at, t).arg, c, d, d.ret[t])
         /\ Statements(at, t).op \in UsedOps \cup {"none"}
<1>1. c.pc[t] = "held" /\ \E p \in AfterEffect : d.pc = [c.pc EXCEPT ![t] = p]
  BY DEF Visible
<1>2. PICK result \in Results :
        /\ d.ret = [c.ret EXCEPT ![t] = result]
        /\ CellEffect(c.call[t].op, c.call[t].arg, c, d, result)
  BY DEF Visible
<1>3. d.ret[t] = result /\ \A u \in Threads \ {t} : d.ret[u] = c.ret[u]
  BY <1>2 DEF InStep
<1>4. d.pc[t] \in AfterEffect /\ \A u \in Threads \ {t} : d.pc[u] = c.pc[u]
  BY <1>1 DEF InStep
<1>5. /\ at[t] \in DOMAIN Program[t] /\ Statements(at, t).on = on
      /\ c.call[t].op = Statements(at, t).op /\ c.call[t].arg = Statements(at, t).arg
      /\ c.call[t].op \in UsedOps \cup {"none"}
  BY <1>1 DEF InStep
<1> QED
  BY <1>1, <1>2, <1>3, <1>4, <1>5

\* A thread that is in a method of neither cell may be put elsewhere.
LEMMA ThreadMoved ==
  ASSUME NEW at, NEW to, NEW on, NEW c, InStep(at, on, c),
         \A u \in Threads : c.pc[u] # "idle" => to[u] = at[u]
  PROVE  InStep(to, on, c)
  BY DEF InStep, Statements

\* A thread calls the method of its next statement.
LEMMA ThreadCalls ==
  ASSUME NEW at, NEW on, NEW c, NEW d, NEW t \in Threads, InStep(at, on, c),
         at[t] \in DOMAIN Program[t], Statements(at, t).on = on,
         c.pc[t] = "idle", d.pc = [c.pc EXCEPT ![t] = "lock"],
         Statements(at, t).op \in UsedOps, Statements(at, t).arg \in Results,
         d.call = [c.call EXCEPT ![t] = [op |-> Statements(at, t).op,
                                         arg |-> Statements(at, t).arg]],
         d.ret = c.ret, d.readers = c.readers, d.writers = c.writers
  PROVE  InStep(at, on, d)
<1>1. d.pc \in [Threads -> Places] /\ d.ret \in [Threads -> Results]
  BY DEF InStep, Places
<1>2. d.call \in [Threads -> [op : UsedOps \cup {"none"}, arg : Results]]
  <2> DEFINE C == [op : UsedOps \cup {"none"}, arg : Results]
             made == [op |-> Statements(at, t).op, arg |-> Statements(at, t).arg]
  <2>1. made \in C /\ c.call \in [Threads -> C] /\ d.call = [c.call EXCEPT ![t] = made]
    BY DEF InStep
  <2> HIDE DEF C, made
  <2>2. d.call \in [Threads -> C]
    BY <2>1
  <2> QED
    BY <2>2 DEF C
<1>3. \A u \in d.readers \cup d.writers : d.pc[u] = "wait"
  BY DEF InStep
<1>4. \A u \in Threads \ {t} : d.pc[u] = c.pc[u] /\ d.call[u] = c.call[u]
  BY DEF InStep
<1>5. d.call[t].op = Statements(at, t).op /\ d.call[t].arg = Statements(at, t).arg
  BY DEF InStep
<1> QED
  BY <1>1, <1>2, <1>3, <1>4, <1>5 DEF InStep

\* A thread comes back from a method.
LEMMA ThreadReturns ==
  ASSUME NEW at, NEW on, NEW c, NEW d, NEW t \in Threads, InStep(at, on, c),
         c.pc[t] = "done", d.pc = [c.pc EXCEPT ![t] = "idle"],
         NEW arg \in Results, NEW result \in Results,
         d.call = [c.call EXCEPT ![t] = [op |-> "none", arg |-> arg]],
         d.ret = [c.ret EXCEPT ![t] = result],
         d.readers = c.readers, d.writers = c.writers
  PROVE  InStep(at, on, d)
<1>1. d.pc \in [Threads -> Places] /\ d.ret \in [Threads -> Results]
  BY DEF InStep, Places
<1>2. d.call \in [Threads -> [op : UsedOps \cup {"none"}, arg : Results]]
  <2> DEFINE C == [op : UsedOps \cup {"none"}, arg : Results]
             made == [op |-> "none", arg |-> arg]
  <2>1. made \in C /\ c.call \in [Threads -> C] /\ d.call = [c.call EXCEPT ![t] = made]
    BY DEF InStep
  <2> HIDE DEF C, made
  <2>2. d.call \in [Threads -> C]
    BY <2>1
  <2> QED
    BY <2>2 DEF C
<1>3. \A u \in d.readers \cup d.writers : d.pc[u] = "wait"
  BY DEF InStep
<1>4. \A u \in Threads \ {t} : d.pc[u] = c.pc[u] /\ d.call[u] = c.call[u]
  BY DEF InStep
<1>5. d.pc[t] = "idle"
  BY DEF InStep
<1> QED
  BY <1>1, <1>2, <1>3, <1>4, <1>5 DEF InStep
-----------------------------------------------------------------------------
\* Nothing a caller could see has happened.
LEMMA NothingSeen ==
  ASSUME HandshakeInv, Effects("main")' = Effects("main"), Effects("task")' = Effects("task"),
         ip' = ip, UNCHANGED <<sValue, sFull, dValue, dFull>>
  PROVE  Positions' /\ Cells'
  BY DEF HandshakeInv, Positions, Cells

\* A thread's count stays while it neither has an effect nor goes on.
LEMMA EffectsSeen ==
  ASSUME NEW t \in Threads, ip' = ip,
         sPc'[t] \in AfterEffect \/ dPc'[t] \in AfterEffect
           <=> sPc[t] \in AfterEffect \/ dPc[t] \in AfterEffect
  PROVE  Effects(t)' = Effects(t)
  BY DEF Effects

\* While t is about to have an effect on one cell it is not in the other.
LEMMA EffectComes ==
  ASSUME HandshakeInv, NEW t \in Threads
  PROVE  /\ sPc[t] # "idle" => dPc[t] = "idle" /\ Statements(ip, t).on = "sy"
         /\ dPc[t] # "idle" => sPc[t] = "idle" /\ Statements(ip, t).on = "done"
  BY DEF HandshakeInv, InStep, SyCell, DoneCell

\* t's method has its effect on sync_sy ...
LEMMA SyVisible ==
  ASSUME HandshakeInv, NEW t \in Threads, Visible(SyCell, SyCell', t),
         ip' = ip, UNCHANGED <<dValue, dFull, dPc, dRet>>
  PROVE  Positions' /\ Cells' /\ Passes(ip, t, sRet'[t])
<1>1. /\ sPc[t] = "held" /\ sPc'[t] \in AfterEffect
      /\ ip[t] \in DOMAIN Program[t] /\ Statements(ip, t).on = "sy"
      /\ \A u \in Threads \ {t} : sPc'[u] = sPc[u]
      /\ CellEffect(Statements(ip, t).op, Statements(ip, t).arg, SyCell, SyCell', sRet'[t])
      /\ dPc[t] = "idle"
  BY VisibleMoves, EffectComes DEF HandshakeInv, SyCell
<1>2. Effects(t) = ip[t] - 1 /\ Effects(t)' = ip[t]
  BY <1>1 DEF Effects, AfterEffect
<1>3. \A u \in Threads \ {t} : Effects(u)' = Effects(u)
  BY <1>1 DEF Effects
<1>4. Positions /\ Cells
  BY DEF HandshakeInv
<1>5. Effects("main") \in Int /\ Effects("task") \in Int
  BY <1>4 DEF Positions, Effects
<1>6. CASE t = "main"
  <2> DEFINE i == ip["main"]
  <2>1. MainSays(i, Statements(ip, "main")) /\ i \in 1..10 /\ i \notin {3, 5, 9, 10}
    <3>1. MainSays(i, Statements(ip, "main")) /\ i \in 1..10
      BY <1>1, <1>4, <1>6, MainProgram DEF Running, Positions
    <3> QED
      BY <1>1, <1>6, <3>1 DEF MainSays
  <2>2. Effects("main") = i - 1 /\ Effects("main")' = i /\ Effects("task")' = Effects("task")
    BY <1>2, <1>3, <1>6 DEF Threads
  <2>3. CASE i = 6
    <3>1. Effects("task") < 1
      BY <1>4, <1>5, <2>2, <2>3 DEF Positions
    <3>2. sFull' = TRUE /\ sValue' = 1
      BY <1>1, <1>6, <2>1, <2>3 DEF MainSays, CellEffect, SyCell, UsedOps
    <3>3. Positions'
      BY <1>4, <1>5, <2>2, <2>3, <3>1 DEF Positions
    <3>4. Cells'
      BY <1>4, <1>5, <2>2, <2>3, <3>1, <3>2 DEF Cells
    <3>5. Passes(ip, t, sRet'[t])
      BY <1>6, <2>1, <2>3 DEF MainSays, Passes
    <3> QED
      BY <3>3, <3>4, <3>5
  <2>4. CASE i # 6
    <3>1. /\ sFull' = sFull /\ sValue' = sValue
          /\ i \in {1, 7} => sRet'[t] = sFull
          /\ i \in {2, 4, 8} => sRet'[t] = sValue
      BY <1>1, <1>6, <2>1, <2>4 DEF MainSays, CellEffect, SyCell, UsedOps
    <3>2. Effects("main")' >= 6 <=> Effects("main") >= 6
      BY <2>1, <2>2, <2>4
    <3>3. Effects("main")' >= 9 <=> Effects("main") >= 9
      BY <2>1, <2>2
    <3>4. Positions' /\ Cells'
      BY <1>4, <1>5, <2>1, <2>2, <3>1, <3>2, <3>3 DEF Positions, Cells
    <3>5. i < 6 => Effects("task") < 1
      BY <1>4, <1>5, <2>2 DEF Positions
    <3>6. (i \in {1, 2, 4} => sFull = FALSE /\ sValue = 0) /\ (i = 8 => sValue = 1)
      BY <1>4, <2>2 DEF Cells
    <3>7. Passes(ip, t, sRet'[t])
      <4>1. i \in {1, 2, 4, 7, 8}
        BY <2>1, <2>4
      <4>2. CASE i = 1
        <5>1. Statements(ip, t).want = FALSE /\ sRet'[t] = FALSE
          BY <1>6, <2>1, <3>1, <3>6, <4>2 DEF MainSays
        <5> QED
          BY <5>1 DEF Passes
      <4>3. CASE i \in {2, 4, 8}
        BY <1>6, <2>1, <3>1, <3>6, <4>3 DEF MainSays, Passes
      <4>4. CASE i = 7
        BY <1>6, <2>1, <4>4 DEF MainSays, Passes, Unordered
      <4> QED
        BY <4>1, <4>2, <4>3, <4>4
    <3> QED
      BY <3>4, <3>7
  <2> QED
    BY <2>3, <2>4
<1>7. CASE t = "task"
  <2> DEFINE i == ip["task"]
  <2>1. TaskSays(i, Statements(ip, "task")) /\ i \in {1, 2}
    <3>1. TaskSays(i, Statements(ip, "task")) /\ i \in 1..5
      BY <1>1, <1>4, <1>7, TaskProgram DEF Running, Positions
    <3> QED
      BY <1>1, <1>7, <3>1 DEF TaskSays
  <2>2. Effects("task") = i - 1 /\ Effects("task")' = i /\ Effects("main")' = Effects("main")
    BY <1>2, <1>3, <1>7 DEF Threads
  <2>3. CASE i = 1
    <3>1. sFull /\ sFull' = FALSE /\ sValue' = sValue /\ sRet'[t] = sValue
      BY <1>1, <1>7, <2>1, <2>3 DEF TaskSays, CellEffect, SyCell, UsedOps
    <3>2. Effects("main") >= 6 /\ sValue = 1
      BY <1>4, <3>1 DEF Cells
    <3>3. Positions'
      BY <1>4, <1>5, <2>2, <2>3, <3>2 DEF Positions
    <3>4. Cells'
      <4>1. sFull' \in BOOLEAN /\ ~sFull'
        BY <3>1
      <4>2. ~dFull /\ ~dValue /\ dFull' = dFull /\ dValue' = dValue
        BY <1>4, <2>2, <2>3 DEF Cells
      <4>3. dFull' \in BOOLEAN /\ dValue' \in BOOLEAN /\ ~dFull' /\ ~dValue'
        BY <1>4, <4>2 DEF Cells
      <4>4. Effects("task")' = 1 /\ Effects("main")' >= 6 /\ sValue' = 1
        BY <2>2, <2>3, <3>1, <3>2
      <4> QED
        BY <4>1, <4>3, <4>4 DEF Cells
    <3>5. Passes(ip, t, sRet'[t])
      BY <1>7, <2>1, <2>3, <3>1, <3>2 DEF TaskSays, Passes
    <3> QED
      BY <3>3, <3>4, <3>5
  <2>4. CASE i = 2
    <3>1. sFull' = sFull /\ sValue' = sValue /\ sRet'[t] = sFull
      BY <1>1, <1>7, <2>1, <2>4 DEF TaskSays, CellEffect, SyCell, UsedOps
    <3>2. sFull = FALSE
      BY <1>4, <2>2, <2>4 DEF Cells
    <3>3. Positions' /\ Cells'
      BY <1>4, <1>5, <2>2, <2>4, <3>1, <3>2 DEF Positions, Cells
    <3>4. Passes(ip, t, sRet'[t])
      BY <1>7, <2>1, <2>4, <3>1, <3>2 DEF TaskSays, Passes
    <3> QED
      BY <3>3, <3>4
  <2> QED
    BY <2>1, <2>3, <2>4
<1> QED
  BY <1>6, <1>7 DEF Threads

\* ... and on sync_done.
LEMMA DoneVisible ==
  ASSUME HandshakeInv, NEW t \in Threads, Visible(DoneCell, DoneCell', t),
         ip' = ip, UNCHANGED <<sValue, sFull, sPc, sRet>>
  PROVE  Positions' /\ Cells' /\ Passes(ip, t, dRet'[t])
<1>1. /\ dPc[t] = "held" /\ dPc'[t] \in AfterEffect
      /\ ip[t] \in DOMAIN Program[t] /\ Statements(ip, t).on = "done"
      /\ \A u \in Threads \ {t} : dPc'[u] = dPc[u]
      /\ CellEffect(Statements(ip, t).op, Statements(ip, t).arg, DoneCell, DoneCell', dRet'[t])
      /\ sPc[t] = "idle"
  BY VisibleMoves, EffectComes DEF HandshakeInv, DoneCell
<1>2. Effects(t) = ip[t] - 1 /\ Effects(t)' = ip[t]
  BY <1>1 DEF Effects, AfterEffect
<1>3. \A u \in Threads \ {t} : Effects(u)' = Effects(u)
  BY <1>1 DEF Effects
<1>4. Positions /\ Cells
  BY DEF HandshakeInv
<1>5. Effects("main") \in Int /\ Effects("task") \in Int
  BY <1>4 DEF Positions, Effects
<1>6. CASE t = "main"
  <2> DEFINE i == ip["main"]
  <2>1. MainSays(i, Statements(ip, "main")) /\ i \in {3, 9, 10}
    <3>1. MainSays(i, Statements(ip, "main")) /\ i \in 1..10
      BY <1>1, <1>4, <1>6, MainProgram DEF Running, Positions
    <3> QED
      BY <1>1, <1>6, <3>1 DEF MainSays
  <2>2. Effects("main") = i - 1 /\ Effects("main")' = i /\ Effects("task")' = Effects("task")
    BY <1>2, <1>3, <1>6 DEF Threads
  <2>3. CASE i = 9
    <3>1. dFull /\ dFull' = FALSE /\ dValue' = dValue
      BY <1>1, <1>6, <2>1, <2>3 DEF MainSays, CellEffect, DoneCell, UsedOps
    <3>2. Effects("task") >= 4
      BY <1>4, <3>1 DEF Cells
    <3>3. Positions'
      BY <1>4, <1>5, <2>2, <2>3, <3>2 DEF Positions
    <3>4. dFull' \in BOOLEAN /\ ~dFull'
      BY <3>1
    <3>5. Cells'
      BY <1>4, <1>5, <2>2, <2>3, <3>1, <3>2, <3>4 DEF Cells
    <3>6. Passes(ip, t, dRet'[t])
      BY <1>6, <2>1, <2>3 DEF MainSays, Passes
    <3> QED
      BY <3>3, <3>5, <3>6
  <2>4. CASE i # 9
    <3>1. dFull' = dFull /\ dValue' = dValue /\ dRet'[t] = dFull
      BY <1>1, <1>6, <2>1, <2>4 DEF MainSays, CellEffect, DoneCell, UsedOps
    <3>2. /\ Effects("main")' >= 6 <=> Effects("main") >= 6
          /\ Effects("main")' >= 9 <=> Effects("main") >= 9
      BY <2>1, <2>2, <2>4
    <3>3. Positions' /\ Cells'
      BY <1>4, <1>5, <2>1, <2>2, <2>4, <3>1, <3>2 DEF Positions, Cells
    <3>4. dFull = FALSE
      BY <1>4, <1>5, <2>1, <2>2, <2>4 DEF Positions, Cells
    <3>5. Statements(ip, t).want = FALSE /\ dRet'[t] = FALSE
      BY <1>6, <2>1, <2>4, <3>1, <3>4 DEF MainSays
    <3>6. Passes(ip, t, dRet'[t])
      BY <3>5 DEF Passes
    <3> QED
      BY <3>3, <3>6
  <2> QED
    BY <2>3, <2>4
<1>7. CASE t = "task"
  <2> DEFINE i == ip["task"]
  <2>1. TaskSays(i, Statements(ip, "task")) /\ i \in {3, 4, 5}
    <3>1. TaskSays(i, Statements(ip, "task")) /\ i \in 1..5
      BY <1>1, <1>4, <1>7, TaskProgram DEF Running, Positions
    <3> QED
      BY <1>1, <1>7, <3>1 DEF TaskSays
  <2>2. Effects("task") = i - 1 /\ Effects("task")' = i /\ Effects("main")' = Effects("main")
    BY <1>2, <1>3, <1>7 DEF Threads
  <2>3. Effects("main") >= 6
    BY <1>4, <2>1, <2>2 DEF Positions
  <2>4. Positions'
    BY <1>4, <1>5, <2>1, <2>2, <2>3 DEF Positions
  <2>5. CASE i = 4
    <3>1. ~dFull /\ dFull' = TRUE /\ dValue' = TRUE
      BY <1>1, <1>7, <2>1, <2>5 DEF TaskSays, CellEffect, DoneCell, UsedOps
    <3>2. dFull' \in BOOLEAN /\ dFull' /\ dValue' \in BOOLEAN /\ dValue'
      BY <3>1
    <3>3. Effects("main") < 9
      BY <1>4, <1>5, <2>2, <2>5 DEF Positions
    <3>4. Cells'
      BY <1>4, <1>5, <2>2, <2>3, <2>5, <3>2, <3>3 DEF Cells
    <3>5. Passes(ip, t, dRet'[t])
      BY <1>7, <2>1, <2>5 DEF TaskSays, Passes
    <3> QED
      BY <2>4, <3>4, <3>5
  <2>6. CASE i # 4
    <3>1. /\ dFull' = dFull /\ dValue' = dValue
          /\ i = 3 => dRet'[t] = dValue
      BY <1>1, <1>7, <2>1, <2>6 DEF TaskSays, CellEffect, DoneCell, UsedOps
    <3>2. /\ Effects("task")' >= 4 <=> Effects("task") >= 4
          /\ Effects("task")' >= 1 /\ Effects("task") >= 1
      BY <2>1, <2>2, <2>6
    <3>3. Cells'
      BY <1>4, <1>5, <2>1, <2>2, <2>3, <3>1, <3>2 DEF Cells
    <3>4. Passes(ip, t, dRet'[t])
      <4>1. CASE i = 3
        <5>1. dValue = FALSE
          BY <1>4, <2>2, <4>1 DEF Cells
        <5>2. Statements(ip, t).want = FALSE /\ dRet'[t] = FALSE
          BY <1>7, <2>1, <3>1, <4>1, <5>1 DEF TaskSays
        <5> QED
          BY <5>2 DEF Passes
      <4>2. CASE i = 5
        BY <1>7, <2>1, <4>2 DEF TaskSays, Passes, Unordered
      <4> QED
        BY <2>1, <2>6, <4>1, <4>2
    <3> QED
      BY <2>4, <3>3, <3>4
  <2> QED
    BY <2>5, <2>6
<1> QED
  BY <1>6, <1>7 DEF Threads
-----------------------------------------------------------------------------
\* Each kind of step keeps HandshakeInv: the library's,
LEMMA LibraryKeeps ==
  ASSUME HandshakeInv, NEW t \in Threads, Library(t)
  PROVE  HandshakeInv'
<1>1. ip' = ip /\ failed' = failed
  BY DEF Library
<1>2. InStep(ip, "sy", SyCell) /\ InStep(ip, "done", DoneCell)
  BY DEF HandshakeInv
<1>3. CASE Sy!Run(t) /\ UNCHANGED done
  <2>1. DoneCell' = DoneCell /\ UNCHANGED <<dValue, dFull, dPc, dRet>>
    BY <1>3 DEF done, DoneCell
  <2>2. sValue \in Results /\ sFull \in BOOLEAN
    BY DEF HandshakeInv, Cells, Results
  <2>3. Unseen(SyCell, SyCell', t) \/ Visible(SyCell, SyCell', t)
    BY <1>2, <1>3, <2>2, SyStep
  <2>4. InStep(ip, "sy", SyCell')
    BY <1>2, <2>3, CellKept
  <2>5. InStep(ip, "sy", SyCell)' /\ InStep(ip, "done", DoneCell)'
    BY <1>1, <1>2, <2>1, <2>4
  <2>6. Judged(ip, DoneCell)' /\ (failed \subseteq Unordered)'
    BY <1>1, <2>1 DEF HandshakeInv
  <2>7. CASE Unseen(SyCell, SyCell', t)
    <3>1. \A u \in Threads : sPc'[u] \in AfterEffect <=> sPc[u] \in AfterEffect
      BY <1>2, <2>7, UnseenKeeps DEF SyCell
    <3>2. \A u \in Threads : Effects(u)' = Effects(u)
      BY <1>1, <2>1, <3>1, EffectsSeen
    <3>3. UNCHANGED <<sValue, sFull, sRet>>
      BY <2>7 DEF Unseen, SyCell
    <3>4. Positions' /\ Cells'
      BY <1>1, <2>1, <3>2, <3>3, NothingSeen DEF Threads
    <3>5. Judged(ip, SyCell)'
      BY <1>1, <3>1, <3>3 DEF HandshakeInv, Judged, SyCell
    <3> QED
      BY <2>5, <2>6, <3>4, <3>5 DEF HandshakeInv
  <2>8. CASE Visible(SyCell, SyCell', t)
    <3>1. Positions' /\ Cells' /\ Passes(ip, t, sRet'[t])
      BY <1>1, <2>1, <2>8, SyVisible
    <3>2. \A u \in Threads \ {t} : sPc'[u] = sPc[u] /\ sRet'[u] = sRet[u]
      BY <1>2, <2>8, VisibleMoves DEF SyCell
    <3>3. Judged(ip, SyCell)'
      BY <1>1, <3>1, <3>2 DEF HandshakeInv, Judged, SyCell
    <3> QED
      BY <2>5, <2>6, <3>1, <3>3 DEF HandshakeInv
  <2> QED
    BY <2>3, <2>7, <2>8
<1>4. CASE Done!Run(t) /\ UNCHANGED sy
  <2>1. SyCell' = SyCell /\ UNCHANGED <<sValue, sFull, sPc, sRet>>
    BY <1>4 DEF sy, SyCell
  <2>2. dValue \in Results /\ dFull \in BOOLEAN
    BY DEF HandshakeInv, Cells, Results
  <2>3. Unseen(DoneCell, DoneCell', t) \/ Visible(DoneCell, DoneCell', t)
    BY <1>2, <1>4, <2>2, DoneStep
  <2>4. InStep(ip, "done", DoneCell')
    BY <1>2, <2>3, CellKept
  <2>5. InStep(ip, "sy", SyCell)' /\ InStep(ip, "done", DoneCell)'
    BY <1>1, <1>2, <2>1, <2>4
  <2>6. Judged(ip, SyCell)' /\ (failed \subseteq Unordered)'
    BY <1>1, <2>1 DEF HandshakeInv
  <2>7. CASE Unseen(DoneCell, DoneCell', t)
    <3>1. \A u \in Threads : dPc'[u] \in AfterEffect <=> dPc[u] \in AfterEffect
      BY <1>2, <2>7, UnseenKeeps DEF DoneCell
    <3>2. \A u \in Threads : Effects(u)' = Effects(u)
      BY <1>1, <2>1, <3>1, EffectsSeen
    <3>3. UNCHANGED <<dValue, dFull, dRet>>
      BY <2>7 DEF Unseen, DoneCell
    <3>4. Positions' /\ Cells'
      BY <1>1, <2>1, <3>2, <3>3, NothingSeen DEF Threads
    <3>5. Judged(ip, DoneCell)'
      BY <1>1, <3>1, <3>3 DEF HandshakeInv, Judged, DoneCell
    <3> QED
      BY <2>5, <2>6, <3>4, <3>5 DEF HandshakeInv
  <2>8. CASE Visible(DoneCell, DoneCell', t)
    <3>1. Positions' /\ Cells' /\ Passes(ip, t, dRet'[t])
      BY <1>1, <2>1, <2>8, DoneVisible
    <3>2. \A u \in Threads \ {t} : dPc'[u] = dPc[u] /\ dRet'[u] = dRet[u]
      BY <1>2, <2>8, VisibleMoves DEF DoneCell
    <3>3. Judged(ip, DoneCell)'
      BY <1>1, <3>1, <3>2 DEF HandshakeInv, Judged, DoneCell
    <3> QED
      BY <2>5, <2>6, <3>1, <3>3 DEF HandshakeInv
  <2> QED
    BY <2>3, <2>7, <2>8
<1> QED
  BY <1>3, <1>4 DEF Library

\* main posting the task,
LEMMA BeginKeeps ==
  ASSUME HandshakeInv, NEW t \in Threads, Begin(t)
  PROVE  HandshakeInv'
<1>1. Positions /\ Cells /\ failed' = failed
  BY DEF HandshakeInv, Begin
<1>2. t = "main" /\ ip["main"] = 5
  <2>1. CASE t = "main"
    <3>1. ip["main"] \in 1..10 /\ MainSays(ip["main"], Statements(ip, "main"))
      BY <1>1, <2>1, MainProgram DEF Begin, Positions
    <3> QED
      BY <2>1, <3>1 DEF Begin, Statement, Statements, MainSays
  <2>2. CASE t = "task"
    <3>1. TaskSays(ip["task"], Statements(ip, "task"))
      BY <1>1, <2>2, TaskProgram DEF Begin
    <3> QED
      BY <2>2, <3>1 DEF Begin, Statement, Statements, TaskSays
  <2> QED
    BY <2>1, <2>2 DEF Threads
<1>3. ip["task"] = 0
  BY <1>1, <1>2 DEF Positions
<1>4. \A u \in Threads : sPc[u] = "idle" /\ dPc[u] = "idle"
  <2>1. Statements(ip, "main").on = "begin"
    BY <1>2 DEF Begin, Statement, Statements
  <2>2. sPc["main"] = "idle" /\ dPc["main"] = "idle"
    BY <2>1, EffectComes DEF Threads
  <2>3. ip["task"] \notin DOMAIN Program["task"]
    BY <1>1, <1>3, TaskProgram DEF Running
  <2>4. sPc["task"] = "idle" /\ dPc["task"] = "idle"
    BY <2>3 DEF HandshakeInv, InStep, SyCell, DoneCell, Threads
  <2> QED
    BY <2>2, <2>4 DEF Threads
<1>5. /\ ip' \in [Threads -> Nat] /\ ip'["main"] = 6 /\ ip'["task"] = 1
  BY <1>1, <1>2 DEF Positions, Begin, Threads
<1>6. SyCell' = SyCell /\ DoneCell' = DoneCell
      /\ UNCHANGED <<sPc, dPc, sFull, sValue, dFull, dValue>>
  BY DEF Begin, sy, done, SyCell, DoneCell
<1>7. InStep(ip, "sy", SyCell)' /\ InStep(ip, "done", DoneCell)'
  <2>1. InStep(ip', "sy", SyCell) /\ InStep(ip', "done", DoneCell)
    BY <1>4, ThreadMoved DEF HandshakeInv, SyCell, DoneCell
  <2> QED
    BY <1>6, <2>1
<1>8. Judged(ip, SyCell)' /\ Judged(ip, DoneCell)'
  BY <1>4, <1>6 DEF Judged, SyCell, DoneCell, AfterEffect
<1>9. /\ Effects("main") = 4 /\ Effects("task") = -1
      /\ Effects("main")' = 5 /\ Effects("task")' = 0
  BY <1>2, <1>3, <1>4, <1>5, <1>6 DEF Effects, AfterEffect, Threads
<1>10. Positions' /\ Cells'
  BY <1>1, <1>5, <1>6, <1>9 DEF Positions, Cells
<1> QED
  BY <1>1, <1>7, <1>8, <1>10 DEF HandshakeInv

\* and a thread calling the method of its next statement.
LEMMA EnterKeeps ==
  ASSUME HandshakeInv, NEW t \in Threads, Enter(t)
  PROVE  HandshakeInv'
<1>1. /\ ip' = ip /\ failed' = failed
      /\ ip[t] \in DOMAIN Program[t] /\ Statement(t) = Statements(ip, t)
  BY DEF Enter, Running, Statement, Statements
<1>2. InStep(ip, "sy", SyCell) /\ InStep(ip, "done", DoneCell) /\ Positions
  BY DEF HandshakeInv
<1>3. Statements(ip, t).on # "begin" =>
        Statements(ip, t).op \in UsedOps /\ Statements(ip, t).arg \in Results
  <2>1. CASE t = "main"
    <3>1. ip["main"] \in 1..10 /\ MainSays(ip["main"], Statements(ip, "main"))
      BY <1>1, <1>2, <2>1, MainProgram DEF Running, Positions
    <3>2. ASSUME ip["main"] # 5
          PROVE  /\ Statements(ip, "main").op \in UsedOps
                 /\ \/ Statements(ip, "main").arg = 0
                    \/ Statements(ip, "main").arg = 1
                    \/ Statements(ip, "main").arg = FALSE
      BY <3>1, <3>2 DEF MainSays, UsedOps
    <3>3. ip["main"] = 5 => Statements(ip, "main").on = "begin"
      BY <3>1 DEF MainSays
    <3> QED
      BY <2>1, <3>2, <3>3 DEF Results
  <2>2. CASE t = "task"
    <3>1. ip["task"] \in 1..5 /\ TaskSays(ip["task"], Statements(ip, "task"))
      BY <1>1, <1>2, <2>2, TaskProgram DEF Running, Positions
    <3>2. /\ Statements(ip, "task").op \in UsedOps
          /\ \/ Statements(ip, "task").arg = 0
             \/ Statements(ip, "task").arg = FALSE
             \/ Statements(ip, "task").arg = TRUE
      BY <3>1 DEF TaskSays, UsedOps
    <3> QED
      BY <2>2, <3>2 DEF Results
  <2> QED
    BY <2>1, <2>2 DEF Threads
<1>4. CASE /\ Statement(t).on = "sy" /\ UNCHANGED done
           /\ Sy!Call(t, Statement(t).op, Statement(t).arg)
  <2>1. DoneCell' = DoneCell /\ UNCHANGED <<dPc, dFull, dValue, sFull, sValue>>
    BY <1>4 DEF done, DoneCell, Sy!Call
  <2>2. /\ SyCell.pc[t] = "idle" /\ SyCell'.pc = [SyCell.pc EXCEPT ![t] = "lock"]
        /\ SyCell'.call = [SyCell.call EXCEPT ![t] = [op |-> Statements(ip, t).op,
                                                      arg |-> Statements(ip, t).arg]]
        /\ SyCell'.ret = SyCell.ret
        /\ SyCell'.readers = SyCell.readers /\ SyCell'.writers = SyCell.writers
    BY <1>1, <1>4 DEF Sy!Call, SyCell
  <2>3. InStep(ip, "sy", SyCell')
    BY <1>1, <1>2, <1>3, <1>4, <2>2, ThreadCalls
  <2>4. \A u \in Threads : /\ sPc'[u] \in AfterEffect <=> sPc[u] \in AfterEffect
                           /\ Effects(u)' = Effects(u)
    BY <1>1, <1>2, <2>1, <2>2, EffectsSeen DEF InStep, SyCell, AfterEffect
  <2>5. Positions' /\ Cells'
    BY <1>1, <2>1, <2>4, NothingSeen DEF Threads
  <2>6. Judged(ip, SyCell)' /\ Judged(ip, DoneCell)'
    BY <1>1, <2>1, <2>2, <2>4 DEF HandshakeInv, Judged, SyCell
  <2> QED
    BY <1>1, <1>2, <2>1, <2>3, <2>5, <2>6 DEF HandshakeInv
<1>5. CASE /\ Statement(t).on = "done" /\ UNCHANGED sy
           /\ Done!Call(t, Statement(t).op, Statement(t).arg)
  <2>1. SyCell' = SyCell /\ UNCHANGED <<sPc, sFull, sValue, dFull, dValue>>
    BY <1>5 DEF sy, SyCell, Done!Call
  <2>2. /\ DoneCell.pc[t] = "idle" /\ DoneCell'.pc = [DoneCell.pc EXCEPT ![t] = "lock"]
        /\ DoneCell'.call = [DoneCell.call EXCEPT ![t] = [op |-> Statements(ip, t).op,
                                                          arg |-> Statements(ip, t).arg]]
        /\ DoneCell'.ret = DoneCell.ret
        /\ DoneCell'.readers = DoneCell.readers /\ DoneCell'.writers = DoneCell.writers
    BY <1>1, <1>5 DEF Done!Call, DoneCell
  <2>3. InStep(ip, "done", DoneCell')
    BY <1>1, <1>2, <1>3, <1>5, <2>2, ThreadCalls
  <2>4. \A u \in Threads : /\ dPc'[u] \in AfterEffect <=> dPc[u] \in AfterEffect
                           /\ Effects(u)' = Effects(u)
    BY <1>1, <1>2, <2>1, <2>2, EffectsSeen DEF InStep, DoneCell, AfterEffect
  <2>5. Positions' /\ Cells'
    BY <1>1, <2>1, <2>4, NothingSeen DEF Threads
  <2>6. Judged(ip, SyCell)' /\ Judged(ip, DoneCell)'
    BY <1>1, <2>1, <2>2, <2>4 DEF HandshakeInv, Judged, DoneCell
  <2> QED
    BY <1>1, <1>2, <2>1, <2>3, <2>5, <2>6 DEF HandshakeInv
<1> QED
  BY <1>4, <1>5 DEF Enter

\* A method of sync_sy returns, and its result is judged.
LEMMA SyLeaves ==
  ASSUME HandshakeInv, NEW t \in Threads, Sy!Return(t), Judge(t, sRet[t]),
         UNCHANGED done, Advance(t)
  PROVE  HandshakeInv'
<1>1. InStep(ip, "sy", SyCell) /\ InStep(ip, "done", DoneCell) /\ Positions /\ Cells
  BY DEF HandshakeInv
<1>2. sPc[t] = "done" /\ dPc[t] = "idle" /\ Statements(ip, t).on = "sy"
  BY EffectComes DEF Sy!Return
<1>3. /\ DoneCell' = DoneCell
      /\ UNCHANGED <<dPc, dRet, dFull, dValue, sFull, sValue>>
  BY DEF done, DoneCell, Sy!Return
<1>4. sPc'[t] = "idle" /\ \A u \in Threads \ {t} : sPc'[u] = sPc[u] /\ sRet'[u] = sRet[u]
  BY <1>1 DEF InStep, SyCell, Sy!Return
<1>5. /\ ip' \in [Threads -> Nat] /\ ip'[t] = ip[t] + 1
      /\ \A u \in Threads \ {t} : ip'[u] = ip[u]
  BY <1>1 DEF Positions, Advance
<1>6. InStep(ip, "sy", SyCell)'
  <2>1. PICK nothing \in Results : nothing = 0
    BY DEF Results
  <2>2. /\ SyCell.pc[t] = "done" /\ SyCell'.pc = [SyCell.pc EXCEPT ![t] = "idle"]
        /\ SyCell'.call = [SyCell.call EXCEPT ![t] = [op |-> "none", arg |-> nothing]]
        /\ SyCell'.ret = [SyCell.ret EXCEPT ![t] = nothing]
        /\ SyCell'.readers = SyCell.readers /\ SyCell'.writers = SyCell.writers
    BY <1>2, <2>1 DEF Sy!Return, Sy!NoCall, SyCell
  <2>3. InStep(ip, "sy", SyCell')
    BY <1>1, <2>2, ThreadReturns
  <2>4. \A u \in Threads : SyCell'.pc[u] # "idle" => ip'[u] = ip[u]
    BY <1>4, <1>5 DEF SyCell
  <2> QED
    BY <2>3, <2>4, ThreadMoved
<1>7. InStep(ip, "done", DoneCell)'
  <2>1. \A u \in Threads : DoneCell.pc[u] # "idle" => ip'[u] = ip[u]
    BY <1>2, <1>5 DEF DoneCell
  <2> QED
    BY <1>1, <1>3, <2>1, ThreadMoved
<1>8. \A u \in Threads : Effects(u)' = Effects(u)
  <2>1. Effects(t) = ip[t] /\ Effects(t)' = ip[t]
    BY <1>1, <1>2, <1>3, <1>4, <1>5 DEF Effects, AfterEffect, Positions
  <2>2. \A u \in Threads \ {t} : Effects(u)' = Effects(u)
    BY <1>3, <1>4, <1>5 DEF Effects
  <2> QED
    BY <2>1, <2>2
<1>9. Cells'
  BY <1>1, <1>3, <1>8 DEF Cells, Threads
<1>10. Positions'
  <2>1. ip[t] \in DOMAIN Program[t]
    BY <1>1, <1>2 DEF InStep, SyCell
  <2>2. CASE t = "main"
    <3>1. ip["main"] \in 1..10 /\ MainSays(ip["main"], Statements(ip, "main"))
      BY <1>1, <2>1, <2>2, MainProgram DEF Running, Positions
    <3>2. ip["main"] # 5
      BY <1>2, <2>2, <3>1 DEF MainSays
    <3> QED
      BY <1>1, <1>5, <1>8, <2>2, <3>1, <3>2 DEF Positions, Threads
  <2>3. CASE t = "task"
    <3>1. ip["task"] \in 1..5
      BY <1>1, <2>1, <2>3, TaskProgram DEF Running
    <3> QED
      BY <1>1, <1>5, <1>8, <2>3, <3>1 DEF Positions, Threads
  <2> QED
    BY <2>2, <2>3 DEF Threads
<1>11. Judged(ip, SyCell)' /\ Judged(ip, DoneCell)'
  <2>1. \A u \in Threads \ {t} : \A result : Passes(ip, u, result) => Passes(ip', u, result)
    BY <1>5 DEF Passes, Statements
  <2>2. sPc'[t] \notin AfterEffect /\ dPc'[t] \notin AfterEffect
    BY <1>2, <1>3, <1>4 DEF AfterEffect
  <2> QED
    BY <1>3, <1>4, <2>1, <2>2 DEF HandshakeInv, Judged, SyCell, DoneCell
<1>12. failed' \subseteq Unordered
  <2>1. Passes(ip, t, sRet[t])
    BY <1>2 DEF HandshakeInv, Judged, SyCell, AfterEffect
  <2> QED
    BY <2>1 DEF HandshakeInv, Passes, Judge, Statement, Statements
<1> QED
  BY <1>6, <1>7, <1>9, <1>10, <1>11, <1>12 DEF HandshakeInv

\* A method of sync_done returns, and its result is judged.
LEMMA DoneLeaves ==
  ASSUME HandshakeInv, NEW t \in Threads, Done!Return(t), Judge(t, dRet[t]),
         UNCHANGED sy, Advance(t)
  PROVE  HandshakeInv'
<1>1. InStep(ip, "sy", SyCell) /\ InStep(ip, "done", DoneCell) /\ Positions /\ Cells
  BY DEF HandshakeInv
<1>2. dPc[t] = "done" /\ sPc[t] = "idle" /\ Statements(ip, t).on = "done"
  BY EffectComes DEF Done!Return
<1>3. /\ SyCell' = SyCell
      /\ UNCHANGED <<sPc, sRet, sFull, sValue, dFull, dValue>>
  BY DEF sy, SyCell, Done!Return
<1>4. dPc'[t] = "idle" /\ \A u \in Threads \ {t} : dPc'[u] = dPc[u] /\ dRet'[u] = dRet[u]
  BY <1>1 DEF InStep, DoneCell, Done!Return
<1>5. /\ ip' \in [Threads -> Nat] /\ ip'[t] = ip[t] + 1
      /\ \A u \in Threads \ {t} : ip'[u] = ip[u]
  BY <1>1 DEF Positions, Advance
<1>6. InStep(ip, "done", DoneCell)'
  <2>1. PICK nothing \in Results : nothing = FALSE
    BY DEF Results
  <2>2. /\ DoneCell.pc[t] = "done" /\ DoneCell'.pc = [DoneCell.pc EXCEPT ![t] = "idle"]
        /\ DoneCell'.call = [DoneCell.call EXCEPT ![t] = [op |-> "none", arg |-> nothing]]
        /\ DoneCell'.ret = [DoneCell.ret EXCEPT ![t] = nothing]
        /\ DoneCell'.readers = DoneCell.readers /\ DoneCell'.writers = DoneCell.writers
    BY <1>2, <2>1 DEF Done!Return, Done!NoCall, DoneCell
  <2>3. InStep(ip, "done", DoneCell')
    BY <1>1, <2>2, ThreadReturns
  <2>4. \A u \in Threads : DoneCell'.pc[u] # "idle" => ip'[u] = ip[u]
    BY <1>4, <1>5 DEF DoneCell
  <2> QED
    BY <2>3, <2>4, ThreadMoved
<1>7. InStep(ip, "sy", SyCell)'
  <2>1. \A u \in Threads : SyCell.pc[u] # "idle" => ip'[u] = ip[u]
    BY <1>2, <1>5 DEF SyCell
  <2> QED
    BY <1>1, <1>3, <2>1, ThreadMoved
<1>8. \A u \in Threads : Effects(u)' = Effects(u)
  <2>1. Effects(t) = ip[t] /\ Effects(t)' = ip[t]
    BY <1>1, <1>2, <1>3, <1>4, <1>5 DEF Effects, AfterEffect, Positions
  <2>2. \A u \in Threads \ {t} : Effects(u)' = Effects(u)
    BY <1>3, <1>4, <1>5 DEF Effects
  <2> QED
    BY <2>1, <2>2
<1>9. Cells'
  BY <1>1, <1>3, <1>8 DEF Cells, Threads
<1>10. Positions'
  <2>1. ip[t] \in DOMAIN Program[t]
    BY <1>1, <1>2 DEF InStep, DoneCell
  <2>2. CASE t = "main"
    <3>1. ip["main"] \in 1..10 /\ MainSays(ip["main"], Statements(ip, "main"))
      BY <1>1, <2>1, <2>2, MainProgram DEF Running, Positions
    <3>2. ip["main"] # 5
      BY <1>2, <2>2, <3>1 DEF MainSays
    <3> QED
      BY <1>1, <1>5, <1>8, <2>2, <3>1, <3>2 DEF Positions, Threads
  <2>3. CASE t = "task"
    <3>1. ip["task"] \in 1..5
      BY <1>1, <2>1, <2>3, TaskProgram DEF Running
    <3> QED
      BY <1>1, <1>5, <1>8, <2>3, <3>1 DEF Positions, Threads
  <2> QED
    BY <2>2, <2>3 DEF Threads
<1>11. Judged(ip, SyCell)' /\ Judged(ip, DoneCell)'
  <2>1. \A u \in Threads \ {t} : \A result : Passes(ip, u, result) => Passes(ip', u, result)
    BY <1>5 DEF Passes, Statements
  <2>2. dPc'[t] \notin AfterEffect /\ sPc'[t] \notin AfterEffect
    BY <1>2, <1>3, <1>4 DEF AfterEffect
  <2> QED
    BY <1>3, <1>4, <2>1, <2>2 DEF HandshakeInv, Judged, SyCell, DoneCell
<1>12. failed' \subseteq Unordered
  <2>1. Passes(ip, t, dRet[t])
    BY <1>2 DEF HandshakeInv, Judged, DoneCell, AfterEffect
  <2> QED
    BY <2>1 DEF HandshakeInv, Passes, Judge, Statement, Statements
<1> QED
  BY <1>6, <1>7, <1>9, <1>10, <1>11, <1>12 DEF HandshakeInv

\* Every step of the test keeps HandshakeInv.
LEMMA HandshakeStep == HandshakeInv /\ [Next]_(vars) => HandshakeInv'
<1> SUFFICES ASSUME HandshakeInv, [Next]_(vars) PROVE HandshakeInv'
  OBVIOUS
<1>1. CASE UNCHANGED vars
  BY <1>1 DEF vars, sy, done, HandshakeInv, Positions, Cells, Effects,
              SyCell, DoneCell
<1>2. CASE Ended
  BY <1>1, <1>2 DEF Ended
<1>3. ASSUME NEW t \in Threads,
             Begin(t) \/ Enter(t) \/ Leave(t) \/ Library(t)
      PROVE  HandshakeInv'
  <2>1. CASE Leave(t)
    BY <2>1, SyLeaves, DoneLeaves DEF Leave
  <2> QED
    BY <1>3, <2>1, BeginKeeps, EnterKeeps, LibraryKeeps
<1> QED
  BY <1>1, <1>2, <1>3 DEF Next, Threads

\* The tests of sync_variable.cpp whose outcome the hand-over orders never
\* fail, in whatever order the two threads run (testSyncVariable, 24-46).
THEOREM TestsHold == Spec => []OrderedTestsHold
<1>1. HandshakeInv => OrderedTestsHold
  BY DEF HandshakeInv, Unordered, OrderedTestsHold
<1> QED
  BY <1>1, HandshakeInit, HandshakeStep, PTL DEF Spec

\* main is not past its readFE of sync_done before the task has called the
\* writeEF that readFE waits for: begin joins nothing, the variable does.
THEOREM MainWaits == Spec => []MainWaitsForTask
<1>1. HandshakeInv => MainWaitsForTask
  <2> SUFFICES ASSUME HandshakeInv, ip["main"] > 9 PROVE ip["task"] >= 4
    BY DEF MainWaitsForTask
  <2>1. Positions
    BY DEF HandshakeInv
  <2>2. Effects("main") >= 9
    BY <2>1 DEF Positions, Effects
  <2>3. Effects("task") >= 4
    BY <2>1, <2>2 DEF Positions
  <2> QED
    BY <2>1, <2>3 DEF Positions, Effects
<1> QED
  BY <1>1, HandshakeInit, HandshakeStep, PTL DEF Spec
=============================================================================
