----------------------------- MODULE SyncClients -----------------------------
(***************************************************************************)
(* SyncVar with its clients: each task runs a fixed program of calls, one  *)
(* after the other, as the body of a chplx::begin or coforall task does.   *)
(* The library's own steps and the tasks are scheduled fairly: a task the  *)
(* scheduler can run does run.  A program is finite, so in the end nobody  *)
(* contends for the spinlock and weak fairness is enough to take it.       *)
(***************************************************************************)
EXTENDS SyncVar, Naturals, Sequences, FiniteSets

CONSTANT Program      \* Program[t]: the calls of t, a sequence of [op, arg]

ASSUME ProgramAssumption ==
  /\ Program \in [Tasks -> Seq([op : Ops, arg : Values])]
  /\ \A t \in Tasks : \A i \in DOMAIN Program[t] :
       Program[t][i].arg \in Args(Program[t][i].op)

VARIABLES
  todo,       \* todo[t]: the calls t has yet to make
  received    \* received[t]: what the readFE calls of t returned, in order

clientVars == <<value, full, mtx, cv_read, cv_write, pc, call, ret, todo, received>>

ClientInit ==
  /\ Init /\ ~full
  /\ todo = Program
  /\ received = [t \in Tasks |-> <<>>]

ClientCall(t) ==
  /\ todo[t] # <<>>
  /\ Call(t, Head(todo[t]).op, Head(todo[t]).arg)
  /\ todo' = [todo EXCEPT ![t] = Tail(@)]
  /\ UNCHANGED received

ClientReturn(t) ==
  /\ Return(t)
  /\ received' = IF call[t].op = "readFE"
                 THEN [received EXCEPT ![t] = Append(@, ret[t])]
                 ELSE received
  /\ UNCHANGED todo

Library(t) == Run(t) /\ UNCHANGED <<todo, received>>

Finished == \A t \in Tasks : todo[t] = <<>> /\ pc[t] = "idle"

\* Every program has run to its end; a state where tasks sleep is not this one.
Terminated == Finished /\ UNCHANGED clientVars

ClientNext ==
  \/ \E t \in Tasks :
        \/ ClientCall(t)
        \/ Library(t)
        \/ ClientReturn(t)
  \/ Terminated

Fairness ==
  \A t \in Tasks :
     /\ WF_clientVars(ClientCall(t))
     /\ WF_clientVars(Library(t))
     /\ WF_clientVars(ClientReturn(t))

ClientSpec == ClientInit /\ [][ClientNext]_clientVars /\ Fairness
-----------------------------------------------------------------------------
Elements(seq) == {seq[i] : i \in DOMAIN seq}

\* The values t has handed over: its writeEF has changed the variable.
HandedOver(t) ==
  {Program[t][i].arg : i \in {j \in 1 .. Len(Program[t]) - Len(todo[t]) :
     /\ Program[t][j].op = "writeEF"
     /\ j = Len(Program[t]) - Len(todo[t]) => pc[t] \in {"notify", "done", "idle"}}}

\* The values t has taken out: a readFE of its has emptied the variable.
TakenOut(t) ==
  Elements(received[t]) \cup
  (IF call[t].op = "readFE" /\ pc[t] \in {"notify", "done"} THEN {ret[t]} ELSE {})

\* With the writers' values all different and no reset, a value handed over is
\* in the variable or has been taken by exactly one readFE, and none is taken
\* that nobody wrote (readFE against writeEF, 56-70 and 94-105).
ExactlyOnce ==
  LET stored == IF full THEN {value} ELSE {}
      taken == UNION {TakenOut(t) : t \in Tasks}
  IN  /\ UNION {HandedOver(t) : t \in Tasks} = stored \cup taken
      /\ stored \cap taken = {}
      /\ \A t, u \in Tasks : t # u => TakenOut(t) \cap TakenOut(u) = {}
      /\ \A t \in Tasks : Cardinality(Elements(received[t])) = Len(received[t])

\* Programs with as many readFE as writeEF calls, made by different tasks, all
\* come to an end: no interleaving leaves a reader or a writer asleep.
BalancedTermination == <>Finished

\* "Blocks until the sync variable is full" (54, 72, 107): a task does not stay
\* asleep in cv_write.wait while the variable stays full.
FullReleasesReaders ==
  \A t \in Tasks : <>[]full => []<>(t \notin cv_write)

\* "leave the variable full" (118), of writeXF.
WriteXFLeavesFull == [][\A t \in Tasks : WriteXF(t) => full']_clientVars
=============================================================================
