------------------------------ MODULE SyncSpec ------------------------------
(***************************************************************************)
(* What a sync variable promises its callers: the comments above the       *)
(* methods of chplx::Sync<T> (library/include/chplx/sync_variable.hpp),    *)
(* each method one atomic step between its call and its return.  There is  *)
(* no mutex and no condition variable here; SyncVar has them and is shown  *)
(* to implement this module.                                               *)
(*                                                                         *)
(* What an empty variable holds is left open, as the comment on readXX     *)
(* leaves it: "either a new default-initialized value of the value type or *)
(* the last value stored".                                                 *)
(***************************************************************************)

CONSTANTS
  Tasks,        \* the tasks that share the variable
  Vals,         \* the values its clients store
  Default,      \* T{}, the value of a default-initialized T
  Ops           \* the methods the clients call

VARIABLES
  value, full,  \* the two data members a caller can tell apart
  phase,        \* phase[t]: "idle", "pending" (called) or "done" (took effect)
  call,         \* call[t]: the method t is in, with its argument
  ret           \* ret[t]: what that method will return to t

vars == <<value, full, phase, call, ret>>

NoCall == [op |-> "none", arg |-> Default]

\* The methods that take a value, and the arguments of a call.
Writes == {"writeEF", "writeFF", "writeXF"}
Args(o) == IF o \in Writes THEN Vals ELSE {Default}

Init ==
  /\ \/ value = Default /\ full = FALSE
     \/ value \in Vals /\ full = TRUE
  /\ phase = [t \in Tasks |-> "idle"]
  /\ call = [t \in Tasks |-> NoCall]
  /\ ret = [t \in Tasks |-> Default]

Call(t, o, a) ==
  /\ phase[t] = "idle"
  /\ phase' = [phase EXCEPT ![t] = "pending"]
  /\ call' = [call EXCEPT ![t] = [op |-> o, arg |-> a]]
  /\ UNCHANGED <<value, full, ret>>

Effect(t, o, result) ==
  /\ phase[t] = "pending"
  /\ call[t].op = o
  /\ phase' = [phase EXCEPT ![t] = "done"]
  /\ ret' = [ret EXCEPT ![t] = result]
  /\ UNCHANGED call

\* "Returns true if the sync or single variable is in the full state"
IsFull(t) == Effect(t, "isFull", full) /\ UNCHANGED <<value, full>>

\* "the state of the sync variable is set to empty when this method completes"
Reset(t) ==
  /\ Effect(t, "reset", Default)
  /\ full' = FALSE
  /\ value' \in {value, Default}

\* "Blocks until the sync variable is full. Read the value [...] and set the
\* variable to empty."
ReadFE(t) ==
  /\ full
  /\ Effect(t, "readFE", value)
  /\ full' = FALSE
  /\ value' \in {value, Default}

\* "Blocks until the sync variable is full [...] leave the variable full."
ReadFF(t) ==
  /\ full
  /\ Effect(t, "readFF", value)
  /\ UNCHANGED <<value, full>>

\* "Does not change the full/empty state"
ReadXX(t) ==
  /\ \E v \in (IF full THEN {value} ELSE {value, Default}) :
        Effect(t, "readXX", v)
  /\ UNCHANGED <<value, full>>

\* "Block until the sync variable is empty. Write the value [...] and leave
\* the variable full"
WriteEF(t) ==
  /\ ~full
  /\ Effect(t, "writeEF", Default)
  /\ value' = call[t].arg
  /\ full' = TRUE

\* "Block until the sync variable is full. Write the value [...] and leave the
\* variable full."
WriteFF(t) ==
  /\ full
  /\ Effect(t, "writeFF", Default)
  /\ value' = call[t].arg
  /\ UNCHANGED full

\* "Write the value of the sync variable and leave the variable full."
WriteXF(t) ==
  /\ Effect(t, "writeXF", Default)
  /\ value' = call[t].arg
  /\ full' = TRUE

Return(t) ==
  /\ phase[t] = "done"
  /\ phase' = [phase EXCEPT ![t] = "idle"]
  /\ call' = [call EXCEPT ![t] = NoCall]
  /\ ret' = [ret EXCEPT ![t] = Default]
  /\ UNCHANGED <<value, full>>

Do(t) ==
  \/ IsFull(t) \/ Reset(t)
  \/ ReadFE(t) \/ ReadFF(t) \/ ReadXX(t)
  \/ WriteEF(t) \/ WriteFF(t) \/ WriteXF(t)

Next ==
  \E t \in Tasks :
     \/ \E o \in Ops : \E a \in Args(o) : Call(t, o, a)
     \/ Do(t)
     \/ Return(t)

Spec == Init /\ [][Next]_vars
=============================================================================
