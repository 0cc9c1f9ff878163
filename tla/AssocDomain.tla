---------------------------- MODULE AssocDomain ----------------------------
(***************************************************************************)
(* chplx::AssocDomain and IndexBuffer: a program that adds and removes     *)
(* indices, fills index buffers, and meanwhile, in the body, loops over    *)
(* the domain.  indices is the contents of the flat_set, whose order is    *)
(* that of the indices; target, maxSize and buffer are those of the class. *)
(***************************************************************************)
EXTENDS Integers, FiniteSets, SequencesExt

CONSTANTS
  Indices,     \* the indices of the program, which are ordered by <
  MaxSizes,    \* the sizes it creates index buffers with
  MaxBuffers   \* how many buffers it makes in all, copies included

ASSUME AssocAssumption ==
  Indices \subseteq Int /\ IsFiniteSet(Indices) /\ MaxSizes \subseteq Nat /\ MaxBuffers \in Nat

VARIABLES
  indices,
  buffers,  \* the buffers that exist: the number of each -> [held, maxSize]
  made,     \* how many buffers have been made
  loop      \* the coroutine of a loop over the domain, or none

vars == <<indices, buffers, made, loop>>

NoLoop == [running |-> FALSE, target |-> {}, first |-> 0, size |-> 0, yielded |-> <<>>]

AssocInit ==
  indices = {} /\ buffers = [b \in {} |-> 0] /\ made = 0 /\ loop = NoLoop
------------------------------------------------------------------------------
(* Positions *)

(* std::distance(begin, it), -1 if idx is not there; *std::next(begin, n). *)
Below(set, idx) == Cardinality({i \in set : i < idx})
indexOrder(set, idx) == IF idx \in set THEN Below(set, idx) ELSE -1
orderToIndex(set, order) == CHOOSE i \in set : Below(set, i) = order
------------------------------------------------------------------------------
(* The domain *)

Buffers == UNCHANGED <<buffers, made>>
add(idx)    == indices' = indices \cup {idx} /\ Buffers /\ UNCHANGED loop
remove(idx) == indices' = indices \ {idx} /\ Buffers /\ UNCHANGED loop
clear       == indices' = {} /\ Buffers /\ UNCHANGED loop
------------------------------------------------------------------------------
(* Index buffers *)

Making == made < MaxBuffers /\ made' = made + 1 /\ UNCHANGED <<indices, loop>>
New(buffer, others) ==
  [b \in DOMAIN buffers \cup {made + 1} |-> IF b = made + 1 THEN buffer ELSE others[b]]
Holding(b, held) ==
  [buffers EXCEPT ![b] = [held |-> held, maxSize |-> buffers[b].maxSize]]

CreateIndexBuffer(size) ==
  Making /\ buffers' = New([held |-> <<>>, maxSize |-> size], buffers)

(* IndexBuffer(IndexBuffer const &), IndexBuffer(IndexBuffer &&) *)
Copy(b) == Making /\ buffers' = New(buffers[b], buffers)
Move(b) == Making /\ buffers' = New(buffers[b], Holding(b, <<>>))

(* commit: insert everything that is held, duplicates or not, and clear.   *)
Committed(b) == indices \cup ToSet(buffers[b].held)
Commit(b) ==
  indices' = Committed(b) /\ buffers' = Holding(b, <<>>) /\ UNCHANGED <<made, loop>>

(* A full buffer is committed to make room. *)
IsFull(b) == Len(buffers[b].held) >= buffers[b].maxSize

(* Mutant: room is made without handing over what took it. *)
MutBufferAdd_NoCommit(b, idx) ==
  /\ UNCHANGED <<made, loop, indices>>
  /\ buffers' = Holding(b, Append(IF IsFull(b) THEN <<>> ELSE buffers[b].held, idx))

BufferAdd(b, idx) ==
  /\ UNCHANGED <<made, loop>>
  /\ indices' = IF IsFull(b) THEN Committed(b) ELSE indices
  /\ buffers' = Holding(b, Append(IF IsFull(b) THEN <<>> ELSE buffers[b].held, idx))

(* Mutant: only the buffer made last commits at its end. *)
MutDestroy_LastOnly(b) ==
  /\ indices' = IF b = made THEN Committed(b) ELSE indices
  /\ buffers' = [c \in DOMAIN buffers \ {b} |-> buffers[c]]
  /\ UNCHANGED <<made, loop>>

(* ~IndexBuffer: the scope of the buffer ends. *)
Destroy(b) ==
  /\ indices' = Committed(b)
  /\ buffers' = [c \in DOMAIN buffers \ {b} |-> buffers[c]]
  /\ UNCHANGED <<made, loop>>
------------------------------------------------------------------------------
(* A loop: iterate() works on an IteratorGenerator, which has a copy of    *)
(* the domain.                                                             *)

StartLoop ==
  /\ ~loop.running /\ UNCHANGED <<indices, buffers, made>>
  /\ loop' = [running |-> TRUE, target |-> indices, first |-> 0,
              size |-> Cardinality(indices), yielded |-> <<>>]

(* Mutant: the loop works on the domain itself. *)
MutYield_Live ==
  /\ loop.running /\ loop.size # 0 /\ loop.first < Cardinality(indices)
  /\ UNCHANGED <<indices, buffers, made>>
  /\ loop' = [loop EXCEPT !.size = @ - 1, !.first = @ + 1,
                          !.yielded = Append(@, orderToIndex(indices, loop.first))]

Yield ==
  /\ loop.running /\ loop.size # 0 /\ UNCHANGED <<indices, buffers, made>>
  /\ loop' = [loop EXCEPT !.size = @ - 1, !.first = @ + 1,
                          !.yielded = Append(@, orderToIndex(loop.target, loop.first))]

EndLoop ==
  /\ loop.running /\ loop.size = 0 /\ UNCHANGED <<indices, buffers, made>>
  /\ loop' = NoLoop

Next ==
  \/ clear \/ StartLoop \/ Yield \/ EndLoop
  \/ \E idx \in Indices : add(idx) \/ remove(idx)
  \/ \E size \in MaxSizes : CreateIndexBuffer(size)
  \/ \E b \in DOMAIN buffers :
       Copy(b) \/ Move(b) \/ Commit(b) \/ Destroy(b) \/ \E idx \in Indices : BufferAdd(b, idx)

(* Every scope ends some time. *)
Ids == 1 .. MaxBuffers
Spec ==
  /\ AssocInit /\ [][Next]_vars
  /\ \A b \in Ids : WF_vars(b \in DOMAIN buffers /\ Destroy(b))
------------------------------------------------------------------------------
(* Properties *)

Held == UNION {ToSet(buffers[b].held) : b \in DOMAIN buffers}

Abstract == INSTANCE AssocSpec WITH domain <- indices, owed <- Held

(* No index gets lost on its way into the domain and none appears from     *)
(* nowhere: what any buffer stops holding, when it is full, committed,     *)
(* copied, moved or at its end, goes into the domain in the same step.     *)
ImplementsAssocSpec == Abstract!Spec

(* What was added to a buffer gets into the domain, although nobody        *)
(* commits it: at the latest when the last buffer it was moved to ends.    *)
EveryIndexArrives == \A i \in Indices : i \in Held ~> i \in indices

(* A loop visits the domain it was started on, each index once and in      *)
(* order, whatever its body and the buffers do to the domain meanwhile.    *)
LoopSeesStart ==
  loop.running =>
    /\ loop.first + loop.size = Cardinality(loop.target)
    /\ Len(loop.yielded) = loop.first
    /\ \A n \in 1 .. loop.first : indexOrder(loop.target, loop.yielded[n]) = n - 1
=============================================================================
