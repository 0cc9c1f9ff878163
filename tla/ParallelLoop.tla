---------------------------- MODULE ParallelLoop ----------------------------
(***************************************************************************)
(* One loop at a time over "size" positions, by one of                     *)
(*   forLoop   the caller walks the positions itself (for_loop.hpp)        *)
(*   forall    hpx's for_loop cuts one IteratorGenerator into chunks with  *)
(*             subrange() and each chunk walks its own positions           *)
(*             (forall_loop.hpp, detail/iterator_generator.hpp)            *)
(*   coforall  bulk_async_execute starts one task for each position and    *)
(*             wait_all joins them (coforall_loop.hpp)                     *)
(*   cobegin   a task_group is given the statements one after the other, a *)
(*             task for each, and waits for them (cobegin.hpp)             *)
(* and the calls of the loop body, or of the statements, they make.        *)
(*                                                                         *)
(* A chunk is the state of one iterate() coroutine: first is its ilo, size *)
(* its count-down, busy tells whether a body call is running.  Chunks are  *)
(* named by the position they start at.  How hpx cuts a range and when it  *)
(* runs a chunk is up to hpx: any cut, any order, all in parallel.         *)
(***************************************************************************)
EXTENDS Integers

CONSTANT MaxSize    \* the largest loop

ASSUME LoopAssumption == MaxSize \in Nat

Positions == 0..(MaxSize - 1)
Kinds == {"forLoop", "forall", "coforall", "cobegin"}
OneTaskEach == {"coforall", "cobegin"}

VARIABLES
  pc,       \* the caller: "idle", "running" (inside the loop), "returned"
  kind,     \* which loop it called
  size,     \* size() of the iterand
  meets,    \* the bodies wait for each other, as behind a barrier
  given,    \* how many positions have been given to hpx
  chunks,   \* the coroutines that exist, by starting position
  visits    \* how often the body was called for each position

loopVars == <<pc, kind, size, meets, given, chunks, visits>>

LoopInit ==
  /\ pc = "idle"
  /\ kind = "forLoop"
  /\ size = 0
  /\ meets = FALSE
  /\ given = 0
  /\ chunks = [p \in {} |-> 0]
  /\ visits = [p \in Positions |-> 0]
-----------------------------------------------------------------------------
Generator(f, n) == [first |-> f, size |-> n, busy |-> FALSE]

\* Mutant: a piece of a piece forgets where the piece began.
MutSubrange_Absolute(g, f, n) == Generator(f, n)

\* subrange(r, first, size)
Subrange(g, f, n) == Generator(g.first + f, n)

\* Mutant: one coroutine for each position.
MutWholeChunk_Each(n) == [p \in 0..(n - 1) |-> Generator(p, 1)]

\* The whole iterand in one chunk; an empty one is not iterated.
WholeChunk(n) == IF n = 0 THEN [p \in {} |-> 0] ELSE [p \in {0} |-> Generator(0, n)]

\* Mutant: one task runs the bodies one after the other.
MutBulkChunks_Combined(n) == WholeChunk(n)

\* Mutant: idx <= size().
MutBulkChunks_OneMore(n) == [p \in 0..n |-> Generator(p, 1)]

\* One task for each idx < size().
BulkChunks(n) == [p \in 0..(n - 1) |-> Generator(p, 1)]

\* What a loop starts with; a cobegin has yet to give out its statements.
FirstChunks(k, n) ==
  CASE k = "cobegin"  -> [p \in {} |-> 0]
    [] k = "coforall" -> BulkChunks(n)
    [] OTHER          -> WholeChunk(n)

\* Bodies that wait for each other need a task each.
Launch(k, n, b) ==
  /\ pc # "running"
  /\ n \in 0..MaxSize
  /\ b => k \in OneTaskEach
  /\ pc' = "running"
  /\ kind' = k
  /\ size' = n
  /\ meets' = b
  /\ given' = IF k = "cobegin" THEN 0 ELSE n
  /\ chunks' = FirstChunks(k, n)
  /\ visits' = [p \in Positions |-> 0]

\* g.run(f): the statement gets a task, which may run at once or later.
Give ==
  /\ pc = "running"
  /\ given < size
  /\ given' = given + 1
  /\ chunks' = [p \in DOMAIN chunks \cup {given} |->
                 IF p = given THEN Generator(p, 1) ELSE chunks[p]]
  /\ UNCHANGED <<pc, kind, size, meets, visits>>

\* hpx cuts a chunk that nobody has begun.
Split(s, n) ==
  /\ kind = "forall"
  /\ LET g == chunks[s]
     IN  /\ g.first = s /\ ~g.busy /\ n \in 1..(g.size - 1)
         /\ chunks' = [p \in DOMAIN chunks \cup {s + n} |->
                        IF p = s THEN Subrange(g, 0, n)
                        ELSE IF p = s + n THEN Subrange(g, n, g.size - n)
                        ELSE chunks[p]]
  /\ UNCHANGED <<pc, kind, size, meets, given, visits>>

\* size-- != 0: co_yield target[ilo], and the body is called with it.
Begin(s) ==
  /\ ~chunks[s].busy
  /\ chunks[s].size # 0
  /\ chunks' = [chunks EXCEPT ![s].size = @ - 1, ![s].busy = TRUE]
  /\ visits' = [visits EXCEPT ![chunks[s].first] = @ + 1]
  /\ UNCHANGED <<pc, kind, size, meets, given>>

EveryBodyCalled == \A p \in 0..(size - 1) : visits[p] > 0

\* The body returns and ++ilo.
End(s) ==
  /\ chunks[s].busy
  /\ meets => EveryBodyCalled
  /\ chunks' = [chunks EXCEPT ![s].first = @ + 1, ![s].busy = FALSE]
  /\ UNCHANGED <<pc, kind, size, meets, given, visits>>

\* size-- == 0: the coroutine ends, and with it the task that ran it.
Finish(s) ==
  /\ ~chunks[s].busy
  /\ chunks[s].size = 0
  /\ chunks' = [p \in DOMAIN chunks \ {s} |-> chunks[p]]
  /\ UNCHANGED <<pc, kind, size, meets, given, visits>>

\* Mutant: the futures of the tasks are dropped instead of waited for.
MutReturn_NoWait ==
  /\ pc = "running"
  /\ pc' = "returned"
  /\ UNCHANGED <<kind, size, meets, given, chunks, visits>>

\* hpx's for_loop, wait_all and task_group::wait return when every task has
\* ended.
Return ==
  /\ pc = "running"
  /\ given = size
  /\ DOMAIN chunks = {}
  /\ pc' = "returned"
  /\ UNCHANGED <<kind, size, meets, given, chunks, visits>>

ChunkStep(s) == Begin(s) \/ End(s) \/ Finish(s) \/ \E n \in Positions : Split(s, n)

LoopStep == (\E s \in DOMAIN chunks : ChunkStep(s)) \/ Give \/ Return

Next == (\E k \in Kinds, n \in 0..MaxSize, b \in BOOLEAN : Launch(k, n, b)) \/ LoopStep

Spec == LoopInit /\ [][Next]_loopVars
-----------------------------------------------------------------------------
\* Types.
Chunk == [first : Nat, size : 0..MaxSize, busy : BOOLEAN]

TypeOK ==
  /\ pc \in {"idle", "running", "returned"}
  /\ kind \in Kinds
  /\ size \in 0..MaxSize
  /\ meets \in BOOLEAN
  /\ given \in 0..size
  /\ DOMAIN chunks \subseteq Positions
  /\ chunks \in [DOMAIN chunks -> Chunk]
  /\ visits \in [Positions -> Nat]

\* No position is visited twice, whatever the cuts and whatever the order the
\* chunks run in.
NeverTwice == \A p \in Positions : visits[p] <= 1

\* When the loop returns to its caller the body was called once for each
\* position, no call is missing and none is still to come.
AllVisited ==
  pc = "returned" =>
    /\ \A p \in 0..(size - 1) : visits[p] = 1
    /\ \A p \in size..(MaxSize - 1) : visits[p] = 0
    /\ DOMAIN chunks = {}

\* A sequential loop visits the positions from the first to the last.
InOrder ==
  kind = "forLoop" =>
    \A p, q \in Positions : p < q /\ visits[q] > 0 => visits[p] > 0
-----------------------------------------------------------------------------
(***************************************************************************)
(* Why: the chunks lie side by side.  A chunk that started at s owns the   *)
(* positions from s up to where it will stop; no two chunks own the same   *)
(* one; in what a chunk owns, the part behind it is visited and the part   *)
(* before it is not; what no chunk owns is visited if it has been given to *)
(* hpx, and not if not; and there are chunks only while the loop runs.     *)
(***************************************************************************)
Upcoming(s) == IF chunks[s].busy THEN chunks[s].first + 1 ELSE chunks[s].first
Stop(s) == Upcoming(s) + chunks[s].size
Owns(s, p) == s <= p /\ p < Stop(s)

ChunksInside ==
  \A s \in DOMAIN chunks : /\ s <= chunks[s].first
                           /\ s < Stop(s) /\ Stop(s) <= given

ChunksApart ==
  \A s, t \in DOMAIN chunks : s < t => Stop(s) <= t

VisitedBehind ==
  \A s \in DOMAIN chunks : \A p \in Positions :
    Owns(s, p) => visits[p] = IF p < Upcoming(s) THEN 1 ELSE 0

VisitedOutside ==
  \A p \in Positions :
    (\A s \in DOMAIN chunks : ~Owns(s, p)) =>
      visits[p] = IF p < given THEN 1 ELSE 0

OneSequentialChunk ==
  kind = "forLoop" => \A s \in DOMAIN chunks : s = 0 /\ Stop(s) = size

ChunksWhileRunning == pc # "running" => DOMAIN chunks = {} /\ given = size

AllGiven == kind # "cobegin" => given = size

LoopInvariant ==
  /\ TypeOK
  /\ ChunksInside
  /\ ChunksApart
  /\ VisitedBehind
  /\ VisitedOutside
  /\ OneSequentialChunk
  /\ ChunksWhileRunning
  /\ AllGiven
=============================================================================
