----------------------------- MODULE LoopProgram -----------------------------
(***************************************************************************)
(* A program that builds a range with the operators by, + and #, perhaps   *)
(* makes it a dimension of a domain and applies by and # to that, or makes *)
(* it a part of a zippering, and runs a loop over the result, or a cobegin *)
(* of a few statements.  "it" is what the library computes; "parts" are    *)
(* the sequences the comments of range.hpp, domain.hpp and zip.hpp say its *)
(* ranges stand for, built without its formulas.                           *)
(***************************************************************************)
EXTENDS Domains, ParallelLoop, FiniteSets, SequencesExt

CONSTANTS
  Literals,   \* the range literals of the program
  Partners,   \* tuples of literals that become the other dimensions or parts
  Steps,      \* right operands of by
  Amounts,    \* right operands of +
  Counts,     \* right operands of #
  MaxOps,     \* how many operators one expression applies
  Horizon,    \* how much of an unbounded sequence is written out
  Sound       \* only the uses of + and # that range.hpp computes correctly

BoundTypes == {"bounded", "boundedLow", "boundedHigh"}

\* low..high, low.. or ..high, perhaps by stride; without by it counts in ones.
\* What has no first index is not built here, and what has both ends is written
\* out in full.
LiteralsAreRanges(ds) ==
  \A d \in ds :
     /\ d \in [boundedType : BoundTypes, low : Int, high : Int,
               stride : Int \ {0}, stridable : BOOLEAN]
     /\ d.stridable \/ d.stride = 1
     /\ d.boundedType = "boundedLow" => d.stride > 0
     /\ d.boundedType = "boundedHigh" => d.stride < 0
     /\ d.boundedType = "bounded" => d.high - d.low < Horizon

ASSUME ProgramAssumption ==
  /\ LiteralsAreRanges(Literals)
  /\ \A ds \in Partners : /\ ds \in Seq(ToSet(ds))
                          /\ LiteralsAreRanges(ToSet(ds))
  /\ Steps \subseteq Nat \ {0} /\ Amounts \subseteq Int /\ Counts \subseteq Int
  /\ MaxOps \in Nat /\ Horizon \in Nat /\ Sound \in BOOLEAN

VARIABLES
  it,         \* the iterand
  parts,      \* the indices of each of its ranges, in order
  ops         \* the operators applied so far

exprVars == <<it, parts, ops>>
vars == <<exprVars, loopVars>>

-----------------------------------------------------------------------------
(***************************************************************************)
(* The language's side.                                                    *)
(***************************************************************************)
Literal(b, low, high, s, stridable) ==
  [boundedType |-> b, low |-> low, high |-> high, stride |-> s, stridable |-> stridable]

\* Where the members of low..high by s start, and what is one of them.
Start(d) == IF d.stride > 0 THEN d.low ELSE d.high
Towards(d) == IF d.stride > 0 THEN 1 ELSE -1

IsMember(d, x) ==
  /\ d.boundedType # "boundedHigh" => d.low <= x
  /\ d.boundedType # "boundedLow" => x <= d.high
  /\ Abs(x - Start(d)) % Abs(d.stride) = 0

\* The members, one number after the other from the start.
Members(d) ==
  LET met[i \in 0..Horizon] ==
        IF i = 0 THEN <<>>
        ELSE LET x == Start(d) + (i - 1) * Towards(d)
             IN  IF IsMember(d, x) THEN Append(met[i - 1], x) ELSE met[i - 1]
  IN  met[Horizon]

EveryNth(s, n) == [i \in 1..((Len(s) + n - 1) \div n) |-> s[(i - 1) * n + 1]]
Moved(s, n) == [i \in 1..Len(s) |-> s[i] + n]
Taken(s, n) == IF n < 0 THEN SubSeq(s, Len(s) + n + 1, Len(s)) ELSE SubSeq(s, 1, n)

\* Each index of s with each of t, the rows one after the other; or the first
\* with the first, the second with the second, up to the end of the shorter.
Product(s, t) ==
  FlattenSeq([i \in 1..Len(s) |-> [j \in 1..Len(t) |-> Append(s[i], t[j])]])
Pairs(s, t) == [i \in 1..Smaller(Len(s), Len(t)) |-> Append(s[i], t[i])]

\* The indices of the whole, in order.
Denotes ==
  LET upTo[k \in 1..Len(parts)] ==
        IF k = 1 THEN [i \in 1..Len(parts[1]) |-> <<parts[1][i]>>]
        ELSE IF it.kind = "zip" THEN Pairs(upTo[k - 1], parts[k])
        ELSE Product(upTo[k - 1], parts[k])
  IN  upTo[Len(parts)]
-----------------------------------------------------------------------------
(***************************************************************************)
(* The library's side.                                                     *)
(***************************************************************************)
MakeRange(d) ==
  Open(d.boundedType, d.low, d.high + 1, d.stride, d.stridable)

Building == pc # "running" /\ it.kind # "zip" /\ ops < MaxOps

\* r by step; on a domain a step for each dimension, perhaps the same one.
ApplyBy(steps) ==
  /\ Building
  /\ it' = [it EXCEPT !.rs = [i \in DOMAIN @ |-> By(@[i], steps[i])]]
  /\ parts' = [i \in DOMAIN parts |-> EveryNth(parts[i], steps[i])]
  /\ ops' = ops + 1

\* r + n, which domains do not have.
ApplyShift(n) ==
  /\ Building /\ it.kind = "range"
  /\ Sound => it.rs[1].boundedType # "boundedHigh"
  /\ it' = Iterand("range", <<Shift(it.rs[1], n)>>)
  /\ parts' = <<Moved(parts[1], n)>>
  /\ ops' = ops + 1

\* The counts range.hpp has its assertions for.  A negative one wants a last
\* index to count from.
Countable(r, n) ==
  /\ n < 0 => IsBounded(r) /\ Abs(n) <= Size(r)
  /\ CountAsserted(r, n)
  /\ Sound => IF n < 0 THEN r.stride = 1 ELSE r.stride > 0
  /\ Sound /\ n = 0 => IsBounded(r)

\* r # n; on a domain a count for each dimension.
ApplyCount(counts) ==
  /\ Building
  /\ \A i \in DOMAIN it.rs : Countable(it.rs[i], counts[i])
  /\ it' = [it EXCEPT !.rs = [i \in DOMAIN @ |-> Count(@[i], counts[i])]]
  /\ parts' = [i \in DOMAIN parts |-> Taken(parts[i], counts[i])]
  /\ ops' = ops + 1

\* The program's range among its partners, in any place.
Beside(x, others, i) == InsertAt(others, i, x)
Others(ds) == [i \in DOMAIN ds |-> MakeRange(ds[i])]
TheirIndices(ds) == [i \in DOMAIN ds |-> Members(ds[i])]

\* Domain(r, ...), which takes bounded ranges only.  One operator of a domain
\* may follow.
MakeDomain(ds, i) ==
  LET rs == Beside(it.rs[1], Others(ds), i)
  IN  /\ Building /\ it.kind = "range"
      /\ \A j \in DOMAIN rs : IsBounded(rs[j])
      /\ it' = Iterand("domain",
                  [j \in DOMAIN rs |->
                     Convert(rs[j], \E k \in DOMAIN rs : rs[k].stridable)])
      /\ parts' = Beside(parts[1], TheirIndices(ds), i)
      /\ ops' = MaxOps - 1

\* zip(r, ...): all zippered objects need to be iterable.
MakeZip(ds, i) ==
  LET rs == Beside(it.rs[1], Others(ds), i)
  IN  /\ Building /\ it.kind = "range"
      /\ \A j \in DOMAIN rs : IsIterable(rs[j])
      /\ it' = Iterand("zip", rs)
      /\ parts' = Beside(parts[1], TheirIndices(ds), i)
      /\ ops' = MaxOps

Build ==
  /\ pc = "idle"
  /\ \/ \E steps \in [1..Len(it.rs) -> Steps] : ApplyBy(steps)
     \/ \E n \in Amounts : ApplyShift(n)
     \/ \E counts \in [1..Len(it.rs) -> Counts] : ApplyCount(counts)
     \/ \E ds \in Partners : \E i \in 1..(Len(ds) + 1) :
          MakeDomain(ds, i) \/ MakeZip(ds, i)
  /\ UNCHANGED loopVars

RunLoop(k, b) ==
  /\ pc = "idle"
  /\ IterandIsBounded(it)
  /\ Launch(k, IterandSize(it), b)
  /\ UNCHANGED exprVars

\* cobegin with n statements; what the program has built is of no matter.
RunCobegin(n, b) ==
  /\ pc = "idle" /\ ops = 0
  /\ Launch("cobegin", n, b)
  /\ UNCHANGED exprVars

ProgInit ==
  /\ \E d \in Literals :
       it = Iterand("range", <<MakeRange(d)>>) /\ parts = <<Members(d)>>
  /\ ops = 0
  /\ LoopInit

ProgNext ==
  \/ Build
  \/ \E k \in Kinds \ {"cobegin"}, b \in BOOLEAN : RunLoop(k, b)
  \/ \E n \in 1..MaxSize, b \in BOOLEAN : RunCobegin(n, b)
  \/ LoopStep /\ UNCHANGED exprVars

ProgSpec == ProgInit /\ [][ProgNext]_vars

\* hpx runs every task it was given; the caller is one of them.
ProgFairness ==
  /\ \A s \in Positions :
       WF_vars(s \in DOMAIN chunks /\ ChunkStep(s) /\ UNCHANGED exprVars)
  /\ WF_vars((Give \/ Return) /\ UNCHANGED exprVars)

FairProgSpec == ProgSpec /\ ProgFairness
-----------------------------------------------------------------------------
\* The library's expression stands for the language's sequence: as many
\* indices, the same ones, in the same order, after any chain of operators,
\* in every dimension of a domain or part of a zippering and in the whole.
\* first() and last() are its ends, and contains() misses none of it.  (A loop
\* leaves the expression alone, so it is compared before the loop.)
SameSequence == pc = "idle" =>
  /\ LET s == Denotes
     IN  /\ IterandIsBounded(it) => IterandSize(it) = Len(s)
         /\ \A p \in 0..(Len(s) - 1) : IndexAt(it, p) = s[p + 1]
  /\ \A i \in DOMAIN parts :
       LET r == it.rs[i]
           m == parts[i]
       IN  IsBounded(r) /\ m # <<>> =>
             /\ First(r) = Head(m) /\ LastOf(r) = m[Len(m)]
             /\ \A x \in ToSet(m) : ContainsIndex(r, x)

\* indexOrder is the reverse of orderToIndex (range.hpp:690, domain.hpp), on
\* strided ranges of either sign and across the rows of a domain.
PositionsInvert ==
  pc = "idle" /\ IterandIsBounded(it) /\ it.kind # "zip" =>
    \A p \in 0..(IterandSize(it) - 1) :
      DomainIndexOrder(it.rs, IndexAt(it, p)) = p

\* No task asks a range for a position it does not have, which is an error
\* (range.hpp:713-714) that orderToIndex's assertion lets pass for a bounded
\* range: each part of a zippering gets the positions of the shortest one.
OrdersAccepted ==
  it.kind # "domain" /\ kind # "cobegin" =>
    \A p \in Positions, i \in 1..Len(it.rs) :
      visits[p] > 0 => /\ OrderAsserted(it.rs[i], p)
                       /\ IsBounded(it.rs[i]) => p < Size(it.rs[i])

\* A loop that has returned has called its body with each index the language
\* says as often as it occurs in the sequence, and with nothing else.
EachIndexOnce ==
  pc = "returned" /\ kind # "cobegin" =>
    LET s == Denotes
        called == {p \in Positions : visits[p] > 0}
        Calls(x) == Cardinality({p \in called : IndexAt(it, p) = x})
        Wanted(x) == Cardinality({i \in 1..Len(s) : s[i] = x})
    IN  \A x \in ToSet(s) \cup {IndexAt(it, p) : p \in called} :
          Calls(x) = Wanted(x)

\* Every loop and every cobegin returns, even when each body waits for all the
\* others: coforall gives every index and cobegin every statement a task.
LoopReturns == pc = "running" ~> pc = "returned"
=============================================================================
