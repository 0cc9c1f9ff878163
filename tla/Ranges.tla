------------------------------- MODULE Ranges -------------------------------
(***************************************************************************)
(* chplx::Range (library/include/chplx/range.hpp): the operators of the    *)
(* language on ranges, and the two conversions between an index and its    *)
(* position that every loop is built on.                                   *)
(*                                                                         *)
(* A range is its data members and its two template parameters.            *)
(* firstIndex is the low bound and lastIndex the high bound plus one; the  *)
(* bound a half-open range lacks is MinValue or MaxValue.  The alignment   *)
(* is left out: hasFirst and hasLast read it, but it is ambiguous only for *)
(* a half-open range strided away from its bound (..3 by 2), which has no  *)
(* first index and is not built here.                                      *)
(***************************************************************************)
EXTENDS Integers

CONSTANTS MinValue, MaxValue  \* the least and the greatest value of idxType

ASSUME RangesAssumption ==
  MinValue \in Int /\ MaxValue \in Int /\ MinValue < 0 /\ 0 < MaxValue

Abs(s) == IF s < 0 THEN -s ELSE s

\* Division and remainder of C++, which round towards zero.
CDiv(a, b) == IF a < 0 THEN -((-a) \div b) ELSE a \div b

-----------------------------------------------------------------------------
\* What the constructors leave in the members: Bounds ignores the argument for
\* a bound its type does not have.
Open(b, first, last, s, stridable) ==
  [boundedType |-> b,
   firstIndex  |-> IF b = "boundedHigh" THEN MinValue ELSE first,
   lastIndex   |-> IF b = "boundedLow" THEN MaxValue ELSE last,
   stride |-> s, stridable |-> stridable]

IsBounded(r) == r.boundedType = "bounded"

IsIterable(r) ==
  CASE r.boundedType = "bounded"     -> TRUE
    [] r.boundedType = "boundedLow"  -> r.stride > 0
    [] r.boundedType = "boundedHigh" -> r.stride < 0

HasFirst(r) ==
  IF r.stride > 0 THEN r.firstIndex # MinValue ELSE r.lastIndex # MaxValue

HasLast(r) ==
  IF r.stride > 0 THEN r.lastIndex # MaxValue ELSE r.firstIndex # MinValue

\* Mutant: the count of strides is rounded down.
MutSize_RoundDown(r) ==
  LET span == r.lastIndex - 1 - r.firstIndex
  IN  IF span < 0 THEN 0
      ELSE IF r.stridable THEN span \div Abs(r.stride)
      ELSE span + 1

\* highBound() - lowBound() is negative for an empty range.
Size(r) ==
  LET span == r.lastIndex - 1 - r.firstIndex
  IN  IF span < 0 THEN 0
      ELSE IF r.stridable THEN (span + Abs(r.stride)) \div Abs(r.stride)
      ELSE span + 1

First(r) == IF r.stride > 0 THEN r.firstIndex ELSE r.lastIndex - 1

\* round_down and round_up: the member next to value, counted from base.  For a
\* range with members, where neither difference is negative.
RoundedDown(value, base, s) == value - ((value - base) % s)
RoundedUp(value, base, s) == value + ((base - value) % s)

LastOf(r) ==
  IF r.stride > 0 THEN RoundedDown(r.lastIndex - 1, r.firstIndex, r.stride)
  ELSE RoundedUp(r.firstIndex, r.lastIndex - 1, -r.stride)

\* contains(ind): the bounds are asked, the stride is not.
ContainsIndex(r, ind) == r.firstIndex <= ind /\ ind <= r.lastIndex - 1

OrderToIndex(r, order) == First(r) + order * r.stride

\* The assertion at the head of orderToIndex.
OrderAsserted(r, order) ==
  order >= 0 /\ ((IsBounded(r) /\ order <= Size(r)) \/ HasFirst(r))

\* Mutant: the rounding term of the other branch.
MutIndexOrder_Rounding(r, idx) ==
  LET raw == IF r.stride > 0
             THEN CDiv(idx - First(r) + r.stride - 1, r.stride)
             ELSE CDiv(First(r) - idx + r.stride - 1, -r.stride)
  IN  IF ~r.stridable THEN idx - First(r)
      ELSE IF raw < 0 \/ raw > Size(r) THEN -1
      ELSE raw

\* For a bounded range: size() asserts that.
IndexOrder(r, idx) ==
  LET raw == IF r.stride > 0
             THEN CDiv(idx - First(r) + r.stride - 1, r.stride)
             ELSE CDiv(First(r) - idx - r.stride - 1, -r.stride)
  IN  IF ~r.stridable THEN idx - First(r)
      ELSE IF raw < 0 \/ raw > Size(r) THEN -1
      ELSE raw
-----------------------------------------------------------------------------
\* r by step
By(r, step) ==
  Open(r.boundedType, r.firstIndex, r.lastIndex, r.stride * step, TRUE)

\* r + n
Shift(r, n) ==
  Open(r.boundedType,
       IF HasFirst(r) THEN r.firstIndex + n ELSE r.firstIndex,
       IF HasLast(r) THEN r.lastIndex + n ELSE r.lastIndex,
       r.stride, r.stridable)

\* r # n.  distance picks the end the indices are taken from.
Count(r, n) ==
  LET distance == n * r.stride
      offset   == IF r.stride > 0 THEN r.stride - 1 ELSE r.stride + 2
  IN  IF distance > 0
      THEN Open("bounded", r.firstIndex, r.firstIndex + distance,
                r.stride, r.stridable)
      ELSE Open("bounded", r.lastIndex + distance + offset, r.lastIndex,
                r.stride, r.stridable)

\* The conversion to the common range type of a domain: strided if one is.
Convert(r, stridable) == [r EXCEPT !.stridable = stridable]

\* The assertions of count.
CountAsserted(r, n) == IsBounded(r) => n <= Size(r)
=============================================================================
