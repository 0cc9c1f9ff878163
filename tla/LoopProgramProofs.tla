-------------------------- MODULE LoopProgramProofs --------------------------
(***************************************************************************)
(* What holds of every program of LoopProgram, whatever its literals and   *)
(* operators: first of ranges and domains, whose arithmetic every loop is  *)
(* built on, then of loops over any number of positions, and last of the   *)
(* programs that put the two together.  Integers are unbounded here: what  *)
(* holds is the arithmetic, not its absence of overflow.                   *)
(***************************************************************************)
EXTENDS LoopProgram, FiniteSetTheorems, SequenceTheorems, WellFoundedInduction, TLAPS

(***************************************************************************)
(* Induction and recursion, without an operator as a parameter.            *)
(***************************************************************************)
\* Every set of natural numbers that is not empty has a least one.
LEMMA LeastNumber ==
  ASSUME NEW T, T \subseteq Nat, T # {}
  PROVE  \E n \in T : \A m \in T : n <= m
<1> DEFINE U == {0..n : n \in T}
           R == StrictSubsetOrdering(Nat)
<1>1. IsWellFoundedOn(R, FiniteSubsetsOf(Nat))
  BY FS_StrictSubsetOrderingWellFounded
<1>2. U \subseteq FiniteSubsetsOf(Nat) /\ U # {}
  <2>1. ASSUME NEW n \in T PROVE 0..n \subseteq Nat /\ IsFiniteSet(0..n)
    BY FS_Interval
  <2> QED
    BY <2>1 DEF FiniteSubsetsOf
<1>3. PICK x \in U : \A y \in U : ~ (<<y, x>> \in R)
  <2> HIDE DEF U, R
  <2> QED
    BY <1>1, <1>2, WFMin
<1>4. PICK n \in T : x = 0..n
  BY <1>3
<1>5. ASSUME NEW m \in T, m < n PROVE FALSE
  <2>1. 0..m \in U /\ 0..m \subseteq 0..n /\ 0..m # 0..n /\ 0..m \subseteq Nat /\ 0..n \subseteq Nat
    <3>1. n \in 0..n /\ ~(n \in 0..m)
      BY <1>5
    <3> QED
      BY <1>5, <3>1
  <2>2. <<0..m, 0..n>> \in R
    BY <2>1 DEF StrictSubsetOrdering
  <2> QED
    BY <1>3, <1>4, <2>1, <2>2
<1> QED
  BY <1>5

\* Induction from a up to b, for a set in the place of a predicate.
Inductive(a, b, S) == a \in S /\ \A n \in (a..b) \ {a} : n - 1 \in S => n \in S

\* Such a set has all of a..b in it.
LEMMA Induct ==
  ASSUME NEW a \in Int, NEW b \in Int, NEW S, Inductive(a, b, S)
  PROVE  a..b \subseteq S
<1> USE DEF Inductive
<1> DEFINE T == {n \in Nat : a + n <= b /\ a + n \notin S}
<1>1. SUFFICES ASSUME T # {} PROVE FALSE
  <2>1. ASSUME NEW m \in a..b, m \notin S PROVE m - a \in T
    <3>1. m - a \in Nat /\ a + (m - a) = m
      BY <2>1
    <3> QED
      BY <2>1, <3>1
  <2> QED
    BY <2>1
<1>2. PICK n \in T : \A m \in T : n <= m
  <2> HIDE DEF T
  <2> QED
    BY <1>1, LeastNumber DEF T
<1>3. n # 0 /\ n \in Nat /\ a + n <= b /\ a + n \notin S
  BY <1>2
<1>4. n - 1 \in Nat /\ a + (n - 1) = (a + n) - 1 /\ a + n \in a..b /\ a + n # a
  BY <1>3
<1>5. a + (n - 1) \in S
  BY <1>2, <1>3, <1>4
<1> QED
  BY <1>3, <1>4, <1>5

\* Primitive recursion from a up to b, for a function in the place of an
\* operator.
StepFunctions(a, b, S) == [(a..b) \ {a} -> [S -> S]]

Recurses(a, b, S, base, step) ==
  \E f \in [a..b -> S] :
     f[a] = base /\ \A n \in (a..b) \ {a} : f[n] = step[n][f[n - 1]]

\* The function that starts with base and goes on by step is there.
LEMMA Recursion ==
  ASSUME NEW a \in Int, NEW b \in Int, a <= b, NEW S, NEW base \in S,
         NEW step \in StepFunctions(a, b, S)
  PROVE  Recurses(a, b, S, base, step)
<1> DEFINE Def(n) == Recurses(a, n, S, base, step)
           D == {n \in a..b : Def(n)}
<1>1. a \in D
  <2> DEFINE f == [i \in a..a |-> base]
  <2>1. f \in [a..a -> S] /\ f[a] = base /\ \A i \in a..a : i = a
    OBVIOUS
  <2> HIDE DEF f
  <2> QED
    BY <2>1 DEF Recurses
<1>2. ASSUME NEW n \in (a..b) \ {a}, n - 1 \in D PROVE n \in D
  <2>1. PICK f \in [a..(n - 1) -> S] :
          f[a] = base /\ \A i \in (a..(n - 1)) \ {a} : f[i] = step[i][f[i - 1]]
    BY <1>2 DEF Recurses
  <2>2. step[n][f[n - 1]] \in S
    <3>1. f[n - 1] \in S /\ step[n] \in [S -> S]
      BY <1>2 DEF StepFunctions
    <3> QED
      BY <3>1
  <2> DEFINE g == [i \in a..n |-> IF i = n THEN step[n][f[n - 1]] ELSE f[i]]
  <2>3. g \in [a..n -> S] /\ g[a] = base
    BY <1>2, <2>1, <2>2
  <2>4. ASSUME NEW i \in (a..n) \ {a} PROVE g[i] = step[i][g[i - 1]]
    <3>1. CASE i = n
      <4>1. g[i] = step[n][f[n - 1]] /\ g[i - 1] = f[n - 1]
        BY <1>2, <3>1
      <4> HIDE DEF g
      <4> QED
        BY <3>1, <4>1
    <3>2. CASE i \in a..(n - 1)
      <4>1. g[i] = f[i] /\ g[i - 1] = f[i - 1]
        BY <2>4, <3>2
      <4>2. f[i] = step[i][f[i - 1]]
        BY <2>1, <2>4, <3>2
      <4> HIDE DEF g
      <4> QED
        BY <4>1, <4>2
    <3> QED
      BY <3>1, <3>2
  <2> HIDE DEF g
  <2>5. Recurses(a, n, S, base, step)
    BY <2>3, <2>4 DEF Recurses
  <2> QED
    BY <2>5
<1>3. a..b \subseteq D
  <2>1. Inductive(a, b, D)
    BY <1>1, <1>2 DEF Inductive
  <2> HIDE DEF D
  <2> QED
    BY <2>1, Induct
<1> QED
  BY <1>3
-----------------------------------------------------------------------------
(***************************************************************************)
(* Ranges.                                                                 *)
(***************************************************************************)
\* The bounded ranges: without by the stride is 1.
BoundedRange ==
  { r \in [boundedType : {"bounded"}, firstIndex : Int, lastIndex : Int,
           stride : Int \ {0}, stridable : BOOLEAN] :
      r.stridable \/ r.stride = 1 }

Span(r) == r.lastIndex - 1 - r.firstIndex
Step(r) == Abs(r.stride)

\* A multiple, rounded up by less than the divisor, is divided exactly.
LEMMA DivideMultiple ==
  \A a \in Nat, s \in Nat \ {0} : (a * s + (s - 1)) \div s = a
  OBVIOUS

\* Rounding up: the quotient is the number of multiples of s up to n.
LEMMA RoundUp ==
  \A n \in Nat, s \in Nat \ {0} :
    /\ (n + s) \div s \in Nat
    /\ \A p \in Nat : p < (n + s) \div s <=> p * s <= n
<1> TAKE n \in Nat, s \in Nat \ {0}
<1> DEFINE q == (n + s) \div s
<1>1. q \in Nat /\ q * s <= n + s /\ n + s < (q + 1) * s
  OBVIOUS
<1>2. ASSUME NEW p \in Nat, p < q PROVE p * s <= n
  <2>1. (p + 1) * s <= q * s
    BY <1>1, <1>2
  <2> QED
    BY <1>1, <2>1
<1>3. ASSUME NEW p \in Nat, p * s <= n PROVE p < q
  <2>1. (p + 1) * s < (q + 1) * s
    BY <1>1, <1>3
  <2> QED
    BY <1>1, <2>1
<1> QED
  BY <1>1, <1>2, <1>3

\* The members of a bounded range have their types.
LEMMA RangeTypes ==
  ASSUME NEW r \in BoundedRange
  PROVE  /\ r.boundedType = "bounded" /\ r.firstIndex \in Int /\ r.lastIndex \in Int
         /\ r.stride \in Int /\ r.stride # 0 /\ (~r.stridable => r.stride = 1)
         /\ Span(r) \in Int /\ Step(r) \in Nat \ {0} /\ First(r) \in Int
BY DEF BoundedRange, Span, Step, Abs, First

\* size() is a natural number, and a position is below it just when its
\* multiple of the stride is within the bounds: no index is lost at the end
\* the stride does not meet, and none is counted that is not there.
THEOREM SizeCountsMembers ==
  ASSUME NEW r \in BoundedRange
  PROVE  /\ Size(r) \in Nat
         /\ \A p \in Nat : p < Size(r) <=> p * Step(r) <= Span(r)
<1> USE RangeTypes
<1>1. CASE Span(r) < 0
  <2>1. Size(r) = 0
    BY <1>1 DEF Size, Span
  <2>2. \A p \in Nat : p * Step(r) >= 0
    OBVIOUS
  <2> QED
    BY <1>1, <2>1, <2>2
<1>2. CASE Span(r) >= 0 /\ ~r.stridable
  <2>1. Size(r) = Span(r) + 1 /\ Step(r) = 1
    BY <1>2 DEF Size, Span, Step, Abs
  <2> QED
    BY <1>2, <2>1
<1>3. CASE Span(r) >= 0 /\ r.stridable
  <2>1. Size(r) = (Span(r) + Step(r)) \div Step(r)
    BY <1>3 DEF Size, Span, Step
  <2>2. Span(r) \in Nat /\ Step(r) \in Nat \ {0}
    BY <1>3
  <2> QED
    BY <2>1, <2>2, RoundUp, Zenon
<1> QED
  BY <1>1, <1>2, <1>3

\* orderToIndex of a position below size() is an index between the bounds.
THEOREM OrdersAreInside ==
  ASSUME NEW r \in BoundedRange, NEW p \in Nat, p < Size(r)
  PROVE  OrderToIndex(r, p) \in r.firstIndex..(r.lastIndex - 1)
<1> USE RangeTypes
<1>1. p * Step(r) <= Span(r) /\ p * Step(r) >= 0
  BY SizeCountsMembers
<1>2. CASE r.stride > 0
  <2>1. OrderToIndex(r, p) = r.firstIndex + p * Step(r)
    BY <1>2 DEF OrderToIndex, First, Step, Abs
  <2> QED
    BY <1>1, <2>1 DEF Span
<1>3. CASE r.stride < 0
  <2>1. OrderToIndex(r, p) = r.lastIndex - 1 - p * Step(r)
    BY <1>3 DEF OrderToIndex, First, Step, Abs
  <2> QED
    BY <1>1, <2>1 DEF Span
<1> QED
  BY <1>2, <1>3

\* What division leaves over is what the last whole multiple falls short by.
LEMMA LastMultiple ==
  \A n \in Nat, s \in Nat \ {0} : ((n + s) \div s - 1) * s = n - (n % s)
<1> TAKE n \in Nat, s \in Nat \ {0}
<1> DEFINE q == n \div s
           m == n % s
<1>1. q \in Nat /\ m \in 0 .. (s - 1) /\ n = q * s + m
  OBVIOUS
<1>2. n + s = (q + 1) * s + m
  BY <1>1
<1>3. (n + s) \div s = q + 1
  <2> DEFINE u == (n + s) \div s
  <2>1. u \in Nat /\ u * s <= n + s /\ n + s < (u + 1) * s
    OBVIOUS
  <2>2. ASSUME u < q + 1 PROVE FALSE
    <3>1. (u + 1) * s <= (q + 1) * s
      BY <1>1, <2>1, <2>2
    <3> QED
      BY <1>1, <1>2, <2>1, <3>1
  <2>3. ASSUME u > q + 1 PROVE FALSE
    <3>1. (q + 2) * s <= u * s
      BY <1>1, <2>1, <2>3
    <3>2. (q + 2) * s = (q + 1) * s + s
      BY <1>1
    <3> QED
      BY <1>1, <1>2, <2>1, <3>1, <3>2
  <2> QED
    BY <1>1, <2>1, <2>2, <2>3
<1> QED
  BY <1>1, <1>3

\* last() is the index at the last position, for either sign of the stride and
\* whether or not the stride meets the bound.
THEOREM LastIsAtLastOrder ==
  ASSUME NEW r \in BoundedRange, Size(r) > 0
  PROVE  LastOf(r) = OrderToIndex(r, Size(r) - 1)
<1> USE RangeTypes
<1>1. Size(r) \in Nat /\ Span(r) \in Nat
  <2>1. Size(r) \in Nat /\ (0 < Size(r) <=> 0 * Step(r) <= Span(r))
    BY SizeCountsMembers
  <2> QED
    BY <2>1
<1>2. (Size(r) - 1) * Step(r) = Span(r) - (Span(r) % Step(r))
  <2>1. CASE ~r.stridable
    <3>1. Size(r) = Span(r) + 1 /\ Step(r) = 1 /\ Span(r) % 1 = 0
      BY <1>1, <2>1 DEF Size, Span, Step, Abs
    <3> QED
      BY <1>1, <3>1
  <2>2. CASE r.stridable
    <3>1. Size(r) = (Span(r) + Step(r)) \div Step(r)
      BY <1>1, <2>2 DEF Size, Span, Step
    <3> QED
      BY <1>1, <3>1, LastMultiple, Zenon
  <2> QED
    BY <2>1, <2>2
<1>3. CASE r.stride > 0
  <2>1. OrderToIndex(r, Size(r) - 1) = r.firstIndex + (Size(r) - 1) * Step(r)
    BY <1>1, <1>3 DEF OrderToIndex, First, Step, Abs
  <2>2. LastOf(r) = r.lastIndex - 1 - (Span(r) % Step(r))
    BY <1>3 DEF LastOf, RoundedDown, Span, Step, Abs
  <2>3. Span(r) % Step(r) \in Int
    BY <1>1
  <2> QED
    BY <1>1, <1>2, <2>1, <2>2, <2>3 DEF Span
<1>4. CASE r.stride < 0
  <2>1. OrderToIndex(r, Size(r) - 1) = r.lastIndex - 1 - (Size(r) - 1) * Step(r)
    BY <1>1, <1>4 DEF OrderToIndex, First, Step, Abs
  <2>2. LastOf(r) = r.firstIndex + (Span(r) % Step(r))
    BY <1>4 DEF LastOf, RoundedUp, Span, Step, Abs
  <2>3. Span(r) % Step(r) \in Int
    BY <1>1
  <2> QED
    BY <1>1, <1>2, <2>1, <2>2, <2>3 DEF Span
<1> QED
  BY <1>3, <1>4

\* "The orderToIndex procedure is the reverse of indexOrder" (range.hpp:714-715).
THEOREM IndexOrderInverts ==
  ASSUME NEW r \in BoundedRange, NEW p \in Nat, p < Size(r)
  PROVE  IndexOrder(r, OrderToIndex(r, p)) = p
<1> USE RangeTypes
<1> DEFINE idx == OrderToIndex(r, p)
<1>1. idx = First(r) + p * r.stride /\ idx \in Int
  BY DEF OrderToIndex
<1>2. CASE ~r.stridable
  BY <1>1, <1>2 DEF IndexOrder
<1>3. CASE r.stridable /\ r.stride > 0
  <2>1. CDiv(idx - First(r) + r.stride - 1, r.stride)
          = (p * r.stride + (r.stride - 1)) \div r.stride
    BY <1>1, <1>3 DEF CDiv
  <2>2. r.stride \in Nat \ {0}
    BY <1>3
  <2>3. (p * r.stride + (r.stride - 1)) \div r.stride = p
    BY <2>2, DivideMultiple, Zenon
  <2> QED
    BY <1>3, <2>1, <2>3, SizeCountsMembers DEF IndexOrder
<1>4. CASE r.stridable /\ r.stride < 0
  <2> DEFINE s == -r.stride
  <2>1. s \in Nat \ {0} /\ r.stride = -s
    BY <1>4
  <2>2. First(r) - idx - r.stride - 1 = p * s + (s - 1)
    BY <1>1, <2>1
  <2>3. p * s + (s - 1) >= 0
    BY <2>1
  <2>4. CDiv(First(r) - idx - r.stride - 1, s) = (p * s + (s - 1)) \div s
    BY <2>1, <2>2, <2>3 DEF CDiv
  <2>5. (p * s + (s - 1)) \div s = p
    BY <2>1, DivideMultiple, Zenon
  <2> QED
    BY <1>4, <2>4, <2>5, SizeCountsMembers DEF IndexOrder
<1> QED
  BY <1>2, <1>3, <1>4

\* by n keeps every n-th index of a range and no other, for either sign of the
\* stride and also where n does not divide the length (range.hpp:883-890).
THEOREM ByTakesEveryNth ==
  ASSUME NEW r \in BoundedRange, NEW n \in Nat \ {0}
  PROVE  /\ By(r, n) \in BoundedRange
         /\ \A p \in Nat :
              /\ OrderToIndex(By(r, n), p) = OrderToIndex(r, p * n)
              /\ p < Size(By(r, n)) <=> p * n < Size(r)
<1> USE RangeTypes
<1> DEFINE b == By(r, n)
<1>1. b = [boundedType |-> "bounded", firstIndex |-> r.firstIndex,
           lastIndex |-> r.lastIndex, stride |-> r.stride * n, stridable |-> TRUE]
  BY DEF By, Open
<1>2. r.stride * n \in Int /\ (r.stride * n > 0 <=> r.stride > 0) /\ r.stride * n # 0
  OBVIOUS
<1>3. b \in BoundedRange
  BY <1>1, <1>2 DEF BoundedRange
<1>4. Span(b) = Span(r) /\ First(b) = First(r)
  BY <1>1, <1>2 DEF Span, First
<1>5. Step(b) = Step(r) * n
  BY <1>1, <1>2 DEF Step, Abs
<1> HIDE DEF b
<1>6. ASSUME NEW p \in Nat PROVE OrderToIndex(b, p) = OrderToIndex(r, p * n)
  <2>1. b.stride = r.stride * n
    BY <1>1
  <2>2. p * (r.stride * n) = (p * n) * r.stride
    OBVIOUS
  <2> QED
    BY <1>4, <2>1, <2>2 DEF OrderToIndex
<1>7. ASSUME NEW p \in Nat PROVE p < Size(b) <=> p * n < Size(r)
  <2>1. p * n \in Nat
    OBVIOUS
  <2>2. p < Size(b) <=> p * Step(b) <= Span(b)
    BY <1>3, SizeCountsMembers
  <2>3. p * n < Size(r) <=> (p * n) * Step(r) <= Span(r)
    BY <2>1, SizeCountsMembers
  <2>4. p * (Step(r) * n) = (p * n) * Step(r)
    OBVIOUS
  <2> QED
    BY <1>4, <1>5, <2>2, <2>3, <2>4
<1> QED
  BY <1>3, <1>6, <1>7 DEF b

\* # n of a range with a positive stride takes its first n indices.  (For a
\* negative one it does not: ..3 by -1 # 2 has one index.)
THEOREM CountTakesTheFirst ==
  ASSUME NEW r \in BoundedRange, r.stride > 0, NEW n \in Nat \ {0}
  PROVE  /\ Count(r, n) \in BoundedRange
         /\ \A p \in Nat :
              /\ OrderToIndex(Count(r, n), p) = OrderToIndex(r, p)
              /\ p < Size(Count(r, n)) <=> p < n
<1> USE RangeTypes
<1> DEFINE c == Count(r, n)
<1>1. n * r.stride \in Int /\ n * r.stride > 0
  OBVIOUS
<1>2. c = [boundedType |-> "bounded", firstIndex |-> r.firstIndex,
           lastIndex |-> r.firstIndex + n * r.stride,
           stride |-> r.stride, stridable |-> r.stridable]
  BY <1>1 DEF Count, Open
<1>3. c \in BoundedRange
  BY <1>1, <1>2 DEF BoundedRange
<1>4. /\ Span(c) = n * r.stride - 1 /\ Step(c) = r.stride
      /\ First(c) = First(r) /\ c.stride = r.stride
  BY <1>1, <1>2 DEF Span, Step, Abs, First
<1> HIDE DEF c
<1>5. ASSUME NEW p \in Nat PROVE p * r.stride <= n * r.stride - 1 <=> p < n
  <2>1. p * r.stride < n * r.stride <=> p < n
    OBVIOUS
  <2> QED
    BY <1>1, <2>1
<1>6. ASSUME NEW p \in Nat PROVE p < Size(c) <=> p < n
  BY <1>3, <1>4, <1>5, SizeCountsMembers
<1>7. ASSUME NEW p \in Nat PROVE OrderToIndex(c, p) = OrderToIndex(r, p)
  BY <1>4 DEF OrderToIndex
<1> QED
  BY <1>3, <1>6, <1>7 DEF c
-----------------------------------------------------------------------------
(***************************************************************************)
(* Rectangular domains: a position is its digits in the sizes of the       *)
(* dimensions.                                                             *)
(***************************************************************************)

\* The product of the sizes, dimension by dimension.
LEMMA ProductUnrolled ==
  ASSUME NEW rs, Len(rs) \in Nat, \A i \in 1..Len(rs) : Size(rs[i]) \in Nat
  PROVE  \E f \in [0..Len(rs) -> Nat] :
           /\ f[0] = 1
           /\ \A d \in 1..Len(rs) : f[d] = f[d - 1] * Size(rs[d])
           /\ DomainSize(rs) = f[Len(rs)]
<1> DEFINE N == Len(rs)
           step == [d \in (0..N) \ {0} |-> [x \in Nat |-> x * Size(rs[d])]]
           Unfolding(g) == [d \in 0..N |-> IF d = 0 THEN 1 ELSE g[d - 1] * Size(rs[d])]
           product[d \in 0..N] == IF d = 0 THEN 1 ELSE product[d - 1] * Size(rs[d])
<1>1. step \in StepFunctions(0, N, Nat) /\ N \in Nat
  BY DEF StepFunctions
<1>2. \A d \in (0..N) \ {0}, x \in Nat : step[d][x] = x * Size(rs[d])
  OBVIOUS
<1>3. PICK f \in [0..N -> Nat] : f[0] = 1 /\ \A n \in (0..N) \ {0} : f[n] = step[n][f[n - 1]]
  <2> HIDE DEF step, N
  <2>1. Recurses(0, N, Nat, 1, step)
    BY <1>1, Recursion
  <2> QED
    BY <2>1 DEF Recurses
<1>4. \A n \in 1..N : f[n] = f[n - 1] * Size(rs[n])
  <2>1. \A n \in 1..N : n \in (0..N) \ {0} /\ n - 1 \in 0..N
    OBVIOUS
  <2> HIDE DEF step, N
  <2> QED
    BY <1>2, <1>3, <2>1
<1>5. f = Unfolding(f)
  <2>1. \A n \in 0..N : n = 0 \/ n \in 1..N
    OBVIOUS
  <2> QED
    BY <1>3, <1>4, <2>1
<1>6. product = Unfolding(product)
  BY <1>5
<1>7. DomainSize(rs) = product[N]
  BY DEF DomainSize
<1> HIDE DEF product
<1>8. product[0] = 1 /\ \A d \in 1..N : product[d] = product[d - 1] * Size(rs[d])
  <2>1. \A d \in 0..N :
          Unfolding(product)[d] = IF d = 0 THEN 1 ELSE product[d - 1] * Size(rs[d])
    OBVIOUS
  <2> HIDE DEF Unfolding
  <2> QED
    BY <1>1, <1>6, <2>1
<1>9. \A n \in 0..N : product[n] \in Nat
  <2> DEFINE S == {n \in 0..N : product[n] \in Nat}
  <2>1. 0 \in S
    BY <1>1, <1>8
  <2>2. ASSUME NEW n \in (0..N) \ {0}, n - 1 \in S PROVE n \in S
    BY <1>8, <2>2
  <2>3. 0..N \subseteq S
    <3>1. Inductive(0, N, S)
      BY <2>1, <2>2 DEF Inductive
    <3> HIDE DEF S, N
    <3> QED
      BY <1>1, <3>1, Induct
  <2> QED
    BY <2>3
<1> QED
  BY <1>6, <1>7, <1>8, <1>9

\* One dimension more in front multiplies the size by its own.
LEMMA ProductInFront ==
  ASSUME NEW a \in Seq(BoundedRange), NEW b \in Seq(BoundedRange),
         Len(a) = Len(b) + 1, \A i \in 1..Len(b) : b[i] = a[i + 1]
  PROVE  DomainSize(a) \in Nat /\ DomainSize(a) = Size(a[1]) * DomainSize(b)
<1>1. /\ Len(a) \in Nat /\ Len(b) \in Nat
      /\ \A i \in 1..Len(a) : Size(a[i]) \in Nat
      /\ \A i \in 1..Len(b) : Size(b[i]) \in Nat
  BY SizeCountsMembers
<1>2. PICK f \in [0..Len(a) -> Nat] :
        /\ f[0] = 1 /\ \A d \in 1..Len(a) : f[d] = f[d - 1] * Size(a[d])
        /\ DomainSize(a) = f[Len(a)]
  BY <1>1, ProductUnrolled
<1>3. PICK g \in [0..Len(b) -> Nat] :
        /\ g[0] = 1 /\ \A d \in 1..Len(b) : g[d] = g[d - 1] * Size(b[d])
        /\ DomainSize(b) = g[Len(b)]
  BY <1>1, ProductUnrolled
<1> DEFINE S == {d \in 0..Len(b) : f[d + 1] = Size(a[1]) * g[d]}
<1>4. 0 \in S
  BY <1>1, <1>2, <1>3
<1>5. ASSUME NEW d \in (0..Len(b)) \ {0}, d - 1 \in S PROVE d \in S
  <2>0. d + 1 \in 1..Len(a) /\ (d + 1) - 1 = d /\ d \in 1..Len(b)
    BY <1>1, <1>5
  <2>1. f[d + 1] = f[d] * Size(a[d + 1]) /\ g[d] = g[d - 1] * Size(b[d])
    BY <1>2, <1>3, <2>0
  <2>2. f[d] = Size(a[1]) * g[d - 1] /\ a[d + 1] = b[d]
    BY <1>5, <2>0
  <2>3. g[d - 1] \in Nat /\ Size(a[1]) \in Nat /\ Size(b[d]) \in Nat
    BY <1>1, <1>3, <2>0
  <2>4. \A x, y, z \in Nat : (x * y) * z = x * (y * z)
    OBVIOUS
  <2> QED
    BY <2>1, <2>2, <2>3, <2>4
<1>6. 0..Len(b) \subseteq S
  <2>1. Inductive(0, Len(b), S)
    BY <1>4, <1>5 DEF Inductive
  <2> HIDE DEF S
  <2> QED
    BY <1>1, <2>1, Induct
<1>7. f[Len(a)] = Size(a[1]) * g[Len(b)] /\ f[Len(a)] \in Nat
  <2>1. Len(b) \in 0..Len(b) /\ Len(a) \in 0..Len(a)
    BY <1>1
  <2>2. f[Len(b) + 1] = Size(a[1]) * g[Len(b)]
    BY <1>6, <2>1
  <2> QED
    BY <2>1, <2>2
<1> QED
  BY <1>2, <1>3, <1>7

\* The sizes of the inner dimensions, from any one inwards.
LEMMA InnerSizes ==
  ASSUME NEW rs \in Seq(BoundedRange)
  PROVE  /\ InnerSize(rs, Len(rs) + 1) = 1
         /\ InnerSize(rs, 1) = DomainSize(rs)
         /\ \A d \in 1..Len(rs) :
              /\ InnerSize(rs, d) \in Nat
              /\ InnerSize(rs, d) = Size(rs[d]) * InnerSize(rs, d + 1)
<1> DEFINE n == Len(rs)
<1>1. SubSeq(rs, n + 1, n) = <<>> /\ SubSeq(rs, 1, n) = rs
  OBVIOUS
<1>2. DomainSize(<<>>) = 1
  <2>1. Len(<<>>) = 0
    OBVIOUS
  <2> QED
    BY <2>1, ProductUnrolled
<1>3. ASSUME NEW d \in 1..n
      PROVE  /\ InnerSize(rs, d) \in Nat
             /\ InnerSize(rs, d) = Size(rs[d]) * InnerSize(rs, d + 1)
  <2> DEFINE a == SubSeq(rs, d, n)
             b == SubSeq(rs, d + 1, n)
  <2>1. /\ a \in Seq(BoundedRange) /\ Len(a) = n - d + 1
        /\ \A i \in 1..Len(a) : a[i] = rs[d + i - 1]
    OBVIOUS
  <2>2. /\ b \in Seq(BoundedRange) /\ Len(b) = n - d
        /\ \A i \in 1..Len(b) : b[i] = rs[d + i]
    OBVIOUS
  <2>3. \A i \in 1..Len(b) : b[i] = a[i + 1]
    BY <2>1, <2>2
  <2>4. Len(a) = Len(b) + 1 /\ a[1] = rs[d]
    BY <2>1, <2>2
  <2> HIDE DEF a, b
  <2>5. DomainSize(a) \in Nat /\ DomainSize(a) = Size(a[1]) * DomainSize(b)
    BY <2>1, <2>2, <2>3, <2>4, ProductInFront
  <2> QED
    BY <2>4, <2>5 DEF InnerSize, a, b
<1> QED
  BY <1>1, <1>2, <1>3 DEF InnerSize

\* In a domain that has a position no dimension is empty.
LEMMA NoneEmpty ==
  ASSUME NEW rs \in Seq(BoundedRange), DomainSize(rs) > 0
  PROVE  /\ \A d \in 1..Len(rs) : Size(rs[d]) \in Nat \ {0}
         /\ \A d \in 1..Len(rs) + 1 : InnerSize(rs, d) \in Nat \ {0}
<1> DEFINE n == Len(rs)
           S == {d \in 1..n + 1 : InnerSize(rs, d) \in Nat \ {0}}
<1>1. n \in Nat /\ \A d \in 1..n : Size(rs[d]) \in Nat
  BY SizeCountsMembers
<1>2. 1 \in S
  <2>1. InnerSize(rs, 1) = DomainSize(rs) /\ DomainSize(rs) \in Nat
    <3>1. CASE n = 0
      <4>1. n + 1 = 1
        BY <3>1
      <4>2. InnerSize(rs, n + 1) = 1 /\ InnerSize(rs, 1) = DomainSize(rs)
        BY InnerSizes
      <4> HIDE DEF n
      <4> QED
        BY <4>1, <4>2
    <3>2. CASE n # 0
      <4>1. 1 \in 1..n
        BY <1>1, <3>2
      <4> QED
        BY <4>1, InnerSizes
    <3> QED
      BY <3>1, <3>2
  <2>2. 1 \in 1..n + 1
    BY <1>1
  <2> QED
    BY <2>1, <2>2
<1>3. ASSUME NEW d \in 1..n, InnerSize(rs, d) \in Nat \ {0}
      PROVE  Size(rs[d]) \in Nat \ {0} /\ InnerSize(rs, d + 1) \in Nat \ {0}
  <2>1. InnerSize(rs, d + 1) \in Nat
    <3>1. CASE d = n
      BY <3>1, InnerSizes
    <3>2. CASE d # n
      <4>1. d + 1 \in 1..n
        BY <1>1, <3>2
      <4> QED
        BY <4>1, InnerSizes
    <3> QED
      BY <3>1, <3>2
  <2>2. InnerSize(rs, d) = Size(rs[d]) * InnerSize(rs, d + 1)
    BY InnerSizes
  <2>3. \A x, y \in Nat : x * y # 0 => x # 0 /\ y # 0
    OBVIOUS
  <2> QED
    BY <1>1, <1>3, <2>1, <2>2, <2>3
<1>4. 1..n + 1 \subseteq S
  <2>1. ASSUME NEW d \in (1..n + 1) \ {1}, d - 1 \in S PROVE d \in S
    <3>1. d - 1 \in 1..n /\ (d - 1) + 1 = d
      BY <1>1
    <3> QED
      BY <1>3, <2>1, <3>1
  <2>2. Inductive(1, n + 1, S)
    BY <1>2, <2>1 DEF Inductive
  <2> HIDE DEF S
  <2> QED
    BY <1>1, <2>2, Induct
<1>5. \A d \in 1..n : d \in 1..n + 1
  BY <1>1
<1> QED
  BY <1>3, <1>4, <1>5

\* Recursion with numbers from 1 on.
LEMMA NatRecursion ==
  ASSUME NEW b \in Int, 1 <= b, NEW base \in Nat, NEW step \in StepFunctions(1, b, Nat)
  PROVE  Recurses(1, b, Nat, base, step)
BY Recursion

\* The remainders orderToIndex passes from one dimension to the next.
LEMMA RemaindersUnrolled ==
  ASSUME NEW rs \in Seq(BoundedRange), Len(rs) > 0, DomainSize(rs) > 0, NEW p \in Nat
  PROVE  \E rest \in [1..Len(rs) -> Nat] :
           /\ rest[1] = p
           /\ \A d \in (1..Len(rs)) \ {1} : rest[d] = rest[d - 1] % InnerSize(rs, d)
           /\ DomainOrderToIndex(rs, p) =
                [d \in 1..Len(rs) |->
                   IF d < Len(rs)
                   THEN OrderToIndex(rs[d], rest[d] \div InnerSize(rs, d + 1))
                   ELSE OrderToIndex(rs[d], rest[d] % Size(rs[d]))]
<1> DEFINE N == Len(rs)
           step == [d \in (1..N) \ {1} |-> [x \in Nat |-> x % InnerSize(rs, d)]]
           Unfolding(g) == [d \in 1..N |-> IF d = 1 THEN p ELSE g[d - 1] % InnerSize(rs, d)]
           rest[d \in 1..N] == IF d = 1 THEN p ELSE rest[d - 1] % InnerSize(rs, d)
<1>1. N \in Nat /\ 1 <= N /\ \A d \in 1..N : InnerSize(rs, d) \in Nat \ {0}
  BY NoneEmpty
<1>2. step \in StepFunctions(1, N, Nat)
  <2>1. \A x \in Nat, y \in Nat \ {0} : x % y \in Nat
    OBVIOUS
  <2> QED
    BY <1>1, <2>1 DEF StepFunctions
<1>3. \A d \in (1..N) \ {1}, x \in Nat : step[d][x] = x % InnerSize(rs, d)
  OBVIOUS
<1>4. PICK f \in [1..N -> Nat] : f[1] = p /\ \A n \in (1..N) \ {1} : f[n] = step[n][f[n - 1]]
  <2>1. 1 <= N /\ N \in Int /\ p \in Nat
    BY <1>1
  <2> HIDE DEF step, N
  <2>2. Recurses(1, N, Nat, p, step)
    BY <1>2, <2>1, NatRecursion, Zenon
  <2> QED
    BY <2>2 DEF Recurses
<1>5. \A n \in (1..N) \ {1} : f[n] = f[n - 1] % InnerSize(rs, n)
  <2>1. \A n \in (1..N) \ {1} : n - 1 \in 1..N
    OBVIOUS
  <2> HIDE DEF step, N
  <2> QED
    BY <1>3, <1>4, <2>1
<1>6. f = Unfolding(f)
  <2> HIDE DEF step
  <2> QED
    BY <1>4, <1>5
<1>7. rest = Unfolding(rest)
  BY <1>6
<1>8. DomainOrderToIndex(rs, p) =
        [d \in 1..N |->
           IF d < N
           THEN OrderToIndex(rs[d], rest[d] \div InnerSize(rs, d + 1))
           ELSE OrderToIndex(rs[d], rest[d] % Size(rs[d]))]
  BY DEF DomainOrderToIndex
<1> HIDE DEF rest
<1>9. rest[1] = p /\ \A d \in (1..N) \ {1} : rest[d] = rest[d - 1] % InnerSize(rs, d)
  <2>1. \A d \in 1..N :
          Unfolding(rest)[d] = IF d = 1 THEN p ELSE rest[d - 1] % InnerSize(rs, d)
    OBVIOUS
  <2> HIDE DEF Unfolding
  <2> QED
    BY <1>1, <1>7, <2>1
<1>10. \A n \in 1..N : rest[n] \in Nat
  <2> DEFINE S == {n \in 1..N : rest[n] \in Nat}
  <2>1. ASSUME NEW n \in (1..N) \ {1}, n - 1 \in S PROVE n \in S
    <3>1. \A x \in Nat, y \in Nat \ {0} : x % y \in Nat
      OBVIOUS
    <3> QED
      BY <1>1, <1>9, <2>1, <3>1
  <2>2. Inductive(1, N, S)
    BY <1>1, <1>9, <2>1 DEF Inductive
  <2>3. 1..N \subseteq S
    <3> HIDE DEF S, N
    <3> QED
      BY <1>1, <2>2, Induct
  <2> QED
    BY <2>3
<1> QED
  BY <1>7, <1>8, <1>9, <1>10

\* A product of natural numbers is one, and a sum.
LEMMA SumOfProduct == \A x, y, z \in Nat : x * y + z \in Nat
<1>1. \A x, y \in Nat : x * y \in Nat
  OBVIOUS
<1> QED
  BY <1>1

\* The position indexOrder adds up, dimension by dimension.
LEMMA PositionUnrolled ==
  ASSUME NEW rs \in Seq(BoundedRange), Len(rs) > 0, NEW idx,
         \A d \in 1..Len(rs) : IndexOrder(rs[d], idx[d]) \in Nat
  PROVE  \E order \in [1..Len(rs) -> Nat] :
           /\ order[1] = IndexOrder(rs[1], idx[1])
           /\ \A d \in (1..Len(rs)) \ {1} :
                order[d] = order[d - 1] * Size(rs[d]) + IndexOrder(rs[d], idx[d])
           /\ DomainIndexOrder(rs, idx) = order[Len(rs)]
<1> DEFINE N == Len(rs)
           At(d) == IndexOrder(rs[d], idx[d])
           step == [d \in (1..N) \ {1} |-> [x \in Nat |-> x * Size(rs[d]) + At(d)]]
           Unfolding(g) == [d \in 1..N |-> IF d = 1 THEN IndexOrder(rs[1], idx[1])
                                      ELSE g[d - 1] * Size(rs[d]) + IndexOrder(rs[d], idx[d])]
           order[d \in 1..N] == IF d = 1 THEN IndexOrder(rs[1], idx[1])
                                ELSE order[d - 1] * Size(rs[d]) + IndexOrder(rs[d], idx[d])
<1>1. /\ N \in Nat /\ 1 <= N /\ 1 \in 1..N
      /\ \A d \in 1..N : Size(rs[d]) \in Nat /\ At(d) \in Nat
  BY SizeCountsMembers
<1>2. step \in StepFunctions(1, N, Nat)
  <2>1. ASSUME NEW d \in (1..N) \ {1}, NEW x \in Nat
        PROVE  x * Size(rs[d]) + At(d) \in Nat
    <3>1. Size(rs[d]) \in Nat /\ At(d) \in Nat
      BY <1>1
    <3> HIDE DEF At
    <3> QED
      BY <3>1, SumOfProduct
  <2> HIDE DEF At, N
  <2> QED
    BY <2>1 DEF StepFunctions
<1>3. \A d \in (1..N) \ {1}, x \in Nat : step[d][x] = x * Size(rs[d]) + At(d)
  OBVIOUS
<1>4. PICK f \in [1..N -> Nat] :
        f[1] = At(1) /\ \A n \in (1..N) \ {1} : f[n] = step[n][f[n - 1]]
  <2> DEFINE first == At(1)
  <2>1. 1 <= N /\ N \in Int /\ first \in Nat
    BY <1>1
  <2> HIDE DEF step, N, At, first
  <2>2. Recurses(1, N, Nat, first, step)
    BY <1>2, <2>1, NatRecursion, Zenon
  <2> QED
    BY <2>2 DEF Recurses, first
<1>5. \A n \in (1..N) \ {1} : f[n] = f[n - 1] * Size(rs[n]) + At(n)
  <2>1. \A n \in (1..N) \ {1} : n - 1 \in 1..N
    OBVIOUS
  <2> HIDE DEF step, N, At
  <2> QED
    BY <1>3, <1>4, <2>1
<1>6. f = Unfolding(f)
  <2> HIDE DEF step
  <2> QED
    BY <1>4, <1>5
<1>7. order = Unfolding(order)
  BY <1>6
<1>8. DomainIndexOrder(rs, idx) = order[N]
  BY DEF DomainIndexOrder
<1> HIDE DEF order
<1>9. order[1] = At(1) /\ \A d \in (1..N) \ {1} : order[d] = order[d - 1] * Size(rs[d]) + At(d)
  <2>1. \A d \in 1..N :
          Unfolding(order)[d] = IF d = 1 THEN IndexOrder(rs[1], idx[1])
                           ELSE order[d - 1] * Size(rs[d]) + IndexOrder(rs[d], idx[d])
    OBVIOUS
  <2> HIDE DEF Unfolding
  <2> QED
    BY <1>1, <1>7, <2>1
<1>10. \A n \in 1..N : order[n] \in Nat
  <2> DEFINE S == {n \in 1..N : order[n] \in Nat}
  <2>1. ASSUME NEW n \in (1..N) \ {1}, n - 1 \in S PROVE n \in S
    <3>1. order[n - 1] \in Nat /\ Size(rs[n]) \in Nat /\ At(n) \in Nat
      BY <1>1, <2>1
    <3> HIDE DEF At
    <3>2. order[n] = order[n - 1] * Size(rs[n]) + At(n)
      BY <1>9
    <3>3. order[n - 1] * Size(rs[n]) + At(n) \in Nat
      BY <3>1, SumOfProduct, Zenon
    <3> QED
      BY <3>2, <3>3
  <2>2. Inductive(1, N, S)
    BY <1>1, <1>9, <2>1 DEF Inductive
  <2>3. 1..N \subseteq S
    <3> HIDE DEF S, N
    <3> QED
      BY <1>1, <2>2, Induct
  <2> QED
    BY <2>3
<1> QED
  BY <1>7, <1>8, <1>9, <1>10

\* Quotient and remainder put the number together again.
LEMMA QuotientRemainder ==
  \A x \in Nat, y \in Nat \ {0} :
    /\ x \div y \in Nat /\ x % y \in Nat /\ x % y < y
    /\ x = (x \div y) * y + (x % y)
    /\ x < y => x % y = x
  OBVIOUS

\* A number below a product has its quotient below the other factor.
LEMMA QuotientBelow ==
  ASSUME NEW x \in Nat, NEW y \in Nat \ {0}, NEW z \in Nat, x < z * y
  PROVE  x \div y < z
<1>1. x \div y \in Nat /\ x = (x \div y) * y + (x % y) /\ x % y \in Nat
  OBVIOUS
<1>2. SUFFICES ASSUME z <= x \div y PROVE FALSE
  BY <1>1
<1>3. z * y <= (x \div y) * y
  BY <1>1, <1>2
<1> QED
  BY <1>1, <1>3

\* A position of a domain has a digit in the size of each dimension, the one
\* whose index orderToIndex takes there; put together dimension by dimension,
\* as indexOrder does, the digits are the position.
LEMMA Digits ==
  ASSUME NEW rs \in Seq(BoundedRange), Len(rs) > 0,
         NEW p \in Nat, p < DomainSize(rs)
  PROVE  \E digits, order \in [1..Len(rs) -> Nat] :
           /\ \A d \in 1..Len(rs) : digits[d] < Size(rs[d])
           /\ DomainOrderToIndex(rs, p) =
                [d \in 1..Len(rs) |-> OrderToIndex(rs[d], digits[d])]
           /\ order[1] = digits[1]
           /\ \A d \in (1..Len(rs)) \ {1} :
                order[d] = order[d - 1] * Size(rs[d]) + digits[d]
           /\ order[Len(rs)] = p
           /\ DomainIndexOrder(rs, DomainOrderToIndex(rs, p)) = p
<1> DEFINE N == Len(rs)
           In(d) == InnerSize(rs, d)
           s(d) == Size(rs[d])
           idx == DomainOrderToIndex(rs, p)
<1>1. N \in Nat /\ 1 \in 1..N /\ N \in 1..N
  OBVIOUS
<1>2. DomainSize(rs) > 0
  <2>1. DomainSize(rs) \in Nat
    BY <1>1, InnerSizes
  <2> QED
    BY <2>1
<1>3. /\ \A d \in 1..N : s(d) \in Nat \ {0}
      /\ \A d \in 1..N + 1 : In(d) \in Nat \ {0}
      /\ \A d \in 1..N : In(d) = s(d) * In(d + 1) /\ d + 1 \in 1..N + 1
      /\ In(N + 1) = 1 /\ In(1) = DomainSize(rs)
  BY <1>1, <1>2, NoneEmpty, InnerSizes
<1>4. PICK rest \in [1..N -> Nat] :
        /\ rest[1] = p
        /\ \A d \in (1..N) \ {1} : rest[d] = rest[d - 1] % In(d)
        /\ idx = [d \in 1..N |-> IF d < N
                                 THEN OrderToIndex(rs[d], rest[d] \div In(d + 1))
                                 ELSE OrderToIndex(rs[d], rest[d] % s(d))]
  BY <1>2, RemaindersUnrolled
<1> DEFINE digit(d) == IF d < N THEN rest[d] \div In(d + 1) ELSE rest[d] % s(d)
           left(d) == IF d < N THEN rest[d + 1] ELSE 0
<1> HIDE DEF In, s, idx
<1>5. \A d \in 1..N : rest[d] < In(d)
  <2>1. TAKE d \in 1..N
  <2>2. CASE d = 1
    BY <1>3, <1>4, <2>2
  <2>3. CASE d # 1
    <3>1. rest[d - 1] \in Nat
      BY <1>1, <2>3
    <3>2. In(d) \in Nat \ {0} /\ rest[d] = rest[d - 1] % In(d)
      BY <1>1, <1>3, <1>4, <2>3
    <3> QED
      BY <3>1, <3>2, QuotientRemainder
  <2> QED
    BY <2>2, <2>3
<1>6. ASSUME NEW d \in 1..N
      PROVE  /\ digit(d) \in Nat /\ digit(d) < s(d) /\ left(d) \in Nat
             /\ rest[d] = digit(d) * In(d + 1) + left(d)
  <2>1. /\ rest[d] \in Nat /\ rest[d] < s(d) * In(d + 1)
        /\ s(d) \in Nat \ {0} /\ In(d + 1) \in Nat \ {0}
    BY <1>3, <1>5
  <2>2. CASE d < N
    <3>1. left(d) = rest[d] % In(d + 1)
      <4>1. d + 1 \in (1..N) \ {1} /\ (d + 1) - 1 = d
        BY <1>1, <2>2
      <4> QED
        BY <1>4, <2>2, <4>1
    <3>2. digit(d) = rest[d] \div In(d + 1)
      BY <2>2
    <3>3. /\ rest[d] \div In(d + 1) \in Nat /\ rest[d] % In(d + 1) \in Nat
          /\ rest[d] = (rest[d] \div In(d + 1)) * In(d + 1) + (rest[d] % In(d + 1))
          /\ rest[d] \div In(d + 1) < s(d)
      <4>1. rest[d] \in Nat /\ In(d + 1) \in Nat \ {0} /\ s(d) \in Nat
        BY <2>1
      <4>2. rest[d] \div In(d + 1) < s(d)
        BY <2>1, <4>1, QuotientBelow
      <4> QED
        BY <4>1, <4>2, QuotientRemainder
    <3> HIDE DEF digit, left
    <3> QED
      BY <3>1, <3>2, <3>3
  <2>3. CASE ~(d < N)
    <3>1. d = N /\ In(d + 1) = 1
      BY <1>1, <1>3, <2>3
    <3>2. rest[d] < s(d)
      BY <2>1, <3>1
    <3>3. rest[d] % s(d) = rest[d]
      BY <2>1, <3>2, QuotientRemainder
    <3>4. digit(d) = rest[d] /\ left(d) = 0
      BY <2>3, <3>3
    <3>5. rest[d] \in Nat /\ rest[d] = rest[d] * 1 + 0
      BY <2>1
    <3> HIDE DEF digit, left
    <3>6. rest[d] = digit(d) * In(d + 1) + left(d)
      BY <3>1, <3>4, <3>5, Zenon
    <3> QED
      BY <3>2, <3>4, <3>5, <3>6
  <2> QED
    BY <2>2, <2>3
<1>7. \A d \in 1..N : IndexOrder(rs[d], idx[d]) = digit(d)
  <2>1. TAKE d \in 1..N
  <2>2. idx[d] = OrderToIndex(rs[d], digit(d))
    BY <1>4
  <2>3. digit(d) \in Nat /\ digit(d) < Size(rs[d]) /\ rs[d] \in BoundedRange
    BY <1>6 DEF s
  <2> HIDE DEF digit
  <2> QED
    BY <2>2, <2>3, IndexOrderInverts
<1> HIDE DEF digit, left
<1>8. PICK order \in [1..N -> Nat] :
        /\ order[1] = digit(1)
        /\ \A d \in (1..N) \ {1} : order[d] = order[d - 1] * s(d) + digit(d)
        /\ DomainIndexOrder(rs, idx) = order[N]
  <2>1. \A d \in 1..N : IndexOrder(rs[d], idx[d]) \in Nat
    BY <1>6, <1>7
  <2> QED
    BY <1>1, <1>7, <2>1, PositionUnrolled DEF s
<1> DEFINE S == {d \in 1..N : order[d] * In(d + 1) + left(d) = p}
<1>9. 1 \in S
  BY <1>1, <1>4, <1>6, <1>8
<1>10. ASSUME NEW d \in (1..N) \ {1}, d - 1 \in S PROVE d \in S
  <2>1. d - 1 \in 1..N /\ (d - 1) + 1 = d /\ d - 1 < N
    BY <1>1
  <2>2. order[d - 1] * In(d) + left(d - 1) = p
    BY <1>10, <2>1
  <2>3. left(d - 1) = rest[d]
    BY <2>1 DEF left
  <2>4. rest[d] = digit(d) * In(d + 1) + left(d) /\ In(d) = s(d) * In(d + 1)
    BY <1>3, <1>6
  <2>5. order[d] = order[d - 1] * s(d) + digit(d)
    BY <1>8
  <2>6. /\ order[d - 1] \in Nat /\ s(d) \in Nat /\ In(d + 1) \in Nat
        /\ digit(d) \in Nat /\ left(d) \in Nat
    BY <1>3, <1>6, <1>8, <2>1
  <2>7. \A o, y, i, q, l \in Nat : (o * y + q) * i + l = o * (y * i) + (q * i + l)
    OBVIOUS
  <2>8. order[d] * In(d + 1) + left(d) = p
    BY <2>2, <2>3, <2>4, <2>5, <2>6, <2>7
  <2> QED
    BY <2>8
<1>11. N \in S
  <2>1. Inductive(1, N, S)
    BY <1>9, <1>10 DEF Inductive
  <2> HIDE DEF S
  <2>2. 1..N \subseteq S
    BY <1>1, <2>1, Induct
  <2> QED
    BY <1>1, <2>2
<1>12. order[N] * 1 + 0 = p
  BY <1>3, <1>11 DEF left
<1> DEFINE digits == [d \in 1..N |-> digit(d)]
<1>13. digits \in [1..N -> Nat] /\ \A d \in 1..N : digits[d] = digit(d)
  BY <1>6
<1>14. idx = [d \in 1..N |-> OrderToIndex(rs[d], digits[d])]
  BY <1>4, <1>13 DEF digit
<1> HIDE DEF digits
<1>15. \A d \in 1..N : digits[d] < Size(rs[d])
  BY <1>6, <1>13 DEF s
<1>16. order[1] = digits[1] /\ order[N] = p /\ DomainIndexOrder(rs, idx) = p
  BY <1>1, <1>8, <1>12, <1>13
<1>17. \A d \in (1..N) \ {1} : order[d] = order[d - 1] * Size(rs[d]) + digits[d]
  BY <1>8, <1>13 DEF s
<1>18. order \in [1..N -> Nat]
  BY <1>8
<1> QED
  BY <1>13, <1>14, <1>15, <1>16, <1>17, <1>18 DEF idx

\* indexOrder is the reverse of orderToIndex in a domain of any number of
\* dimensions, strided or not, each of either sign (default_rectangular.hpp).
THEOREM DomainIndexOrderInverts ==
  ASSUME NEW rs \in Seq(BoundedRange), Len(rs) > 0,
         NEW p \in Nat, p < DomainSize(rs)
  PROVE  DomainIndexOrder(rs, DomainOrderToIndex(rs, p)) = p
BY Digits
-----------------------------------------------------------------------------
(***************************************************************************)
(* Loops of any size.  The chunks lie side by side (LoopInvariant), so no  *)
(* cut and no schedule loses or repeats a position.                        *)
(***************************************************************************)
USE LoopAssumption DEF Positions

\* No chunk, no visit: the invariant holds before the first loop.
LEMMA InvariantInit == LoopInit => LoopInvariant
<1> SUFFICES ASSUME LoopInit PROVE LoopInvariant
  OBVIOUS
<1>1. DOMAIN chunks = {}
  BY DEF LoopInit
<1>2. TypeOK
  <2>1. chunks = [p \in {} |-> 0]
    BY DEF LoopInit
  <2>2. chunks \in [{} -> Chunk]
    BY <2>1
  <2>3. chunks \in [DOMAIN chunks -> Chunk]
    BY <1>1, <2>2
  <2>4. DOMAIN chunks \subseteq Positions
    BY <1>1
  <2>5. visits \in [Positions -> Nat]
    BY DEF LoopInit
  <2>6. pc = "idle" /\ kind = "forLoop" /\ size = 0 /\ meets = FALSE
    BY DEF LoopInit
  <2>7. given \in 0..size
    BY <2>6 DEF LoopInit
  <2>9. pc \in {"idle", "running", "returned"} /\ kind \in Kinds /\ size \in 0..MaxSize
    BY <2>6 DEF Kinds
  <2>8. meets \in BOOLEAN
    BY <2>6, Zenon
  <2> QED
    BY <2>3, <2>4, <2>5, <2>7, <2>8, <2>9, Zenon DEF TypeOK
<1>3. /\ ChunksInside /\ ChunksApart /\ VisitedBehind /\ OneSequentialChunk
      /\ ChunksWhileRunning /\ AllGiven
  BY <1>1 DEF LoopInit, ChunksInside, ChunksApart, VisitedBehind, OneSequentialChunk,
              ChunksWhileRunning, AllGiven
<1>4. VisitedOutside
  BY DEF LoopInit, VisitedOutside
<1> QED
  BY <1>2, <1>3, <1>4 DEF LoopInvariant

\* The chunks a loop starts with own every position and have visited none.
LEMMA LaunchStep ==
  ASSUME LoopInvariant,
         NEW k \in Kinds, NEW n \in 0..MaxSize, NEW b \in BOOLEAN,
         Launch(k, n, b)
  PROVE  LoopInvariant'
<1> USE DEF Generator
<1>0. /\ pc' = "running" /\ kind' = k /\ size' = n /\ meets' = b
      /\ given' = IF k = "cobegin" THEN 0 ELSE n
      /\ visits' = [p \in Positions |-> 0]
  BY DEF Launch
<1>. ChunksWhileRunning' /\ AllGiven'
  BY <1>0 DEF ChunksWhileRunning, AllGiven
<1>1. CASE k = "coforall"
  <2>1. chunks' = [p \in 0..(n - 1) |-> [first |-> p, size |-> 1, busy |-> FALSE]]
    BY <1>1 DEF Launch, FirstChunks, BulkChunks
  <2>2. DOMAIN chunks' = 0..(n - 1)
    BY <2>1
  <2>3. \A s \in 0..(n - 1) : /\ chunks'[s] = [first |-> s, size |-> 1, busy |-> FALSE]
                              /\ Upcoming(s)' = s /\ Stop(s)' = s + 1
    BY <2>1 DEF Upcoming, Stop
  <2>4. TypeOK'
    <3>1. chunks' \in [DOMAIN chunks' -> Chunk]
      BY <1>1, <2>1, <2>2 DEF Chunk
    <3> QED
      BY <1>0, <2>2, <3>1 DEF TypeOK
  <2>5. ChunksInside' /\ ChunksApart'
    BY <1>0, <1>1, <2>2, <2>3 DEF ChunksInside, ChunksApart
  <2>6. VisitedBehind'
    BY <1>0, <2>2, <2>3 DEF VisitedBehind, Owns
  <2>7. VisitedOutside'
    <3> SUFFICES ASSUME NEW p \in Positions, \A s \in DOMAIN chunks' : ~Owns(s, p)'
                 PROVE  visits'[p] = 0 /\ ~(p < given')
      BY <1>0 DEF VisitedOutside
    <3>1. p < n => p \in DOMAIN chunks' /\ Owns(p, p)'
      BY <2>2, <2>3 DEF Owns
    <3> QED
      BY <1>0, <1>1, <3>1
  <2>8. OneSequentialChunk'
    BY <1>0, <1>1 DEF OneSequentialChunk
  <2> QED
    BY <2>4, <2>5, <2>6, <2>7, <2>8 DEF LoopInvariant
<1>2. CASE k = "cobegin" \/ (k # "coforall" /\ n = 0)
  <2>1. DOMAIN chunks' = {}
    BY <1>2 DEF Launch, FirstChunks, WholeChunk
  <2>2. TypeOK'
    <3>1. chunks' = [p \in {} |-> 0]
      BY <1>2 DEF Launch, FirstChunks, WholeChunk
    <3>2. chunks' \in [{} -> Chunk]
      BY <3>1
    <3>3. chunks' \in [DOMAIN chunks' -> Chunk]
      BY <2>1, <3>2
    <3>4. DOMAIN chunks' \subseteq Positions
      BY <2>1
    <3> QED
      BY <1>0, <3>3, <3>4 DEF TypeOK
  <2>3. ChunksInside' /\ ChunksApart' /\ VisitedBehind' /\ OneSequentialChunk'
    BY <2>1 DEF ChunksInside, ChunksApart, VisitedBehind, OneSequentialChunk
  <2>4. VisitedOutside'
    BY <1>0, <1>2 DEF VisitedOutside
  <2> QED
    BY <2>2, <2>3, <2>4 DEF LoopInvariant
<1>3. CASE k \notin {"coforall", "cobegin"} /\ n # 0
  <2>1. chunks' = [p \in {0} |-> [first |-> 0, size |-> n, busy |-> FALSE]]
    BY <1>3 DEF Launch, FirstChunks, WholeChunk
  <2>2. DOMAIN chunks' = {0}
    BY <2>1
  <2>3. Upcoming(0)' = 0 /\ Stop(0)' = n /\ chunks'[0].first = 0
    BY <2>1 DEF Upcoming, Stop
  <2>4. TypeOK'
    <3>1. chunks' \in [DOMAIN chunks' -> Chunk]
      BY <1>3, <2>1, <2>2 DEF Chunk
    <3> QED
      BY <1>0, <1>3, <2>2, <3>1 DEF TypeOK
  <2>5. ChunksInside' /\ ChunksApart'
    BY <1>0, <1>3, <2>2, <2>3 DEF ChunksInside, ChunksApart
  <2>6. VisitedBehind'
    BY <1>0, <2>2, <2>3 DEF VisitedBehind, Owns
  <2>7. VisitedOutside'
    <3> SUFFICES ASSUME NEW p \in Positions, ~Owns(0, p)'
                 PROVE  visits'[p] = 0 /\ ~(p < given')
      BY <1>0, <2>2 DEF VisitedOutside
    <3> QED
      BY <1>0, <1>3, <2>3 DEF Owns
  <2>8. OneSequentialChunk'
    BY <1>0, <2>2, <2>3 DEF OneSequentialChunk
  <2> QED
    BY <2>4, <2>5, <2>6, <2>7, <2>8 DEF LoopInvariant
<1> QED
  BY <1>1, <1>2, <1>3

\* The two pieces own what the whole chunk owned, and nobody has begun it.
LEMMA SplitStep ==
  ASSUME LoopInvariant,
         NEW s \in DOMAIN chunks, NEW n \in Positions, Split(s, n)
  PROVE  LoopInvariant'
<1> DEFINE g == chunks[s]
<1>0. /\ kind = "forall" /\ g \in Chunk /\ s \in Nat
      /\ g.first = s /\ ~g.busy /\ n \in 1..(g.size - 1)
      /\ UNCHANGED <<pc, kind, size, meets, given, visits>>
  BY DEF Split, LoopInvariant, TypeOK
<1>1. chunks' = [p \in DOMAIN chunks \cup {s + n} |->
                  IF p = s THEN Subrange(g, 0, n)
                  ELSE IF p = s + n THEN Subrange(g, n, g.size - n)
                  ELSE chunks[p]]
  BY Zenon DEF Split
<1>2. DOMAIN chunks' = DOMAIN chunks \cup {s + n}
  BY <1>1, Zenon
<1>3. /\ s \in Nat /\ n \in Nat /\ g.size \in Nat /\ size \in Nat
      /\ Upcoming(s) = s /\ Stop(s) = s + g.size
      /\ given \in Nat
      /\ s + n < Stop(s) /\ Stop(s) <= given /\ given <= size /\ size <= MaxSize
  BY <1>0 DEF Upcoming, Stop, LoopInvariant, TypeOK, Chunk, ChunksInside
<1>4. \A t \in DOMAIN chunks \ {s} :
         /\ Upcoming(t) \in Nat /\ Stop(t) \in Nat /\ t \in Nat
         /\ t < Stop(t) /\ t <= chunks[t].first /\ Stop(t) <= given
         /\ Stop(t) <= s \/ s + g.size <= t
  <2> TAKE t \in DOMAIN chunks \ {s}
  <2>1. t \in Nat /\ chunks[t] \in Chunk
    BY DEF LoopInvariant, TypeOK
  <2>2. Upcoming(t) \in Nat /\ Stop(t) \in Nat
    BY <2>1 DEF Upcoming, Stop, Chunk
  <2>3. t < Stop(t) /\ t <= chunks[t].first /\ Stop(t) <= given
    BY DEF LoopInvariant, ChunksInside
  <2>4. (t < s => Stop(t) <= s) /\ (s < t => Stop(s) <= t)
    BY DEF LoopInvariant, ChunksApart
  <2> QED
    BY <1>3, <2>1, <2>2, <2>3, <2>4
<1>5. s + n \notin DOMAIN chunks
  BY <1>0, <1>3, <1>4
<1>6. /\ chunks'[s] = [first |-> s, size |-> n, busy |-> FALSE]
      /\ chunks'[s + n] = [first |-> s + n, size |-> g.size - n, busy |-> FALSE]
      /\ \A t \in DOMAIN chunks \ {s} : chunks'[t] = chunks[t]
  <2>1. g.first + 0 = s /\ g.first + n = s + n /\ s + n # s
    BY <1>0
  <2>2. Subrange(g, 0, n) = [first |-> s, size |-> n, busy |-> FALSE]
    BY <2>1 DEF Subrange, Generator
  <2>3. Subrange(g, n, g.size - n)
          = [first |-> s + n, size |-> g.size - n, busy |-> FALSE]
    BY <2>1 DEF Subrange, Generator
  <2>4. chunks'[s] = Subrange(g, 0, n)
    BY <1>1
  <2>5. chunks'[s + n] = Subrange(g, n, g.size - n)
    BY <1>1, <2>1
  <2>6. \A t \in DOMAIN chunks \ {s} : chunks'[t] = chunks[t]
    BY <1>1, <1>5
  <2> QED
    BY <2>2, <2>3, <2>4, <2>5, <2>6
<1>7. /\ Upcoming(s)' = s /\ Stop(s)' = s + n
      /\ Upcoming(s + n)' = s + n /\ Stop(s + n)' = s + g.size
      /\ \A t \in DOMAIN chunks \ {s} :
            Upcoming(t)' = Upcoming(t) /\ Stop(t)' = Stop(t)
  BY <1>3, <1>6 DEF Upcoming, Stop
<1>8. TypeOK'
  <2>1. \A t \in DOMAIN chunks' : chunks'[t] \in Chunk
    <3>1. chunks'[s] \in Chunk /\ chunks'[s + n] \in Chunk
      BY <1>0, <1>3, <1>6 DEF Chunk
    <3>2. \A t \in DOMAIN chunks \ {s} : chunks'[t] \in Chunk
      BY <1>6 DEF LoopInvariant, TypeOK
    <3> QED
      BY <1>2, <3>1, <3>2
  <2>2. chunks' \in [DOMAIN chunks' -> Chunk]
    BY <1>1, <2>1
  <2>3. DOMAIN chunks' \subseteq Positions
    BY <1>2, <1>3 DEF LoopInvariant, TypeOK
  <2> QED
    BY <1>0, <2>2, <2>3 DEF LoopInvariant, TypeOK
<1>9. ChunksInside'
  <2> SUFFICES ASSUME NEW t \in DOMAIN chunks'
               PROVE  t <= chunks'[t].first /\ t < Stop(t)' /\ Stop(t)' <= given'
    BY DEF ChunksInside
  <2>0. chunks'[s].first = s /\ chunks'[s + n].first = s + n /\ given' = given
    BY <1>0, <1>6
  <2>1. CASE t = s
    <3>1. s + n <= given /\ s < s + n /\ s <= s
      BY <1>0, <1>3
    <3> QED
      BY <1>7, <2>0, <2>1, <3>1, Zenon
  <2>2. CASE t = s + n
    <3>1. s + g.size <= given /\ s + n < s + g.size /\ s + n <= s + n
      BY <1>0, <1>3
    <3> QED
      BY <1>7, <2>0, <2>2, <3>1, Zenon
  <2>3. CASE t \in DOMAIN chunks \ {s}
    BY <1>0, <1>4, <1>6, <1>7, <2>3
  <2> QED
    BY <1>2, <2>1, <2>2, <2>3
<1>10. ChunksApart'
  <2> SUFFICES ASSUME NEW t \in DOMAIN chunks', NEW u \in DOMAIN chunks', t < u
               PROVE  Stop(t)' <= u
    BY DEF ChunksApart
  <2>1. CASE t \notin {s, s + n} /\ u \notin {s, s + n}
    BY <1>2, <1>7, <2>1 DEF LoopInvariant, ChunksApart
  <2>2. CASE t \in {s, s + n} /\ u \notin {s, s + n}
    BY <1>0, <1>2, <1>3, <1>4, <1>7, <2>2
  <2>3. CASE t \notin {s, s + n} /\ u \in {s, s + n}
    BY <1>0, <1>2, <1>3, <1>4, <1>7, <2>3
  <2>4. CASE t \in {s, s + n} /\ u \in {s, s + n}
    BY <1>0, <1>3, <1>7, <2>4
  <2> QED
    BY <2>1, <2>2, <2>3, <2>4
<1>11. VisitedBehind'
  <2> SUFFICES ASSUME NEW t \in DOMAIN chunks', NEW p \in Positions, Owns(t, p)'
               PROVE  visits'[p] = IF p < Upcoming(t)' THEN 1 ELSE 0
    BY DEF VisitedBehind
  <2>1. CASE t \notin {s, s + n}
    BY <1>0, <1>2, <1>7, <2>1 DEF LoopInvariant, VisitedBehind, Owns
  <2>2. CASE t \in {s, s + n}
    <3>1. Owns(s, p) /\ ~(p < Upcoming(t)')
      BY <1>0, <1>3, <1>7, <2>2 DEF Owns
    <3>2. ~(p < Upcoming(s)) /\ visits[p] = 0
      BY <1>3, <3>1 DEF LoopInvariant, VisitedBehind, Owns
    <3> QED
      BY <1>0, <3>1, <3>2
  <2> QED
    BY <2>1, <2>2
<1>12. VisitedOutside'
  <2> SUFFICES ASSUME NEW p \in Positions, \A t \in DOMAIN chunks' : ~Owns(t, p)'
               PROVE  \A t \in DOMAIN chunks : ~Owns(t, p)
    BY <1>0 DEF VisitedOutside, LoopInvariant
  <2>1. \A t \in DOMAIN chunks \ {s} : ~Owns(t, p)
    BY <1>2, <1>7 DEF Owns
  <2>2. ~Owns(s, p)
    BY <1>0, <1>2, <1>3, <1>7 DEF Owns
  <2> QED
    BY <2>1, <2>2
<1>13. OneSequentialChunk' /\ ChunksWhileRunning' /\ AllGiven'
  BY <1>0 DEF OneSequentialChunk, ChunksWhileRunning, AllGiven, LoopInvariant
<1> QED
  BY <1>8, <1>9, <1>10, <1>11, <1>12, <1>13 DEF LoopInvariant

\* The walker of s passes one position, which is the next it owns.
LEMMA BeginStep ==
  ASSUME LoopInvariant, NEW s \in DOMAIN chunks, Begin(s)
  PROVE  LoopInvariant'
<1> DEFINE g == chunks[s]
           f == g.first
<1>0. /\ s \in Nat /\ g \in Chunk /\ ~g.busy /\ g.size # 0
      /\ UNCHANGED <<pc, kind, size, meets, given>>
  BY DEF Begin, LoopInvariant, TypeOK
<1>1. /\ chunks' = [chunks EXCEPT ![s].size = @ - 1, ![s].busy = TRUE]
      /\ visits' = [visits EXCEPT ![f] = @ + 1]
  BY DEF Begin
<1>2. DOMAIN chunks' = DOMAIN chunks
  BY <1>1
<1>3. /\ f \in Nat /\ g.size \in Nat /\ size \in Nat
      /\ Upcoming(s) = f /\ Stop(s) = f + g.size
      /\ given \in Nat /\ given <= size
      /\ s <= f /\ f < Stop(s) /\ Stop(s) <= given /\ size <= MaxSize
  BY <1>0 DEF Upcoming, Stop, LoopInvariant, TypeOK, Chunk, ChunksInside
<1>4. f \in Positions /\ Owns(s, f) /\ visits[f] = 0
  BY <1>0, <1>3 DEF Owns, LoopInvariant, VisitedBehind
<1>5. /\ chunks'[s] = [first |-> f, size |-> g.size - 1, busy |-> TRUE]
      /\ \A t \in DOMAIN chunks \ {s} : chunks'[t] = chunks[t]
  BY <1>0, <1>1 DEF Chunk
<1>6. /\ Upcoming(s)' = f + 1 /\ Stop(s)' = Stop(s)
      /\ \A t \in DOMAIN chunks \ {s} :
            Upcoming(t)' = Upcoming(t) /\ Stop(t)' = Stop(t)
  BY <1>3, <1>5 DEF Upcoming, Stop
<1>7. /\ visits'[f] = 1
      /\ \A p \in Positions \ {f} : visits'[p] = visits[p]
  BY <1>1, <1>4 DEF LoopInvariant, TypeOK
<1>8. TypeOK'
  <2>1. chunks' \in [DOMAIN chunks' -> Chunk]
    <3>1. chunks'[s] \in Chunk
      BY <1>0, <1>3, <1>5 DEF Chunk
    <3>2. \A t \in DOMAIN chunks' : chunks'[t] \in Chunk
      BY <1>2, <1>5, <3>1 DEF LoopInvariant, TypeOK
    <3> QED
      BY <1>1, <3>2
  <2>2. visits' \in [Positions -> Nat]
    BY <1>1, <1>4 DEF LoopInvariant, TypeOK
  <2> QED
    BY <1>0, <1>2, <2>1, <2>2 DEF LoopInvariant, TypeOK
<1>9. ChunksInside' /\ ChunksApart'
  <2>1. \A t \in DOMAIN chunks : Stop(t)' = Stop(t) /\ chunks'[t].first = chunks[t].first
    BY <1>5, <1>6
  <2> QED
    BY <1>0, <1>2, <2>1 DEF LoopInvariant, ChunksInside, ChunksApart
<1>10. \A t \in DOMAIN chunks \ {s} : ~Owns(t, f)
  <2> SUFFICES ASSUME NEW t \in DOMAIN chunks \ {s} PROVE ~Owns(t, f)
    OBVIOUS
  <2>1. t \in Nat /\ chunks[t] \in Chunk
    BY DEF LoopInvariant, TypeOK
  <2>2. Stop(t) \in Nat
    BY <2>1 DEF Upcoming, Stop, Chunk
  <2>3. (t < s => Stop(t) <= s) /\ (s < t => Stop(s) <= t)
    BY DEF LoopInvariant, ChunksApart
  <2> QED
    BY <1>0, <1>3, <2>1, <2>2, <2>3 DEF Owns
<1>11. VisitedBehind'
  <2> SUFFICES ASSUME NEW t \in DOMAIN chunks, NEW p \in Positions, Owns(t, p)'
               PROVE  visits'[p] = IF p < Upcoming(t)' THEN 1 ELSE 0
    BY <1>2 DEF VisitedBehind
  <2>1. Owns(t, p)
    BY <1>6 DEF Owns
  <2>2. visits[p] = IF p < Upcoming(t) THEN 1 ELSE 0
    BY <2>1 DEF LoopInvariant, VisitedBehind
  <2>3. CASE t # s
    BY <1>6, <1>7, <1>10, <2>1, <2>2, <2>3
  <2>4. CASE t = s
    BY <1>3, <1>6, <1>7, <2>2, <2>4
  <2> QED
    BY <2>3, <2>4
<1>12. VisitedOutside'
  <2> SUFFICES ASSUME NEW p \in Positions, \A t \in DOMAIN chunks : ~Owns(t, p)'
               PROVE  visits'[p] = IF p < given' THEN 1 ELSE 0
    BY <1>2 DEF VisitedOutside
  <2>1. \A t \in DOMAIN chunks : ~Owns(t, p)
    BY <1>6 DEF Owns
  <2>2. p # f
    BY <1>4, <2>1
  <2> QED
    BY <1>0, <1>7, <2>1, <2>2 DEF LoopInvariant, VisitedOutside
<1>13. OneSequentialChunk' /\ ChunksWhileRunning' /\ AllGiven'
  BY <1>0, <1>2, <1>6 DEF LoopInvariant, OneSequentialChunk, ChunksWhileRunning, AllGiven
<1> QED
  BY <1>8, <1>9, <1>11, <1>12, <1>13 DEF LoopInvariant

\* The walker moves behind the position it passed when it began the body.
LEMMA EndStep ==
  ASSUME LoopInvariant, NEW s \in DOMAIN chunks, End(s)
  PROVE  LoopInvariant'
<1> DEFINE g == chunks[s]
<1>0. /\ s \in Nat /\ g \in Chunk /\ g.busy
      /\ UNCHANGED <<pc, kind, size, meets, given, visits>>
  BY DEF End, LoopInvariant, TypeOK
<1>1. chunks' = [chunks EXCEPT ![s].first = @ + 1, ![s].busy = FALSE]
  BY DEF End
<1>2. DOMAIN chunks' = DOMAIN chunks
  BY <1>1
<1>3. /\ g.first \in Nat /\ g.size \in 0..MaxSize /\ s <= g.first
      /\ Upcoming(s) = g.first + 1 /\ Stop(s) = Upcoming(s) + g.size
  BY <1>0 DEF Upcoming, Stop, LoopInvariant, TypeOK, Chunk, ChunksInside
<1>4. /\ chunks'[s] = [first |-> g.first + 1, size |-> g.size, busy |-> FALSE]
      /\ \A t \in DOMAIN chunks \ {s} : chunks'[t] = chunks[t]
  BY <1>0, <1>1 DEF Chunk
<1>5. \A t \in DOMAIN chunks : Upcoming(t)' = Upcoming(t) /\ Stop(t)' = Stop(t)
  <2>1. Upcoming(s)' = Upcoming(s) /\ Stop(s)' = Stop(s)
    BY <1>3, <1>4 DEF Upcoming, Stop
  <2>2. \A t \in DOMAIN chunks \ {s} : Upcoming(t)' = Upcoming(t) /\ Stop(t)' = Stop(t)
    BY <1>4 DEF Upcoming, Stop
  <2> QED
    BY <2>1, <2>2
<1>6. TypeOK'
  <2>1. chunks'[s] \in Chunk
    BY <1>3, <1>4 DEF Chunk
  <2>2. \A t \in DOMAIN chunks' : chunks'[t] \in Chunk
    BY <1>2, <1>4, <2>1 DEF LoopInvariant, TypeOK
  <2>3. chunks' \in [DOMAIN chunks' -> Chunk]
    BY <1>1, <2>2
  <2> QED
    BY <1>0, <1>2, <2>3 DEF LoopInvariant, TypeOK
<1>7. ChunksInside'
  <2>1. s <= chunks'[s].first
    BY <1>0, <1>3, <1>4
  <2>2. \A t \in DOMAIN chunks : t <= chunks'[t].first
    BY <1>4, <2>1 DEF LoopInvariant, ChunksInside
  <2> QED
    BY <1>0, <1>2, <1>5, <2>2 DEF LoopInvariant, ChunksInside
<1>8. /\ ChunksApart' /\ VisitedBehind' /\ VisitedOutside'
      /\ OneSequentialChunk' /\ ChunksWhileRunning' /\ AllGiven'
  BY <1>0, <1>2, <1>5
  DEF LoopInvariant, ChunksApart, VisitedBehind, VisitedOutside,
      OneSequentialChunk, ChunksWhileRunning, AllGiven, Owns
<1> QED
  BY <1>6, <1>7, <1>8 DEF LoopInvariant

\* A chunk that ends has visited all it owned.
LEMMA FinishStep ==
  ASSUME LoopInvariant, NEW s \in DOMAIN chunks, Finish(s)
  PROVE  LoopInvariant'
<1>0. /\ s \in Nat /\ chunks[s] \in Chunk /\ ~chunks[s].busy /\ chunks[s].size = 0
      /\ UNCHANGED <<pc, kind, size, meets, given, visits>>
      /\ chunks' = [p \in DOMAIN chunks \ {s} |-> chunks[p]]
  BY DEF Finish, LoopInvariant, TypeOK
<1>1. DOMAIN chunks' = DOMAIN chunks \ {s}
  BY <1>0
<1>2. \A t \in DOMAIN chunks' : /\ chunks'[t] = chunks[t]
                               /\ Upcoming(t)' = Upcoming(t) /\ Stop(t)' = Stop(t)
  BY <1>0 DEF Upcoming, Stop
<1>3. TypeOK'
  <2>1. \A t \in DOMAIN chunks' : chunks'[t] \in Chunk
    BY <1>1, <1>2 DEF LoopInvariant, TypeOK
  <2>2. chunks' \in [DOMAIN chunks' -> Chunk]
    BY <1>0, <2>1
  <2> QED
    BY <1>0, <1>1, <2>2 DEF LoopInvariant, TypeOK
<1>4. /\ ChunksInside' /\ ChunksApart' /\ VisitedBehind'
      /\ OneSequentialChunk' /\ ChunksWhileRunning' /\ AllGiven'
  BY <1>0, <1>1, <1>2
  DEF LoopInvariant, ChunksInside, ChunksApart, VisitedBehind,
      OneSequentialChunk, ChunksWhileRunning, AllGiven, Owns
<1>5. VisitedOutside'
  <2> SUFFICES ASSUME NEW p \in Positions, \A t \in DOMAIN chunks \ {s} : ~Owns(t, p)
               PROVE  visits[p] = IF p < given THEN 1 ELSE 0
    BY <1>0, <1>1, <1>2 DEF VisitedOutside, Owns
  <2>1. CASE Owns(s, p)
    <3>1. p < Upcoming(s) /\ p < given
      BY <1>0, <2>1 DEF Owns, Upcoming, Stop, Chunk, LoopInvariant, TypeOK, ChunksInside
    <3>2. visits[p] = 1
      BY <2>1, <3>1 DEF LoopInvariant, VisitedBehind
    <3> QED
      BY <3>1, <3>2
  <2>2. CASE ~Owns(s, p)
    BY <2>2 DEF LoopInvariant, VisitedOutside
  <2> QED
    BY <2>1, <2>2
<1> QED
  BY <1>3, <1>4, <1>5 DEF LoopInvariant

\* A cobegin gives out one more statement, which nobody has begun.
LEMMA GiveStep == ASSUME LoopInvariant, Give PROVE LoopInvariant'
<1>. PICK g \in Nat : g = given
  BY DEF LoopInvariant, TypeOK
<1>0. /\ pc = "running" /\ given < size /\ given' = given + 1
      /\ given \in Nat /\ size \in 0..MaxSize
      /\ UNCHANGED <<pc, kind, size, meets, visits>>
  BY DEF Give, LoopInvariant, TypeOK
<1>1. chunks' = [p \in DOMAIN chunks \cup {given} |->
                  IF p = given THEN Generator(p, 1) ELSE chunks[p]]
  BY Zenon DEF Give
<1>2. DOMAIN chunks' = DOMAIN chunks \cup {given}
  BY <1>1
<1>3. \A t \in DOMAIN chunks :
         /\ t \in Nat /\ chunks[t] \in Chunk /\ Upcoming(t) \in Nat /\ Stop(t) \in Nat
         /\ t < Stop(t) /\ Stop(t) <= given /\ t # given
  <2> TAKE t \in DOMAIN chunks
  <2>1. t \in Nat /\ chunks[t] \in Chunk
    BY DEF LoopInvariant, TypeOK
  <2>2. Upcoming(t) \in Nat /\ Stop(t) \in Nat
    BY <2>1 DEF Upcoming, Stop, Chunk
  <2>3. t < Stop(t) /\ Stop(t) <= given
    BY DEF LoopInvariant, ChunksInside
  <2> QED
    BY <1>0, <2>1, <2>2, <2>3
<1>4. /\ chunks'[g] = [first |-> g, size |-> 1, busy |-> FALSE]
      /\ \A t \in DOMAIN chunks : chunks'[t] = chunks[t]
  BY <1>1, <1>3 DEF Generator
<1>5. chunks'[g].first = g /\ ~chunks'[g].busy /\ chunks'[g].size = 1
  BY <1>4
<1>6. /\ Upcoming(g)' = g /\ Stop(g)' = g + 1
      /\ \A t \in DOMAIN chunks : Upcoming(t)' = Upcoming(t) /\ Stop(t)' = Stop(t)
  BY <1>4, <1>5 DEF Upcoming, Stop
<1>7. TypeOK'
  <2>1. chunks'[g] \in Chunk
    BY <1>0, <1>4 DEF Chunk
  <2>2. \A t \in DOMAIN chunks' : chunks'[t] \in Chunk
    BY <1>2, <1>3, <1>4, <2>1
  <2>3. chunks' \in [DOMAIN chunks' -> Chunk]
    BY <1>1, <2>2
  <2>4. DOMAIN chunks' \subseteq Positions
    BY <1>0, <1>2 DEF LoopInvariant, TypeOK
  <2> QED
    BY <1>0, <2>3, <2>4 DEF LoopInvariant, TypeOK
<1>8. ChunksInside' /\ ChunksApart'
  <2>1. \A t \in DOMAIN chunks : t <= chunks'[t].first
    BY <1>4 DEF LoopInvariant, ChunksInside
  <2>2. ChunksInside'
    BY <1>0, <1>2, <1>3, <1>5, <1>6, <2>1 DEF ChunksInside
  <2>3. ChunksApart'
    BY <1>0, <1>2, <1>3, <1>6 DEF LoopInvariant, ChunksApart
  <2> QED
    BY <2>2, <2>3
<1>9. visits[given] = 0
  <2>1. given \in Positions
    BY <1>0
  <2>2. \A t \in DOMAIN chunks : ~Owns(t, given)
    BY <1>0, <1>3 DEF Owns
  <2> QED
    BY <1>0, <2>1, <2>2 DEF LoopInvariant, VisitedOutside
<1>10. VisitedBehind'
  <2> SUFFICES ASSUME NEW t \in DOMAIN chunks', NEW p \in Positions, Owns(t, p)'
               PROVE  visits[p] = IF p < Upcoming(t)' THEN 1 ELSE 0
    BY <1>0 DEF VisitedBehind
  <2>1. CASE t \in DOMAIN chunks
    BY <1>6, <2>1 DEF LoopInvariant, VisitedBehind, Owns
  <2>2. CASE t = g
    <3>1. p = g
      BY <1>0, <1>6, <2>2 DEF Owns
    <3> QED
      BY <1>0, <1>6, <1>9, <2>2, <3>1
  <2> QED
    BY <1>2, <2>1, <2>2
<1>11. VisitedOutside'
  <2> SUFFICES ASSUME NEW p \in Positions, \A t \in DOMAIN chunks' : ~Owns(t, p)'
               PROVE  visits[p] = IF p < given + 1 THEN 1 ELSE 0
    BY <1>0 DEF VisitedOutside
  <2>1. \A t \in DOMAIN chunks : ~Owns(t, p)
    BY <1>2, <1>6 DEF Owns
  <2>2. p # given
    BY <1>0, <1>2, <1>6 DEF Owns
  <2> QED
    BY <1>0, <2>1, <2>2 DEF LoopInvariant, VisitedOutside
<1>12. kind = "cobegin"
  BY <1>0 DEF LoopInvariant, AllGiven
<1>13. OneSequentialChunk' /\ ChunksWhileRunning' /\ AllGiven'
  BY <1>0, <1>12 DEF OneSequentialChunk, ChunksWhileRunning, AllGiven
<1> QED
  BY <1>7, <1>8, <1>10, <1>11, <1>13 DEF LoopInvariant

\* The caller returns when no chunk is left.
LEMMA ReturnStep == ASSUME LoopInvariant, Return PROVE LoopInvariant'
<1>1. /\ pc = "running" /\ pc' = "returned" /\ DOMAIN chunks = {} /\ given = size
      /\ UNCHANGED <<kind, size, meets, given, chunks, visits>>
  BY DEF Return
<1>2. TypeOK'
  BY <1>1 DEF LoopInvariant, TypeOK
<1>3. /\ ChunksInside' /\ ChunksApart' /\ VisitedBehind'
      /\ OneSequentialChunk' /\ ChunksWhileRunning' /\ AllGiven'
  BY <1>1
  DEF LoopInvariant, ChunksInside, ChunksApart, VisitedBehind, OneSequentialChunk,
      ChunksWhileRunning, AllGiven
<1>4. VisitedOutside'
  BY <1>1 DEF LoopInvariant, VisitedOutside, Owns, Stop, Upcoming
<1> QED
  BY <1>2, <1>3, <1>4 DEF LoopInvariant

\* Whatever hpx cuts and whenever it runs a piece, the pieces stay side by side
\* and what is behind a walker is what has been visited.
THEOREM ChunksSideBySide == Spec => []LoopInvariant
<1>1. LoopInvariant /\ [Next]_loopVars => LoopInvariant'
  <2> SUFFICES ASSUME LoopInvariant, [Next]_loopVars PROVE LoopInvariant'
    OBVIOUS
  <2>1. ASSUME NEW k \in Kinds, NEW n \in 0..MaxSize, NEW b \in BOOLEAN, Launch(k, n, b)
        PROVE  LoopInvariant'
    BY <2>1, LaunchStep
  <2>2. ASSUME NEW s \in DOMAIN chunks, ChunkStep(s) PROVE LoopInvariant'
    BY <2>2, BeginStep, EndStep, FinishStep, SplitStep DEF ChunkStep
  <2>3. CASE Return
    BY <2>3, ReturnStep
  <2>5. CASE Give
    BY <2>5, GiveStep
  <2>4. CASE UNCHANGED loopVars
    BY <2>4
    DEF loopVars, LoopInvariant, TypeOK, ChunksInside, ChunksApart, VisitedBehind,
        VisitedOutside, OneSequentialChunk, ChunksWhileRunning, AllGiven, Owns, Stop, Upcoming
  <2> QED
    BY <2>1, <2>2, <2>3, <2>4, <2>5 DEF Next, LoopStep
<1> QED
  BY InvariantInit, <1>1, PTL DEF Spec

\* A loop that has returned has called its body once for every position, and
\* no call is still to come: forall and coforall do not return early.
THEOREM ReturnsWhenAllVisited == Spec => []AllVisited
<1>1. LoopInvariant => AllVisited
  <2> SUFFICES ASSUME LoopInvariant, pc = "returned"
               PROVE  /\ \A p \in 0..(size - 1) : visits[p] = 1
                      /\ \A p \in size..(MaxSize - 1) : visits[p] = 0
                      /\ DOMAIN chunks = {}
    BY DEF AllVisited
  <2>1. DOMAIN chunks = {}
    BY DEF LoopInvariant, ChunksWhileRunning
  <2>2. \A p \in Positions : visits[p] = IF p < size THEN 1 ELSE 0
    BY <2>1 DEF LoopInvariant, VisitedOutside, ChunksWhileRunning
  <2>3. size \in 0..MaxSize
    BY DEF LoopInvariant, TypeOK
  <2> QED
    BY <2>1, <2>2, <2>3
<1> QED
  BY <1>1, ChunksSideBySide, PTL

\* No schedule calls the body twice for one position.
THEOREM NoPositionTwice == Spec => []NeverTwice
<1>1. LoopInvariant => NeverTwice
  BY DEF LoopInvariant, VisitedBehind, VisitedOutside, NeverTwice
<1> QED
  BY <1>1, ChunksSideBySide, PTL

\* The sequential loop visits the positions from the first to the last.
THEOREM SequentialInOrder == Spec => []InOrder
<1>1. LoopInvariant => InOrder
  <2> SUFFICES ASSUME LoopInvariant, kind = "forLoop", NEW p \in Positions,
                      NEW q \in Positions, p < q, visits[q] > 0
               PROVE  visits[p] > 0
    BY DEF InOrder
  <2>1. size \in Nat /\ given = size /\ p \in Nat /\ q \in Nat
    BY DEF LoopInvariant, TypeOK, AllGiven
  <2>2. CASE DOMAIN chunks = {}
    BY <2>1, <2>2 DEF LoopInvariant, VisitedOutside
  <2>3. CASE DOMAIN chunks # {}
    <3>1. DOMAIN chunks = {0} /\ Stop(0) = size
      BY <2>3 DEF LoopInvariant, OneSequentialChunk
    <3>2. chunks[0] \in Chunk /\ Upcoming(0) \in Nat
      BY <3>1 DEF LoopInvariant, TypeOK, Upcoming, Chunk
    <3>3. q < size
      BY <2>1, <3>1 DEF LoopInvariant, VisitedOutside, Owns
    <3>4. q < Upcoming(0)
      BY <2>1, <3>1, <3>3 DEF LoopInvariant, VisitedBehind, Owns
    <3> QED
      BY <2>1, <3>1, <3>2, <3>3, <3>4 DEF LoopInvariant, VisitedBehind, Owns
  <2> QED
    BY <2>2, <2>3
<1> QED
  BY <1>1, ChunksSideBySide, PTL
-----------------------------------------------------------------------------
(***************************************************************************)
(* Programs: every program of LoopProgram runs its loops as ParallelLoop   *)
(* says, so what is proved there holds of them.                            *)
(***************************************************************************)
\* Building an expression leaves the loop alone, and a loop over the result is
\* a loop over its size.
THEOREM ProgramsRunLoops == ProgSpec => Spec
<1>1. ProgInit => LoopInit
  BY DEF ProgInit
<1>2. [ProgNext]_vars => [Next]_loopVars
  <2> SUFFICES ASSUME [ProgNext]_vars PROVE [Next]_loopVars
    OBVIOUS
  <2>1. CASE Build
    BY <2>1 DEF Build
  <2>2. ASSUME NEW k \in Kinds \ {"cobegin"}, NEW b \in BOOLEAN, RunLoop(k, b) PROVE Next
    <3>1. Launch(k, IterandSize(it), b)
      BY <2>2 DEF RunLoop
    <3>2. IterandSize(it) \in 0..MaxSize
      BY <3>1 DEF Launch
    <3> QED
      BY <3>1, <3>2 DEF Next
  <2>3. CASE LoopStep /\ UNCHANGED exprVars
    BY <2>3 DEF Next
  <2>4. ASSUME NEW n \in 1..MaxSize, NEW b \in BOOLEAN, RunCobegin(n, b) PROVE Next
    <3>1. Launch("cobegin", n, b) /\ n \in 0..MaxSize
      BY <2>4 DEF RunCobegin, Launch
    <3> QED
      BY <3>1 DEF Next, Kinds
  <2>5. CASE UNCHANGED vars
    BY <2>5 DEF vars
  <2> QED
    BY <2>1, <2>2, <2>3, <2>4, <2>5 DEF ProgNext
<1> QED
  BY <1>1, <1>2, PTL DEF ProgSpec, Spec

\* In a program too the chunks lie side by side and no visit is lost.
THEOREM ProgramInvariant == ProgSpec => []LoopInvariant
  BY ProgramsRunLoops, ChunksSideBySide, PTL

\* A loop of a program has called its body for every position when it returns.
THEOREM ProgramReturnsWhenAllVisited == ProgSpec => []AllVisited
  BY ProgramsRunLoops, ReturnsWhenAllVisited, PTL

\* A for loop of a program walks from the first position to the last.
THEOREM ProgramInOrder == ProgSpec => []InOrder
  BY ProgramsRunLoops, SequentialInOrder, PTL
-----------------------------------------------------------------------------
(***************************************************************************)
(* What a program builds.                                                  *)
(***************************************************************************)
\* A range a loop can run over: bounded, or with a first index and no last.
AnyRange ==
  { r \in [boundedType : BoundTypes, firstIndex : Int, lastIndex : Int,
           stride : Int \ {0}, stridable : BOOLEAN] :
      (r.stridable \/ r.stride = 1) /\ IsIterable(r) }

\* The members of such a range have their types.
LEMMA AnyRangeTypes ==
  ASSUME NEW r \in AnyRange
  PROVE  /\ r.boundedType \in BoundTypes /\ r.firstIndex \in Int /\ r.lastIndex \in Int
         /\ r.stride \in Int /\ r.stride # 0 /\ r.stridable \in BOOLEAN
         /\ (r.stridable \/ r.stride = 1) /\ First(r) \in Int
         /\ (r.boundedType = "boundedLow" => r.stride > 0)
         /\ (r.boundedType = "boundedHigh" => r.stride < 0)
         /\ (IsBounded(r) => r \in BoundedRange)
<1>1. /\ r.boundedType \in BoundTypes /\ r.firstIndex \in Int /\ r.lastIndex \in Int
      /\ r.stride \in Int /\ r.stride # 0 /\ r.stridable \in BOOLEAN
      /\ (r.stridable \/ r.stride = 1) /\ IsIterable(r)
  BY DEF AnyRange
<1>2. First(r) \in Int
  BY <1>1 DEF First
<1>3. /\ (r.boundedType = "boundedLow" => r.stride > 0)
      /\ (r.boundedType = "boundedHigh" => r.stride < 0)
  BY <1>1 DEF IsIterable, BoundTypes
<1>4. IsBounded(r) => r \in BoundedRange
  BY DEF IsBounded, AnyRange, BoundedRange
<1> QED
  BY <1>1, <1>2, <1>3, <1>4

\* What the constructors make of arguments of their types.
LEMMA OpenTyped ==
  ASSUME NEW b \in BoundTypes, NEW first \in Int, NEW last \in Int,
         NEW s \in Int \ {0}, NEW stridable \in BOOLEAN, stridable \/ s = 1,
         b = "boundedLow" => s > 0, b = "boundedHigh" => s < 0
  PROVE  Open(b, first, last, s, stridable) \in AnyRange
BY RangesAssumption DEF Open, AnyRange, IsIterable, BoundTypes

\* A range literal of the program is such a range.
LEMMA MakeRangeTyped ==
  ASSUME NEW ds, LiteralsAreRanges(ds), NEW d \in ds
  PROVE  MakeRange(d) \in AnyRange
<1>1. /\ d.boundedType \in BoundTypes /\ d.low \in Int /\ d.high + 1 \in Int
      /\ d.stride \in Int \ {0} /\ d.stridable \in BOOLEAN
      /\ d.stridable \/ d.stride = 1
      /\ d.boundedType = "boundedLow" => d.stride > 0
      /\ d.boundedType = "boundedHigh" => d.stride < 0
  BY DEF LiteralsAreRanges
<1> QED
  BY <1>1, OpenTyped DEF MakeRange

\* by keeps a range such a range, and bounded if it was.
LEMMA ByTyped ==
  ASSUME NEW r \in AnyRange, NEW n \in Nat \ {0}
  PROVE  By(r, n) \in AnyRange /\ By(r, n).boundedType = r.boundedType
<1>1. /\ r.stride * n \in Int /\ r.stride * n # 0
      /\ (r.stride * n > 0 <=> r.stride > 0) /\ (r.stride * n < 0 <=> r.stride < 0)
  BY AnyRangeTypes
<1>2. By(r, n) \in AnyRange
  BY <1>1, AnyRangeTypes, OpenTyped DEF By
<1> QED
  BY <1>2 DEF By, Open

\* + keeps a range such a range.
LEMMA ShiftTyped ==
  ASSUME NEW r \in AnyRange, NEW n \in Int
  PROVE  Shift(r, n) \in AnyRange /\ Shift(r, n).boundedType = r.boundedType
<1> DEFINE first == IF HasFirst(r) THEN r.firstIndex + n ELSE r.firstIndex
           last  == IF HasLast(r) THEN r.lastIndex + n ELSE r.lastIndex
<1>0. first \in Int /\ last \in Int /\ r.stride \in Int \ {0}
  BY AnyRangeTypes
<1>1. Shift(r, n) \in AnyRange
  <2> Shift(r, n) = Open(r.boundedType, first, last, r.stride, r.stridable)
    BY DEF Shift
  <2>1. /\ r.boundedType \in BoundTypes /\ r.stridable \in BOOLEAN
        /\ r.stridable \/ r.stride = 1
        /\ r.boundedType = "boundedLow" => r.stride > 0
        /\ r.boundedType = "boundedHigh" => r.stride < 0
    BY AnyRangeTypes
  <2> HIDE DEF first, last
  <2> QED
    BY <1>0, <2>1, OpenTyped
<1> QED
  BY <1>1 DEF Shift, Open

\* # makes a bounded range of any.
LEMMA CountTyped ==
  ASSUME NEW r \in AnyRange, NEW n \in Int
  PROVE  Count(r, n) \in AnyRange /\ IsBounded(Count(r, n))
<1>1. n * r.stride \in Int
  BY AnyRangeTypes
<1>2. \E first, last \in Int :
        Count(r, n) = Open("bounded", first, last, r.stride, r.stridable)
  <2> DEFINE offset == IF r.stride > 0 THEN r.stride - 1 ELSE r.stride + 2
  <2>1. /\ r.firstIndex \in Int /\ r.firstIndex + n * r.stride \in Int
        /\ r.lastIndex \in Int /\ r.lastIndex + n * r.stride + offset \in Int
    BY <1>1, AnyRangeTypes
  <2>2. \/ Count(r, n) = Open("bounded", r.firstIndex, r.firstIndex + n * r.stride,
                              r.stride, r.stridable)
        \/ Count(r, n) = Open("bounded", r.lastIndex + n * r.stride + offset, r.lastIndex,
                              r.stride, r.stridable)
    BY DEF Count
  <2> HIDE DEF offset
  <2> QED
    BY <2>1, <2>2
<1>3. PICK first, last \in Int :
        Count(r, n) = Open("bounded", first, last, r.stride, r.stridable)
  BY <1>2
<1>4. /\ r.stride \in Int \ {0} /\ r.stridable \in BOOLEAN
      /\ r.stridable \/ r.stride = 1
      /\ "bounded" \in BoundTypes
  BY AnyRangeTypes DEF BoundTypes
<1>5. Count(r, n) \in AnyRange
  BY <1>3, <1>4, OpenTyped
<1> QED
  BY <1>3, <1>5 DEF Open, IsBounded

\* A range is converted to a strided one, or to what it is.
LEMMA ConvertTyped ==
  ASSUME NEW r \in AnyRange, NEW b \in BOOLEAN, b \/ ~r.stridable
  PROVE  Convert(r, b) \in AnyRange /\ Convert(r, b).boundedType = r.boundedType
BY DEF Convert, AnyRange, IsIterable

\* InsertAt of the community modules puts its element before the i-th.
LEMMA Inserted ==
  ASSUME NEW S, NEW s \in Seq(S), NEW e \in S, NEW i \in 1..Len(s) + 1
  PROVE  /\ InsertAt(s, i, e) \in Seq(S)
         /\ Len(InsertAt(s, i, e)) = Len(s) + 1
         /\ \A j \in 1..Len(s) + 1 :
              InsertAt(s, i, e)[j] = IF j < i THEN s[j] ELSE IF j = i THEN e ELSE s[j - 1]
<1> DEFINE a == SubSeq(s, 1, i - 1)
           b == SubSeq(s, i, Len(s))
           c == a \o <<e>>
<1>0. Len(s) \in Nat /\ \A j \in 1..Len(s) : s[j] \in S
  OBVIOUS
<1>1. a \in Seq(S) /\ Len(a) = i - 1 /\ \A j \in 1..(i - 1) : a[j] = s[j]
  OBVIOUS
<1>2. b \in Seq(S) /\ Len(b) = Len(s) - i + 1 /\ \A j \in 1..Len(b) : b[j] = s[i + j - 1]
  OBVIOUS
<1>3. /\ c \in Seq(S) /\ Len(c) = i
      /\ \A j \in 1..i : c[j] = IF j < i THEN s[j] ELSE e
  <2> HIDE DEF a
  <2>1. c = Append(a, e)
    BY <1>1, AppendIsConcat
  <2>2. /\ c \in Seq(S) /\ Len(c) = Len(a) + 1 /\ c[Len(a) + 1] = e
        /\ \A j \in 1..Len(a) : c[j] = a[j]
    BY <1>1, <2>1, AppendProperties
  <2> HIDE DEF c
  <2> QED
    BY <1>0, <1>1, <2>2
<1>4. InsertAt(s, i, e) = c \o b
  BY DEF InsertAt
<1> HIDE DEF a, b, c
<1>5. /\ c \o b \in Seq(S) /\ Len(c \o b) = Len(c) + Len(b)
      /\ \A j \in 1..Len(c) + Len(b) :
           (c \o b)[j] = IF j <= Len(c) THEN c[j] ELSE b[j - Len(c)]
  BY <1>2, <1>3, ConcatProperties
<1> DEFINE w == c \o b
<1> HIDE DEF w
<1>6. Len(w) = Len(s) + 1
  BY <1>0, <1>2, <1>3, <1>5 DEF w
<1>7. ASSUME NEW j \in 1..Len(s) + 1
      PROVE  w[j] = IF j < i THEN s[j] ELSE IF j = i THEN e ELSE s[j - 1]
  <2>1. w[j] = IF j <= i THEN c[j] ELSE b[j - i]
    BY <1>0, <1>2, <1>3, <1>5 DEF w
  <2>2. CASE j <= i
    BY <1>0, <1>3, <2>1, <2>2
  <2>3. CASE j > i
    BY <1>0, <1>2, <2>1, <2>3
  <2> QED
    BY <2>2, <2>3
<1> QED
  BY <1>4, <1>5, <1>6, <1>7 DEF w

\* What a program has built is a range, or a domain of bounded ranges, or a
\* zippering of ranges.
ExprTyped ==
  /\ it \in [kind : {"range", "domain", "zip"}, rs : Seq(AnyRange)]
  /\ Len(it.rs) > 0
  /\ it.kind = "range" => Len(it.rs) = 1
  /\ it.kind = "domain" => \A i \in 1..Len(it.rs) : IsBounded(it.rs[i])

\* The other ranges of a domain or a zippering are ranges, and with the
\* program's own among them still are.
LEMMA BesideTyped ==
  ASSUME NEW ds \in Partners, NEW r \in AnyRange, NEW i \in 1..Len(ds) + 1
  PROVE  /\ ds \in Seq(ToSet(ds)) /\ Len(ds) \in Nat
         /\ Others(ds) \in Seq(AnyRange) /\ Len(Others(ds)) = Len(ds)
         /\ Beside(r, Others(ds), i) \in Seq(AnyRange)
         /\ Len(Beside(r, Others(ds), i)) = Len(ds) + 1
         /\ \A j \in 1..Len(ds) + 1 :
              Beside(r, Others(ds), i)[j] =
                IF j < i THEN MakeRange(ds[j]) ELSE IF j = i THEN r ELSE MakeRange(ds[j - 1])
<1>1. ds \in Seq(ToSet(ds)) /\ LiteralsAreRanges(ToSet(ds))
  BY ProgramAssumption
<1>2. Len(ds) \in Nat /\ DOMAIN ds = 1..Len(ds) /\ \A j \in 1..Len(ds) : ds[j] \in ToSet(ds)
  BY <1>1
<1> DEFINE o == Others(ds)
<1>3. ASSUME NEW j \in 1..Len(ds) PROVE o[j] = MakeRange(ds[j]) /\ o[j] \in AnyRange
  BY <1>1, <1>2, MakeRangeTyped DEF Others
<1>4. DOMAIN o = 1..Len(ds) /\ o = [j \in 1..Len(ds) |-> o[j]]
  BY <1>2 DEF Others
<1> HIDE DEF o
<1>5. o \in Seq(AnyRange) /\ Len(o) = Len(ds)
  BY <1>2, <1>3, <1>4
<1>6. /\ InsertAt(o, i, r) \in Seq(AnyRange)
      /\ Len(InsertAt(o, i, r)) = Len(o) + 1
      /\ \A j \in 1..Len(o) + 1 :
           InsertAt(o, i, r)[j] = IF j < i THEN o[j] ELSE IF j = i THEN r ELSE o[j - 1]
  BY <1>5, Inserted
<1> DEFINE w == InsertAt(o, i, r)
<1>7. ASSUME NEW j \in 1..Len(ds) + 1
      PROVE  w[j] = IF j < i THEN MakeRange(ds[j]) ELSE IF j = i THEN r ELSE MakeRange(ds[j - 1])
  <2>1. w[j] = IF j < i THEN o[j] ELSE IF j = i THEN r ELSE o[j - 1]
    BY <1>5, <1>6
  <2> HIDE DEF w
  <2>2. CASE j < i
    BY <1>2, <1>3, <2>1, <2>2
  <2>3. CASE j = i
    BY <2>1, <2>3
  <2>4. CASE j > i
    BY <1>2, <1>3, <2>1, <2>4
  <2> QED
    BY <1>2, <2>2, <2>3, <2>4
<1> QED
  BY <1>1, <1>2, <1>5, <1>6, <1>7 DEF Beside, o

\* The operators take what a program has built to such a thing again.
LEMMA BuildTyped == ASSUME ExprTyped, Build PROVE ExprTyped'
<1> DEFINE n == Len(it.rs)
<1>0. /\ n \in Nat \ {0} /\ DOMAIN it.rs = 1..n
      /\ \A i \in 1..n : it.rs[i] \in AnyRange
      /\ it.kind \in {"range", "domain", "zip"} /\ it.rs \in Seq(AnyRange)
      /\ it = [kind |-> it.kind, rs |-> it.rs]
  BY DEF ExprTyped
<1>1. ASSUME NEW rs, DOMAIN rs = 1..n, \A i \in 1..n : rs[i] \in AnyRange,
             rs = [i \in 1..n |-> rs[i]], it' = [it EXCEPT !.rs = rs],
             \A i \in 1..n : IsBounded(it.rs[i]) => IsBounded(rs[i])
      PROVE  ExprTyped'
  <2>1. rs \in Seq(AnyRange) /\ Len(rs) = n
    BY <1>0, <1>1
  <2>2. it' = [kind |-> it.kind, rs |-> rs]
    BY <1>0, <1>1
  <2> QED
    BY <1>0, <1>1, <2>1, <2>2 DEF ExprTyped
<1>2. ASSUME NEW steps \in [1..n -> Steps], ApplyBy(steps) PROVE ExprTyped'
  <2> DEFINE rs == [i \in DOMAIN it.rs |-> By(it.rs[i], steps[i])]
  <2>1. it' = [it EXCEPT !.rs = rs]
    BY <1>2 DEF ApplyBy
  <2>2. ASSUME NEW i \in 1..n
        PROVE  rs[i] \in AnyRange /\ (IsBounded(it.rs[i]) => IsBounded(rs[i]))
    <3>1. rs[i] = By(it.rs[i], steps[i]) /\ steps[i] \in Nat \ {0} /\ it.rs[i] \in AnyRange
      BY <1>0, ProgramAssumption
    <3> HIDE DEF rs
    <3> QED
      BY <3>1, ByTyped DEF IsBounded
  <2>3. DOMAIN rs = 1..n /\ rs = [i \in 1..n |-> rs[i]]
    BY <1>0
  <2> HIDE DEF rs, n
  <2> QED
    BY <1>1, <2>1, <2>2, <2>3
<1>3. ASSUME NEW m \in Amounts, ApplyShift(m) PROVE ExprTyped'
  <2>1. it.rs[1] \in AnyRange /\ m \in Int
    BY <1>0, ProgramAssumption
  <2>2. it' = [kind |-> "range", rs |-> <<Shift(it.rs[1], m)>>]
    BY <1>3 DEF ApplyShift, Iterand
  <2> DEFINE r == Shift(it.rs[1], m)
  <2>3. r \in AnyRange
    BY <2>1, ShiftTyped
  <2> HIDE DEF r
  <2>4. <<r>> \in Seq(AnyRange) /\ Len(<<r>>) = 1
    BY <2>3
  <2> QED
    BY <2>2, <2>4 DEF ExprTyped, r
<1>4. ASSUME NEW counts \in [1..n -> Counts], ApplyCount(counts) PROVE ExprTyped'
  <2> DEFINE rs == [i \in DOMAIN it.rs |-> Count(it.rs[i], counts[i])]
  <2>1. it' = [it EXCEPT !.rs = rs]
    BY <1>4 DEF ApplyCount
  <2>2. ASSUME NEW i \in 1..n PROVE rs[i] \in AnyRange /\ IsBounded(rs[i])
    <3>1. rs[i] = Count(it.rs[i], counts[i]) /\ counts[i] \in Int /\ it.rs[i] \in AnyRange
      BY <1>0, ProgramAssumption
    <3> HIDE DEF rs
    <3> QED
      BY <3>1, CountTyped
  <2>3. DOMAIN rs = 1..n /\ rs = [i \in 1..n |-> rs[i]]
    BY <1>0
  <2> HIDE DEF rs, n
  <2> QED
    BY <1>1, <2>1, <2>2, <2>3
<1>5. ASSUME NEW ds \in Partners, NEW i \in 1..(Len(ds) + 1), MakeDomain(ds, i)
      PROVE  ExprTyped'
  <2> DEFINE rs == Beside(it.rs[1], Others(ds), i)
             strided == \E k \in DOMAIN rs : rs[k].stridable
             cs == [j \in DOMAIN rs |-> Convert(rs[j], strided)]
  <2>1. rs \in Seq(AnyRange) /\ Len(rs) = Len(ds) + 1 /\ Len(ds) \in Nat
    BY <1>0, BesideTyped
  <2>2. /\ it' = [kind |-> "domain", rs |-> cs]
        /\ \A j \in DOMAIN rs : IsBounded(rs[j])
    BY <1>5 DEF MakeDomain, Iterand
  <2>3. strided \in BOOLEAN /\ \A k \in DOMAIN rs : strided \/ ~rs[k].stridable
    <3>1. \A k \in DOMAIN rs : rs[k].stridable \in BOOLEAN
      BY <2>1, AnyRangeTypes
    <3> QED
      BY <3>1
  <2> HIDE DEF rs, strided
  <2>4. ASSUME NEW j \in DOMAIN rs PROVE cs[j] \in AnyRange /\ IsBounded(cs[j])
    <3>1. cs[j] = Convert(rs[j], strided) /\ rs[j] \in AnyRange /\ IsBounded(rs[j])
      BY <2>1, <2>2
    <3> HIDE DEF cs
    <3> QED
      BY <2>3, <3>1, ConvertTyped DEF IsBounded
  <2>5. DOMAIN rs = 1..(Len(ds) + 1) /\ cs = [j \in 1..(Len(ds) + 1) |-> cs[j]]
    BY <2>1
  <2> HIDE DEF cs
  <2>6. cs \in Seq(AnyRange) /\ Len(cs) = Len(ds) + 1
    BY <2>1, <2>4, <2>5
  <2> QED
    BY <2>1, <2>2, <2>4, <2>5, <2>6 DEF ExprTyped
<1>6. ASSUME NEW ds \in Partners, NEW i \in 1..(Len(ds) + 1), MakeZip(ds, i)
      PROVE  ExprTyped'
  <2> DEFINE rs == Beside(it.rs[1], Others(ds), i)
  <2>1. rs \in Seq(AnyRange) /\ Len(rs) = Len(ds) + 1 /\ Len(ds) \in Nat
    BY <1>0, BesideTyped
  <2>2. it' = [kind |-> "zip", rs |-> rs]
    BY <1>6 DEF MakeZip, Iterand
  <2> HIDE DEF rs
  <2> QED
    BY <2>1, <2>2 DEF ExprTyped
<1> QED
  BY <1>2, <1>3, <1>4, <1>5, <1>6 DEF Build

\* The expression a program starts with is a range.
LEMMA ProgInitTyped == ProgInit => ExprTyped
<1> SUFFICES ASSUME NEW d \in Literals, it = Iterand("range", <<MakeRange(d)>>)
             PROVE  ExprTyped
  BY DEF ProgInit
<1> DEFINE r == MakeRange(d)
<1>1. r \in AnyRange
  BY ProgramAssumption, MakeRangeTyped
<1>2. it = [kind |-> "range", rs |-> <<r>>]
  BY DEF Iterand
<1> HIDE DEF r
<1> DEFINE rs == <<r>>
<1>3. rs \in Seq(AnyRange) /\ Len(rs) = 1
  BY <1>1
<1> HIDE DEF rs
<1>4. it = [kind |-> "range", rs |-> rs]
  BY <1>2 DEF rs
<1> QED
  BY <1>3, <1>4 DEF ExprTyped

\* A step of a program builds, or leaves the expression alone.
LEMMA ProgNextBuilds ==
  ASSUME [ProgNext]_vars
  PROVE  (pc = "idle" /\ Build) \/ UNCHANGED exprVars
<1>1. CASE Build
  BY <1>1 DEF Build
<1>2. CASE \E k \in Kinds \ {"cobegin"}, b \in BOOLEAN : RunLoop(k, b)
  BY <1>2 DEF RunLoop
<1>3. CASE \E n \in 1..MaxSize, b \in BOOLEAN : RunCobegin(n, b)
  BY <1>3 DEF RunCobegin
<1>4. CASE LoopStep /\ UNCHANGED exprVars
  BY <1>4
<1>5. CASE UNCHANGED vars
  BY <1>5 DEF vars
<1> QED
  BY <1>1, <1>2, <1>3, <1>4, <1>5 DEF ProgNext

\* Whatever the operators, the expression is one a loop can run over.
THEOREM ExpressionsTyped == ProgSpec => []ExprTyped
<1>1. ProgInit => ExprTyped
  BY ProgInitTyped
<1>2. ExprTyped /\ [ProgNext]_vars => ExprTyped'
  <2> SUFFICES ASSUME ExprTyped, [ProgNext]_vars PROVE ExprTyped'
    OBVIOUS
  <2>1. CASE Build
    BY <2>1, BuildTyped
  <2>2. CASE UNCHANGED exprVars
    BY <2>2 DEF exprVars, ExprTyped
  <2> QED
    BY <2>1, <2>2, ProgNextBuilds
<1> QED
  BY <1>1, <1>2, PTL DEF ProgSpec

\* indexOrder takes back what orderToIndex makes of a position, for a loop over
\* any range or domain a program can build (range.hpp:690, domain.hpp).
THEOREM ProgramPositionsInvert == ProgSpec => []PositionsInvert
<1>1. ExprTyped => PositionsInvert
  <2> SUFFICES ASSUME ExprTyped, IterandIsBounded(it), it.kind # "zip",
                      NEW p \in 0..(IterandSize(it) - 1)
               PROVE  DomainIndexOrder(it.rs, IndexAt(it, p)) = p
    BY DEF PositionsInvert
  <2> DEFINE rs == it.rs
  <2>1. /\ rs \in Seq(AnyRange) /\ Len(rs) \in Nat /\ Len(rs) > 0
        /\ it.kind = "range" => Len(rs) = 1
        /\ it.kind \in {"range", "domain", "zip"}
    BY DEF ExprTyped
  <2>2. \A i \in 1..Len(rs) : rs[i] \in BoundedRange
    <3>1. \A i \in 1..Len(rs) : IsBounded(rs[i]) /\ rs[i] \in AnyRange
      BY <2>1 DEF IterandIsBounded
    <3> HIDE DEF rs
    <3> QED
      BY <3>1, AnyRangeTypes
  <2> HIDE DEF rs
  <2>3. rs \in Seq(BoundedRange)
    BY <2>1, <2>2
  <2>4. CASE it.kind = "domain"
    <3>1. IterandSize(it) = DomainSize(rs) /\ IndexAt(it, p) = DomainOrderToIndex(rs, p)
      BY <2>4 DEF IterandSize, IndexAt, rs
    <3>2. DomainSize(rs) \in Nat
      BY <2>1, <2>3, InnerSizes
    <3> QED
      BY <2>1, <2>3, <3>1, <3>2, DomainIndexOrderInverts DEF rs
  <2>5. CASE it.kind = "range"
    <3> DEFINE idx == <<OrderToIndex(rs[1], p)>>
    <3>1. IterandSize(it) = Size(rs[1]) /\ IndexAt(it, p) = idx
      BY <2>5 DEF IterandSize, IndexAt, rs
    <3>2. Len(rs) = 1 /\ rs[1] \in BoundedRange /\ Size(rs[1]) \in Nat
      BY <2>1, <2>2, <2>5, SizeCountsMembers
    <3>3. p \in Nat /\ p < Size(rs[1])
      BY <3>1, <3>2
    <3>4. IndexOrder(rs[1], idx[1]) = p
      BY <3>2, <3>3, IndexOrderInverts
    <3> HIDE DEF idx
    <3>5. PICK order \in [1..Len(rs) -> Nat] :
            order[1] = IndexOrder(rs[1], idx[1]) /\ DomainIndexOrder(rs, idx) = order[Len(rs)]
      <4>1. \A d \in 1..Len(rs) : IndexOrder(rs[d], idx[d]) \in Nat
        BY <3>2, <3>3, <3>4
      <4> QED
        BY <2>1, <2>3, <4>1, PositionUnrolled
    <3> QED
      BY <3>1, <3>2, <3>4, <3>5 DEF rs
  <2> QED
    BY <2>1, <2>4, <2>5
<1> QED
  BY <1>1, ExpressionsTyped, PTL

-----------------------------------------------------------------------------
\* The bounds of a range are values of idxType, none of them the one that
\* stands for no bound, and so is the number of its indices.
Fits(r) ==
  /\ r.boundedType # "boundedHigh" => MinValue < r.firstIndex
  /\ r.boundedType # "boundedLow" => r.lastIndex < MaxValue
  /\ IsBounded(r) => Size(r) <= MaxValue

\* No operator of the program leaves the values of idxType: signed overflow has
\* no defined behaviour.
Representable == \A i \in 1..Len(it.rs) : Fits(it.rs[i])

\* The first i sizes of a zippering's parts, and the least of them.
LEMMA LeastUnrolled ==
  ASSUME NEW rs, Len(rs) \in Nat, \A i \in 1..Len(rs) : IsBounded(rs[i]) => Size(rs[i]) \in Nat
  PROVE  \E least \in [0..Len(rs) -> Nat] :
           /\ least[0] = MaxValue
           /\ \A i \in 1..Len(rs) :
                least[i] = Smaller(least[i - 1], IF IsBounded(rs[i]) THEN Size(rs[i]) ELSE MaxValue)
           /\ ZipSize(rs) = least[Len(rs)]
<1> DEFINE N == Len(rs)
           Has(i) == IF IsBounded(rs[i]) THEN Size(rs[i]) ELSE MaxValue
           step == [i \in (0..N) \ {0} |-> [x \in Nat |-> Smaller(x, Has(i))]]
           Unfolding(g) == [i \in 0..N |->
                              IF i = 0 THEN MaxValue
                              ELSE Smaller(g[i - 1], IF IsBounded(rs[i]) THEN Size(rs[i])
                                                     ELSE MaxValue)]
           least[i \in 0..N] ==
             IF i = 0 THEN MaxValue
             ELSE Smaller(least[i - 1], IF IsBounded(rs[i]) THEN Size(rs[i]) ELSE MaxValue)
<1>1. N \in Nat /\ MaxValue \in Nat /\ \A i \in 1..N : Has(i) \in Nat
  BY RangesAssumption
<1>2. step \in StepFunctions(0, N, Nat)
  <2>1. \A i \in (0..N) \ {0}, x \in Nat : Smaller(x, Has(i)) \in Nat
    <3> HIDE DEF Has
    <3> QED
      BY <1>1 DEF Smaller
  <2> HIDE DEF Has, N
  <2> QED
    BY <2>1 DEF StepFunctions
<1>3. \A i \in (0..N) \ {0}, x \in Nat : step[i][x] = Smaller(x, Has(i))
  OBVIOUS
<1>4. PICK f \in [0..N -> Nat] :
        f[0] = MaxValue /\ \A n \in (0..N) \ {0} : f[n] = step[n][f[n - 1]]
  <2>0. 0 \in Int /\ N \in Int /\ 0 <= N /\ MaxValue \in Nat
    BY <1>1
  <2> HIDE DEF step, N
  <2>1. Recurses(0, N, Nat, MaxValue, step)
    BY <1>2, <2>0, Recursion, Zenon
  <2> QED
    BY <2>1 DEF Recurses
<1>5. \A n \in 1..N : f[n] = Smaller(f[n - 1], Has(n))
  <2>1. \A n \in 1..N : n \in (0..N) \ {0} /\ n - 1 \in 0..N
    OBVIOUS
  <2> HIDE DEF step, N, Has
  <2> QED
    BY <1>3, <1>4, <2>1
<1>6. f = Unfolding(f)
  <2>1. \A n \in 0..N : n = 0 \/ n \in 1..N
    OBVIOUS
  <2> HIDE DEF step
  <2> QED
    BY <1>4, <1>5, <2>1
<1>7. least = Unfolding(least)
  BY <1>6
<1>8. ZipSize(rs) = least[N]
  BY DEF ZipSize
<1> HIDE DEF least
<1>9. least[0] = MaxValue /\ \A i \in 1..N : least[i] = Smaller(least[i - 1], Has(i))
  <2>1. \A i \in 0..N :
          Unfolding(least)[i] = IF i = 0 THEN MaxValue ELSE Smaller(least[i - 1], Has(i))
    OBVIOUS
  <2> HIDE DEF Unfolding, Has
  <2> QED
    BY <1>1, <1>7, <2>1
<1>10. \A n \in 0..N : least[n] \in Nat
  <2> DEFINE S == {n \in 0..N : least[n] \in Nat}
  <2>1. 0 \in S
    BY <1>1, <1>9
  <2>2. ASSUME NEW n \in (0..N) \ {0}, n - 1 \in S PROVE n \in S
    <3> HIDE DEF Has
    <3> QED
      BY <1>1, <1>9, <2>2 DEF Smaller
  <2>3. 0..N \subseteq S
    <3>1. Inductive(0, N, S)
      BY <2>1, <2>2 DEF Inductive
    <3> HIDE DEF S, N
    <3> QED
      BY <1>1, <3>1, Induct
  <2> QED
    BY <2>3
<1> QED
  BY <1>7, <1>8, <1>9, <1>10

\* The size of a zippering is that of a bounded part, and no bounded part is
\* shorter.
LEMMA ZipSizeIsLeast ==
  ASSUME NEW rs \in Seq(AnyRange), \A i \in 1..Len(rs) : Fits(rs[i]), ZipIsBounded(rs)
  PROVE  /\ ZipSize(rs) \in Nat
         /\ \A i \in 1..Len(rs) : IsBounded(rs[i]) => ZipSize(rs) <= Size(rs[i])
         /\ \E i \in 1..Len(rs) : IsBounded(rs[i]) /\ ZipSize(rs) = Size(rs[i])
<1> DEFINE N == Len(rs)
           Has(i) == IF IsBounded(rs[i]) THEN Size(rs[i]) ELSE MaxValue
<1>1. /\ N \in Nat /\ MaxValue \in Nat
      /\ \A i \in 1..N : IsBounded(rs[i]) => Size(rs[i]) \in Nat /\ Size(rs[i]) <= MaxValue
  BY AnyRangeTypes, SizeCountsMembers, RangesAssumption DEF Fits
<1>2. PICK least \in [0..N -> Nat] :
        /\ least[0] = MaxValue
        /\ \A i \in 1..N : least[i] = Smaller(least[i - 1], Has(i))
        /\ ZipSize(rs) = least[N]
  <2>1. N \in Nat /\ \A i \in 1..N : IsBounded(rs[i]) => Size(rs[i]) \in Nat
    BY <1>1
  <2> QED
    BY <2>1, LeastUnrolled
<1>3. \A i \in 1..N : Has(i) \in Nat /\ Has(i) <= MaxValue
  BY <1>1
<1> DEFINE Below(k) == \A i \in 1..k : least[k] <= Has(i)
           Met(k) == least[k] = MaxValue \/ \E i \in 1..k : IsBounded(rs[i]) /\ least[k] = Has(i)
           S == {k \in 0..N : least[k] <= MaxValue /\ Below(k) /\ Met(k)}
<1>4. 0 \in S
  BY <1>1, <1>2
<1>5. ASSUME NEW k \in (0..N) \ {0}, k - 1 \in S PROVE k \in S
  <2>1. /\ k \in 1..N /\ k - 1 \in 0..N /\ least[k - 1] \in Nat /\ Has(k) \in Nat
        /\ Has(k) <= MaxValue /\ (~IsBounded(rs[k]) => Has(k) = MaxValue)
    BY <1>1, <1>3, <1>5
  <2>2. least[k] = Smaller(least[k - 1], Has(k)) /\ least[k - 1] <= MaxValue
    BY <1>2, <1>5, <2>1
  <2>3. Below(k - 1) /\ Met(k - 1)
    BY <1>5
  <2>4. least[k] <= MaxValue /\ least[k] <= Has(k) /\ least[k] <= least[k - 1]
    <3> HIDE DEF Has
    <3> QED
      BY <1>1, <2>1, <2>2 DEF Smaller
  <2>5. Below(k)
    <3>1. ASSUME NEW i \in 1..k PROVE least[k] <= Has(i)
      <4>1. CASE i = k
        BY <2>4, <4>1
      <4>2. CASE i # k
        <5>1. i \in 1..(k - 1) /\ i \in 1..N
          BY <2>1, <4>2
        <5>2. least[k - 1] <= Has(i) /\ Has(i) \in Nat /\ least[k] \in Nat
          BY <1>1, <1>2, <1>3, <2>1, <2>3, <5>1
        <5> HIDE DEF Has
        <5> QED
          BY <2>1, <2>4, <5>2
      <4> QED
        BY <4>1, <4>2
    <3> QED
      BY <3>1
  <2>6. Met(k)
    <3>1. CASE least[k] = least[k - 1]
      <4>1. \A i \in 1..(k - 1) : i \in 1..k
        BY <2>1
      <4> HIDE DEF Has
      <4> QED
        BY <2>3, <3>1, <4>1
    <3>2. CASE least[k] = Has(k)
      <4>1. k \in 1..k
        BY <2>1
      <4> HIDE DEF Has
      <4> QED
        BY <2>1, <3>2, <4>1
    <3> HIDE DEF Has, Met
    <3> QED
      BY <2>2, <3>1, <3>2 DEF Smaller
  <2> HIDE DEF Below, Met
  <2> QED
    BY <2>4, <2>5, <2>6
<1>6. N \in S
  <2>1. Inductive(0, N, S)
    BY <1>4, <1>5 DEF Inductive
  <2> HIDE DEF S
  <2>2. 0..N \subseteq S
    BY <1>1, <2>1, Induct
  <2> QED
    BY <1>1, <2>2
<1>7. Below(N) /\ Met(N)
  BY <1>6
<1>8. PICK j \in 1..N : IsBounded(rs[j])
  BY DEF ZipIsBounded
<1>9. least[N] \in Nat /\ \A i \in 1..N : IsBounded(rs[i]) => least[N] <= Size(rs[i])
  BY <1>1, <1>2, <1>7
<1>10. \E i \in 1..N : IsBounded(rs[i]) /\ least[N] = Size(rs[i])
  <2>1. CASE least[N] = MaxValue
    BY <1>1, <1>8, <1>9, <2>1
  <2>2. CASE \E i \in 1..N : IsBounded(rs[i]) /\ least[N] = Has(i)
    BY <2>2
  <2> QED
    BY <1>7, <2>1, <2>2
<1> QED
  BY <1>2, <1>9, <1>10

\* A loop of a program runs over all of what has been built.
LoopsOverAll ==
  /\ pc = "idle" => size = 0
  /\ pc # "idle" /\ kind # "cobegin" => IterandIsBounded(it) /\ size = IterandSize(it)

\* It does from its launch on, as nothing is built any more.
THEOREM ProgramLoopsOverAll == ProgSpec => []LoopsOverAll
<1>1. ProgInit => LoopsOverAll
  BY DEF ProgInit, LoopInit, LoopsOverAll
<1>2. LoopsOverAll /\ [ProgNext]_vars => LoopsOverAll'
  <2> SUFFICES ASSUME LoopsOverAll, [ProgNext]_vars PROVE LoopsOverAll'
    OBVIOUS
  <2>1. CASE Build
    BY <2>1 DEF Build, loopVars, LoopsOverAll
  <2>2. ASSUME NEW k \in Kinds \ {"cobegin"}, NEW b \in BOOLEAN, RunLoop(k, b)
        PROVE  LoopsOverAll'
    <3>1. /\ it' = it /\ pc' = "running" /\ size' = IterandSize(it)
          /\ IterandIsBounded(it)
      BY <2>2 DEF RunLoop, Launch, exprVars
    <3> QED
      BY <3>1 DEF LoopsOverAll
  <2>3. ASSUME NEW n \in 1..MaxSize, NEW b \in BOOLEAN, RunCobegin(n, b)
        PROVE  LoopsOverAll'
    BY <2>3 DEF RunCobegin, Launch, LoopsOverAll
  <2>4. CASE LoopStep /\ UNCHANGED exprVars
    <3>1. it' = it /\ kind' = kind /\ size' = size
      BY <2>4 DEF exprVars, LoopStep, ChunkStep, Begin, End, Finish, Split, Give, Return
    <3>2. pc' = pc \/ (pc = "running" /\ pc' = "returned")
      BY <2>4 DEF LoopStep, ChunkStep, Begin, End, Finish, Split, Give, Return
    <3> QED
      BY <3>1, <3>2 DEF LoopsOverAll
  <2>5. CASE UNCHANGED vars
    BY <2>5 DEF vars, exprVars, loopVars, LoopsOverAll
  <2> QED
    BY <2>1, <2>2, <2>3, <2>4, <2>5 DEF ProgNext
<1> QED
  BY <1>1, <1>2, PTL DEF ProgSpec

\* No body is called for a position outside the loop.
LEMMA VisitsInside ==
  ASSUME LoopInvariant, NEW p \in Positions, visits[p] > 0
  PROVE  p \in Nat /\ p < size
<1>1. /\ given \in Nat /\ size \in Nat /\ given <= size /\ p \in Nat
      /\ \A s \in DOMAIN chunks : Stop(s) <= given /\ Stop(s) \in Int
  <2>1. given \in 0..size /\ size \in 0..MaxSize
    BY DEF LoopInvariant, TypeOK
  <2>2. ASSUME NEW s \in DOMAIN chunks PROVE Stop(s) <= given /\ Stop(s) \in Int
    <3>1. chunks[s] \in Chunk
      BY DEF LoopInvariant, TypeOK
    <3> QED
      BY <3>1 DEF LoopInvariant, ChunksInside, Stop, Upcoming, Chunk
  <2>3. p \in Nat
    BY LoopAssumption DEF Positions
  <2>4. given \in Nat /\ size \in Nat /\ given <= size
    BY <2>1, LoopAssumption
  <2> QED
    BY <2>2, <2>3, <2>4
<1>2. CASE \A s \in DOMAIN chunks : ~Owns(s, p)
  <2>1. visits[p] = IF p < given THEN 1 ELSE 0
    BY <1>2 DEF LoopInvariant, VisitedOutside
  <2> QED
    BY <1>1, <2>1
<1>3. ASSUME NEW s \in DOMAIN chunks, Owns(s, p) PROVE p < size
  BY <1>1, <1>3 DEF Owns
<1> QED
  BY <1>1, <1>2, <1>3

\* No task asks a range, alone or in a zippering, for a position it does not
\* have (range.hpp:713-714), as long as no bound leaves the values of idxType.
THEOREM ProgramOrdersAccepted == ProgSpec /\ []Representable => []OrdersAccepted
<1>1. ExprTyped /\ LoopsOverAll /\ LoopInvariant /\ Representable => OrdersAccepted
  <2> SUFFICES ASSUME ExprTyped, LoopsOverAll, LoopInvariant, Representable,
                      it.kind # "domain", kind # "cobegin",
                      NEW p \in Positions, NEW i \in 1..Len(it.rs), visits[p] > 0
               PROVE  /\ OrderAsserted(it.rs[i], p)
                      /\ IsBounded(it.rs[i]) => p < Size(it.rs[i])
    BY DEF OrdersAccepted
  <2> DEFINE rs == it.rs
  <2>1. /\ rs \in Seq(AnyRange) /\ Len(rs) \in Nat /\ rs[i] \in AnyRange
        /\ it.kind = "range" => Len(rs) = 1
        /\ it.kind \in {"range", "zip"}
    BY DEF ExprTyped
  <2>2. p \in Nat /\ p < size
    BY VisitsInside
  <2>3. IterandIsBounded(it) /\ size = IterandSize(it)
    BY <2>2 DEF LoopsOverAll
  <2>4. ASSUME IsBounded(rs[i]) PROVE Size(rs[i]) \in Nat /\ p < Size(rs[i])
    <3>1. Size(rs[i]) \in Nat
      BY <2>1, <2>4, AnyRangeTypes, SizeCountsMembers
    <3>2. CASE it.kind = "range"
      <4>1. i = 1 /\ IterandSize(it) = Size(rs[1])
        BY <2>1, <3>2 DEF IterandSize
      <4> QED
        BY <2>2, <2>3, <3>1, <4>1
    <3>3. CASE it.kind = "zip"
      <4>1. ZipIsBounded(rs) /\ size = ZipSize(rs)
        BY <2>3, <3>3 DEF IterandIsBounded, IterandSize
      <4>2. \A j \in 1..Len(rs) : Fits(rs[j])
        BY DEF Representable
      <4> HIDE DEF rs
      <4>3. ZipSize(rs) \in Nat /\ ZipSize(rs) <= Size(rs[i])
        BY <2>1, <2>4, <4>1, <4>2, ZipSizeIsLeast DEF rs
      <4> QED
        BY <2>2, <3>1, <4>1, <4>3
    <3> QED
      BY <2>1, <3>1, <3>2, <3>3
  <2>5. ASSUME ~IsBounded(rs[i]) PROVE HasFirst(rs[i])
    <3>1. Fits(rs[i])
      BY DEF Representable
    <3> HIDE DEF rs
    <3> QED
      BY <2>1, <2>5, <3>1, AnyRangeTypes, RangesAssumption
         DEF Fits, HasFirst, IsBounded, BoundTypes
  <2> HIDE DEF rs
  <2>6. p >= 0
    BY <2>2
  <2>7. OrderAsserted(rs[i], p)
    BY <2>2, <2>4, <2>5, <2>6 DEF OrderAsserted
  <2> QED
    BY <2>4, <2>7 DEF rs
<1> QED
  BY <1>1, ExpressionsTyped, ProgramLoopsOverAll, ProgramInvariant, PTL
-----------------------------------------------------------------------------
\* The sequence m is what the range r stands for: its indices, from the first
\* on, and all of them if it has a last.
Matches(r, m) ==
  /\ m \in Seq(Int)
  /\ IsBounded(r) => Len(m) = Size(r)
  /\ \A p \in 1..Len(m) : m[p] = OrderToIndex(r, p - 1)

\* Natural numbers above the same numbers are equal.
LEMMA SameBelow ==
  ASSUME NEW x \in Nat, NEW y \in Nat, \A p \in Nat : p < x <=> p < y
  PROVE  x = y
<1>1. CASE x < y
  BY <1>1
<1>2. CASE y < x
  BY <1>2
<1> QED
  BY <1>1, <1>2

\* A multiple is below another when its factor is.
LEMMA MultiplesOrdered ==
  \A p, k \in Nat, s \in Nat \ {0} : /\ p * s \in Nat
                                     /\ p * s < k * s <=> p < k
                                     /\ p * s <= k * s <=> p <= k
                                     /\ (p * s) % s = 0
<1> TAKE p, k \in Nat, s \in Nat \ {0}
<1>1. p * s \in Nat /\ (p * s) % s = 0
  OBVIOUS
<1>2. p < k => p * s < k * s
  OBVIOUS
<1>3. k <= p => k * s <= p * s
  OBVIOUS
<1>4. k < p => k * s < p * s
  OBVIOUS
<1>5. p <= k => p * s <= k * s
  OBVIOUS
<1>6. k * s \in Nat
  OBVIOUS
<1> QED
  BY <1>1, <1>2, <1>3, <1>4, <1>5, <1>6

\* The number q further on than the start is a member when it is a multiple of
\* the stride and not beyond the other end.
Reaches(d, q) == d.boundedType = "bounded" => q <= d.high - d.low

\* So a member is told by its distance from the start alone.
LEMMA MemberAt ==
  ASSUME NEW ds, LiteralsAreRanges(ds), NEW d \in ds, NEW q \in Nat
  PROVE  IsMember(d, Start(d) + q * Towards(d)) <=> Reaches(d, q) /\ q % Abs(d.stride) = 0
<1>1. /\ d.low \in Int /\ d.high \in Int /\ d.stride \in Int /\ d.stride # 0
      /\ d.boundedType \in BoundTypes
      /\ d.boundedType = "boundedLow" => d.stride > 0
      /\ d.boundedType = "boundedHigh" => d.stride < 0
  BY DEF LiteralsAreRanges
<1> DEFINE x == Start(d) + q * Towards(d)
<1>2. CASE d.stride > 0
  <2>1. x = d.low + q /\ Abs(x - Start(d)) = q
    BY <1>1, <1>2 DEF Start, Towards, Abs
  <2>2. d.low <= x /\ (x <= d.high <=> q <= d.high - d.low)
    BY <1>1, <2>1
  <2>3. d.boundedType \in {"bounded", "boundedLow"}
    BY <1>1, <1>2 DEF BoundTypes
  <2> HIDE DEF x
  <2>4. IsMember(d, x) <=> Reaches(d, q) /\ q % Abs(d.stride) = 0
    BY <2>1, <2>2, <2>3 DEF IsMember, Reaches
  <2> QED
    BY <2>4 DEF x
<1>3. CASE d.stride < 0
  <2>1. x = d.high - q /\ Abs(x - Start(d)) = q
    BY <1>1, <1>3 DEF Start, Towards, Abs
  <2>2. x <= d.high /\ (d.low <= x <=> q <= d.high - d.low)
    BY <1>1, <2>1
  <2>3. d.boundedType \in {"bounded", "boundedHigh"}
    BY <1>1, <1>3 DEF BoundTypes
  <2> HIDE DEF x
  <2>4. IsMember(d, x) <=> Reaches(d, q) /\ q % Abs(d.stride) = 0
    BY <2>1, <2>2, <2>3 DEF IsMember, Reaches
  <2> QED
    BY <2>4 DEF x
<1> QED
  BY <1>1, <1>2, <1>3

\* The members met one number after the other.
LEMMA MembersUnrolled ==
  ASSUME NEW ds, LiteralsAreRanges(ds), NEW d \in ds
  PROVE  \E met \in [0..Horizon -> Seq(Int)] :
           /\ met[0] = <<>>
           /\ \A i \in 1..Horizon :
                met[i] = IF IsMember(d, Start(d) + (i - 1) * Towards(d))
                         THEN Append(met[i - 1], Start(d) + (i - 1) * Towards(d))
                         ELSE met[i - 1]
           /\ Members(d) = met[Horizon]
<1> DEFINE At(i) == Start(d) + (i - 1) * Towards(d)
           Longer(w, i) == IF IsMember(d, At(i)) THEN Append(w, At(i)) ELSE w
           step == [i \in (0..Horizon) \ {0} |-> [w \in Seq(Int) |-> Longer(w, i)]]
           Unfolding(g) == [i \in 0..Horizon |-> IF i = 0 THEN <<>> ELSE Longer(g[i - 1], i)]
           met[i \in 0..Horizon] ==
             IF i = 0 THEN <<>>
             ELSE LET x == Start(d) + (i - 1) * Towards(d)
                  IN  IF IsMember(d, x) THEN Append(met[i - 1], x) ELSE met[i - 1]
<1>1. Horizon \in Nat /\ <<>> \in Seq(Int) /\ \A i \in 0..Horizon : At(i) \in Int
  <2>1. Start(d) \in Int /\ Towards(d) \in {1, -1}
    BY DEF LiteralsAreRanges, Start, Towards
  <2> QED
    BY <2>1, ProgramAssumption
<1>2. step \in StepFunctions(0, Horizon, Seq(Int))
  <2>1. \A i \in (0..Horizon) \ {0}, w \in Seq(Int) : Longer(w, i) \in Seq(Int)
    <3> HIDE DEF At
    <3> QED
      BY <1>1
  <2> HIDE DEF Longer
  <2> QED
    BY <2>1 DEF StepFunctions
<1>3. \A i \in (0..Horizon) \ {0}, w \in Seq(Int) : step[i][w] = Longer(w, i)
  <2> HIDE DEF Longer
  <2> QED
    OBVIOUS
<1> HIDE DEF Longer
<1>4. PICK f \in [0..Horizon -> Seq(Int)] :
        f[0] = <<>> /\ \A n \in (0..Horizon) \ {0} : f[n] = step[n][f[n - 1]]
  <2>0. 0 \in Int /\ Horizon \in Int /\ 0 <= Horizon
    BY <1>1
  <2> HIDE DEF step
  <2>1. Recurses(0, Horizon, Seq(Int), <<>>, step)
    BY <1>1, <1>2, <2>0, Recursion, Zenon
  <2> QED
    BY <2>1 DEF Recurses
<1>5. \A n \in 1..Horizon : f[n] = Longer(f[n - 1], n)
  <2>1. \A n \in 1..Horizon : n \in (0..Horizon) \ {0} /\ n - 1 \in 0..Horizon
    BY <1>1
  <2> HIDE DEF step
  <2> QED
    BY <1>3, <1>4, <2>1
<1>6. f = Unfolding(f)
  <2>1. \A n \in 0..Horizon : n = 0 \/ n \in 1..Horizon
    BY <1>1
  <2> HIDE DEF step
  <2> QED
    BY <1>4, <1>5, <2>1
<1>7. met = Unfolding(met)
  BY <1>6 DEF Longer
<1>8. Members(d) = met[Horizon]
  BY DEF Members
<1> HIDE DEF met
<1>9. met[0] = <<>> /\ \A i \in 1..Horizon : met[i] = Longer(met[i - 1], i)
  <2>1. \A i \in 0..Horizon :
          Unfolding(met)[i] = IF i = 0 THEN <<>> ELSE Longer(met[i - 1], i)
    OBVIOUS
  <2> HIDE DEF Unfolding
  <2> QED
    BY <1>1, <1>7, <2>1
<1>10. \A n \in 0..Horizon : met[n] \in Seq(Int)
  <2> DEFINE S == {n \in 0..Horizon : met[n] \in Seq(Int)}
  <2>1. 0 \in S
    <3>1. 0 \in 0..Horizon /\ met[0] = <<>> /\ <<>> \in Seq(Int)
      BY <1>1, <1>9
    <3> QED
      BY <3>1
  <2>2. ASSUME NEW n \in (0..Horizon) \ {0}, n - 1 \in S PROVE n \in S
    <3> DEFINE w == met[n - 1]
               x == At(n)
    <3>1. w \in Seq(Int) /\ n \in 1..Horizon /\ x \in Int
      BY <1>1, <2>2
    <3>2. met[n] = IF IsMember(d, x) THEN Append(w, x) ELSE w
      BY <1>9, <3>1 DEF Longer
    <3> HIDE DEF w, x
    <3>3. met[n] \in Seq(Int)
      BY <3>1, <3>2
    <3> QED
      BY <3>3
  <2>3. 0..Horizon \subseteq S
    <3>1. Inductive(0, Horizon, S)
      BY <2>1, <2>2 DEF Inductive
    <3> HIDE DEF S
    <3> QED
      BY <1>1, <3>1, Induct
  <2> QED
    BY <2>3
<1> QED
  BY <1>7, <1>8, <1>9, <1>10 DEF Longer

\* Written out in order, the members of a literal are what its range stands
\* for: as many, and each at its position.
LEMMA MembersMatch ==
  ASSUME NEW ds, LiteralsAreRanges(ds), NEW d \in ds
  PROVE  Matches(MakeRange(d), Members(d))
<1> DEFINE s == Abs(d.stride)
           T == Towards(d)
           At(q) == Start(d) + q * T
           r == MakeRange(d)
<1>1. /\ d.low \in Int /\ d.high \in Int /\ d.stride \in Int /\ d.stride # 0
      /\ d.boundedType \in BoundTypes /\ d.stridable \in BOOLEAN
      /\ d.stridable \/ d.stride = 1
      /\ d.boundedType = "boundedLow" => d.stride > 0
      /\ d.boundedType = "boundedHigh" => d.stride < 0
      /\ d.boundedType = "bounded" => d.high - d.low < Horizon
  BY DEF LiteralsAreRanges
<1>2. s \in Nat \ {0} /\ T \in Int /\ s * T = d.stride /\ Start(d) \in Int /\ Horizon \in Nat
  BY <1>1, ProgramAssumption DEF Abs, Towards, Start
<1>3. PICK met \in [0..Horizon -> Seq(Int)] :
        /\ met[0] = <<>>
        /\ \A i \in 1..Horizon : met[i] = IF IsMember(d, At(i - 1))
                                          THEN Append(met[i - 1], At(i - 1))
                                          ELSE met[i - 1]
        /\ Members(d) = met[Horizon]
  BY MembersUnrolled
<1>4. \A q \in Nat : IsMember(d, At(q)) <=> Reaches(d, q) /\ q % s = 0
  BY MemberAt
<1>5. \A q \in Nat : At(q) \in Int
  BY <1>2
<1>6. \A q \in Nat, x \in Nat : Reaches(d, q) /\ x <= q => Reaches(d, x)
  BY <1>1 DEF Reaches
<1> HIDE DEF s, T, At
<1> DEFINE Counted(i) == \A p \in Nat : p < Len(met[i]) <=> p * s < i /\ Reaches(d, p * s)
           Listed(i) == \A p \in Nat : p < Len(met[i]) => met[i][p + 1] = At(p * s)
           S == {i \in 0..Horizon : Counted(i) /\ Listed(i)}
<1>7. 0 \in S
  <2>1. 0 \in 0..Horizon /\ Len(met[0]) = 0
    BY <1>2, <1>3
  <2>2. \A p \in Nat : ~(p < 0) /\ ~(p * s < 0)
    BY <1>2
  <2> QED
    BY <2>1, <2>2
<1>8. ASSUME NEW i \in (0..Horizon) \ {0}, i - 1 \in S PROVE i \in S
  <2> DEFINE q == i - 1
             w == met[i - 1]
             L == Len(w)
  <2>1. q \in Nat /\ i = q + 1 /\ i \in 1..Horizon /\ w \in Seq(Int) /\ L \in Nat
    <3>1. i \in 1..Horizon /\ i - 1 \in 0..Horizon /\ i - 1 \in Nat /\ i = (i - 1) + 1
      BY <1>2, <1>8
    <3>2. met[i - 1] \in Seq(Int)
      BY <1>3, <3>1
    <3> HIDE DEF S
    <3> QED
      BY <3>1, <3>2
  <2>2. \A p \in Nat : p < L <=> p * s < q /\ Reaches(d, p * s)
    BY <1>8
  <2>3. \A p \in Nat : p < L => w[p + 1] = At(p * s)
    BY <1>8
  <2>4. \A p \in Nat : p * s \in Nat /\ (p * s < i <=> p * s < q \/ p * s = q)
    BY <1>2, <2>1, MultiplesOrdered
  <2>5. CASE IsMember(d, At(q))
    <3> DEFINE k == q \div s
    <3>1. Reaches(d, q) /\ k \in Nat /\ q = k * s
      <4>1. Reaches(d, q) /\ q % s = 0
        BY <1>4, <2>1, <2>5
      <4>2. q \in Nat /\ s \in Nat \ {0}
        BY <1>2, <2>1
      <4> HIDE DEF q
      <4>3. q \div s \in Nat /\ q = (q \div s) * s + (q % s)
        BY <4>2, QuotientRemainder
      <4>4. (q \div s) * s \in Nat
        BY <4>2, <4>3
      <4>5. q = (q \div s) * s
        BY <4>1, <4>3, <4>4
      <4> QED
        BY <4>1, <4>3, <4>5
    <3> HIDE DEF k
    <3>2. L = k
      <4>1. \A p \in Nat : p < L <=> p < k
        <5>1. TAKE p \in Nat
        <5>2. p * s \in Nat /\ (p * s < k * s <=> p < k)
          BY <1>2, <3>1, MultiplesOrdered
        <5>3. p * s < q => Reaches(d, p * s)
          BY <1>6, <2>1, <3>1, <5>2
        <5>4. p < L <=> p * s < q /\ Reaches(d, p * s)
          BY <2>2
        <5> HIDE DEF q, L
        <5> QED
          BY <3>1, <5>2, <5>3, <5>4
      <4> HIDE DEF L
      <4> QED
        BY <2>1, <3>1, <4>1, SameBelow
    <3>3. met[i] = Append(w, At(q))
      BY <1>3, <2>1, <2>5
    <3> HIDE DEF w, q
    <3>4. /\ Len(met[i]) = k + 1 /\ met[i][k + 1] = At(q)
          /\ \A j \in 1..k : met[i][j] = w[j]
      <4>1. At(q) \in Int
        BY <1>5, <2>1
      <4> QED
        BY <2>1, <3>2, <3>3, <4>1, AppendProperties
    <3> HIDE DEF L
    <3>5. Counted(i)
      <4>1. ASSUME NEW p \in Nat
            PROVE  p < Len(met[i]) <=> p * s < i /\ Reaches(d, p * s)
        <5>1. p * s \in Nat /\ (p * s <= k * s <=> p <= k)
          BY <1>2, <3>1, MultiplesOrdered
        <5>2. p * s <= q => Reaches(d, p * s)
          BY <1>6, <2>1, <3>1, <5>1
        <5>3. p * s < i <=> p * s <= q
          BY <2>1, <5>1
        <5> QED
          BY <3>1, <3>4, <5>1, <5>2, <5>3
      <4> QED
        BY <4>1
    <3>6. Listed(i)
      <4>1. ASSUME NEW p \in Nat, p < Len(met[i]) PROVE met[i][p + 1] = At(p * s)
        <5>1. CASE p = k
          BY <3>1, <3>4, <5>1
        <5>2. CASE p < k
          <6>1. p + 1 \in 1..k /\ w[p + 1] = At(p * s)
            BY <2>3, <3>1, <3>2, <5>2
          <6> QED
            BY <3>4, <6>1
        <5> QED
          BY <3>1, <3>4, <4>1, <5>1, <5>2
      <4> QED
        BY <4>1
    <3> HIDE DEF Counted, Listed
    <3> QED
      BY <3>5, <3>6
  <2>6. CASE ~IsMember(d, At(q))
    <3>1. met[i] = w
      BY <1>3, <2>1, <2>6
    <3>2. ASSUME NEW p \in Nat, p * s = q PROVE ~Reaches(d, p * s)
      <4>1. (p * s) % s = 0
        BY <1>2, MultiplesOrdered
      <4>2. ~(Reaches(d, q) /\ q % s = 0)
        BY <1>4, <2>1, <2>6
      <4> HIDE DEF q
      <4> QED
        BY <3>2, <4>1, <4>2
    <3> HIDE DEF q, w
    <3>3. Counted(i) /\ Listed(i)
      BY <2>2, <2>3, <2>4, <3>1, <3>2
    <3> HIDE DEF Counted, Listed
    <3> QED
      BY <3>3
  <2> QED
    BY <2>5, <2>6
<1>9. Counted(Horizon) /\ Listed(Horizon)
  <2>1. Inductive(0, Horizon, S)
    BY <1>7, <1>8 DEF Inductive
  <2> HIDE DEF S
  <2>2. 0..Horizon \subseteq S
    BY <1>2, <2>1, Induct
  <2>3. Horizon \in S
    BY <1>2, <2>2
  <2> QED
    BY <2>3 DEF S
<1> DEFINE m == Members(d)
<1>10. m \in Seq(Int) /\ Len(m) \in Nat
  BY <1>2, <1>3
<1>11. r \in AnyRange /\ r.stride = d.stride /\ r.boundedType = d.boundedType
  BY MakeRangeTyped DEF MakeRange, Open
<1>12. First(r) = Start(d)
  BY <1>1 DEF MakeRange, Open, First, Start
<1>13. \A p \in Nat : OrderToIndex(r, p) = At(p * s)
  <2>1. TAKE p \in Nat
  <2>2. OrderToIndex(r, p) = Start(d) + p * (s * T)
    BY <1>2, <1>11, <1>12 DEF OrderToIndex
  <2>3. p * (s * T) = (p * s) * T
    BY <1>2
  <2> QED
    BY <2>2, <2>3 DEF At
<1>14. ASSUME IsBounded(r) PROVE Len(m) = Size(r)
  <2>1. r \in BoundedRange /\ d.boundedType = "bounded"
    BY <1>11, <1>14, AnyRangeTypes DEF IsBounded
  <2>2. Span(r) = d.high - d.low /\ Step(r) = s
    BY <1>1, <2>1 DEF MakeRange, Open, Span, Step, s
  <2>3. Size(r) \in Nat /\ \A p \in Nat : p < Size(r) <=> p * s <= d.high - d.low
    BY <2>1, <2>2, SizeCountsMembers
  <2>4. ASSUME NEW p \in Nat PROVE p < Len(m) <=> p < Size(r)
    <3>1. p * s \in Nat
      BY <1>2, MultiplesOrdered
    <3>2. p < Len(m) <=> p * s < Horizon /\ p * s <= d.high - d.low
      BY <1>3, <1>9, <2>1 DEF Reaches
    <3>3. p < Size(r) <=> p * s <= d.high - d.low
      BY <2>3
    <3>4. d.high - d.low < Horizon /\ d.high - d.low \in Int /\ Horizon \in Int
      BY <1>1, <1>2, <2>1
    <3> HIDE DEF m, r
    <3> QED
      BY <3>1, <3>2, <3>3, <3>4
  <2> HIDE DEF m, r
  <2> QED
    BY <1>10, <2>3, <2>4, SameBelow
<1>15. ASSUME NEW p \in 1..Len(m) PROVE m[p] = OrderToIndex(r, p - 1)
  <2>1. p - 1 \in Nat /\ p - 1 < Len(m) /\ (p - 1) + 1 = p
    BY <1>10
  <2>2. m[(p - 1) + 1] = At((p - 1) * s)
    BY <1>3, <1>9, <2>1
  <2> HIDE DEF m, r
  <2> QED
    BY <1>13, <2>1, <2>2
<1> QED
  BY <1>10, <1>14, <1>15 DEF Matches

\* by takes every n-th index of a range and of its sequence, also of one
\* without an end.
LEMMA ByMatches ==
  ASSUME NEW r \in AnyRange, NEW m, Matches(r, m), NEW n \in Nat \ {0}
  PROVE  Matches(By(r, n), EveryNth(m, n))
<1> DEFINE b == By(r, n)
           e == EveryNth(m, n)
           L == (Len(m) + n - 1) \div n
<1>1. m \in Seq(Int) /\ Len(m) \in Nat /\ \A i \in 1..Len(m) : m[i] \in Int
  BY DEF Matches
<1>2. L \in Nat /\ \A p \in Nat : p < L <=> p * n < Len(m)
  <2>1. CASE Len(m) = 0
    <3>1. L = 0
      BY <2>1
    <3>2. \A p \in Nat : p * n >= 0
      OBVIOUS
    <3> QED
      BY <2>1, <3>1, <3>2
  <2>2. CASE Len(m) # 0
    <3>1. Len(m) - 1 \in Nat /\ L = ((Len(m) - 1) + n) \div n
      BY <1>1, <2>2
    <3>2. L \in Nat /\ \A p \in Nat : p < L <=> p * n <= Len(m) - 1
      <4> DEFINE a == Len(m) - 1
      <4>1. a \in Nat /\ L = (a + n) \div n
        BY <3>1
      <4> HIDE DEF L, a
      <4>2. /\ (a + n) \div n \in Nat
            /\ \A p \in Nat : p < (a + n) \div n <=> p * n <= a
        BY <4>1, RoundUp
      <4>3. L \in Nat /\ \A p \in Nat : p < L <=> p * n <= a
        BY <4>1, <4>2
      <4> QED
        BY <4>3 DEF a
    <3>3. \A p \in Nat : p * n \in Nat
      BY MultiplesOrdered
    <3>4. \A x \in Nat : x <= Len(m) - 1 <=> x < Len(m)
      BY <1>1
    <3> HIDE DEF L
    <3>5. ASSUME NEW p \in Nat PROVE p < L <=> p * n < Len(m)
      <4>1. p * n \in Nat
        BY <3>3
      <4>2. p * n <= Len(m) - 1 <=> p * n < Len(m)
        BY <3>4, <4>1
      <4> QED
        BY <3>2, <4>2
    <3> QED
      BY <3>2, <3>5
  <2> QED
    BY <2>1, <2>2
<1>3. e = [i \in 1..L |-> m[(i - 1) * n + 1]]
  BY DEF EveryNth
<1> HIDE DEF e, L
<1>4. ASSUME NEW i \in 1..L
      PROVE  /\ (i - 1) * n \in Nat /\ (i - 1) * n < Len(m)
             /\ (i - 1) * n + 1 \in 1..Len(m) /\ e[i] = m[(i - 1) * n + 1]
  <2>1. i - 1 \in Nat /\ i - 1 < L
    BY <1>2
  <2>2. (i - 1) * n \in Nat /\ (i - 1) * n < Len(m)
    BY <1>2, <2>1, MultiplesOrdered
  <2> QED
    BY <1>1, <1>3, <2>2
<1>5. e \in Seq(Int) /\ Len(e) = L
  <2>1. \A i \in 1..L : e[i] \in Int
    BY <1>1, <1>4
  <2> QED
    BY <1>2, <1>3, <2>1
<1>6. b.stride = r.stride * n /\ First(b) = First(r)
  <2>1. /\ b = Open(r.boundedType, r.firstIndex, r.lastIndex, r.stride * n, TRUE)
        /\ (r.stride * n > 0 <=> r.stride > 0)
    BY AnyRangeTypes DEF By
  <2>2. r.stride > 0 => b.firstIndex = r.firstIndex
    BY <2>1, AnyRangeTypes DEF Open
  <2>3. ~(r.stride > 0) => b.lastIndex = r.lastIndex
    BY <2>1, AnyRangeTypes DEF Open
  <2>4. b.stride = r.stride * n
    BY <2>1 DEF Open
  <2> HIDE DEF b
  <2> QED
    BY <2>1, <2>2, <2>3, <2>4 DEF First
<1>7. \A p \in Nat : OrderToIndex(b, p) = OrderToIndex(r, p * n)
  <2>1. TAKE p \in Nat
  <2>2. p * (r.stride * n) = (p * n) * r.stride
    BY AnyRangeTypes
  <2> HIDE DEF b
  <2> QED
    BY <1>6, <2>2 DEF OrderToIndex
<1>8. ASSUME NEW i \in 1..Len(e) PROVE e[i] = OrderToIndex(b, i - 1)
  <2>1. i \in 1..L /\ i - 1 \in Nat
    BY <1>2, <1>5, <1>8
  <2>2. m[(i - 1) * n + 1] = OrderToIndex(r, ((i - 1) * n + 1) - 1)
    BY <1>4, <2>1 DEF Matches
  <2>3. ((i - 1) * n + 1) - 1 = (i - 1) * n
    BY <1>4, <2>1
  <2> HIDE DEF b
  <2> QED
    BY <1>4, <1>7, <2>1, <2>2, <2>3
<1>9. ASSUME IsBounded(b) PROVE Len(e) = Size(b)
  <2>1. IsBounded(r)
    BY <1>9, ByTyped DEF IsBounded
  <2>2. r \in BoundedRange /\ Len(m) = Size(r)
    BY <2>1, AnyRangeTypes DEF Matches
  <2>3. b \in BoundedRange /\ \A p \in Nat : p < Size(b) <=> p * n < Size(r)
    BY <2>2, ByTakesEveryNth
  <2>4. Size(b) \in Nat
    BY <2>3, SizeCountsMembers
  <2> HIDE DEF b
  <2>5. \A p \in Nat : p < L <=> p < Size(b)
    BY <1>2, <2>2, <2>3
  <2>6. L = Size(b)
    BY <1>2, <2>4, <2>5, SameBelow
  <2> QED
    BY <1>5, <2>6
<1> QED
  BY <1>5, <1>8, <1>9 DEF Matches, e

\* + moves every index, unless the range counts down from its only bound, which
\* the library takes for one it lacks (range.hpp:978-1020).
LEMMA ShiftMatches ==
  ASSUME NEW r \in AnyRange, Fits(r), r.boundedType # "boundedHigh",
         NEW m, Matches(r, m), NEW n \in Int
  PROVE  Matches(Shift(r, n), Moved(m, n))
<1> DEFINE b == Shift(r, n)
           e == Moved(m, n)
<1>1. m \in Seq(Int) /\ Len(m) \in Nat
  BY DEF Matches
<1>2. e \in Seq(Int) /\ Len(e) = Len(m) /\ \A i \in 1..Len(m) : e[i] = m[i] + n
  BY <1>1 DEF Moved
<1>3. r.boundedType = "bounded" \/ (r.boundedType = "boundedLow" /\ r.stride > 0)
  BY AnyRangeTypes DEF BoundTypes
<1>4. /\ r.firstIndex # MinValue
      /\ r.boundedType = "bounded" => r.lastIndex # MaxValue
  BY AnyRangeTypes, RangesAssumption DEF Fits
<1>5. /\ b.firstIndex = r.firstIndex + n
      /\ r.boundedType = "bounded" => b.lastIndex = r.lastIndex + n
      /\ b.stride = r.stride /\ b.stridable = r.stridable /\ b.boundedType = r.boundedType
  BY <1>3, <1>4 DEF Shift, Open, HasFirst, HasLast
<1> HIDE DEF b, e
<1>6. First(b) = First(r) + n
  BY <1>3, <1>5, AnyRangeTypes DEF First
<1>7. ASSUME NEW i \in 1..Len(e) PROVE e[i] = OrderToIndex(b, i - 1)
  <2>1. m[i] = First(r) + (i - 1) * r.stride
    BY <1>2, <1>7 DEF Matches, OrderToIndex
  <2>2. OrderToIndex(b, i - 1) = First(r) + n + (i - 1) * r.stride
    BY <1>5, <1>6 DEF OrderToIndex
  <2>3. (i - 1) * r.stride \in Int /\ First(r) \in Int
    BY <1>1, <1>2, AnyRangeTypes
  <2> QED
    BY <1>2, <2>1, <2>2, <2>3
<1>8. ASSUME IsBounded(b) PROVE Len(e) = Size(b)
  <2>1. r.boundedType = "bounded" /\ Len(m) = Size(r)
    BY <1>5, <1>8 DEF IsBounded, Matches
  <2>2. b.lastIndex - 1 - b.firstIndex = r.lastIndex - 1 - r.firstIndex
    BY <1>5, <2>1, AnyRangeTypes
  <2>3. Size(b) = Size(r)
    BY <1>5, <2>2 DEF Size
  <2>4. Len(e) = Len(m)
    BY <1>2
  <2> QED
    BY <2>1, <2>3, <2>4
<1> QED
  BY <1>2, <1>7, <1>8 DEF Matches, b, e

\* # takes the first indices of a range that counts up, the last ones of a
\* range that counts in ones, and none if there are none to take.
LEMMA CountMatches ==
  ASSUME NEW r \in AnyRange, NEW m, Matches(r, m), NEW n \in Int,
         n < 0 => IsBounded(r) /\ r.stride = 1 /\ -n <= Len(m),
         n > 0 => r.stride > 0 /\ n <= Len(m),
         n = 0 => r.stride > 0
  PROVE  Matches(Count(r, n), Taken(m, n))
<1> DEFINE c == Count(r, n)
           e == Taken(m, n)
<1>1. /\ m \in Seq(Int) /\ Len(m) \in Nat
      /\ r.firstIndex \in Int /\ r.lastIndex \in Int /\ r.stride \in Int
  BY AnyRangeTypes DEF Matches
<1>2. c \in BoundedRange
  BY CountTyped, AnyRangeTypes
<1>3. Size(c) \in Nat /\ \A p \in Nat : p < Size(c) <=> p * Step(c) <= Span(c)
  BY <1>2, SizeCountsMembers
<1>4. CASE n > 0
  <2>1. /\ e \in Seq(Int) /\ Len(e) = n /\ n \in Nat
        /\ \A i \in 1..n : e[i] = m[i]
    BY <1>1, <1>4 DEF Taken
  <2>2. n * r.stride \in Int /\ n * r.stride > 0
    BY <1>1, <1>4
  <2>3. c = [boundedType |-> "bounded", firstIndex |-> r.firstIndex,
             lastIndex |-> r.firstIndex + n * r.stride,
             stride |-> r.stride, stridable |-> r.stridable]
    BY <2>2 DEF Count, Open
  <2> HIDE DEF c, e
  <2>4. /\ Span(c) = n * r.stride - 1 /\ Step(c) = r.stride
        /\ First(c) = First(r) /\ c.stride = r.stride
    BY <1>1, <1>4, <2>2, <2>3 DEF Span, Step, Abs, First
  <2>5. ASSUME NEW p \in Nat PROVE p < Size(c) <=> p < n
    <3>1. p * r.stride < n * r.stride <=> p < n
      <4>1. r.stride \in Nat \ {0}
        BY <1>1, <1>4
      <4> QED
        BY <2>1, <4>1, MultiplesOrdered
    <3>2. p * r.stride \in Int
      BY <1>1
    <3> QED
      BY <1>3, <2>2, <2>4, <3>1, <3>2
  <2>6. Size(c) = n
    BY <1>3, <2>1, <2>5, SameBelow
  <2>7. ASSUME NEW i \in 1..n PROVE e[i] = OrderToIndex(c, i - 1)
    <3>1. i \in 1..Len(m)
      BY <1>1, <1>4
    <3>2. m[i] = OrderToIndex(r, i - 1)
      BY <3>1 DEF Matches
    <3> QED
      BY <2>1, <2>4, <3>2 DEF OrderToIndex
  <2> QED
    BY <2>1, <2>6, <2>7 DEF Matches, c, e
<1>5. CASE n = 0
  <2>1. e = <<>>
    BY <1>1, <1>5 DEF Taken
  <2>2. n * r.stride = 0
    BY <1>1, <1>5
  <2>3. c = [boundedType |-> "bounded", firstIndex |-> r.lastIndex + (r.stride - 1),
             lastIndex |-> r.lastIndex,
             stride |-> r.stride, stridable |-> r.stridable]
    BY <1>1, <1>5, <2>2 DEF Count, Open
  <2> HIDE DEF c
  <2>4. Span(c) < 0 /\ Span(c) \in Int
    BY <1>1, <1>5, <2>3 DEF Span
  <2>5. Size(c) = 0
    BY <2>4 DEF Size, Span
  <2>6. <<>> \in Seq(Int) /\ Len(<<>>) = 0 /\ \A i \in 1..0 : FALSE
    OBVIOUS
  <2> HIDE DEF e
  <2> QED
    BY <2>1, <2>5, <2>6 DEF Matches, c, e
<1>6. CASE n < 0
  <2> DEFINE k == -n
  <2>1. r.stride = 1 /\ Len(m) = Size(r) /\ k \in Nat \ {0} /\ k <= Len(m)
    BY <1>6 DEF Matches
  <2>2. /\ e \in Seq(Int) /\ Len(e) = k
        /\ \A i \in 1..k : e[i] = m[Len(m) - k + i]
    <3>1. e = SubSeq(m, Len(m) + n + 1, Len(m))
      BY <1>6 DEF Taken
    <3>2. /\ Len(m) + n + 1 \in Int /\ Len(m) \in Int /\ Len(m) + n + 1 <= Len(m)
          /\ \A i \in (Len(m) + n + 1)..Len(m) : m[i] \in Int
      BY <1>1, <1>6, <2>1
    <3> HIDE DEF e
    <3>3. /\ e \in Seq(Int) /\ Len(e) = Len(m) - (Len(m) + n + 1) + 1
          /\ \A i \in 1..(Len(m) - (Len(m) + n + 1) + 1) : e[i] = m[Len(m) + n + 1 + i - 1]
      BY <3>1, <3>2, SubSeqProperties
    <3>4. n = -k /\ k \in Int /\ Len(m) \in Int
      BY <1>1
    <3> HIDE DEF k
    <3>5. Len(m) - (Len(m) + n + 1) + 1 = k
      BY <3>4
    <3>6. \A i \in 1..k : Len(m) + n + 1 + i - 1 = Len(m) - k + i
      BY <3>4
    <3> QED
      BY <3>3, <3>5, <3>6
  <2>3. c = [boundedType |-> "bounded", firstIndex |-> r.lastIndex - k,
             lastIndex |-> r.lastIndex, stride |-> 1, stridable |-> r.stridable]
    BY <1>1, <1>6, <2>1 DEF Count, Open
  <2> HIDE DEF c, e, k
  <2>4. Span(c) = k - 1 /\ Step(c) = 1 /\ First(c) = r.lastIndex - k /\ c.stride = 1
    BY <1>1, <2>1, <2>3 DEF Span, Step, Abs, First
  <2>5. Size(c) = k
    <3>1. \A p \in Nat : p < Size(c) <=> p < k
      BY <1>3, <2>1, <2>4
    <3> QED
      BY <1>3, <2>1, <3>1, SameBelow
  <2>6. Len(m) = r.lastIndex - r.firstIndex
    <3>1. r \in BoundedRange /\ Step(r) = 1
      BY <1>6, <2>1, AnyRangeTypes DEF Step, Abs
    <3>2. \A p \in Nat : p < Size(r) <=> p * 1 <= Span(r)
      BY <3>1, SizeCountsMembers
    <3>3. Span(r) >= 0 /\ Span(r) \in Int
      BY <1>1, <2>1, <3>2 DEF Span
    <3>4. \A p \in Nat : p < Size(r) <=> p < Span(r) + 1
      BY <3>2, <3>3
    <3>5. Size(r) \in Nat /\ Span(r) + 1 \in Nat
      BY <1>1, <2>1, <3>3
    <3>6. Size(r) = Span(r) + 1
      BY <3>4, <3>5, SameBelow
    <3> QED
      BY <1>1, <2>1, <3>6 DEF Span
  <2>7. ASSUME NEW i \in 1..k PROVE e[i] = OrderToIndex(c, i - 1)
    <3>1. Len(m) - k + i \in 1..Len(m)
      BY <1>1, <2>1
    <3>2. m[Len(m) - k + i] = First(r) + (Len(m) - k + i - 1) * 1
      BY <2>1, <3>1 DEF Matches, OrderToIndex
    <3>3. First(r) = r.firstIndex
      BY <2>1 DEF First
    <3>4. e[i] = r.firstIndex + (Len(m) - k + i - 1)
      BY <1>1, <2>1, <2>2, <3>2, <3>3
    <3>5. OrderToIndex(c, i - 1) = r.lastIndex - k + (i - 1)
      BY <1>1, <2>1, <2>4 DEF OrderToIndex
    <3> QED
      BY <1>1, <2>1, <2>6, <3>4, <3>5
  <2> QED
    BY <2>1, <2>2, <2>5, <2>7 DEF Matches, c, e
<1> QED
  BY <1>4, <1>5, <1>6

\* Converted, a range stands for the same sequence.
LEMMA ConvertMatches ==
  ASSUME NEW r \in AnyRange, NEW b \in BOOLEAN, b \/ ~r.stridable, NEW m, Matches(r, m)
  PROVE  Matches(Convert(r, b), m)
<1> DEFINE c == Convert(r, b)
<1>1. /\ c.boundedType = r.boundedType /\ c.firstIndex = r.firstIndex
      /\ c.lastIndex = r.lastIndex /\ c.stride = r.stride /\ c.stridable = b
  BY DEF Convert, AnyRange
<1>2. r.firstIndex \in Int /\ r.lastIndex \in Int /\ (r.stridable \/ r.stride = 1)
  BY AnyRangeTypes
<1> HIDE DEF c
<1>3. \A p : OrderToIndex(c, p) = OrderToIndex(r, p)
  BY <1>1 DEF OrderToIndex, First
<1>4. Size(c) = Size(r)
  <2>1. CASE c.stridable = r.stridable
    BY <1>1, <2>1 DEF Size
  <2>2. CASE c.stridable # r.stridable
    <3>1. c.stridable /\ ~r.stridable /\ r.stride = 1
      <4>1. r.stridable \in BOOLEAN /\ c.stridable \in BOOLEAN
        BY <1>1, AnyRangeTypes
      <4>2. c.stridable \/ ~r.stridable
        BY <1>1
      <4>3. c.stridable /\ ~r.stridable
        BY <2>2, <4>1, <4>2
      <4> QED
        BY <1>2, <4>3
    <3>2. \A x \in Int : (x + 1) \div 1 = x + 1
      OBVIOUS
    <3> QED
      BY <1>1, <1>2, <3>1, <3>2 DEF Size, Abs
  <2> QED
    BY <2>1, <2>2
<1> QED
  BY <1>1, <1>3, <1>4 DEF Matches, IsBounded, c

\* Each range of the expression has its sequence.
PartsMatch ==
  /\ parts \in Seq(Seq(Int)) /\ Len(parts) = Len(it.rs)
  /\ \A i \in 1..Len(it.rs) : Matches(it.rs[i], parts[i])

\* As much of each sequence without an end is written out as # takes and as a
\* zippering with it needs.
HorizonReaches ==
  \A i \in 1..Len(it.rs) : ~IsBounded(it.rs[i]) =>
    /\ \A n \in Counts : n <= Len(parts[i])
    /\ \A j \in 1..Len(it.rs) : IsBounded(it.rs[j]) => Len(parts[j]) <= Len(parts[i])

\* Sequences for ranges, one for each, in the same order.
LEMMA AllMatch ==
  ASSUME NEW N \in Nat, NEW rs, NEW ms,
         DOMAIN ms = 1..N, ms = [i \in 1..N |-> ms[i]],
         \A i \in 1..N : Matches(rs[i], ms[i]),
         it'.rs = rs, Len(rs) = N, parts' = ms
  PROVE  PartsMatch'
<1>1. \A i \in 1..N : ms[i] \in Seq(Int)
  BY DEF Matches
<1>2. ms \in Seq(Seq(Int)) /\ Len(ms) = N
  BY <1>1
<1> QED
  BY <1>2 DEF PartsMatch, Matches, IsBounded, Size, OrderToIndex, First

\* The sequences of the others and the program's own among them.
LEMMA BesideMatches ==
  ASSUME NEW ds \in Partners, NEW r \in AnyRange, NEW m, Matches(r, m),
         NEW i \in 1..Len(ds) + 1
  PROVE  LET ms == Beside(m, TheirIndices(ds), i)
         IN  /\ Len(ds) \in Nat
             /\ ms \in Seq(Seq(Int)) /\ Len(ms) = Len(ds) + 1
             /\ \A j \in 1..Len(ds) + 1 : Matches(Beside(r, Others(ds), i)[j], ms[j])
<1> DEFINE o == TheirIndices(ds)
           w == InsertAt(o, i, m)
           rs == Beside(r, Others(ds), i)
<1>1. /\ ds \in Seq(ToSet(ds)) /\ Len(ds) \in Nat
      /\ LiteralsAreRanges(ToSet(ds))
  BY ProgramAssumption
<1>2. DOMAIN ds = 1..Len(ds) /\ \A j \in 1..Len(ds) : ds[j] \in ToSet(ds)
  BY <1>1
<1>3. ASSUME NEW j \in 1..Len(ds)
      PROVE  o[j] = Members(ds[j]) /\ Matches(MakeRange(ds[j]), o[j])
  BY <1>1, <1>2, MembersMatch DEF TheirIndices
<1>4. o = [j \in 1..Len(ds) |-> o[j]] /\ DOMAIN o = 1..Len(ds)
  BY <1>2 DEF TheirIndices
<1> HIDE DEF o
<1>5. \A j \in 1..Len(ds) : o[j] \in Seq(Int)
  BY <1>3 DEF Matches
<1>6. o \in Seq(Seq(Int)) /\ Len(o) = Len(ds) /\ m \in Seq(Int)
  BY <1>1, <1>4, <1>5 DEF Matches
<1>7. /\ w \in Seq(Seq(Int)) /\ Len(w) = Len(o) + 1
      /\ \A j \in 1..Len(o) + 1 : w[j] = IF j < i THEN o[j] ELSE IF j = i THEN m ELSE o[j - 1]
  BY <1>6, Inserted
<1>8. \A j \in 1..Len(ds) + 1 :
        rs[j] = IF j < i THEN MakeRange(ds[j]) ELSE IF j = i THEN r ELSE MakeRange(ds[j - 1])
  BY BesideTyped
<1> HIDE DEF w, rs
<1>9. ASSUME NEW j \in 1..Len(ds) + 1 PROVE Matches(rs[j], w[j])
  <2>1. /\ w[j] = IF j < i THEN o[j] ELSE IF j = i THEN m ELSE o[j - 1]
        /\ rs[j] = IF j < i THEN MakeRange(ds[j]) ELSE IF j = i THEN r ELSE MakeRange(ds[j - 1])
    BY <1>6, <1>7, <1>8
  <2>2. CASE j < i
    <3>1. j \in 1..Len(ds)
      BY <1>1, <2>2
    <3> QED
      BY <1>3, <2>1, <2>2, <3>1
  <2>3. CASE j = i
    BY <2>1, <2>3
  <2>4. CASE j > i
    <3>1. j - 1 \in 1..Len(ds) /\ ~(j < i) /\ j # i
      BY <1>1, <2>4
    <3> QED
      BY <1>3, <2>1, <3>1
  <2> QED
    BY <1>1, <2>2, <2>3, <2>4
<1> QED
  BY <1>1, <1>6, <1>7, <1>9 DEF w, rs, o, Beside

\* Each operator does to the ranges what it does to their sequences.
LEMMA BuildMatches ==
  ASSUME ExprTyped, PartsMatch, Representable, HorizonReaches, Sound, Build
  PROVE  PartsMatch'
<1> DEFINE N == Len(it.rs)
<1>0. /\ N \in Nat \ {0} /\ DOMAIN it.rs = 1..N /\ DOMAIN parts = 1..N
      /\ \A i \in 1..N : it.rs[i] \in AnyRange /\ Fits(it.rs[i])
      /\ \A i \in 1..N : Matches(it.rs[i], parts[i])
      /\ it = [kind |-> it.kind, rs |-> it.rs]
  BY DEF ExprTyped, PartsMatch, Representable
<1>1. ASSUME NEW rs, rs = [i \in 1..N |-> rs[i]], it' = [it EXCEPT !.rs = rs]
      PROVE  it'.rs = rs /\ Len(rs) = N
  <2>1. it'.rs = rs
    BY <1>0, <1>1
  <2>2. Len(rs) = N
    BY <1>0, <1>1
  <2> QED
    BY <2>1, <2>2
<1>2. ASSUME NEW steps \in [1..N -> Steps], ApplyBy(steps) PROVE PartsMatch'
  <2> DEFINE rs == [i \in DOMAIN it.rs |-> By(it.rs[i], steps[i])]
             ms == [i \in DOMAIN parts |-> EveryNth(parts[i], steps[i])]
  <2>1. it' = [it EXCEPT !.rs = rs] /\ parts' = ms
    BY <1>2 DEF ApplyBy
  <2>2. ASSUME NEW i \in 1..N PROVE Matches(rs[i], ms[i])
    <3>1. /\ rs[i] = By(it.rs[i], steps[i]) /\ ms[i] = EveryNth(parts[i], steps[i])
          /\ steps[i] \in Nat \ {0} /\ it.rs[i] \in AnyRange /\ Matches(it.rs[i], parts[i])
      BY <1>0, ProgramAssumption
    <3> HIDE DEF rs, ms
    <3> QED
      BY <3>1, ByMatches
  <2>3. rs = [i \in 1..N |-> rs[i]] /\ ms = [i \in 1..N |-> ms[i]] /\ DOMAIN ms = 1..N
    BY <1>0
  <2> HIDE DEF rs, ms, N
  <2>4. it'.rs = rs /\ Len(rs) = N
    BY <1>1, <2>1, <2>3
  <2> QED
    BY <1>0, <2>1, <2>2, <2>3, <2>4, AllMatch
<1>3. ASSUME NEW n \in Amounts, ApplyShift(n) PROVE PartsMatch'
  <2> DEFINE r == it.rs[1]
             s == Shift(r, n)
             m == Moved(parts[1], n)
             rs == <<s>>
             ms == <<m>>
  <2>1. /\ r \in AnyRange /\ Fits(r) /\ Matches(r, parts[1]) /\ n \in Int
        /\ r.boundedType # "boundedHigh"
    BY <1>0, <1>3, ProgramAssumption DEF ApplyShift
  <2>2. Matches(s, m)
    BY <2>1, ShiftMatches
  <2>3. it'.rs = rs /\ parts' = ms
    BY <1>3 DEF ApplyShift, Iterand
  <2> HIDE DEF s, m
  <2>4. Len(rs) = 1 /\ rs[1] = s /\ ms[1] = m /\ DOMAIN ms = 1..1 /\ ms = [i \in 1..1 |-> ms[i]]
    OBVIOUS
  <2> HIDE DEF rs, ms
  <2>5. 1 \in Nat /\ \A i \in 1..1 : Matches(rs[i], ms[i])
    BY <2>2, <2>4
  <2> QED
    BY <2>3, <2>4, <2>5, AllMatch
<1>4. ASSUME NEW counts \in [1..N -> Counts], ApplyCount(counts) PROVE PartsMatch'
  <2> DEFINE rs == [i \in DOMAIN it.rs |-> Count(it.rs[i], counts[i])]
             ms == [i \in DOMAIN parts |-> Taken(parts[i], counts[i])]
  <2>1. it' = [it EXCEPT !.rs = rs] /\ parts' = ms
    BY <1>4 DEF ApplyCount
  <2>2. ASSUME NEW i \in 1..N PROVE Matches(rs[i], ms[i])
    <3> DEFINE r == it.rs[i]
               m == parts[i]
               n == counts[i]
    <3>1. /\ rs[i] = Count(r, n) /\ ms[i] = Taken(m, n)
          /\ n \in Int /\ n \in Counts /\ r \in AnyRange /\ Matches(r, m) /\ Countable(r, n)
      BY <1>0, <1>4, ProgramAssumption DEF ApplyCount
    <3>2. ~IsBounded(r) => n <= Len(m)
      BY <3>1 DEF HorizonReaches
    <3>3. IsBounded(r) => Len(m) = Size(r)
      BY <3>1 DEF Matches
    <3> HIDE DEF rs, ms, r, m, n
    <3>4. /\ n < 0 => IsBounded(r) /\ r.stride = 1 /\ -n <= Len(m)
          /\ n > 0 => r.stride > 0 /\ n <= Len(m)
          /\ n = 0 => r.stride > 0
      BY <3>1, <3>2, <3>3 DEF Countable, CountAsserted, Abs
    <3> QED
      BY <3>1, <3>4, CountMatches
  <2>3. rs = [i \in 1..N |-> rs[i]] /\ ms = [i \in 1..N |-> ms[i]] /\ DOMAIN ms = 1..N
    BY <1>0
  <2> HIDE DEF rs, ms, N
  <2>4. it'.rs = rs /\ Len(rs) = N
    BY <1>1, <2>1, <2>3
  <2> QED
    BY <1>0, <2>1, <2>2, <2>3, <2>4, AllMatch
<1>5. ASSUME NEW ds \in Partners, NEW i \in 1..(Len(ds) + 1), MakeDomain(ds, i)
      PROVE  PartsMatch'
  <2> DEFINE rs == Beside(it.rs[1], Others(ds), i)
             ms == Beside(parts[1], TheirIndices(ds), i)
             strided == \E k \in DOMAIN rs : rs[k].stridable
             cs == [j \in DOMAIN rs |-> Convert(rs[j], strided)]
             M == Len(ds) + 1
  <2>1. /\ it.rs[1] \in AnyRange /\ Matches(it.rs[1], parts[1])
        /\ it'.rs = cs /\ parts' = ms
    BY <1>0, <1>5 DEF MakeDomain, Iterand
  <2>2. rs \in Seq(AnyRange) /\ Len(rs) = M /\ Len(ds) \in Nat
    BY <2>1, BesideTyped
  <2>3. ms \in Seq(Seq(Int)) /\ Len(ms) = M /\ \A j \in 1..M : Matches(rs[j], ms[j])
    BY <2>1, BesideMatches
  <2>4. strided \in BOOLEAN /\ \A k \in DOMAIN rs : strided \/ ~rs[k].stridable
    <3>1. \A k \in DOMAIN rs : rs[k].stridable \in BOOLEAN
      BY <2>2, AnyRangeTypes
    <3> QED
      BY <3>1
  <2> HIDE DEF rs, ms, strided, M
  <2>5. DOMAIN rs = 1..M /\ cs = [j \in 1..M |-> cs[j]] /\ M \in Nat
    BY <2>2 DEF M
  <2>6. Len(cs) = M
    BY <2>2, <2>5
  <2>7. ASSUME NEW j \in 1..M PROVE Matches(cs[j], ms[j])
    <3>1. cs[j] = Convert(rs[j], strided) /\ rs[j] \in AnyRange
      BY <2>2, <2>5
    <3> HIDE DEF cs
    <3> QED
      BY <2>3, <2>4, <2>5, <3>1, ConvertMatches
  <2> HIDE DEF cs
  <2>8. DOMAIN ms = 1..M /\ ms = [j \in 1..M |-> ms[j]]
    BY <2>3, <2>5
  <2> QED
    BY <2>1, <2>5, <2>6, <2>7, <2>8, AllMatch
<1>6. ASSUME NEW ds \in Partners, NEW i \in 1..(Len(ds) + 1), MakeZip(ds, i)
      PROVE  PartsMatch'
  <2> DEFINE rs == Beside(it.rs[1], Others(ds), i)
             ms == Beside(parts[1], TheirIndices(ds), i)
             M == Len(ds) + 1
  <2>1. /\ it.rs[1] \in AnyRange /\ Matches(it.rs[1], parts[1])
        /\ it'.rs = rs /\ parts' = ms
    BY <1>0, <1>6 DEF MakeZip, Iterand
  <2>2. rs \in Seq(AnyRange) /\ Len(rs) = M /\ M \in Nat
    BY <2>1, BesideTyped
  <2>3. ms \in Seq(Seq(Int)) /\ Len(ms) = M /\ \A j \in 1..M : Matches(rs[j], ms[j])
    BY <2>1, BesideMatches
  <2> HIDE DEF rs, ms, M
  <2>4. DOMAIN ms = 1..M /\ ms = [j \in 1..M |-> ms[j]]
    BY <2>2, <2>3
  <2> QED
    BY <2>1, <2>2, <2>3, <2>4, AllMatch
<1> QED
  BY <1>2, <1>3, <1>4, <1>5, <1>6 DEF Build
-----------------------------------------------------------------------------
\* The sequence a program starts with is that of its literal.
LEMMA ProgInitMatches == ProgInit => PartsMatch
<1> SUFFICES ASSUME NEW d \in Literals, it = Iterand("range", <<MakeRange(d)>>),
                    parts = <<Members(d)>>
             PROVE  PartsMatch
  BY DEF ProgInit
<1> DEFINE r == MakeRange(d)
           m == Members(d)
<1>1. Matches(r, m)
  BY ProgramAssumption, MembersMatch
<1>2. it.rs = <<r>> /\ parts = <<m>>
  BY DEF Iterand
<1> HIDE DEF r, m
<1>3. m \in Seq(Int)
  BY <1>1 DEF Matches
<1>4. parts \in Seq(Seq(Int)) /\ Len(parts) = 1 /\ Len(it.rs) = 1
  BY <1>2, <1>3
<1>5. it.rs[1] = r /\ parts[1] = m
  BY <1>2
<1> QED
  BY <1>1, <1>4, <1>5 DEF PartsMatch

\* Every range of an expression stands for its sequence, whatever the operators
\* that made it.
THEOREM RangesMatch ==
  ASSUME Sound
  PROVE  ProgSpec /\ []Representable /\ []HorizonReaches => []PartsMatch
<1>1. ProgInit => PartsMatch
  BY ProgInitMatches
<1>2. ExprTyped /\ PartsMatch /\ Representable /\ HorizonReaches /\ [ProgNext]_vars => PartsMatch'
  <2> SUFFICES ASSUME ExprTyped, PartsMatch, Representable, HorizonReaches, [ProgNext]_vars
               PROVE  PartsMatch'
    OBVIOUS
  <2>1. CASE Build
    BY <2>1, BuildMatches
  <2>2. CASE UNCHANGED exprVars
    BY <2>2 DEF exprVars, PartsMatch, Matches, IsBounded, Size, OrderToIndex, First
  <2> QED
    BY <2>1, <2>2, ProgNextBuilds
<1> QED
  BY <1>1, <1>2, ExpressionsTyped, PTL DEF ProgSpec
-----------------------------------------------------------------------------
(***************************************************************************)
(* The sequence of the whole.                                              *)
(***************************************************************************)
\* Rows of one length, and what they are one after the other.
RowsOf(w, L, S) == w \in Seq(Seq(S)) /\ \A i \in 1..Len(w) : Len(w[i]) = L

OneRow(w, L, S) ==
  /\ FlattenSeq(w) \in Seq(S) /\ Len(FlattenSeq(w)) = Len(w) * L
  /\ \A i \in 1..Len(w), j \in 1..L : FlattenSeq(w)[(i - 1) * L + j] = w[i][j]

\* Flattened, the j-th of row i comes after i - 1 rows and j - 1 of its own.
LEMMA Flattened ==
  ASSUME NEW S, NEW L \in Nat, NEW w, RowsOf(w, L, S)
  PROVE  OneRow(w, L, S)
<1> USE DEF RowsOf, OneRow
<1> DEFINE N == Len(w)
           step == [i \in (1..N) \ {1} |-> [x \in Seq(S) |-> x \o w[i]]]
           Unfolding(g) == [i \in 1..N |-> IF i = 1 THEN w[1] ELSE g[i - 1] \o w[i]]
           flatten[i \in 1..N] == IF i = 1 THEN w[i] ELSE flatten[i - 1] \o w[i]
<1>1. N \in Nat /\ \A i \in 1..N : w[i] \in Seq(S) /\ Len(w[i]) = L
  OBVIOUS
<1>2. CASE N = 0
  <2>1. w = <<>>
    BY <1>2
  <2>2. FlattenSeq(w) = <<>>
    BY <1>2, <2>1 DEF FlattenSeq
  <2>3. <<>> \in Seq(S) /\ Len(<<>>) = 0 /\ 0 * L = 0 /\ \A i \in 1..0 : FALSE
    OBVIOUS
  <2> QED
    BY <1>2, <2>2, <2>3
<1>3. CASE N # 0
  <2>0. 1 \in 1..N /\ 1 <= N /\ N \in Int /\ 1 \in Int
    BY <1>1, <1>3
  <2>1. step \in StepFunctions(1, N, Seq(S))
    <3>1. \A i \in (1..N) \ {1}, x \in Seq(S) : x \o w[i] \in Seq(S)
      BY <1>1, ConcatProperties
    <3> HIDE DEF N
    <3> QED
      BY <3>1 DEF StepFunctions
  <2>2. \A i \in (1..N) \ {1}, x \in Seq(S) : step[i][x] = x \o w[i]
    OBVIOUS
  <2>3. PICK f \in [1..N -> Seq(S)] : f[1] = w[1] /\ \A n \in (1..N) \ {1} : f[n] = step[n][f[n - 1]]
    <3> DEFINE base == w[1]
    <3>1. base \in Seq(S)
      BY <1>1, <2>0
    <3> HIDE DEF step, N, base
    <3>2. Recurses(1, N, Seq(S), base, step)
      BY <2>0, <2>1, <3>1, Recursion, Zenon
    <3> QED
      BY <3>2 DEF Recurses, base
  <2>4. \A n \in (1..N) \ {1} : f[n] = f[n - 1] \o w[n]
    <3>1. \A n \in (1..N) \ {1} : n - 1 \in 1..N
      OBVIOUS
    <3> HIDE DEF step, N
    <3> QED
      BY <2>2, <2>3, <3>1
  <2>5. f = Unfolding(f)
    <3> HIDE DEF step
    <3> QED
      BY <2>3, <2>4
  <2>6. flatten = [i \in 1..N |-> IF i = 1 THEN w[i] ELSE flatten[i - 1] \o w[i]]
    <3>1. f = [i \in 1..N |-> IF i = 1 THEN w[i] ELSE f[i - 1] \o w[i]]
      <4>1. Unfolding(f) = [i \in 1..N |-> IF i = 1 THEN w[i] ELSE f[i - 1] \o w[i]]
        OBVIOUS
      <4> HIDE DEF Unfolding
      <4> QED
        BY <2>5, <4>1
    <3> QED
      BY <3>1
  <2>7. FlattenSeq(w) = flatten[N]
    BY <1>3 DEF FlattenSeq
  <2> HIDE DEF flatten
  <2>8. flatten[1] = w[1] /\ \A n \in (1..N) \ {1} : flatten[n] = flatten[n - 1] \o w[n]
    BY <2>0, <2>6
  <2> DEFINE Rows(n) ==
               /\ flatten[n] \in Seq(S) /\ Len(flatten[n]) = n * L
               /\ \A i \in 1..n, j \in 1..L : flatten[n][(i - 1) * L + j] = w[i][j]
             T == {n \in 1..N : Rows(n)}
  <2>9. 1 \in T
    <3>1. \A j \in 1..L : (1 - 1) * L + j = j
      OBVIOUS
    <3>2. Rows(1)
      <4>1. 1 * L = L
        OBVIOUS
      <4>2. ASSUME NEW i \in 1..1, NEW j \in 1..L PROVE flatten[1][(i - 1) * L + j] = w[i][j]
        BY <2>8, <3>1
      <4> QED
        BY <1>1, <2>0, <2>8, <4>1, <4>2
    <3> HIDE DEF Rows
    <3> QED
      BY <2>0, <3>2
  <2>10. ASSUME NEW n \in (1..N) \ {1}, n - 1 \in T PROVE n \in T
    <3> DEFINE a == flatten[n - 1]
               b == w[n]
               c == flatten[n]
    <3>1. /\ a \in Seq(S) /\ Len(a) = (n - 1) * L
          /\ \A i \in 1..(n - 1), j \in 1..L : a[(i - 1) * L + j] = w[i][j]
      BY <2>10
    <3>2. b \in Seq(S) /\ Len(b) = L /\ c = a \o b /\ n \in Nat /\ n - 1 \in Nat
      <4>1. n \in (1..N) \ {1} /\ n \in 1..N /\ n \in Nat /\ n - 1 \in Nat
        BY <1>1, <2>10
      <4> HIDE DEF T, N
      <4> QED
        BY <1>1, <2>8, <4>1
    <3> HIDE DEF a, b, c, T
    <3>3. /\ c \in Seq(S) /\ Len(c) = Len(a) + Len(b)
          /\ \A x \in 1..Len(a) + Len(b) : c[x] = IF x <= Len(a) THEN a[x] ELSE b[x - Len(a)]
      BY <3>1, <3>2, ConcatProperties
    <3>4. (n - 1) * L + L = n * L /\ (n - 1) * L \in Nat
      BY <3>2
    <3>5. ASSUME NEW i \in 1..n, NEW j \in 1..L PROVE c[(i - 1) * L + j] = w[i][j]
      <4>1. CASE i = n
        <5>1. (i - 1) * L + j = Len(a) + j /\ Len(a) + j \in 1..Len(a) + Len(b) /\ ~(Len(a) + j <= Len(a))
          BY <3>1, <3>2, <3>4, <4>1
        <5>2. (Len(a) + j) - Len(a) = j
          BY <3>1, <3>4
        <5> QED
          BY <3>3, <4>1, <5>1, <5>2 DEF b
      <4>2. CASE i # n
        <5>1. i \in 1..(n - 1)
          BY <3>2, <4>2
        <5>2. (i - 1) * L + L <= (n - 1) * L /\ (i - 1) * L \in Nat
          <6>1. i * L <= (n - 1) * L /\ (i - 1) * L + L = i * L
            BY <3>2, <5>1
          <6> QED
            BY <3>2, <5>1, <6>1
        <5>3. (i - 1) * L + j \in 1..Len(a) + Len(b) /\ (i - 1) * L + j <= Len(a)
          <6>1. (i - 1) * L + j <= Len(a)
            <7>1. \A x, y \in Nat : x + L <= y => x + j <= y
              OBVIOUS
            <7> QED
              BY <3>1, <3>4, <5>2, <7>1
          <6>2. (i - 1) * L + j \in Nat \ {0}
            <7>1. \A x \in Nat : x + j \in Nat \ {0}
              OBVIOUS
            <7> QED
              BY <5>2, <7>1
          <6> QED
            BY <3>1, <3>2, <3>4, <6>1, <6>2
        <5> QED
          BY <3>1, <3>3, <5>1, <5>3
      <4> QED
        BY <4>1, <4>2
    <3>6. Rows(n)
      BY <3>1, <3>2, <3>3, <3>4, <3>5 DEF c
    <3> HIDE DEF Rows
    <3> QED
      BY <3>6 DEF T
  <2>11. Rows(N)
    <3>1. Inductive(1, N, T)
      BY <2>9, <2>10 DEF Inductive
    <3> HIDE DEF T
    <3>2. 1..N \subseteq T
      BY <2>0, <3>1, Induct
    <3>3. N \in T
      BY <1>1, <2>0, <3>2
    <3> QED
      BY <3>3 DEF T
  <2> QED
    BY <2>7, <2>11
<1> QED
  BY <1>2, <1>3

\* Each index of s with each of t, row by row.
LEMMA ProductListed ==
  ASSUME NEW s \in Seq(Seq(Int)), NEW t \in Seq(Int)
  PROVE  /\ Product(s, t) \in Seq(Seq(Int)) /\ Len(Product(s, t)) = Len(s) * Len(t)
         /\ \A i \in 1..Len(s), j \in 1..Len(t) :
              Product(s, t)[(i - 1) * Len(t) + j] = Append(s[i], t[j])
<1> DEFINE row(i) == [j \in 1..Len(t) |-> Append(s[i], t[j])]
           w == [i \in 1..Len(s) |-> row(i)]
<1>1. Len(s) \in Nat /\ Len(t) \in Nat
  OBVIOUS
<1>2. ASSUME NEW i \in 1..Len(s) PROVE row(i) \in Seq(Seq(Int)) /\ Len(row(i)) = Len(t)
  <2>1. \A j \in 1..Len(t) : Append(s[i], t[j]) \in Seq(Int)
    <3>1. s[i] \in Seq(Int) /\ \A j \in 1..Len(t) : t[j] \in Int
      OBVIOUS
    <3> QED
      BY <3>1, AppendProperties
  <2> QED
    BY <1>1, <2>1
<1>3. \A i \in 1..Len(s), j \in 1..Len(t) : row(i)[j] = Append(s[i], t[j])
  OBVIOUS
<1> HIDE DEF row
<1>4. /\ w \in Seq(Seq(Seq(Int))) /\ Len(w) = Len(s)
      /\ \A i \in 1..Len(s) : w[i] = row(i)
  BY <1>1, <1>2
<1>5. Product(s, t) = FlattenSeq(w)
  BY DEF Product, row
<1> HIDE DEF w
<1>6. /\ FlattenSeq(w) \in Seq(Seq(Int)) /\ Len(FlattenSeq(w)) = Len(w) * Len(t)
      /\ \A i \in 1..Len(w), j \in 1..Len(t) : FlattenSeq(w)[(i - 1) * Len(t) + j] = w[i][j]
  <2> DEFINE L == Len(t)
             Indices == Seq(Int)
  <2>1. L \in Nat /\ w \in Seq(Seq(Indices)) /\ \A i \in 1..Len(w) : Len(w[i]) = L
    BY <1>1, <1>2, <1>4
  <2> HIDE DEF L, Indices
  <2>2. RowsOf(w, L, Indices)
    BY <2>1 DEF RowsOf
  <2>3. OneRow(w, L, Indices)
    BY <2>1, <2>2, Flattened
  <2> QED
    BY <2>3 DEF L, Indices, OneRow
<1>7. ASSUME NEW i \in 1..Len(s), NEW j \in 1..Len(t)
      PROVE  FlattenSeq(w)[(i - 1) * Len(t) + j] = Append(s[i], t[j])
  <2>1. i \in 1..Len(w) /\ w[i][j] = Append(s[i], t[j])
    BY <1>3, <1>4
  <2> QED
    BY <1>6, <2>1
<1> QED
  BY <1>4, <1>5, <1>6, <1>7

\* The first with the first, up to the end of the shorter.
LEMMA PairsListed ==
  ASSUME NEW s \in Seq(Seq(Int)), NEW t \in Seq(Int)
  PROVE  /\ Pairs(s, t) \in Seq(Seq(Int)) /\ Len(Pairs(s, t)) = Smaller(Len(s), Len(t))
         /\ Smaller(Len(s), Len(t)) \in Nat
         /\ \A i \in 1..Smaller(Len(s), Len(t)) : Pairs(s, t)[i] = Append(s[i], t[i])
<1> DEFINE L == Smaller(Len(s), Len(t))
<1>1. L \in Nat /\ L <= Len(s) /\ L <= Len(t) /\ Len(s) \in Nat /\ Len(t) \in Nat
  BY DEF Smaller
<1> HIDE DEF L
<1>2. ASSUME NEW i \in 1..L PROVE Append(s[i], t[i]) \in Seq(Int)
  <2>1. i \in 1..Len(s) /\ i \in 1..Len(t)
    BY <1>1
  <2>2. s[i] \in Seq(Int) /\ t[i] \in Int
    BY <2>1
  <2> QED
    BY <2>2, AppendProperties
<1> DEFINE e == Pairs(s, t)
           both(i) == Append(s[i], t[i])
<1>3. e = [i \in 1..L |-> both(i)]
  BY DEF Pairs, L
<1> HIDE DEF e, both
<1>4. e \in Seq(Seq(Int)) /\ Len(e) = L /\ \A i \in 1..L : e[i] = both(i)
  <2>1. \A i \in 1..L : both(i) \in Seq(Int)
    BY <1>2 DEF both
  <2> QED
    BY <1>1, <1>3, <2>1
<1> QED
  BY <1>1, <1>4 DEF L, e, both

\* The whole of the parts up to the k-th, part by part.
LEMMA DenotesUnrolled ==
  ASSUME parts \in Seq(Seq(Int)), Len(parts) > 0
  PROVE  \E upTo \in [1..Len(parts) -> Seq(Seq(Int))] :
           /\ upTo[1] = [i \in 1..Len(parts[1]) |-> <<parts[1][i]>>]
           /\ \A k \in (1..Len(parts)) \ {1} :
                upTo[k] = IF it.kind = "zip" THEN Pairs(upTo[k - 1], parts[k])
                          ELSE Product(upTo[k - 1], parts[k])
           /\ Denotes = upTo[Len(parts)]
<1> DEFINE N == Len(parts)
           base == [i \in 1..Len(parts[1]) |-> <<parts[1][i]>>]
           With(x, k) == IF it.kind = "zip" THEN Pairs(x, parts[k]) ELSE Product(x, parts[k])
           step == [k \in (1..N) \ {1} |-> [x \in Seq(Seq(Int)) |-> With(x, k)]]
           Unfolding(g) == [k \in 1..N |-> IF k = 1 THEN base ELSE With(g[k - 1], k)]
           upTo[k \in 1..N] ==
             IF k = 1 THEN [i \in 1..Len(parts[1]) |-> <<parts[1][i]>>]
             ELSE IF it.kind = "zip" THEN Pairs(upTo[k - 1], parts[k])
             ELSE Product(upTo[k - 1], parts[k])
<1>1. /\ N \in Nat /\ 1 \in 1..N /\ N \in 1..N /\ 1 <= N /\ N \in Int /\ 1 \in Int
      /\ \A k \in 1..N : parts[k] \in Seq(Int)
  OBVIOUS
<1>2. base \in Seq(Seq(Int))
  <2>1. parts[1] \in Seq(Int)
    BY <1>1
  <2>2. Len(parts[1]) \in Nat /\ \A i \in 1..Len(parts[1]) : <<parts[1][i]>> \in Seq(Int)
    BY <2>1
  <2> QED
    BY <2>2
<1>3. \A k \in 1..N, x \in Seq(Seq(Int)) : With(x, k) \in Seq(Seq(Int))
  <2>1. TAKE k \in 1..N, x \in Seq(Seq(Int))
  <2>2. Pairs(x, parts[k]) \in Seq(Seq(Int)) /\ Product(x, parts[k]) \in Seq(Seq(Int))
    BY <1>1, PairsListed, ProductListed
  <2> QED
    BY <2>2
<1>4. step \in StepFunctions(1, N, Seq(Seq(Int)))
  <2> HIDE DEF With, N
  <2> QED
    BY <1>3 DEF StepFunctions
<1>5. \A k \in (1..N) \ {1}, x \in Seq(Seq(Int)) : step[k][x] = With(x, k)
  <2> HIDE DEF With
  <2> QED
    OBVIOUS
<1>6. PICK f \in [1..N -> Seq(Seq(Int))] :
        f[1] = base /\ \A n \in (1..N) \ {1} : f[n] = step[n][f[n - 1]]
  <2> HIDE DEF step, N, base
  <2>1. Recurses(1, N, Seq(Seq(Int)), base, step)
    BY <1>1, <1>2, <1>4, Recursion, Zenon
  <2> QED
    BY <2>1 DEF Recurses
<1>7. \A n \in (1..N) \ {1} : f[n] = With(f[n - 1], n)
  <2>1. \A n \in (1..N) \ {1} : n - 1 \in 1..N
    OBVIOUS
  <2> HIDE DEF step, N, With, base
  <2> QED
    BY <1>5, <1>6, <2>1
<1>8. f = Unfolding(f)
  <2> HIDE DEF step, With, base
  <2> QED
    BY <1>6, <1>7
<1>9. upTo = Unfolding(upTo)
  BY <1>8
<1>10. Denotes = upTo[N]
  BY DEF Denotes
<1> HIDE DEF upTo
<1>11. upTo[1] = base /\ \A k \in (1..N) \ {1} : upTo[k] = With(upTo[k - 1], k)
  <2>1. \A k \in 1..N : Unfolding(upTo)[k] = IF k = 1 THEN base ELSE With(upTo[k - 1], k)
    OBVIOUS
  <2> HIDE DEF Unfolding, base, With, N
  <2> QED
    BY <1>1, <1>9, <2>1
<1>12. \A n \in 1..N : upTo[n] \in Seq(Seq(Int))
  <2> DEFINE S == {n \in 1..N : upTo[n] \in Seq(Seq(Int))}
  <2>1. 1 \in S
    <3> HIDE DEF base, N
    <3> QED
      BY <1>1, <1>2, <1>11
  <2>2. ASSUME NEW n \in (1..N) \ {1}, n - 1 \in S PROVE n \in S
    <3>1. n \in 1..N /\ upTo[n - 1] \in Seq(Seq(Int))
      BY <2>2
    <3> HIDE DEF With, N
    <3>2. upTo[n] \in Seq(Seq(Int))
      BY <1>3, <1>11, <3>1
    <3> QED
      BY <3>1, <3>2
  <2>3. 1..N \subseteq S
    <3>1. Inductive(1, N, S)
      BY <2>1, <2>2 DEF Inductive
    <3> HIDE DEF S, N
    <3> QED
      BY <1>1, <3>1, Induct
  <2> QED
    BY <2>3
<1>13. upTo \in [1..N -> Seq(Seq(Int))]
  <2>1. upTo = [k \in 1..N |-> upTo[k]]
    BY <1>9
  <2> QED
    BY <1>12, <2>1
<1> QED
  BY <1>10, <1>11, <1>13
-----------------------------------------------------------------------------
\* What SameSequence says of the whole, wherever the loop is.
WholeSequence ==
  /\ Denotes \in Seq(Seq(Int))
  /\ IterandIsBounded(it) => IterandSize(it) = Len(Denotes)
  /\ \A p \in 0..(Len(Denotes) - 1) : IndexAt(it, p) = Denotes[p + 1]

\* Of a range it is its own sequence.
LEMMA RangeSequence ==
  ASSUME ExprTyped, PartsMatch, it.kind = "range"
  PROVE  WholeSequence
<1> DEFINE r == it.rs[1]
           m == parts[1]
           D == Denotes
<1>1. /\ Len(it.rs) = 1 /\ Len(parts) = 1 /\ parts \in Seq(Seq(Int)) /\ Matches(r, m)
  BY DEF ExprTyped, PartsMatch
<1>2. m \in Seq(Int) /\ Len(m) \in Nat
  BY <1>1 DEF Matches
<1>3. D = [i \in 1..Len(m) |-> <<m[i]>>]
  <2>1. Len(parts) > 0
    BY <1>1
  <2>2. PICK upTo \in [1..Len(parts) -> Seq(Seq(Int))] :
          /\ upTo[1] = [i \in 1..Len(parts[1]) |-> <<parts[1][i]>>]
          /\ Denotes = upTo[Len(parts)]
    BY <1>1, <2>1, DenotesUnrolled
  <2> QED
    BY <1>1, <2>2
<1> HIDE DEF D, r, m
<1>4. ASSUME NEW i \in 1..Len(m)
      PROVE  <<m[i]>> \in Seq(Int) /\ D[i] = <<m[i]>> /\ m[i] = OrderToIndex(r, i - 1)
  BY <1>1, <1>2, <1>3 DEF Matches
<1>5. D \in Seq(Seq(Int)) /\ Len(D) = Len(m)
  BY <1>2, <1>3, <1>4
<1>6. IterandIsBounded(it) => IterandSize(it) = Len(D)
  <2>1. IterandIsBounded(it) => IsBounded(r)
    BY <1>1 DEF IterandIsBounded, r
  <2>2. IterandSize(it) = Size(r)
    BY DEF IterandSize, r
  <2> QED
    BY <1>1, <1>5, <2>1, <2>2 DEF Matches
<1>7. ASSUME NEW p \in 0..(Len(D) - 1) PROVE IndexAt(it, p) = D[p + 1]
  <2>1. p + 1 \in 1..Len(m) /\ (p + 1) - 1 = p
    BY <1>2, <1>5
  <2>2. D[p + 1] = <<OrderToIndex(r, p)>>
    BY <1>4, <2>1
  <2>3. IndexAt(it, p) = <<OrderToIndex(r, p)>>
    BY DEF IndexAt, r
  <2> QED
    BY <2>2, <2>3
<1> QED
  BY <1>5, <1>6, <1>7 DEF WholeSequence, D

\* Of a zippering it is the pairs, triples, ... of the parts' indices.
LEMMA ZipSequence ==
  ASSUME ExprTyped, PartsMatch, Representable, HorizonReaches, it.kind = "zip"
  PROVE  WholeSequence
<1> DEFINE N == Len(parts)
           rs == it.rs
           D == Denotes
<1>1. /\ N \in Nat \ {0} /\ Len(rs) = N /\ parts \in Seq(Seq(Int)) /\ rs \in Seq(AnyRange)
      /\ \A i \in 1..N : Matches(rs[i], parts[i])
      /\ \A i \in 1..N : parts[i] \in Seq(Int) /\ Len(parts[i]) \in Nat
  BY DEF ExprTyped, PartsMatch, Matches
<1>2. PICK upTo \in [1..N -> Seq(Seq(Int))] :
        /\ upTo[1] = [i \in 1..Len(parts[1]) |-> <<parts[1][i]>>]
        /\ \A k \in (1..N) \ {1} : upTo[k] = Pairs(upTo[k - 1], parts[k])
        /\ D = upTo[N]
  <2>1. Len(parts) > 0
    BY <1>1
  <2> QED
    BY <1>1, <2>1, DenotesUnrolled
<1> HIDE DEF D, rs, N
<1> DEFINE row(k, p) == [i \in 1..k |-> parts[i][p]]
           Least(k) == /\ \A i \in 1..k : Len(upTo[k]) <= Len(parts[i])
                       /\ \E i \in 1..k : Len(upTo[k]) = Len(parts[i])
           Rows(k) == \A p \in 1..Len(upTo[k]) : upTo[k][p] = row(k, p)
           S == {k \in 1..N : Least(k) /\ Rows(k)}
<1>3. 1 \in S
  <2> DEFINE m == parts[1]
  <2>1. m \in Seq(Int) /\ Len(m) \in Nat /\ upTo[1] = [i \in 1..Len(m) |-> <<m[i]>>] /\ 1 \in 1..N
    BY <1>1, <1>2
  <2>2. Len(upTo[1]) = Len(m)
    BY <1>2, <2>1
  <2>3. Least(1)
    BY <2>1, <2>2
  <2>4. ASSUME NEW p \in 1..Len(upTo[1]) PROVE upTo[1][p] = row(1, p)
    <3>1. upTo[1][p] = <<m[p]>>
      BY <2>1, <2>2
    <3>2. row(1, p) = <<m[p]>>
      OBVIOUS
    <3> QED
      BY <3>1, <3>2
  <2> QED
    BY <2>1, <2>3, <2>4
<1>4. ASSUME NEW k \in (1..N) \ {1}, k - 1 \in S PROVE k \in S
  <2> DEFINE s == upTo[k - 1]
             t == parts[k]
             L == Smaller(Len(s), Len(t))
  <2>1. /\ k \in 1..N /\ k - 1 \in 1..N /\ k - 1 \in Nat /\ k \in Nat
        /\ s \in Seq(Seq(Int)) /\ t \in Seq(Int)
        /\ Len(s) \in Nat /\ Len(t) \in Nat /\ upTo[k] = Pairs(s, t)
    BY <1>1, <1>2, <1>4
  <2>2. Least(k - 1) /\ Rows(k - 1)
    BY <1>4
  <2> HIDE DEF S
  <2>3. /\ Len(upTo[k]) = L /\ L \in Nat /\ L <= Len(s) /\ L <= Len(t)
        /\ (L = Len(s) \/ L = Len(t))
        /\ \A p \in 1..L : upTo[k][p] = Append(s[p], t[p])
    <3>1. \A a, b \in Nat : LET x == Smaller(a, b)
                            IN  x \in Nat /\ x <= a /\ x <= b /\ (x = a \/ x = b)
      BY DEF Smaller
    <3>2. L \in Nat /\ L <= Len(s) /\ L <= Len(t) /\ (L = Len(s) \/ L = Len(t))
      BY <2>1, <3>1
    <3> HIDE DEF s, t
    <3>3. Len(Pairs(s, t)) = L /\ \A p \in 1..L : Pairs(s, t)[p] = Append(s[p], t[p])
      BY <2>1, PairsListed
    <3> QED
      BY <2>1, <3>2, <3>3
  <2> HIDE DEF L
  <2>30. \A i \in 1..(k - 1) : Len(s) <= Len(parts[i]) /\ i \in 1..N
    <3>1. \A i \in 1..(k - 1) : i \in 1..N
      BY <1>1, <2>1
    <3>2. \A i \in 1..(k - 1) : Len(s) <= Len(parts[i])
      BY <2>2
    <3> QED
      BY <3>1, <3>2
  <2>4. Least(k)
    <3>1. ASSUME NEW i \in 1..k PROVE L <= Len(parts[i])
      <4>1. CASE i = k
        BY <2>3, <4>1
      <4>2. CASE i # k
        <5>1. i \in 1..(k - 1)
          BY <2>1, <4>2
        <5>2. Len(s) <= Len(parts[i]) /\ i \in 1..N
          BY <2>30, <5>1
        <5> QED
          BY <1>1, <2>1, <2>3, <5>2
      <4> QED
        BY <4>1, <4>2
    <3>2. \E i \in 1..k : L = Len(parts[i])
      <4>1. CASE L = Len(t)
        BY <2>1, <4>1
      <4>2. CASE L = Len(s)
        <5>1. PICK i \in 1..(k - 1) : Len(s) = Len(parts[i])
          BY <2>2
        <5>2. i \in 1..k
          BY <2>1
        <5> QED
          BY <4>2, <5>1, <5>2
      <4> QED
        BY <2>3, <4>1, <4>2
    <3> QED
      BY <2>3, <3>1, <3>2
  <2>5. Rows(k)
    <3>1. ASSUME NEW p \in 1..Len(upTo[k]) PROVE upTo[k][p] = row(k, p)
      <4>1. p \in 1..L /\ p \in 1..Len(s)
        BY <2>1, <2>3
      <4>2. upTo[k][p] = Append(row(k - 1, p), t[p])
        BY <2>2, <2>3, <4>1
      <4>3. Append(row(k - 1, p), t[p]) = row(k, p)
        <5>1. row(k - 1, p) \in Seq(Int) /\ Len(row(k - 1, p)) = k - 1
          <6>1. ASSUME NEW i \in 1..(k - 1) PROVE parts[i][p] \in Int
            <7>1. Len(s) <= Len(parts[i]) /\ i \in 1..N
              BY <2>30
            <7>2. p \in 1..Len(parts[i]) /\ parts[i] \in Seq(Int)
              BY <1>1, <2>1, <4>1, <7>1
            <7> QED
              BY <7>2
          <6> QED
            BY <2>1, <6>1
        <5> QED
          BY <2>1, <5>1
      <4> QED
        BY <4>2, <4>3
    <3> QED
      BY <3>1
  <2> HIDE DEF Least, Rows
  <2> QED
    BY <2>1, <2>4, <2>5 DEF S
<1>5. Least(N) /\ Rows(N)
  <2>1. Inductive(1, N, S)
    BY <1>3, <1>4 DEF Inductive
  <2>2. 1 \in Int /\ N \in Int /\ N \in 1..N
    BY <1>1
  <2> HIDE DEF S
  <2>3. 1..N \subseteq S
    BY <2>1, <2>2, Induct
  <2>4. N \in S
    BY <2>2, <2>3
  <2> QED
    BY <2>4 DEF S
<1>6. D \in Seq(Seq(Int)) /\ Len(D) \in Nat
  BY <1>1, <1>2
<1>7. /\ \A i \in 1..N : Len(D) <= Len(parts[i])
      /\ \E i \in 1..N : Len(D) = Len(parts[i])
      /\ \A p \in 1..Len(D) : D[p] = row(N, p)
  BY <1>2, <1>5
<1>8. ASSUME IterandIsBounded(it) PROVE IterandSize(it) = Len(D)
  <2>1. ZipIsBounded(rs) /\ IterandSize(it) = ZipSize(rs)
    BY <1>8 DEF IterandIsBounded, IterandSize, rs
  <2>2. \A i \in 1..Len(rs) : Fits(rs[i])
    BY DEF Representable, rs
  <2>3. /\ ZipSize(rs) \in Nat
        /\ \A i \in 1..N : IsBounded(rs[i]) => ZipSize(rs) <= Size(rs[i])
        /\ \E i \in 1..N : IsBounded(rs[i]) /\ ZipSize(rs) = Size(rs[i])
    BY <1>1, <2>1, <2>2, ZipSizeIsLeast
  <2>4. \A i \in 1..N : IsBounded(rs[i]) => Len(parts[i]) = Size(rs[i])
    BY <1>1 DEF Matches
  <2>5. PICK j \in 1..N : IsBounded(rs[j]) /\ ZipSize(rs) = Len(parts[j])
    BY <2>3, <2>4
  <2>6. PICK i \in 1..N : Len(D) = Len(parts[i])
    BY <1>7
  <2>7. Len(D) <= ZipSize(rs)
    BY <1>7, <2>5
  <2>8. ZipSize(rs) <= Len(D)
    <3>1. CASE IsBounded(rs[i])
      BY <2>3, <2>4, <2>6, <3>1
    <3>2. CASE ~IsBounded(rs[i])
      <4>1. Len(parts[j]) <= Len(parts[i])
        BY <1>1, <2>5, <3>2 DEF HorizonReaches, rs
      <4> QED
        BY <2>5, <2>6, <4>1
    <3> QED
      BY <3>1, <3>2
  <2> QED
    BY <1>6, <2>1, <2>3, <2>7, <2>8
<1>9. ASSUME NEW p \in 0..(Len(D) - 1) PROVE IndexAt(it, p) = D[p + 1]
  <2>1. p + 1 \in 1..Len(D) /\ (p + 1) - 1 = p
    BY <1>6
  <2>2. D[p + 1] = [i \in 1..N |-> parts[i][p + 1]]
    BY <1>7, <2>1
  <2>3. IndexAt(it, p) = [i \in 1..N |-> OrderToIndex(rs[i], p)]
    BY <1>1 DEF IndexAt, ZipIndex, rs
  <2>4. ASSUME NEW i \in 1..N PROVE parts[i][p + 1] = OrderToIndex(rs[i], p)
    <3>1. p + 1 \in 1..Len(parts[i])
      <4>1. Len(D) <= Len(parts[i]) /\ Len(parts[i]) \in Nat
        BY <1>1, <1>7
      <4> QED
        BY <1>6, <2>1, <4>1
    <3> QED
      BY <1>1, <2>1, <3>1 DEF Matches
  <2> QED
    BY <2>2, <2>3, <2>4
<1> QED
  BY <1>6, <1>8, <1>9 DEF WholeSequence, D

\* A row and a place in it, and how far that is among rows of one length.
LEMMA InsideRows ==
  ASSUME NEW a \in Nat, NEW b \in Nat, NEW c \in Nat, NEW d \in Nat, a < b, d < c
  PROVE  a * c + d < b * c
<1>1. (a + 1) * c <= b * c
  OBVIOUS
<1>2. (a + 1) * c = a * c + c
  OBVIOUS
<1>3. a * c \in Nat /\ b * c \in Nat
  OBVIOUS
<1> DEFINE x == a * c
           y == b * c
<1> HIDE DEF x, y
<1>4. x \in Nat /\ y \in Nat /\ x + c <= y
  BY <1>1, <1>2, <1>3 DEF x, y
<1>5. x + d < y
  BY <1>4
<1> QED
  BY <1>5 DEF x, y

\* Of a domain it is each index of its dimensions with each, the last dimension
\* running first.
LEMMA DomainSequence ==
  ASSUME ExprTyped, PartsMatch, it.kind = "domain"
  PROVE  WholeSequence
<1> DEFINE N == Len(parts)
           rs == it.rs
           D == Denotes
<1>1. /\ N \in Nat /\ N > 0 /\ 1 \in 1..N /\ N \in 1..N /\ 1 \in Int /\ N \in Int
      /\ Len(rs) = N /\ parts \in Seq(Seq(Int))
  BY DEF ExprTyped, PartsMatch
<1>2. rs \in Seq(BoundedRange)
  <2>1. rs \in Seq(AnyRange) /\ \A i \in 1..Len(rs) : IsBounded(rs[i])
    BY DEF ExprTyped
  <2>2. \A i \in 1..Len(rs) : rs[i] \in BoundedRange
    <3> TAKE i \in 1..Len(rs)
    <3>1. rs[i] \in AnyRange /\ IsBounded(rs[i])
      BY <2>1
    <3> HIDE DEF rs
    <3> QED
      BY <3>1, AnyRangeTypes
  <2> HIDE DEF rs
  <2> QED
    BY <2>1, <2>2
<1>3. \A i \in 1..N : /\ parts[i] \in Seq(Int)
                      /\ Len(parts[i]) = Size(rs[i]) /\ Size(rs[i]) \in Nat
                      /\ \A p \in 1..Len(parts[i]) : parts[i][p] = OrderToIndex(rs[i], p - 1)
  <2> TAKE i \in 1..N
  <2>1. Matches(rs[i], parts[i]) /\ IsBounded(rs[i])
    BY <1>1 DEF PartsMatch, ExprTyped
  <2> QED
    BY <2>1 DEF Matches
<1>4. PICK upTo \in [1..N -> Seq(Seq(Int))] :
        /\ upTo[1] = [i \in 1..Len(parts[1]) |-> <<parts[1][i]>>]
        /\ \A k \in (1..N) \ {1} : upTo[k] = Product(upTo[k - 1], parts[k])
        /\ D = upTo[N]
  <2>1. it.kind # "zip"
    OBVIOUS
  <2> QED
    BY <1>1, <2>1, DenotesUnrolled
<1> HIDE DEF D, rs, N
<1>5. PICK f \in [0..N -> Nat] :
        /\ f[0] = 1 /\ \A d \in 1..N : f[d] = f[d - 1] * Size(rs[d])
        /\ DomainSize(rs) = f[N]
  BY <1>1, <1>3, ProductUnrolled
<1>6. ASSUME NEW k \in (1..N) \ {1}
      PROVE  /\ k \in 1..N /\ k - 1 \in 1..N /\ k \in Nat /\ k - 1 \in Nat
             /\ upTo[k - 1] \in Seq(Seq(Int)) /\ parts[k] \in Seq(Int)
             /\ Len(upTo[k]) = Len(upTo[k - 1]) * Size(rs[k])
             /\ \A i \in 1..Len(upTo[k - 1]), j \in 1..Size(rs[k]) :
                  upTo[k][(i - 1) * Size(rs[k]) + j] = Append(upTo[k - 1][i], parts[k][j])
  <2>1. k \in 1..N /\ k - 1 \in 1..N /\ k \in Nat /\ k - 1 \in Nat
    BY <1>1
  <2>2. upTo[k - 1] \in Seq(Seq(Int)) /\ parts[k] \in Seq(Int) /\ Len(parts[k]) = Size(rs[k])
    BY <1>3, <1>4, <2>1
  <2>3. upTo[k] = Product(upTo[k - 1], parts[k])
    BY <1>4
  <2> DEFINE s == upTo[k - 1]
             t == parts[k]
             w == upTo[k]
             c == Size(rs[k])
  <2>4. s \in Seq(Seq(Int)) /\ t \in Seq(Int) /\ Len(t) = c /\ w = Product(s, t)
    BY <2>2, <2>3
  <2> HIDE DEF s, t, w, c
  <2>5. /\ Len(Product(s, t)) = Len(s) * Len(t)
        /\ \A i \in 1..Len(s), j \in 1..Len(t) :
             Product(s, t)[(i - 1) * Len(t) + j] = Append(s[i], t[j])
    BY <2>4, ProductListed
  <2>6. /\ Len(w) = Len(s) * c
        /\ \A i \in 1..Len(s), j \in 1..c : w[(i - 1) * c + j] = Append(s[i], t[j])
    BY <2>4, <2>5, Zenon
  <2> QED
    BY <2>1, <2>2, <2>6 DEF s, t, w, c
<1>7. \A k \in 1..N : Len(upTo[k]) = f[k]
  <2> DEFINE S == {k \in 1..N : Len(upTo[k]) = f[k]}
  <2>1. 1 \in S
    <3>1. Len(upTo[1]) = Size(rs[1]) /\ Size(rs[1]) \in Nat
      <4> DEFINE m == parts[1]
      <4>1. m \in Seq(Int) /\ Len(m) = Size(rs[1]) /\ Size(rs[1]) \in Nat
        BY <1>1, <1>3
      <4>2. upTo[1] = [i \in 1..Len(m) |-> <<m[i]>>]
        BY <1>4
      <4> HIDE DEF m
      <4> QED
        BY <4>1, <4>2
    <3>2. f[1] = f[1 - 1] * Size(rs[1]) /\ 1 - 1 = 0
      BY <1>1, <1>5
    <3>3. f[1] = 1 * Size(rs[1])
      BY <1>5, <3>2
    <3> QED
      BY <1>1, <3>1, <3>3
  <2>2. ASSUME NEW k \in (1..N) \ {1}, k - 1 \in S PROVE k \in S
    BY <1>5, <1>6, <2>2
  <2>3. 1..N \subseteq S
    <3>1. Inductive(1, N, S)
      BY <2>1, <2>2 DEF Inductive
    <3> HIDE DEF S
    <3> QED
      BY <1>1, <3>1, Induct
  <2> QED
    BY <2>3
<1>8. D \in Seq(Seq(Int)) /\ Len(D) \in Nat /\ Len(D) = DomainSize(rs)
  BY <1>1, <1>4, <1>5, <1>7
<1>9. IterandSize(it) = Len(D)
  BY <1>8 DEF IterandSize, rs
<1>10. ASSUME NEW p \in 0..(Len(D) - 1) PROVE IndexAt(it, p) = D[p + 1]
  <2>1. p \in Nat /\ p < DomainSize(rs) /\ p + 1 \in Nat
    BY <1>8
  <2>2. PICK digits, order \in [1..N -> Nat] :
          /\ \A d \in 1..N : digits[d] < Size(rs[d])
          /\ DomainOrderToIndex(rs, p) = [d \in 1..N |-> OrderToIndex(rs[d], digits[d])]
          /\ order[1] = digits[1]
          /\ \A d \in (1..N) \ {1} : order[d] = order[d - 1] * Size(rs[d]) + digits[d]
          /\ order[N] = p
    <3>1. Len(rs) > 0
      BY <1>1
    <3>2. \E digits, order \in [1..Len(rs) -> Nat] :
            /\ \A d \in 1..Len(rs) : digits[d] < Size(rs[d])
            /\ DomainOrderToIndex(rs, p) =
                 [d \in 1..Len(rs) |-> OrderToIndex(rs[d], digits[d])]
            /\ order[1] = digits[1]
            /\ \A d \in (1..Len(rs)) \ {1} :
                 order[d] = order[d - 1] * Size(rs[d]) + digits[d]
            /\ order[Len(rs)] = p
            /\ DomainIndexOrder(rs, DomainOrderToIndex(rs, p)) = p
      BY <1>2, <2>1, <3>1, Digits, Zenon
    <3>3. Len(rs) = N
      BY <1>1
    <3> QED
      BY <3>2, <3>3, Zenon
  <2> DEFINE index(k) == [d \in 1..k |-> parts[d][digits[d] + 1]]
             Here(k) == order[k] < f[k] /\ upTo[k][order[k] + 1] = index(k)
             S == {k \in 1..N : Here(k)}
  <2>3. ASSUME NEW d \in 1..N
        PROVE  /\ digits[d] \in Nat /\ digits[d] + 1 \in 1..Size(rs[d])
               /\ parts[d][digits[d] + 1] \in Int
               /\ parts[d][digits[d] + 1] = OrderToIndex(rs[d], digits[d])
    <3>1. digits[d] \in Nat /\ digits[d] < Size(rs[d]) /\ Size(rs[d]) \in Nat
      BY <1>3, <2>2
    <3>2. digits[d] + 1 \in 1..Size(rs[d]) /\ (digits[d] + 1) - 1 = digits[d]
      BY <3>1
    <3>3. parts[d] \in Seq(Int) /\ digits[d] + 1 \in 1..Len(parts[d])
      BY <1>3, <3>2
    <3> QED
      BY <1>3, <3>1, <3>2, <3>3
  <2>4. 1 \in S
    <3>1. f[1] = Size(rs[1])
      BY <1>1, <1>3, <1>4, <1>7
    <3>2. order[1] < f[1]
      BY <1>1, <2>2, <3>1
    <3>3. upTo[1][digits[1] + 1] = <<parts[1][digits[1] + 1]>>
      BY <1>1, <1>3, <1>4, <2>3
    <3>4. index(1) = <<parts[1][digits[1] + 1]>>
      OBVIOUS
    <3> HIDE DEF index
    <3> QED
      BY <1>1, <2>2, <3>2, <3>3, <3>4
  <2>5. ASSUME NEW k \in (1..N) \ {1}, k - 1 \in S PROVE k \in S
    <3> DEFINE o == order[k - 1]
               c == Size(rs[k])
               t == digits[k]
               s == upTo[k - 1]
    <3>1. /\ k \in 1..N /\ k - 1 \in 1..N /\ k \in Nat /\ k - 1 \in Nat
          /\ o \in Nat /\ c \in Nat /\ t \in Nat /\ t < c /\ o < f[k - 1] /\ f[k - 1] \in Nat
      <4>1. /\ k \in 1..N /\ k - 1 \in 1..N /\ k \in Nat /\ k - 1 \in Nat /\ k - 1 \in 0..N
        BY <1>1
      <4> QED
        BY <1>3, <1>5, <2>2, <2>5, <4>1
    <3>2. f[k] = f[k - 1] * c /\ order[k] = o * c + t
      BY <1>5, <2>2, <3>1
    <3>3. s[o + 1] = index(k - 1)
      BY <2>5
    <3>4. s \in Seq(Seq(Int)) /\ Len(s) = f[k - 1]
      BY <1>6, <1>7, <3>1
    <3>5. \A i \in 1..Len(s), j \in 1..c :
             upTo[k][(i - 1) * c + j] = Append(s[i], parts[k][j])
      BY <1>6
    <3> HIDE DEF o, c, t, s, index
    <3>6. order[k] < f[k]
      <4>1. o * c + t < f[k - 1] * c
        BY <3>1, InsideRows
      <4> QED
        BY <3>2, <4>1
    <3>7. upTo[k][order[k] + 1] = Append(index(k - 1), parts[k][t + 1])
      <4>1. o + 1 \in 1..Len(s) /\ t + 1 \in 1..c /\ (o + 1) - 1 = o
        BY <3>1, <3>4
      <4>2. upTo[k][((o + 1) - 1) * c + (t + 1)] = Append(s[o + 1], parts[k][t + 1])
        BY <3>5, <4>1
      <4>3. o * c + (t + 1) = order[k] + 1
        <5>1. o * c \in Nat
          BY <3>1
        <5> QED
          BY <3>1, <3>2, <5>1
      <4> QED
        BY <3>3, <4>1, <4>2, <4>3
    <3>8. Append(index(k - 1), parts[k][t + 1]) = index(k)
      <4>1. \A d \in 1..(k - 1) : parts[d][digits[d] + 1] \in Int
        <5>1. 1..(k - 1) \subseteq 1..N
          BY <1>1, <3>1
        <5> QED
          BY <2>3, <5>1
      <4> DEFINE g(d) == parts[d][digits[d] + 1]
      <4>2. /\ index(k - 1) = [d \in 1..(k - 1) |-> g(d)] /\ index(k) = [d \in 1..k |-> g(d)]
            /\ parts[k][t + 1] = g(k)
        BY DEF index, t
      <4>3. \A d \in 1..(k - 1) : g(d) \in Int
        BY <4>1
      <4> HIDE DEF g
      <4>4. index(k - 1) \in Seq(Int) /\ Len(index(k - 1)) = k - 1
        BY <3>1, <4>2, <4>3
      <4>5. Append(index(k - 1), g(k)) = [d \in 1..k |-> g(d)]
        BY <3>1, <4>2, <4>4
      <4> QED
        BY <4>2, <4>5
    <3>9. Here(k)
      BY <3>6, <3>7, <3>8
    <3> HIDE DEF Here
    <3> QED
      BY <3>1, <3>9
  <2>6. Here(N)
    <3>1. Inductive(1, N, S)
      BY <2>4, <2>5 DEF Inductive
    <3> HIDE DEF S
    <3>2. N \in S
      BY <1>1, <3>1, Induct
    <3> HIDE DEF Here
    <3> QED
      BY <3>2 DEF S
  <2>7. D[p + 1] = [d \in 1..N |-> OrderToIndex(rs[d], digits[d])]
    BY <1>4, <2>2, <2>3, <2>6
  <2>8. IndexAt(it, p) = DomainOrderToIndex(rs, p)
    BY DEF IndexAt, rs
  <2> QED
    BY <2>2, <2>7, <2>8
<1> QED
  BY <1>8, <1>9, <1>10 DEF WholeSequence, D

\* Whatever the program loops over, the library counts and numbers its indices
\* as the language does.
LEMMA TheWhole ==
  ASSUME ExprTyped, PartsMatch, Representable, HorizonReaches
  PROVE  WholeSequence
<1>1. it.kind \in {"range", "domain", "zip"}
  BY DEF ExprTyped
<1> QED
  BY <1>1, RangeSequence, DomainSequence, ZipSequence

\* The ends of a part are those of its sequence, and all of it is between them.
LEMMA TheEnds ==
  ASSUME NEW r \in BoundedRange, NEW m, Matches(r, m), m # <<>>
  PROVE  /\ First(r) = Head(m) /\ LastOf(r) = m[Len(m)]
         /\ \A x \in ToSet(m) : ContainsIndex(r, x)
<1>1. /\ m \in Seq(Int) /\ Len(m) \in Nat /\ Len(m) > 0 /\ Len(m) = Size(r)
      /\ \A p \in 1..Len(m) : m[p] = OrderToIndex(r, p - 1)
  <2>1. r.boundedType = "bounded"
    BY DEF BoundedRange
  <2> QED
    BY <2>1 DEF Matches, IsBounded
<1>2. First(r) = Head(m)
  <2>1. Head(m) = OrderToIndex(r, 1 - 1)
    BY <1>1
  <2>2. OrderToIndex(r, 0) = First(r)
    BY RangeTypes DEF OrderToIndex, First
  <2> QED
    BY <2>1, <2>2
<1>3. LastOf(r) = m[Len(m)]
  BY <1>1, LastIsAtLastOrder
<1>4. ASSUME NEW x \in ToSet(m) PROVE ContainsIndex(r, x)
  <2>1. PICK p \in 1..Len(m) : x = m[p]
    BY <1>1 DEF ToSet
  <2>2. p - 1 \in Nat /\ p - 1 < Size(r) /\ x = OrderToIndex(r, p - 1)
    BY <1>1, <2>1
  <2>3. x \in r.firstIndex..(r.lastIndex - 1)
    BY <2>2, OrdersAreInside
  <2> QED
    BY <2>3, RangeTypes DEF ContainsIndex
<1> QED
  BY <1>2, <1>3, <1>4

\* SameSequence: the library's expression stands for the language's sequence
\* after any chain of by, + and # (as far as range.hpp computes them, which is
\* Sound), in every dimension of a domain and part of a zippering and in the
\* whole; first() and last() are its ends and contains() misses none of it.
\* The values are those of idxType, and of what has no end enough is written
\* out.
THEOREM ProgramSameSequence ==
  ASSUME Sound
  PROVE  ProgSpec /\ []Representable /\ []HorizonReaches => []SameSequence
<1>1. ASSUME ExprTyped, PartsMatch, Representable, HorizonReaches PROVE SameSequence
  <2>1. WholeSequence
    BY <1>1, TheWhole
  <2>2. LET s == Denotes
        IN  /\ IterandIsBounded(it) => IterandSize(it) = Len(s)
            /\ \A p \in 0..(Len(s) - 1) : IndexAt(it, p) = s[p + 1]
    BY <2>1 DEF WholeSequence
  <2>3. ASSUME NEW i \in DOMAIN parts, IsBounded(it.rs[i]), parts[i] # <<>>
        PROVE  /\ First(it.rs[i]) = Head(parts[i]) /\ LastOf(it.rs[i]) = parts[i][Len(parts[i])]
               /\ \A x \in ToSet(parts[i]) : ContainsIndex(it.rs[i], x)
    <3>1. i \in 1..Len(it.rs) /\ Matches(it.rs[i], parts[i]) /\ it.rs[i] \in AnyRange
      BY <1>1 DEF PartsMatch, ExprTyped
    <3>2. it.rs[i] \in BoundedRange
      BY <2>3, <3>1, AnyRangeTypes
    <3> QED
      BY <2>3, <3>1, <3>2, TheEnds
  <2> QED
    BY <2>2, <2>3 DEF SameSequence
<1> QED
  BY <1>1, ExpressionsTyped, RangesMatch, PTL

\* The same numbers, each counted from 0 in one set and from 1 in the other.
LEMMA CountedFromOne ==
  ASSUME NEW n \in Nat, NEW S \in SUBSET (0..(n - 1)), NEW T \in SUBSET (1..n),
         \A p \in 0..(n - 1) : p \in S <=> p + 1 \in T
  PROVE  Cardinality(S) = Cardinality(T)
<1> DEFINE f == [p \in S |-> p + 1]
<1>1. IsFiniteSet(S)
  <2>1. 0 \in Int /\ n - 1 \in Int
    OBVIOUS
  <2>2. IsFiniteSet(0..(n - 1))
    BY <2>1, FS_Interval
  <2> QED
    BY <2>2, FS_Subset
<1>2. f \in [S -> T]
  OBVIOUS
<1>3. \A p, q \in S : f[p] = f[q] => p = q
  OBVIOUS
<1>4. \A t \in T : \E p \in S : f[p] = t
  <2> TAKE t \in T
  <2>1. t - 1 \in 0..(n - 1) /\ (t - 1) + 1 = t
    OBVIOUS
  <2>2. t - 1 \in S
    BY <2>1
  <2> QED
    BY <2>1, <2>2
<1> HIDE DEF f
<1>5. f \in Bijection(S, T)
  BY <1>2, <1>3, <1>4 DEF Bijection, Injection, Surjection, IsInjective
<1>6. ExistsBijection(S, T)
  BY <1>5 DEF ExistsBijection
<1> QED
  BY <1>1, <1>6, FS_Bijection

\* EachIndexOnce: a loop of a program that has returned has called its body with
\* each index of the language's sequence as often as it occurs there, and with
\* nothing else: for every chain of operators, cut and schedule.
THEOREM ProgramCallsEachIndexOnce ==
  ASSUME Sound
  PROVE  ProgSpec /\ []Representable /\ []HorizonReaches => []EachIndexOnce
<1>1. ASSUME ExprTyped, PartsMatch, Representable, HorizonReaches, LoopInvariant,
             LoopsOverAll, AllVisited
      PROVE  EachIndexOnce
  <2> SUFFICES ASSUME pc = "returned", kind # "cobegin"
               PROVE  LET s == Denotes
                          called == {p \in Positions : visits[p] > 0}
                          Calls(x) == Cardinality({p \in called : IndexAt(it, p) = x})
                          Wanted(x) == Cardinality({i \in 1..Len(s) : s[i] = x})
                      IN  \A x \in ToSet(s) \cup {IndexAt(it, p) : p \in called} :
                            Calls(x) = Wanted(x)
    BY DEF EachIndexOnce
  <2> DEFINE s == Denotes
             called == {p \in Positions : visits[p] > 0}
             Made(x) == {p \in called : IndexAt(it, p) = x}
             There(x) == {i \in 1..Len(s) : s[i] = x}
  <2>1. WholeSequence
    BY <1>1, TheWhole
  <2>2. IterandIsBounded(it) /\ size = IterandSize(it)
    BY <1>1 DEF LoopsOverAll
  <2>3. /\ Len(s) \in Nat /\ size = Len(s)
        /\ \A p \in 0..(size - 1) : IndexAt(it, p) = s[p + 1]
    BY <2>1, <2>2 DEF WholeSequence
  <2>4. called = 0..(size - 1)
    <3>1. /\ \A p \in 0..(size - 1) : visits[p] = 1
          /\ \A p \in size..(MaxSize - 1) : visits[p] = 0
          /\ size \in 0..MaxSize
      BY <1>1 DEF AllVisited, LoopInvariant, TypeOK
    <3> QED
      BY <3>1, LoopAssumption DEF Positions
  <2> HIDE DEF s, called
  <2>5. ASSUME NEW x PROVE Cardinality(Made(x)) = Cardinality(There(x))
    <3>1. Made(x) \in SUBSET (0..(size - 1)) /\ There(x) \in SUBSET (1..size)
      BY <2>3, <2>4
    <3>2. ASSUME NEW p \in 0..(size - 1) PROVE p \in Made(x) <=> p + 1 \in There(x)
      <4>1. p + 1 \in 1..Len(s) /\ p \in called
        BY <2>3, <2>4
      <4> QED
        BY <2>3, <4>1
    <3>3. size \in Nat
      BY <2>3
    <3> HIDE DEF Made, There
    <3> QED
      BY <3>1, <3>2, <3>3, CountedFromOne
  <2> QED
    BY <2>5 DEF s, called
<1> QED
  BY <1>1, ExpressionsTyped, RangesMatch, ProgramInvariant, ProgramLoopsOverAll,
     ProgramReturnsWhenAllVisited, PTL
=============================================================================
