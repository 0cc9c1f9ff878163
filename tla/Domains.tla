------------------------------- MODULE Domains -------------------------------
(***************************************************************************)
(* What a loop runs over: a range, a rectangular domain                    *)
(* (library/include/chplx/domains/default_rectangular.hpp) or a zippering  *)
(* of ranges (library/include/chplx/zip.hpp).  Each has a size and turns a *)
(* position into an index; a domain also turns an index into a position.   *)
(***************************************************************************)
EXTENDS Ranges, Sequences

\* [kind |-> "range" | "domain" | "zip", rs |-> its ranges, outermost first]
Iterand(k, rs) == [kind |-> k, rs |-> rs]

Smaller(a, b) == IF a < b THEN a ELSE b

\* dsiNumIndices: the product of the sizes of the dimensions.
DomainSize(rs) ==
  LET product[d \in 0..Len(rs)] ==
        IF d = 0 THEN 1 ELSE product[d - 1] * Size(rs[d])
  IN  product[Len(rs)]

\* The number of indices in the dimensions d..Len(rs).
InnerSize(rs, d) == DomainSize(SubSeq(rs, d, Len(rs)))

\* Row-major: each dimension takes the quotient and passes on the remainder.
DomainOrderToIndex(rs, order) ==
  LET rest[d \in 1..Len(rs)] ==
        IF d = 1 THEN order ELSE rest[d - 1] % InnerSize(rs, d)
  IN  [d \in 1..Len(rs) |->
        IF d < Len(rs)
        THEN OrderToIndex(rs[d], rest[d] \div InnerSize(rs, d + 1))
        ELSE OrderToIndex(rs[d], rest[d] % Size(rs[d]))]

DomainIndexOrder(rs, idx) ==
  LET order[d \in 1..Len(rs)] ==
        IF d = 1 THEN IndexOrder(rs[1], idx[1])
        ELSE order[d - 1] * Size(rs[d]) + IndexOrder(rs[d], idx[d])
  IN  order[Len(rs)]

\* A zippering has the size of its shortest bounded range.
ZipIsBounded(rs) == \E i \in 1..Len(rs) : IsBounded(rs[i])

\* Mutant: the size of the first zippered object.
MutZipSize_First(rs) == IF IsBounded(rs[1]) THEN Size(rs[1]) ELSE Size(rs[2])

ZipSize(rs) ==
  LET least[i \in 0..Len(rs)] ==
        IF i = 0 THEN MaxValue
        ELSE Smaller(least[i - 1],
                     IF IsBounded(rs[i]) THEN Size(rs[i]) ELSE MaxValue)
  IN  least[Len(rs)]

ZipIndex(rs, order) == [i \in 1..Len(rs) |-> OrderToIndex(rs[i], order)]
-----------------------------------------------------------------------------
IterandIsBounded(it) ==
  IF it.kind = "zip" THEN ZipIsBounded(it.rs)
  ELSE \A i \in 1..Len(it.rs) : IsBounded(it.rs[i])

IterandSize(it) ==
  CASE it.kind = "range"  -> Size(it.rs[1])
    [] it.kind = "domain" -> DomainSize(it.rs)
    [] it.kind = "zip"    -> ZipSize(it.rs)

\* The index the loop body is called with at a position.
IndexAt(it, order) ==
  CASE it.kind = "range"  -> <<OrderToIndex(it.rs[1], order)>>
    [] it.kind = "domain" -> DomainOrderToIndex(it.rs, order)
    [] it.kind = "zip"    -> ZipIndex(it.rs, order)
=============================================================================
