---------------------------- MODULE ArrayProgram ----------------------------
(***************************************************************************)
(* Programs of LoopProgram that go on to declare arrays on the domain they *)
(* have built: they copy, assign and move them and loop over them with     *)
(* bodies that add one to the element they are given, where it may be      *)
(* written to (library/include/chplx/array.hpp, domains/                   *)
(* base_rectangular.hpp).                                                  *)
(*                                                                         *)
(* A Domain and an Array are handles: intrusive pointers to an object that *)
(* counts them and goes when the last one does (dmap.hpp,                  *)
(* src/domains/dmap.cpp).  An array's object keeps a handle of the         *)
(* domain's.  Array<T, Domain<1>>, without a stride, has its range and its *)
(* elements in itself: that "object" has one owner, the variable.          *)
(***************************************************************************)
EXTENDS LoopProgram

CONSTANTS
  ArraySizes,   \* sizes of the arrays a program makes on its domain
  OtherSizes    \* sizes of the arrays it makes on others

ASSUME ArrayAssumption == ArraySizes \subseteq 0..MaxSize /\ OtherSizes \subseteq Nat

VARIABLES
  doms,      \* the domain objects, each with its count
  arrays,    \* the array objects: count, domain object and elements
  handle,    \* what the program's variables point to
  target,    \* what each chunk of a loop over the array iterates over
  means      \* the value of each array as a map from indices, in their order

arrayVars == <<doms, arrays, handle, target, means>>
progVars == <<vars, arrayVars>>

None == 0                      \* a null handle, a variable that is not there
ArrayVariables == {"a", "c"}
Variables == ArrayVariables \cup {"domain"}

NoFunction == [x \in {} |-> 0]
Without(f, x) == [y \in DOMAIN f \ {x} |-> f[y]]
With(f, x, v) == [y \in DOMAIN f \cup {x} |-> IF y = x THEN v ELSE f[y]]
Plus(s, i) == [s EXCEPT ![i] = @ + 1]

\* Array<T, Domain<1>>: one dimension of std::int64_t and no stride.
Simple == Len(it.rs) = 1 /\ ~it.rs[1].stridable
-----------------------------------------------------------------------------
(***************************************************************************)
(* Objects.  A store is a record of both tables.                           *)
(***************************************************************************)
Store == [doms |-> doms, arrays |-> arrays]

StoreBecomes(s) == doms' = s.doms /\ arrays' = s.arrays

\* new: an address that no object has.
Fresh(s) == CHOOSE n \in 1..(Cardinality(DOMAIN s.arrays) + Cardinality(DOMAIN s.doms) + 1) :
              n \notin DOMAIN s.arrays \cup DOMAIN s.doms

\* intrusive_ptr_add_ref
AddRef(s, n) == [s EXCEPT !.arrays[n].count = @ + 1]
AddDomRef(s, d) == [s EXCEPT !.doms[d] = @ + 1]

\* intrusive_ptr_release: the last handle deletes the object, and with it the
\* handle of the domain's that an array's object has.
ReleaseDom(s, d) ==
  IF s.doms[d] = 1 THEN [s EXCEPT !.doms = Without(@, d)]
  ELSE [s EXCEPT !.doms[d] = @ - 1]

Release(s, n) ==
  IF s.arrays[n].count > 1 THEN [s EXCEPT !.arrays[n].count = @ - 1]
  ELSE LET left == [s EXCEPT !.arrays = Without(@, n)]
       IN  IF s.arrays[n].dom = None THEN left ELSE ReleaseDom(left, s.arrays[n].dom)

\* newRectangularDom, for a Domain that is being made.
NewDom(s) == [s EXCEPT !.doms = With(@, Fresh(s), 1)]

\* dsiBuildArray: a new object with n elements and a handle of the domain.
BuildArray(s, d, data) ==
  LET object == [count |-> 1, dom |-> d, data |-> data]
      built == [s EXCEPT !.arrays = With(@, Fresh(s), object)]
  IN  IF d = None THEN built ELSE AddDomRef(built, d)

\* zip(*this, rhs): element by element up to the end of the shorter one.
Zipped(s, t) == [i \in DOMAIN s |-> IF i \in DOMAIN t THEN t[i] ELSE s[i]]

\* Mutant: the default copy constructor, which copies the handle.
MutDeepCopy_Shares(s, n) == [to |-> n, store |-> AddRef(s, n)]

\* Array(Array const &): a new domain like the old one, a new object on it,
\* and the elements one by one; the temporary Domain goes.
DeepCopy(s, n) ==
  IF s.arrays[n].dom = None
  THEN [to |-> Fresh(s), store |-> BuildArray(s, None, s.arrays[n].data)]
  ELSE LET data == s.arrays[n].data
           withDom == NewDom(s)
           built == BuildArray(withDom, Fresh(s), Zipped([i \in DOMAIN data |-> 0], data))
       IN  [to |-> Fresh(withDom), store |-> ReleaseDom(built, Fresh(s))]
-----------------------------------------------------------------------------
(***************************************************************************)
(* Variables.                                                              *)
(***************************************************************************)
Declared(v) == handle[v] # None
InLoop == pc = "running"

\* Array(Domain domain): the domain stays a variable of the program.
DeclareArray ==
  /\ pc = "idle" /\ ~Declared("a")
  /\ it.kind = "domain" /\ IterandSize(it) \in ArraySizes
  /\ LET zeros == [i \in 1..IterandSize(it) |-> 0]
         domain == IF Simple THEN None ELSE Fresh(Store)
         s == IF Simple THEN Store ELSE NewDom(Store)
     IN  /\ StoreBecomes(BuildArray(s, domain, zeros))
         /\ handle' = [handle EXCEPT !["domain"] = domain, !["a"] = Fresh(s)]
         /\ means' = [means EXCEPT !["a"] = [i \in 1..Len(Denotes) |-> 0]]
  /\ UNCHANGED <<vars, target>>

\* Array c(a), before or after the loop.
CopyArray ==
  /\ ~InLoop /\ Declared("a") /\ ~Declared("c")
  /\ LET copy == DeepCopy(Store, handle["a"])
     IN  /\ StoreBecomes(copy.store)
         /\ handle' = [handle EXCEPT !["c"] = copy.to]
  /\ means' = [means EXCEPT !["c"] = means["a"]]
  /\ UNCHANGED <<vars, target>>

\* Array c(Domain(...)), an array of the same type and another size.
DeclareOther(n) ==
  /\ pc = "returned" /\ Declared("a") /\ ~Declared("c")
  /\ LET zeros == [i \in 1..n |-> 0]
         s == IF Simple THEN Store ELSE NewDom(Store)
         domain == IF Simple THEN None ELSE Fresh(Store)
         built == BuildArray(s, domain, zeros)
     IN  /\ StoreBecomes(IF Simple THEN built ELSE ReleaseDom(built, domain))
         /\ handle' = [handle EXCEPT !["c"] = Fresh(s)]
         /\ means' = [means EXCEPT !["c"] = zeros]
  /\ UNCHANGED <<vars, target>>

\* c = a: elements by position; Array<T, Domain<1>> takes all of a.
Assign ==
  /\ pc = "returned" /\ Declared("a") /\ Declared("c")
  /\ LET from == arrays[handle["a"]].data
         to == arrays[handle["c"]].data
     IN  StoreBecomes([Store EXCEPT
           !.arrays[handle["c"]].data = IF Simple THEN from ELSE Zipped(to, from)])
  /\ means' = [means EXCEPT !["c"] = IF Simple THEN means["a"] ELSE Zipped(@, means["a"])]
  /\ UNCHANGED <<vars, handle, target>>

\* c = std::move(a): the handle moves, and the one c had is released.
Move ==
  /\ pc = "returned" /\ Declared("a") /\ Declared("c")
  /\ StoreBecomes(Release(Store, handle["c"]))
  /\ handle' = [handle EXCEPT !["c"] = handle["a"], !["a"] = None]
  /\ means' = [means EXCEPT !["c"] = means["a"], !["a"] = <<>>]
  /\ UNCHANGED <<vars, target>>

\* a(idx) = a(idx) + 1, once: the element at the index's position.
WriteAt(i) ==
  /\ pc = "returned" /\ Declared("a")
  /\ \A j \in DOMAIN means["a"] : means["a"][j] <= 1
  /\ StoreBecomes([Store EXCEPT
       !.arrays[handle["a"]].data = Plus(@, DomainIndexOrder(it.rs, Denotes[i]) + 1)])
  /\ means' = [means EXCEPT !["a"] = Plus(@, i)]
  /\ UNCHANGED <<vars, handle, target>>

\* The end of a variable's scope, in any order.
Drop(v) ==
  /\ pc = "returned" /\ Declared(v)
  /\ StoreBecomes(IF v = "domain" THEN ReleaseDom(Store, handle[v])
                  ELSE Release(Store, handle[v]))
  /\ handle' = [handle EXCEPT ![v] = None]
  /\ means' = IF v = "domain" THEN means ELSE [means EXCEPT ![v] = <<>>]
  /\ UNCHANGED <<vars, target>>

\* What main does outside the loop.
VariableStep ==
  \/ DeclareArray \/ CopyArray \/ Assign \/ Move
  \/ \E n \in OtherSizes : DeclareOther(n)
  \/ \E i \in DOMAIN means["a"] : WriteAt(i)
  \/ \E v \in Variables : Drop(v)
-----------------------------------------------------------------------------
(***************************************************************************)
(* Loops over the array.                                                   *)
(***************************************************************************)
\* The generators of these() and of forall have a handle of their own; the
\* others refer to the variable.
Owning == ~Simple /\ kind \in {"forLoop", "forall"}

\* forLoop walks a.these(), made of ref(), which shares the object; forall
\* gives hpx an IteratorGenerator, which has a copy of the array.
RunArrayLoop(k, b) ==
  /\ RunLoop(k, b)
  /\ IF ~Declared("a") THEN UNCHANGED <<doms, arrays, target>>
     ELSE LET chosen ==
                IF DOMAIN chunks' = {} \/ Simple \/ k = "coforall"
                THEN [to |-> handle["a"], store |-> Store]
                ELSE IF k = "forLoop"
                THEN [to |-> handle["a"], store |-> AddRef(Store, handle["a"])]
                ELSE DeepCopy(Store, handle["a"])
          IN  /\ StoreBecomes(chosen.store)
              /\ target' = [s \in DOMAIN chunks' |-> chosen.to]
  /\ UNCHANGED <<handle, means>>

\* subrange copies the generator for each of the two pieces.
SplitArray(s, n) ==
  /\ Split(s, n)
  /\ IF ~Declared("a") THEN UNCHANGED <<doms, arrays, target>>
     ELSE IF ~Owning
     THEN target' = With(target, s + n, target[s]) /\ UNCHANGED <<doms, arrays>>
     ELSE LET left  == DeepCopy(Store, target[s])
              right == DeepCopy(left.store, target[s])
          IN  /\ StoreBecomes(Release(right.store, target[s]))
              /\ target' = With(With(target, s, left.to), s + n, right.to)
  /\ UNCHANGED <<handle, means>>

\* The place of an index in the language's order.
PlaceOf(idx) == CHOOSE i \in 1..Len(Denotes) : Denotes[i] = idx

\* The body adds one to the element it is given, target[ilo]: in a forall an
\* element of a copy.  coforall and Array<T, Domain<1>> give it a T const &.
BeginArray(s) ==
  /\ Begin(s)
  /\ IF ~Declared("a") \/ ~Owning THEN UNCHANGED <<doms, arrays, means>>
     ELSE /\ StoreBecomes([Store EXCEPT
               !.arrays[target[s]].data = Plus(@, chunks[s].first + 1)])
          /\ means' = IF kind = "forall" THEN means
                      ELSE [means EXCEPT !["a"] =
                              Plus(@, PlaceOf(IndexAt(it, chunks[s].first)))]
  /\ UNCHANGED <<handle, target>>

\* Mutant: a coroutine that has ended keeps its handle.
MutFinishArray_Keeps(s) ==
  /\ Finish(s)
  /\ IF ~Declared("a") THEN UNCHANGED target ELSE target' = Without(target, s)
  /\ UNCHANGED <<doms, arrays, handle, means>>

\* The generator goes with the coroutine.
FinishArray(s) ==
  /\ Finish(s)
  /\ IF ~Declared("a") THEN UNCHANGED <<doms, arrays, target>>
     ELSE /\ target' = Without(target, s)
          /\ IF Owning THEN StoreBecomes(Release(Store, target[s]))
             ELSE UNCHANGED <<doms, arrays>>
  /\ UNCHANGED <<handle, means>>

ArrayChunkStep(s) ==
  /\ \/ BeginArray(s)
     \/ End(s) /\ UNCHANGED arrayVars
     \/ FinishArray(s)
     \/ \E n \in Positions : SplitArray(s, n)
  /\ UNCHANGED exprVars

ArrayInit ==
  /\ ProgInit
  /\ doms = NoFunction /\ arrays = NoFunction /\ target = NoFunction
  /\ handle = [v \in Variables |-> None]
  /\ means = [v \in ArrayVariables |-> <<>>]

ArrayNext ==
  \/ ~Declared("a") /\ Build /\ UNCHANGED arrayVars
  \/ VariableStep
  \/ \E k \in Kinds \ {"cobegin"}, b \in BOOLEAN : RunArrayLoop(k, b)
  \/ \E n \in 1..MaxSize, b \in BOOLEAN :
       ~Declared("a") /\ RunCobegin(n, b) /\ UNCHANGED arrayVars
  \/ \E s \in DOMAIN chunks : ArrayChunkStep(s)
  \/ (Give \/ Return) /\ UNCHANGED <<exprVars, arrayVars>>

ArraySpec == ArrayInit /\ [][ArrayNext]_progVars

\* As in LoopProgram: hpx runs every task it was given.
ArrayFairness ==
  /\ \A s \in Positions : WF_progVars(s \in DOMAIN chunks /\ ArrayChunkStep(s))
  /\ WF_progVars((Give \/ Return) /\ UNCHANGED <<exprVars, arrayVars>>)

FairArraySpec == ArraySpec /\ ArrayFairness
-----------------------------------------------------------------------------
\* How many have a handle of an array's object: variables, and generators of
\* chunks; and of a domain's: the program's Domain, and array objects.
Names(v, n) == IF handle[v] = n THEN 1 ELSE 0
Iterating(n) == IF Owning THEN {s \in DOMAIN target : target[s] = n} ELSE {}
BuiltOn(s, d) == {n \in DOMAIN s.arrays : s.arrays[n].dom = d}

ArrayHandles(n) == Names("a", n) + Names("c", n) + Cardinality(Iterating(n))
DomHandles(d) == Names("domain", d) + Cardinality(BuiltOn(Store, d))

\* Nothing is used after it is freed and nothing is left over: an object's
\* count is the number of its handles, it is there as long as one is, whatever
\* the order in which variables and coroutines end.
CountedExactly ==
  /\ \A n \in DOMAIN arrays : arrays[n].count = ArrayHandles(n) /\ arrays[n].count > 0
  /\ \A d \in DOMAIN doms : doms[d] = DomHandles(d) /\ doms[d] > 0
  /\ \A v \in ArrayVariables : Declared(v) => handle[v] \in DOMAIN arrays
  /\ \A s \in DOMAIN target : target[s] \in DOMAIN arrays
  /\ \A n \in DOMAIN arrays : arrays[n].dom \in DOMAIN doms \cup {None}
  /\ Declared("domain") => handle["domain"] \in DOMAIN doms

\* "Array assignment is by value" (array.hpp:227) and "an array is a map from
\* a domain's indices" (array.hpp:29): at every moment a(idx) is what the
\* program has made of the element at idx, however the loops that wrote to it
\* were cut, and a copy keeps what it was given while the original changes.
\* (The bodies of a forall write to copies that nobody reads again.)
ByValue ==
  /\ Declared("a") => \A i \in DOMAIN means["a"] :
       arrays[handle["a"]].data[DomainIndexOrder(it.rs, Denotes[i]) + 1] = means["a"][i]
  /\ Declared("c") => arrays[handle["c"]].data = means["c"]
=============================================================================
