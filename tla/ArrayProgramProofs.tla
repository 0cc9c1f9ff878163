-------------------------- MODULE ArrayProgramProofs --------------------------
(***************************************************************************)
(* The programs with arrays are programs of LoopProgram, so all that holds *)
(* of those holds of them; they free each object with its last handle; and *)
(* an element of an array is what the program made of it.                  *)
(***************************************************************************)
EXTENDS ArrayProgram, LoopProgramProofs

\* What an array program does to its expression and its loop is what a program
\* of LoopProgram does, so all that is proved of those holds of it.
THEOREM ArrayProgramsAreLoopPrograms == ArraySpec => ProgSpec
<1>1. ArrayInit => ProgInit
  BY DEF ArrayInit
<1>2. [ArrayNext]_progVars => [ProgNext]_vars
  <2> SUFFICES ASSUME [ArrayNext]_progVars PROVE [ProgNext]_vars
    OBVIOUS
  <2>1. CASE ~Declared("a") /\ Build /\ UNCHANGED arrayVars
    BY <2>1 DEF ProgNext
  <2>2. CASE VariableStep
    BY <2>2 DEF VariableStep, DeclareArray, CopyArray, Assign, Move, DeclareOther,
                WriteAt, Drop
  <2>3. ASSUME NEW k \in Kinds \ {"cobegin"}, NEW b \in BOOLEAN, RunArrayLoop(k, b)
        PROVE  ProgNext
    <3>1. RunLoop(k, b)
      BY <2>3 DEF RunArrayLoop
    <3> QED
      BY <3>1 DEF ProgNext
  <2>4. ASSUME NEW n \in 1..MaxSize, NEW b \in BOOLEAN, RunCobegin(n, b) PROVE ProgNext
    BY <2>4 DEF ProgNext
  <2>5. ASSUME NEW s \in DOMAIN chunks, ArrayChunkStep(s) PROVE ProgNext
    <3>1. ChunkStep(s) /\ UNCHANGED exprVars
      BY <2>5 DEF ArrayChunkStep, BeginArray, FinishArray, SplitArray, ChunkStep
    <3> QED
      BY <3>1 DEF ProgNext, LoopStep
  <2>6. CASE (Give \/ Return) /\ UNCHANGED <<exprVars, arrayVars>>
    BY <2>6 DEF ProgNext, LoopStep
  <2>7. CASE UNCHANGED progVars
    BY <2>7 DEF progVars
  <2> QED
    BY <2>1, <2>2, <2>3, <2>4, <2>5, <2>6, <2>7 DEF ArrayNext
<1> QED
  BY <1>1, <1>2, PTL DEF ArraySpec, ProgSpec
-----------------------------------------------------------------------------
(***************************************************************************)
(* Objects and their handles.  H and D say how many handles from outside   *)
(* the store each array object and each domain object has; a store is      *)
(* counted when its counts say the same, every handle leads to an object   *)
(* and every object has one.                                               *)
(***************************************************************************)
Addr == Nat \ {0}

Shape(s) ==
  /\ s = [doms |-> s.doms, arrays |-> s.arrays]
  /\ s.doms \in [DOMAIN s.doms -> Nat]
  /\ s.arrays = [n \in DOMAIN s.arrays |-> s.arrays[n]]
  /\ \A n \in DOMAIN s.arrays :
       s.arrays[n] = [count |-> s.arrays[n].count, dom |-> s.arrays[n].dom,
                      data |-> s.arrays[n].data]
  /\ DOMAIN s.doms \subseteq Addr /\ IsFiniteSet(DOMAIN s.doms)
  /\ DOMAIN s.arrays \subseteq Addr /\ IsFiniteSet(DOMAIN s.arrays)

Counted(s, H, D) ==
  /\ Shape(s)
  /\ H \in [Addr -> Nat] /\ D \in [Addr -> Nat]
  /\ \A n \in DOMAIN s.arrays : s.arrays[n].count = H[n] /\ H[n] > 0
  /\ \A n \in Addr \ DOMAIN s.arrays : H[n] = 0
  /\ \A d \in DOMAIN s.doms :
       s.doms[d] = D[d] + Cardinality(BuiltOn(s, d)) /\ s.doms[d] > 0
  /\ \A d \in Addr \ DOMAIN s.doms : D[d] = 0
  /\ \A n \in DOMAIN s.arrays : s.arrays[n].dom \in DOMAIN s.doms \cup {None}

\* new gives an address, and none that is in use.
LEMMA FreshIsFree ==
  ASSUME NEW s, Shape(s)
  PROVE  Fresh(s) \in Addr \ (DOMAIN s.arrays \cup DOMAIN s.doms)
<1> DEFINE A == DOMAIN s.arrays
           B == DOMAIN s.doms
           N == 1..(Cardinality(A) + Cardinality(B) + 1)
<1>1. IsFiniteSet(A) /\ IsFiniteSet(B) /\ Cardinality(A) \in Nat /\ Cardinality(B) \in Nat
  BY FS_CardinalityType DEF Shape
<1>2. IsFiniteSet(A \cup B) /\ Cardinality(A \cup B) <= Cardinality(A) + Cardinality(B)
  <2>1. /\ IsFiniteSet(A \cup B) /\ IsFiniteSet(A \cap B)
        /\ Cardinality(A \cup B) = Cardinality(A) + Cardinality(B) - Cardinality(A \cap B)
    BY <1>1, FS_Union, FS_Intersection
  <2>2. Cardinality(A \cap B) \in Nat
    BY <2>1, FS_CardinalityType
  <2> QED
    BY <1>1, <2>1, <2>2
<1>3. Cardinality(A \cup B) \in Nat
  BY <1>2, FS_CardinalityType
<1>4. Cardinality(N) = Cardinality(A) + Cardinality(B) + 1
  BY <1>1, FS_Interval
<1>5. ~(N \subseteq A \cup B)
  BY <1>1, <1>2, <1>3, <1>4, FS_Subset
<1>6. PICK n \in N : n \notin A \cup B
  BY <1>5
<1>7. Fresh(s) \in N /\ Fresh(s) \notin A \cup B
  BY <1>6 DEF Fresh
<1> HIDE DEF A, B
<1> QED
  BY <1>1, <1>7 DEF Addr, A, B

\* One handle more.
LEMMA AddRefCounted ==
  ASSUME NEW s, NEW H, NEW D, Counted(s, H, D), NEW n \in DOMAIN s.arrays
  PROVE  Counted(AddRef(s, n), [H EXCEPT ![n] = @ + 1], D)
<1> DEFINE t == AddRef(s, n)
<1>0. s = [doms |-> s.doms, arrays |-> s.arrays]
  BY DEF Counted, Shape
<1>1. /\ t = [doms |-> s.doms, arrays |-> [s.arrays EXCEPT ![n].count = @ + 1]]
  BY <1>0 DEF AddRef
<1>2. /\ t.doms = s.doms /\ DOMAIN t.arrays = DOMAIN s.arrays
      /\ t.arrays[n] = [count |-> s.arrays[n].count + 1, dom |-> s.arrays[n].dom,
                        data |-> s.arrays[n].data]
      /\ \A m \in DOMAIN s.arrays : m # n => t.arrays[m] = s.arrays[m]
  BY <1>1 DEF Counted, Shape
<1>3. Shape(t)
  BY <1>1, <1>2 DEF Counted, Shape
<1>4. \A d : BuiltOn(t, d) = BuiltOn(s, d)
  BY <1>2 DEF BuiltOn
<1> HIDE DEF t
<1>5. n \in Addr
  BY DEF Counted, Shape
<1> QED
  BY <1>2, <1>3, <1>4, <1>5 DEF Counted, t

\* One handle less of a domain: the last one takes the object with it.
LEMMA ReleaseDomCounted ==
  ASSUME NEW s, NEW H, NEW D, Counted(s, H, D), NEW d \in DOMAIN s.doms, D[d] > 0
  PROVE  Counted(ReleaseDom(s, d), H, [D EXCEPT ![d] = @ - 1])
<1> DEFINE t == ReleaseDom(s, d)
           E == [D EXCEPT ![d] = @ - 1]
<1>0. s = [doms |-> s.doms, arrays |-> s.arrays]
  BY DEF Counted, Shape
<1>1. /\ d \in Addr /\ E \in [Addr -> Nat] /\ E[d] = D[d] - 1
      /\ \A e \in Addr : e # d => E[e] = D[e]
  BY DEF Counted, Shape
<1>2. \A e : IsFiniteSet(BuiltOn(s, e)) /\ Cardinality(BuiltOn(s, e)) \in Nat
  BY FS_Subset, FS_CardinalityType DEF Counted, Shape, BuiltOn
<1>3. CASE s.doms[d] = 1
  <2>1. t = [doms |-> Without(s.doms, d), arrays |-> s.arrays]
    BY <1>0, <1>3 DEF ReleaseDom
  <2>2. /\ DOMAIN t.doms = DOMAIN s.doms \ {d} /\ t.arrays = s.arrays
        /\ \A e \in DOMAIN t.doms : t.doms[e] = s.doms[e]
    BY <2>1 DEF Without
  <2>3. D[d] = 1 /\ Cardinality(BuiltOn(s, d)) = 0
    BY <1>1, <1>2, <1>3 DEF Counted
  <2>4. BuiltOn(s, d) = {}
    BY <1>2, <2>3, FS_EmptySet
  <2>5. \A e : BuiltOn(t, e) = BuiltOn(s, e)
    BY <2>2 DEF BuiltOn
  <2>6. Shape(t)
    <3>1. IsFiniteSet(DOMAIN t.doms)
      BY <2>2, FS_RemoveElement DEF Counted, Shape
    <3>2. t.doms \in [DOMAIN t.doms -> Nat]
      BY <2>1, <2>2 DEF Counted, Shape, Without
    <3> QED
      BY <2>1, <2>2, <3>1, <3>2 DEF Counted, Shape
  <2>7. \A n \in DOMAIN t.arrays : t.arrays[n].dom \in DOMAIN t.doms \cup {None}
    BY <2>2, <2>4 DEF Counted, BuiltOn
  <2> HIDE DEF t, E
  <2> QED
    BY <1>1, <2>2, <2>3, <2>5, <2>6, <2>7 DEF Counted, t, E
<1>4. CASE s.doms[d] # 1
  <2>1. t = [doms |-> [s.doms EXCEPT ![d] = @ - 1], arrays |-> s.arrays]
    BY <1>0, <1>4 DEF ReleaseDom
  <2>2. /\ DOMAIN t.doms = DOMAIN s.doms /\ t.arrays = s.arrays
        /\ t.doms[d] = s.doms[d] - 1
        /\ \A e \in DOMAIN t.doms : e # d => t.doms[e] = s.doms[e]
    BY <2>1 DEF Counted, Shape
  <2>3. s.doms[d] > 1 /\ s.doms[d] \in Nat
    BY <1>4 DEF Counted, Shape
  <2>4. Shape(t)
    BY <2>1, <2>2, <2>3 DEF Counted, Shape
  <2>5. \A e : BuiltOn(t, e) = BuiltOn(s, e)
    BY <2>2 DEF BuiltOn
  <2> HIDE DEF t, E
  <2> QED
    BY <1>1, <1>2, <2>2, <2>3, <2>4, <2>5 DEF Counted, t, E
<1> QED
  BY <1>3, <1>4


\* One down takes one up back.
LEMMA OneDown ==
  ASSUME NEW D \in [Addr -> Nat], NEW E \in [Addr -> Nat], NEW d \in Addr,
         E[d] = D[d] + 1, \A e \in Addr : e # d => E[e] = D[e]
  PROVE  [E EXCEPT ![d] = @ - 1] = D
<1> DEFINE F == [E EXCEPT ![d] = @ - 1]
<1>1. DOMAIN F = Addr /\ F = [e \in Addr |-> F[e]]
  OBVIOUS
<1>2. \A e \in Addr : F[e] = D[e]
  OBVIOUS
<1> HIDE DEF F
<1>3. F = D
  BY <1>1, <1>2
<1> QED
  BY <1>3 DEF F

\* An array object that goes gives back its handle of the domain's.
LEMMA ReleaseCounted ==
  ASSUME NEW s, NEW H, NEW D, Counted(s, H, D), NEW n \in DOMAIN s.arrays
  PROVE  Counted(Release(s, n), [H EXCEPT ![n] = @ - 1], D)
<1> DEFINE d == s.arrays[n].dom
           left == [doms |-> s.doms, arrays |-> Without(s.arrays, n)]
           G == [H EXCEPT ![n] = @ - 1]
<1>0. s = [doms |-> s.doms, arrays |-> s.arrays]
  BY DEF Counted, Shape
<1>1. /\ n \in Addr /\ G \in [Addr -> Nat] /\ G[n] = H[n] - 1 /\ H[n] > 0
      /\ s.arrays[n].count = H[n] /\ H[n] \in Nat
      /\ \A m \in Addr : m # n => G[m] = H[m]
  BY DEF Counted, Shape
<1>2. \A e : IsFiniteSet(BuiltOn(s, e)) /\ Cardinality(BuiltOn(s, e)) \in Nat
  BY FS_Subset, FS_CardinalityType DEF Counted, Shape, BuiltOn
<1>3. CASE s.arrays[n].count > 1
  <2> DEFINE t == Release(s, n)
  <2>1. t = [doms |-> s.doms, arrays |-> [s.arrays EXCEPT ![n].count = @ - 1]]
    BY <1>0, <1>3 DEF Release
  <2>2. /\ t.doms = s.doms /\ DOMAIN t.arrays = DOMAIN s.arrays
        /\ t.arrays[n] = [count |-> s.arrays[n].count - 1, dom |-> s.arrays[n].dom,
                          data |-> s.arrays[n].data]
        /\ \A m \in DOMAIN s.arrays : m # n => t.arrays[m] = s.arrays[m]
    BY <2>1 DEF Counted, Shape
  <2>3. Shape(t)
    BY <2>1, <2>2 DEF Counted, Shape
  <2>4. \A e : BuiltOn(t, e) = BuiltOn(s, e)
    BY <2>2 DEF BuiltOn
  <2> HIDE DEF t, G
  <2> QED
    BY <1>1, <1>3, <2>2, <2>3, <2>4 DEF Counted, t, G
<1>4. CASE ~(s.arrays[n].count > 1)
  <2>1. H[n] = 1 /\ G[n] = 0
    BY <1>1, <1>4
  <2>2. /\ left.doms = s.doms /\ DOMAIN left.arrays = DOMAIN s.arrays \ {n}
        /\ \A m \in DOMAIN left.arrays : left.arrays[m] = s.arrays[m]
    BY DEF Without
  <2>3. Shape(left)
    <3>1. IsFiniteSet(DOMAIN left.arrays)
      BY <2>2, FS_RemoveElement DEF Counted, Shape
    <3>2. left.arrays = [m \in DOMAIN left.arrays |-> left.arrays[m]]
      BY DEF Without
    <3> QED
      BY <2>2, <3>1, <3>2 DEF Counted, Shape
  <2>4. Release(s, n) = IF d = None THEN left ELSE ReleaseDom(left, d)
    BY <1>0, <1>4 DEF Release
  <2>5. \A e : e # d => BuiltOn(left, e) = BuiltOn(s, e)
    BY <2>2 DEF BuiltOn
  <2>6. BuiltOn(left, d) = BuiltOn(s, d) \ {n} /\ n \in BuiltOn(s, d)
    BY <2>2 DEF BuiltOn
  <2>7. Cardinality(BuiltOn(left, d)) = Cardinality(BuiltOn(s, d)) - 1
    BY <1>2, <2>6, FS_RemoveElement
  <2>8. CASE d = None
    <3>1. d \notin DOMAIN s.doms
      BY <2>8 DEF Counted, Shape, Addr, None
    <3> HIDE DEF left, G, d
    <3> QED
      BY <1>1, <2>1, <2>2, <2>3, <2>4, <2>5, <2>8, <3>1 DEF Counted
  <2>9. CASE d # None
    <3> DEFINE E == [D EXCEPT ![d] = @ + 1]
    <3>1. d \in DOMAIN s.doms /\ d \in Addr
      BY <2>9 DEF Counted, Shape
    <3>2. /\ E \in [Addr -> Nat] /\ E[d] = D[d] + 1 /\ D[d] \in Nat
          /\ \A e \in Addr : e # d => E[e] = D[e]
      BY <3>1 DEF Counted
    <3>3. [E EXCEPT ![d] = @ - 1] = D
      <4>1. D \in [Addr -> Nat]
        BY DEF Counted
      <4> HIDE DEF d, E
      <4> QED
        BY <3>1, <3>2, <4>1, OneDown
    <3> HIDE DEF E, left, G, d
    <3>4. Counted(left, G, E)
      <4>1. \A m \in DOMAIN left.arrays : left.arrays[m].count = G[m] /\ G[m] > 0
        BY <1>1, <2>2 DEF Counted, Shape
      <4>2. \A m \in Addr \ DOMAIN left.arrays : G[m] = 0
        BY <1>1, <2>1, <2>2 DEF Counted
      <4>3. \A e \in DOMAIN left.doms :
              left.doms[e] = E[e] + Cardinality(BuiltOn(left, e)) /\ left.doms[e] > 0
        <5> SUFFICES ASSUME NEW e \in DOMAIN s.doms
                     PROVE  /\ s.doms[e] = E[e] + Cardinality(BuiltOn(left, e))
                            /\ s.doms[e] > 0
          BY <2>2
        <5>1. s.doms[e] = D[e] + Cardinality(BuiltOn(s, e)) /\ s.doms[e] > 0
          BY DEF Counted
        <5>2. e \in Addr /\ D[e] \in Nat /\ Cardinality(BuiltOn(s, e)) \in Nat
          BY <1>2 DEF Counted, Shape
        <5> QED
          BY <2>5, <2>7, <3>2, <5>1, <5>2
      <4>4. \A e \in Addr \ DOMAIN left.doms : E[e] = 0
        BY <2>2, <3>1, <3>2 DEF Counted
      <4>5. \A m \in DOMAIN left.arrays : left.arrays[m].dom \in DOMAIN left.doms \cup {None}
        BY <2>2 DEF Counted
      <4> QED
        BY <1>1, <2>3, <3>2, <4>1, <4>2, <4>3, <4>4, <4>5 DEF Counted
    <3>5. Counted(ReleaseDom(left, d), G, D)
      BY <2>2, <3>1, <3>2, <3>3, <3>4, ReleaseDomCounted
    <3> QED
      BY <2>4, <2>9, <3>5 DEF G
  <2> QED
    BY <2>8, <2>9
<1> QED
  BY <1>3, <1>4

\* A new domain object, and the Domain that has it.
LEMMA NewDomCounted ==
  ASSUME NEW s, NEW H, NEW D, Counted(s, H, D)
  PROVE  /\ Counted(NewDom(s), H, [D EXCEPT ![Fresh(s)] = 1])
         /\ D[Fresh(s)] = 0
         /\ DOMAIN NewDom(s).doms = DOMAIN s.doms \cup {Fresh(s)}
         /\ NewDom(s).arrays = s.arrays
<1> DEFINE t == NewDom(s)
           d == Fresh(s)
           E == [D EXCEPT ![d] = 1]
<1>1. d \in Addr /\ d \notin DOMAIN s.doms
  BY FreshIsFree DEF Counted
<1>0. s = [doms |-> s.doms, arrays |-> s.arrays]
  BY DEF Counted, Shape
<1>2. t = [doms |-> With(s.doms, d, 1), arrays |-> s.arrays]
  BY <1>0 DEF NewDom
<1>3. /\ DOMAIN t.doms = DOMAIN s.doms \cup {d} /\ t.arrays = s.arrays /\ t.doms[d] = 1
      /\ \A e \in DOMAIN s.doms : t.doms[e] = s.doms[e]
  BY <1>1, <1>2 DEF With
<1>4. Shape(t)
  <2>1. IsFiniteSet(DOMAIN t.doms)
    BY <1>3, FS_AddElement DEF Counted, Shape
  <2>2. t.doms \in [DOMAIN t.doms -> Nat]
    BY <1>1, <1>2, <1>3 DEF Counted, Shape, With
  <2> QED
    BY <1>1, <1>2, <1>3, <2>1, <2>2 DEF Counted, Shape
<1>5. \A e : BuiltOn(t, e) = BuiltOn(s, e)
  BY <1>3 DEF BuiltOn
<1>6. BuiltOn(s, d) = {}
  BY <1>1 DEF Counted, BuiltOn, Addr, None
<1>7. /\ E \in [Addr -> Nat] /\ E[d] = 1 /\ D[d] = 0
      /\ \A e \in Addr : e # d => E[e] = D[e]
  BY <1>1 DEF Counted
<1> HIDE DEF t, d, E
<1>8. Counted(t, H, E)
  <2>1. \A n \in DOMAIN t.arrays : t.arrays[n].count = H[n] /\ H[n] > 0
    BY <1>3 DEF Counted
  <2>2. \A e \in DOMAIN t.doms :
          t.doms[e] = E[e] + Cardinality(BuiltOn(t, e)) /\ t.doms[e] > 0
    <3>1. t.doms[d] = E[d] + Cardinality(BuiltOn(t, d)) /\ t.doms[d] > 0
      BY <1>3, <1>5, <1>6, <1>7, FS_EmptySet
    <3>2. ASSUME NEW e \in DOMAIN s.doms
          PROVE  t.doms[e] = E[e] + Cardinality(BuiltOn(t, e)) /\ t.doms[e] > 0
      BY <1>1, <1>3, <1>5, <1>7 DEF Counted, Shape
    <3> QED
      BY <1>3, <3>1, <3>2
  <2>3. \A e \in Addr \ DOMAIN t.doms : E[e] = 0
    BY <1>3, <1>7 DEF Counted
  <2>4. \A n \in DOMAIN t.arrays : t.arrays[n].dom \in DOMAIN t.doms \cup {None}
    BY <1>3 DEF Counted
  <2>5. \A n \in Addr \ DOMAIN t.arrays : H[n] = 0
    BY <1>3 DEF Counted
  <2>6. H \in [Addr -> Nat]
    BY DEF Counted
  <2> QED
    BY <1>4, <1>7, <2>1, <2>2, <2>3, <2>4, <2>5, <2>6 DEF Counted
<1> QED
  BY <1>3, <1>7, <1>8 DEF t, d, E

\* A new array object, on a domain that is there or on none.
LEMMA BuildArrayCounted ==
  ASSUME NEW s, NEW H, NEW D, Counted(s, H, D),
         NEW d \in DOMAIN s.doms \cup {None}, NEW data
  PROVE  /\ Counted(BuildArray(s, d, data), [H EXCEPT ![Fresh(s)] = 1], D)
         /\ Fresh(s) \in Addr \ DOMAIN s.arrays
         /\ H[Fresh(s)] = 0
         /\ DOMAIN BuildArray(s, d, data).doms = DOMAIN s.doms
         /\ DOMAIN BuildArray(s, d, data).arrays = DOMAIN s.arrays \cup {Fresh(s)}
         /\ \A m \in DOMAIN s.arrays : BuildArray(s, d, data).arrays[m] = s.arrays[m]
<1> DEFINE t == BuildArray(s, d, data)
           n == Fresh(s)
           G == [H EXCEPT ![n] = 1]
           object == [count |-> 1, dom |-> d, data |-> data]
<1>0. s = [doms |-> s.doms, arrays |-> s.arrays]
  BY DEF Counted, Shape
<1>1. n \in Addr /\ n \notin DOMAIN s.arrays
  BY FreshIsFree DEF Counted
<1>2. t = [doms |-> IF d = None THEN s.doms ELSE [s.doms EXCEPT ![d] = @ + 1],
           arrays |-> With(s.arrays, n, object)]
  BY <1>0 DEF BuildArray, AddDomRef
<1>3. /\ DOMAIN t.doms = DOMAIN s.doms /\ DOMAIN t.arrays = DOMAIN s.arrays \cup {n}
      /\ t.arrays[n] = object
      /\ \A m \in DOMAIN s.arrays : t.arrays[m] = s.arrays[m]
      /\ t.arrays = [m \in DOMAIN t.arrays |-> t.arrays[m]]
  BY <1>1, <1>2 DEF With, Counted, Shape
<1>4. /\ d # None => t.doms[d] = s.doms[d] + 1
      /\ \A e \in DOMAIN s.doms : e # d => t.doms[e] = s.doms[e]
      /\ t.doms \in [DOMAIN s.doms -> Nat]
  BY <1>2 DEF Counted, Shape
<1>5. Shape(t)
  <2>1. IsFiniteSet(DOMAIN t.arrays)
    BY <1>3, FS_AddElement DEF Counted, Shape
  <2>2. t = [doms |-> t.doms, arrays |-> t.arrays]
    BY <1>2
  <2> HIDE DEF t, n
  <2> QED
    BY <1>1, <1>3, <1>4, <2>1, <2>2 DEF Counted, Shape
<1>6. \A e : IsFiniteSet(BuiltOn(s, e)) /\ Cardinality(BuiltOn(s, e)) \in Nat
  BY FS_Subset, FS_CardinalityType DEF Counted, Shape, BuiltOn
<1>7. /\ BuiltOn(t, d) = BuiltOn(s, d) \cup {n} /\ n \notin BuiltOn(s, d)
      /\ \A e : e # d => BuiltOn(t, e) = BuiltOn(s, e)
  <2> HIDE DEF t, n
  <2> QED
    BY <1>1, <1>3 DEF BuiltOn
<1>8. Cardinality(BuiltOn(t, d)) = Cardinality(BuiltOn(s, d)) + 1
  BY <1>6, <1>7, FS_AddElement
<1>9. /\ G \in [Addr -> Nat] /\ G[n] = 1 /\ H[n] = 0
      /\ \A m \in Addr : m # n => G[m] = H[m]
  BY <1>1 DEF Counted
<1>10. None \notin DOMAIN s.doms
  BY DEF Counted, Shape, Addr, None
<1> HIDE DEF t, n, G
<1>11. ASSUME NEW e \in DOMAIN s.doms
       PROVE  t.doms[e] = D[e] + Cardinality(BuiltOn(t, e)) /\ t.doms[e] > 0
  <2>1. /\ s.doms[e] = D[e] + Cardinality(BuiltOn(s, e)) /\ s.doms[e] > 0
        /\ s.doms[e] \in Nat /\ D[e] \in Nat /\ Cardinality(BuiltOn(s, e)) \in Nat
    BY <1>6 DEF Counted, Shape
  <2>2. CASE e = d
    BY <1>4, <1>8, <1>10, <2>1, <2>2
  <2>3. CASE e # d
    BY <1>4, <1>7, <2>1, <2>3
  <2> QED
    BY <2>2, <2>3
<1>12. Counted(t, G, D)
  <2>1. \A m \in DOMAIN t.arrays : t.arrays[m].count = G[m] /\ G[m] > 0
    BY <1>1, <1>3, <1>9 DEF Counted, Shape
  <2>2. \A m \in Addr \ DOMAIN t.arrays : G[m] = 0
    BY <1>3, <1>9 DEF Counted
  <2>3. \A m \in DOMAIN t.arrays : t.arrays[m].dom \in DOMAIN t.doms \cup {None}
    BY <1>3 DEF Counted
  <2>4. D \in [Addr -> Nat] /\ \A e \in Addr \ DOMAIN t.doms : D[e] = 0
    BY <1>3 DEF Counted
  <2> QED
    BY <1>3, <1>5, <1>9, <1>11, <2>1, <2>2, <2>3, <2>4 DEF Counted
<1> QED
  BY <1>1, <1>3, <1>9, <1>12 DEF t, n, G

\* An array built on a domain that its variable does not outlive.
LEMMA OnTemporaryCounted ==
  ASSUME NEW s, NEW H, NEW D, Counted(s, H, D), NEW data
  PROVE  LET d == Fresh(s)
             m == Fresh(NewDom(s))
             t == ReleaseDom(BuildArray(NewDom(s), d, data), d)
         IN  /\ m \in Addr \ DOMAIN s.arrays
             /\ Counted(t, [H EXCEPT ![m] = 1], D)
             /\ DOMAIN t.arrays = DOMAIN s.arrays \cup {m}
<1> DEFINE d == Fresh(s)
           withDom == NewDom(s)
           built == BuildArray(withDom, d, data)
           E == [D EXCEPT ![d] = 1]
           m == Fresh(withDom)
           G == [H EXCEPT ![m] = 1]
<1>2. /\ Counted(withDom, H, E) /\ D[d] = 0
      /\ DOMAIN withDom.doms = DOMAIN s.doms \cup {d} /\ withDom.arrays = s.arrays
  BY NewDomCounted
<1>3. d \in Addr
  BY FreshIsFree DEF Counted
<1> HIDE DEF withDom, E, d
<1>4. /\ Counted(built, G, E) /\ m \in Addr \ DOMAIN s.arrays
      /\ DOMAIN built.doms = DOMAIN s.doms \cup {d}
      /\ DOMAIN built.arrays = DOMAIN s.arrays \cup {m}
  BY <1>2, BuildArrayCounted
<1>5. E[d] = 1 /\ [E EXCEPT ![d] = @ - 1] = D
  <2>1. D \in [Addr -> Nat]
    BY DEF Counted
  <2>2. /\ E \in [Addr -> Nat] /\ E[d] = D[d] + 1
        /\ \A e \in Addr : e # d => E[e] = D[e]
    BY <1>2, <1>3, <2>1 DEF E
  <2> QED
    BY <1>2, <1>3, <2>1, <2>2, OneDown
<1> HIDE DEF built, m, G
<1>6. Counted(ReleaseDom(built, d), G, D)
  BY <1>4, <1>5, ReleaseDomCounted
<1>7. ReleaseDom(built, d).arrays = built.arrays
  BY <1>4 DEF ReleaseDom, Counted, Shape
<1> QED
  BY <1>4, <1>6, <1>7 DEF m, G, built, withDom, d

\* A copy has an object of its own, which nothing else has a handle of.
LEMMA DeepCopyCounted ==
  ASSUME NEW s, NEW H, NEW D, Counted(s, H, D), NEW n \in DOMAIN s.arrays
  PROVE  LET copy == DeepCopy(s, n)
         IN  /\ copy.to \in Addr \ DOMAIN s.arrays
             /\ Counted(copy.store, [H EXCEPT ![copy.to] = 1], D)
             /\ DOMAIN copy.store.arrays = DOMAIN s.arrays \cup {copy.to}
<1> DEFINE copy == DeepCopy(s, n)
           data == s.arrays[n].data
           whole == Zipped([i \in DOMAIN data |-> 0], data)
<1>1. CASE s.arrays[n].dom = None
  <2>1. copy = [to |-> Fresh(s), store |-> BuildArray(s, None, data)]
    BY <1>1 DEF DeepCopy
  <2> QED
    BY <2>1, BuildArrayCounted
<1>2. CASE s.arrays[n].dom # None
  <2>1. copy = [to |-> Fresh(NewDom(s)),
                store |-> ReleaseDom(BuildArray(NewDom(s), Fresh(s), whole), Fresh(s))]
    BY <1>2 DEF DeepCopy
  <2> HIDE DEF copy, whole
  <2> QED
    BY <2>1, OnTemporaryCounted DEF copy
<1> QED
  BY <1>1, <1>2

\* Writing to the elements leaves the handles alone.
LEMMA WriteCounted ==
  ASSUME NEW s, NEW H, NEW D, Counted(s, H, D), NEW n \in DOMAIN s.arrays, NEW v
  PROVE  Counted([doms |-> s.doms, arrays |-> [s.arrays EXCEPT ![n].data = v]], H, D)
<1> DEFINE t == [doms |-> s.doms, arrays |-> [s.arrays EXCEPT ![n].data = v]]
<1>1. /\ t.doms = s.doms /\ DOMAIN t.arrays = DOMAIN s.arrays
      /\ t.arrays[n] = [count |-> s.arrays[n].count, dom |-> s.arrays[n].dom, data |-> v]
      /\ \A m \in DOMAIN s.arrays : m # n => t.arrays[m] = s.arrays[m]
  BY DEF Counted, Shape
<1>2. Shape(t)
  BY <1>1 DEF Counted, Shape
<1>3. \A d : BuiltOn(t, d) = BuiltOn(s, d)
  BY <1>1 DEF BuiltOn
<1> HIDE DEF t
<1> QED
  BY <1>1, <1>2, <1>3 DEF Counted, t

\* Being counted is about how many handles there are, not how they are written.
LEMMA CountedPointwise ==
  ASSUME NEW s, NEW G, NEW E, Counted(s, G, E),
         NEW H \in [Addr -> Nat], NEW D \in [Addr -> Nat],
         \A n \in Addr : H[n] = G[n], \A d \in Addr : D[d] = E[d]
  PROVE  Counted(s, H, D)
<1>1. G \in [Addr -> Nat] /\ E \in [Addr -> Nat]
  BY DEF Counted
<1>2. G = H /\ E = D
  BY <1>1
<1> QED
  BY <1>2
-----------------------------------------------------------------------------
(***************************************************************************)
(* Why the counts are right.  The handles there are, of each object: those *)
(* of variables and those of the generators; and where the loops are.      *)
(***************************************************************************)
Handles == [n \in Addr |-> ArrayHandles(n)]
HandlesOfDomains == [d \in Addr |-> Names("domain", d)]

HandleTypes ==
  /\ handle \in [Variables -> Nat]
  /\ target \in [DOMAIN target -> Addr]

\* Every chunk of a loop over the array iterates over something; those whose
\* generators have no handle, over the variable's array.
Targets ==
  /\ DOMAIN target = IF InLoop /\ Declared("a") THEN DOMAIN chunks ELSE {}
  /\ ~Owning => \A s \in DOMAIN target : target[s] = handle["a"]

NothingBefore ==
  /\ pc = "idle" /\ ~Declared("a") => \A v \in Variables : ~Declared(v)
  /\ InLoop /\ kind = "cobegin" => ~Declared("a")

ArrayInvariant ==
  /\ HandleTypes
  /\ Targets
  /\ NothingBefore
  /\ Counted(Store, Handles, HandlesOfDomains)

\* Chunks are finitely many, so what they iterate over is too.
LEMMA FiniteTargets ==
  ASSUME TypeOK, Targets
  PROVE  IsFiniteSet(DOMAIN target)
<1>1. DOMAIN target \subseteq Positions
  BY DEF TypeOK, Targets
<1>2. IsFiniteSet(Positions)
  BY LoopAssumption, FS_Interval DEF Positions
<1> QED
  BY <1>1, <1>2, FS_Subset

\* The handles of an object add up, and what is no object has none.
LEMMA HandlesAddUp ==
  ASSUME TypeOK, ArrayInvariant, NEW n \in Addr
  PROVE  /\ IsFiniteSet(Iterating(n)) /\ Cardinality(Iterating(n)) \in Nat
         /\ Handles[n] = Names("a", n) + Names("c", n) + Cardinality(Iterating(n))
         /\ n \notin DOMAIN arrays =>
              handle["a"] # n /\ handle["c"] # n /\ Iterating(n) = {}
<1>1. IsFiniteSet(Iterating(n)) /\ Cardinality(Iterating(n)) \in Nat
  <2>1. Iterating(n) \subseteq DOMAIN target
    BY DEF Iterating
  <2>2. IsFiniteSet(DOMAIN target)
    BY FiniteTargets DEF ArrayInvariant
  <2>3. IsFiniteSet(Iterating(n))
    BY <2>1, <2>2, FS_Subset
  <2> QED
    BY <2>3, FS_CardinalityType
<1>2. Handles[n] = Names("a", n) + Names("c", n) + Cardinality(Iterating(n))
  BY DEF Handles, ArrayHandles
<1>3. ASSUME n \notin DOMAIN arrays
      PROVE  handle["a"] # n /\ handle["c"] # n /\ Iterating(n) = {}
  <2>1. Handles[n] = 0
    BY <1>3 DEF ArrayInvariant, Counted, Store
  <2>2. Names("a", n) = 0 /\ Names("c", n) = 0 /\ Cardinality(Iterating(n)) = 0
    BY <1>1, <1>2, <2>1 DEF Names
  <2> QED
    BY <1>1, <2>2, FS_EmptySet DEF Names
<1> QED
  BY <1>1, <1>2, <1>3

\* What a handle leads to is there.
LEMMA HandlesLead ==
  ASSUME TypeOK, ArrayInvariant
  PROVE  /\ \A v \in ArrayVariables : Declared(v) => handle[v] \in DOMAIN arrays
         /\ Declared("domain") => handle["domain"] \in DOMAIN doms
         /\ \A s \in DOMAIN target : target[s] \in DOMAIN arrays
<1>1. ASSUME NEW v \in ArrayVariables, Declared(v) PROVE handle[v] \in DOMAIN arrays
  <2>1. handle[v] \in Addr
    BY <1>1 DEF ArrayInvariant, HandleTypes, Variables, Declared, Addr, None
  <2> QED
    BY <2>1, HandlesAddUp DEF ArrayVariables
<1>2. ASSUME Declared("domain") PROVE handle["domain"] \in DOMAIN doms
  <2>1. handle["domain"] \in Addr
    BY <1>2 DEF ArrayInvariant, HandleTypes, Variables, Declared, Addr, None
  <2>2. HandlesOfDomains[handle["domain"]] = 1
    BY <2>1 DEF HandlesOfDomains, Names
  <2> QED
    BY <2>1, <2>2 DEF ArrayInvariant, Counted, Store
<1>3. ASSUME NEW s \in DOMAIN target PROVE target[s] \in DOMAIN arrays
  <2>1. target[s] \in Addr
    BY DEF ArrayInvariant, HandleTypes
  <2>2. CASE Owning
    <3>1. s \in Iterating(target[s])
      BY <2>2 DEF Iterating
    <3> QED
      BY <2>1, <3>1, HandlesAddUp
  <2>3. CASE ~Owning
    BY <1>1, <2>1, <2>3 DEF ArrayInvariant, Targets, ArrayVariables, Declared, Addr, None
  <2> QED
    BY <2>2, <2>3
<1> QED
  BY <1>1, <1>2, <1>3

\* The counts are those of the handles.
LEMMA InvariantCounts == ASSUME TypeOK, ArrayInvariant PROVE CountedExactly
<1>1. Counted(Store, Handles, HandlesOfDomains)
  BY DEF ArrayInvariant
<1>2. DOMAIN arrays \subseteq Addr /\ DOMAIN doms \subseteq Addr
  BY <1>1 DEF Counted, Shape, Store
<1>3. \A n \in DOMAIN arrays : arrays[n].count = ArrayHandles(n) /\ arrays[n].count > 0
  BY <1>1, <1>2 DEF Counted, Store, Handles
<1>4. \A d \in DOMAIN doms : doms[d] = DomHandles(d) /\ doms[d] > 0
  BY <1>1, <1>2 DEF Counted, Store, HandlesOfDomains, DomHandles
<1>5. \A n \in DOMAIN arrays : arrays[n].dom \in DOMAIN doms \cup {None}
  BY <1>1 DEF Counted, Store
<1> QED
  BY <1>3, <1>4, <1>5, HandlesLead DEF CountedExactly

\* The invariant of the next state, from the counts a step has worked out.
LEMMA NextCounted ==
  ASSUME HandleTypes', Targets', NothingBefore',
         NEW G, NEW E, Counted(Store', G, E),
         \A n \in Addr : ArrayHandles(n)' = G[n],
         \A d \in Addr : Names("domain", d)' = E[d]
  PROVE  ArrayInvariant'
<1>1. G \in [Addr -> Nat] /\ E \in [Addr -> Nat]
  BY DEF Counted
<1>2. Handles' = G
  BY <1>1 DEF Handles
<1>3. HandlesOfDomains' = E
  BY <1>1 DEF HandlesOfDomains
<1>4. Counted(Store', Handles', HandlesOfDomains')
  BY <1>2, <1>3
<1> QED
  BY <1>4 DEF ArrayInvariant

\* Outside the loop only variables have handles.
LEMMA OutsideHandles ==
  ASSUME ArrayInvariant, ~InLoop
  PROVE  /\ DOMAIN target = {}
         /\ \A n \in Addr : Handles[n] = Names("a", n) + Names("c", n)
<1>1. DOMAIN target = {}
  BY DEF ArrayInvariant, Targets
<1>2. ASSUME NEW n \in Addr PROVE Handles[n] = Names("a", n) + Names("c", n)
  <2>1. Iterating(n) = {}
    BY <1>1 DEF Iterating
  <2>2. Cardinality(Iterating(n)) = 0
    BY <2>1, FS_EmptySet
  <2> QED
    BY <2>2 DEF Handles, ArrayHandles, Names
<1> QED
  BY <1>1, <1>2

\* Outside a loop, a step whose new store counts the new handles exactly keeps the
\* invariant: what each kind of step below has to show.
LEMMA OutsideStep ==
  ASSUME ArrayInvariant, ~InLoop, UNCHANGED <<vars, target>>,
         handle' \in [Variables -> Nat], pc = "idle" => Declared("a")',
         NEW G, NEW E, Counted(Store', G, E),
         \A n \in Addr : Names("a", n)' + Names("c", n)' = G[n],
         \A d \in Addr : Names("domain", d)' = E[d]
  PROVE  ArrayInvariant'
<1>1. DOMAIN target = {} /\ target' = target /\ pc' = pc
  BY OutsideHandles DEF vars, loopVars
<1>2. HandleTypes'
  BY <1>1 DEF ArrayInvariant, HandleTypes
<1>3. Targets'
  BY <1>1 DEF Targets, InLoop
<1>4. NothingBefore'
  BY <1>1 DEF NothingBefore, InLoop
<1>5. ASSUME NEW n \in Addr PROVE ArrayHandles(n)' = G[n]
  <2>1. Iterating(n)' = {}
    BY <1>1 DEF Iterating
  <2>2. Cardinality(Iterating(n)') = 0
    BY <2>1, FS_EmptySet
  <2> QED
    BY <2>2 DEF ArrayHandles, Names
<1> QED
  BY <1>2, <1>3, <1>4, <1>5, NextCounted

\* A store that a step has computed is the store of the next state.
LEMMA NextStore ==
  ASSUME NEW s, Shape(s), StoreBecomes(s)
  PROVE  Store' = s
  BY DEF Shape, StoreBecomes, Store

\* Declaring an array on the program's domain: two new objects, one handle each, and
\* the array's handle of the domain (array.hpp, Array(Domain)).
LEMMA DeclareArrayKeeps ==
  ASSUME ArrayInvariant, DeclareArray
  PROVE  ArrayInvariant'
<1> DEFINE H == Handles
           D == HandlesOfDomains
           zeros == [i \in 1..IterandSize(it) |-> 0]
           domain == IF Simple THEN None ELSE Fresh(Store)
           s == IF Simple THEN Store ELSE NewDom(Store)
           n == Fresh(s)
           built == BuildArray(s, domain, zeros)
           E == IF Simple THEN D ELSE [D EXCEPT ![domain] = 1]
           G == [H EXCEPT ![n] = 1]
<1>1. /\ StoreBecomes(built) /\ UNCHANGED <<vars, target>> /\ ~InLoop
      /\ handle' = [handle EXCEPT !["domain"] = domain, !["a"] = n]
  BY DEF DeclareArray, InLoop
<1>2. /\ \A m \in Addr : H[m] = 0 /\ D[m] = 0
      /\ handle = [v \in Variables |-> None]
  <2>1. handle = [v \in Variables |-> None]
    BY DEF DeclareArray, ArrayInvariant, HandleTypes, NothingBefore, Declared
  <2>2. \A m \in Addr, v \in Variables : Names(v, m) = 0
    BY <2>1 DEF Names, Addr, None
  <2> QED
    BY <1>1, <2>1, <2>2, OutsideHandles DEF HandlesOfDomains, Variables, ArrayVariables
<1>3. Counted(Store, H, D)
  BY DEF ArrayInvariant
<1>4. Fresh(Store) \in Addr
  BY <1>3, FreshIsFree DEF Counted
<1> HIDE DEF H, D, zeros
<1>5. Counted(s, H, E) /\ domain \in DOMAIN s.doms \cup {None} /\ domain \in Nat
  BY <1>3, <1>4, NewDomCounted DEF Addr, None
<1> HIDE DEF s, domain
<1>6. Counted(built, G, E) /\ n \in Addr
  BY <1>5, BuildArrayCounted
<1>7. Counted(Store', G, E)
  BY <1>1, <1>6, NextStore DEF Counted
<1>8. /\ handle' \in [Variables -> Nat] /\ Declared("a")'
      /\ handle'["a"] = n /\ handle'["c"] = None /\ handle'["domain"] = domain
  BY <1>1, <1>2, <1>5, <1>6 DEF Variables, ArrayVariables, Declared, Addr, None
<1>9. \A m \in Addr : Names("a", m)' + Names("c", m)' = G[m]
  BY <1>2, <1>3, <1>6, <1>8 DEF Names, Addr, None, Counted
<1>10. \A d \in Addr : Names("domain", d)' = E[d]
  BY <1>2, <1>3, <1>8 DEF Names, Addr, None, Counted, domain
<1> QED
  BY <1>1, <1>7, <1>8, <1>9, <1>10, OutsideStep

\* A copy of the array: a new object for it, and its temporary domain is released.
LEMMA CopyArrayKeeps ==
  ASSUME TypeOK, ArrayInvariant, CopyArray
  PROVE  ArrayInvariant'
<1> DEFINE copy == DeepCopy(Store, handle["a"])
           G == [Handles EXCEPT ![copy.to] = 1]
<1>1. /\ StoreBecomes(copy.store) /\ UNCHANGED <<vars, target>> /\ ~InLoop
      /\ handle' = [handle EXCEPT !["c"] = copy.to]
      /\ Declared("a") /\ ~Declared("c")
  BY DEF CopyArray
<1>2. handle["a"] \in DOMAIN arrays /\ Counted(Store, Handles, HandlesOfDomains)
  BY <1>1, HandlesLead DEF ArrayInvariant, ArrayVariables
<1>3. /\ copy.to \in Addr \ DOMAIN arrays
      /\ Counted(copy.store, G, HandlesOfDomains)
  <2>1. handle["a"] \in DOMAIN Store.arrays /\ Store.arrays = arrays
    BY <1>2 DEF Store
  <2> QED
    BY <1>2, <2>1, DeepCopyCounted
<1> HIDE DEF copy
<1>4. Counted(Store', G, HandlesOfDomains)
  BY <1>1, <1>3, NextStore DEF Counted
<1>5. /\ handle' \in [Variables -> Nat] /\ Declared("a")'
      /\ handle'["a"] = handle["a"] /\ handle'["c"] = copy.to
      /\ handle'["domain"] = handle["domain"] /\ handle["a"] # copy.to
  BY <1>1, <1>2, <1>3 DEF ArrayInvariant, HandleTypes, Variables, ArrayVariables,
                          Declared, Addr
<1>6. \A m \in Addr : Names("a", m)' + Names("c", m)' = G[m]
  <2>1. Handles \in [Addr -> Nat]
    BY <1>2 DEF Counted
  <2>2. \A m \in Addr : Handles[m] = Names("a", m) + Names("c", m)
    BY <1>1, OutsideHandles
  <2> QED
    BY <1>1, <1>3, <1>5, <2>1, <2>2 DEF Names, Addr, None, Declared
<1>7. \A d \in Addr : Names("domain", d)' = HandlesOfDomains[d]
  BY <1>5 DEF Names, HandlesOfDomains
<1> QED
  BY <1>1, <1>4, <1>5, <1>6, <1>7, OutsideStep

\* An array on a domain of its own, of another size.
LEMMA DeclareOtherKeeps ==
  ASSUME TypeOK, ArrayInvariant, NEW size0, DeclareOther(size0)
  PROVE  ArrayInvariant'
<1> DEFINE zeros == [i \in 1..size0 |-> 0]
           n == IF Simple THEN Fresh(Store) ELSE Fresh(NewDom(Store))
           t == IF Simple THEN BuildArray(Store, None, zeros)
                ELSE ReleaseDom(BuildArray(NewDom(Store), Fresh(Store), zeros), Fresh(Store))
           G == [Handles EXCEPT ![n] = 1]
<1>1. /\ StoreBecomes(t) /\ UNCHANGED <<vars, target>> /\ ~InLoop
      /\ handle' = [handle EXCEPT !["c"] = n]
      /\ Declared("a") /\ ~Declared("c")
  <2>1. CASE Simple
    BY <2>1 DEF DeclareOther, InLoop
  <2>2. CASE ~Simple
    BY <2>2 DEF DeclareOther, InLoop
  <2> QED
    BY <2>1, <2>2
<1>2. Counted(Store, Handles, HandlesOfDomains)
  BY DEF ArrayInvariant
<1> HIDE DEF zeros
<1>3. n \in Addr \ DOMAIN arrays /\ Counted(t, G, HandlesOfDomains)
  <2>1. Store.arrays = arrays
    BY DEF Store
  <2>2. CASE Simple
    BY <1>2, <2>1, <2>2, BuildArrayCounted
  <2>3. CASE ~Simple
    BY <1>2, <2>1, <2>3, OnTemporaryCounted
  <2> QED
    BY <2>2, <2>3
<1> HIDE DEF n, t
<1>4. Counted(Store', G, HandlesOfDomains)
  BY <1>1, <1>3, NextStore DEF Counted
<1>5. handle["a"] \in DOMAIN arrays
  BY <1>1, HandlesLead DEF ArrayVariables
<1>6. /\ handle' \in [Variables -> Nat] /\ Declared("a")'
      /\ handle'["a"] = handle["a"] /\ handle'["c"] = n
      /\ handle'["domain"] = handle["domain"] /\ handle["a"] # n
  BY <1>1, <1>3, <1>5 DEF ArrayInvariant, HandleTypes, Variables, ArrayVariables,
                          Declared, Addr
<1>7. \A m \in Addr : Names("a", m)' + Names("c", m)' = G[m]
  <2>1. Handles \in [Addr -> Nat]
    BY <1>2 DEF Counted
  <2>2. \A m \in Addr : Handles[m] = Names("a", m) + Names("c", m)
    BY <1>1, OutsideHandles
  <2> QED
    BY <1>1, <1>3, <1>6, <2>1, <2>2 DEF Names, Addr, None, Declared
<1>8. \A d \in Addr : Names("domain", d)' = HandlesOfDomains[d]
  BY <1>6 DEF Names, HandlesOfDomains
<1> QED
  BY <1>1, <1>4, <1>6, <1>7, <1>8, OutsideStep

\* c takes a's handle, so only the object c had loses one.
LEMMA MoveKeeps ==
  ASSUME TypeOK, ArrayInvariant, Move
  PROVE  ArrayInvariant'
<1> DEFINE n == handle["c"]
           t == Release(Store, n)
           G == [Handles EXCEPT ![n] = @ - 1]
<1>1. /\ StoreBecomes(t) /\ UNCHANGED <<vars, target>> /\ ~InLoop /\ pc = "returned"
      /\ handle' = [handle EXCEPT !["c"] = handle["a"], !["a"] = None]
      /\ Declared("a") /\ Declared("c")
  BY DEF Move, InLoop
<1>2. n \in DOMAIN Store.arrays /\ n \in Addr /\ Counted(Store, Handles, HandlesOfDomains)
  BY <1>1, HandlesLead DEF ArrayInvariant, ArrayVariables, Store, Counted, Shape
<1>3. Counted(t, G, HandlesOfDomains)
  BY <1>2, ReleaseCounted
<1>4. Counted(Store', G, HandlesOfDomains)
  BY <1>1, <1>3, NextStore DEF Counted
<1>5. /\ handle' \in [Variables -> Nat]
      /\ handle'["a"] = None /\ handle'["c"] = handle["a"]
      /\ handle'["domain"] = handle["domain"]
  BY <1>1 DEF ArrayInvariant, HandleTypes, Variables, ArrayVariables, None
<1>6. \A m \in Addr : Names("a", m)' + Names("c", m)' = G[m]
  <2>1. Handles \in [Addr -> Nat]
    BY <1>2 DEF Counted
  <2>2. \A m \in Addr : Handles[m] = Names("a", m) + Names("c", m)
    BY <1>1, OutsideHandles
  <2> QED
    BY <1>2, <1>5, <2>1, <2>2 DEF Names, Addr, None
<1>7. \A d \in Addr : Names("domain", d)' = HandlesOfDomains[d]
  BY <1>5 DEF Names, HandlesOfDomains
<1> QED
  BY <1>1, <1>4, <1>5, <1>6, <1>7, OutsideStep

\* The end of a variable's scope releases the object it pointed to, and the last
\* release of an array that of its domain.
LEMMA DropKeeps ==
  ASSUME TypeOK, ArrayInvariant, NEW v \in Variables, Drop(v)
  PROVE  ArrayInvariant'
<1>1. /\ UNCHANGED <<vars, target>> /\ ~InLoop /\ pc = "returned"
      /\ handle' = [handle EXCEPT ![v] = None]
      /\ Declared(v) /\ Counted(Store, Handles, HandlesOfDomains)
  BY DEF Drop, InLoop, ArrayInvariant
<1>2. handle \in [Variables -> Nat] /\ handle' \in [Variables -> Nat]
  BY <1>1 DEF ArrayInvariant, HandleTypes, None
<1>3. Handles \in [Addr -> Nat] /\ HandlesOfDomains \in [Addr -> Nat]
  BY <1>1 DEF Counted
<1>4. \A m \in Addr : Handles[m] = Names("a", m) + Names("c", m)
  BY <1>1, OutsideHandles
<1>5. \A m \in Addr : HandlesOfDomains[m] = Names("domain", m)
  BY DEF HandlesOfDomains
<1>6. CASE v = "domain"
  <2> DEFINE d == handle["domain"]
             t == ReleaseDom(Store, d)
             E == [HandlesOfDomains EXCEPT ![d] = @ - 1]
  <2>1. StoreBecomes(t)
    BY <1>6 DEF Drop
  <2>2. d \in DOMAIN Store.doms /\ d \in Addr
    BY <1>1, <1>6, HandlesLead DEF Store, Counted, Shape
  <2>3. HandlesOfDomains[d] > 0
    BY <2>2, <1>5 DEF Names
  <2>4. Counted(t, Handles, E)
    BY <1>1, <2>2, <2>3, ReleaseDomCounted
  <2>5. Counted(Store', Handles, E)
    BY <2>1, <2>4, NextStore DEF Counted
  <2>6. /\ handle'["a"] = handle["a"] /\ handle'["c"] = handle["c"]
        /\ handle'["domain"] = None
    BY <1>1, <1>2, <1>6 DEF Variables, ArrayVariables
  <2>7. \A m \in Addr : Names("a", m)' + Names("c", m)' = Handles[m]
    BY <1>4, <2>6 DEF Names
  <2>8. \A e \in Addr : Names("domain", e)' = E[e]
    BY <1>3, <1>5, <2>2, <2>6 DEF Names, Addr, None
  <2> QED
    BY <1>1, <1>2, <2>5, <2>7, <2>8, OutsideStep
<1>7. CASE v \in ArrayVariables
  <2> DEFINE n == handle[v]
             t == Release(Store, n)
             G == [Handles EXCEPT ![n] = @ - 1]
  <2>1. StoreBecomes(t)
    BY <1>7 DEF Drop, ArrayVariables
  <2>2. n \in DOMAIN Store.arrays /\ n \in Addr
    BY <1>1, <1>7, HandlesLead DEF Store, Counted, Shape
  <2>3. Counted(t, G, HandlesOfDomains)
    BY <1>1, <2>2, ReleaseCounted
  <2>4. Counted(Store', G, HandlesOfDomains)
    BY <2>1, <2>3, NextStore DEF Counted
  <2>5. /\ \A w \in Variables : w # v => handle'[w] = handle[w]
        /\ handle'[v] = None
    BY <1>1, <1>2
  <2>6. \A m \in Addr : Names("a", m)' + Names("c", m)' = G[m]
    <3>1. CASE v = "a"
      BY <1>3, <1>4, <2>2, <2>5, <3>1 DEF Names, Addr, None, Variables, ArrayVariables
    <3>2. CASE v = "c"
      BY <1>3, <1>4, <2>2, <2>5, <3>2 DEF Names, Addr, None, Variables, ArrayVariables
    <3> QED
      BY <1>7, <3>1, <3>2 DEF ArrayVariables
  <2>7. \A d \in Addr : Names("domain", d)' = HandlesOfDomains[d]
    BY <1>5, <1>7, <2>5 DEF Names, Variables, ArrayVariables
  <2> QED
    BY <1>1, <1>2, <2>4, <2>6, <2>7, OutsideStep
<1> QED
  BY <1>6, <1>7 DEF Variables

\* Assigning and writing only change elements.
LEMMA ElementsKeep ==
  ASSUME TypeOK, ArrayInvariant, Assign \/ \E i \in DOMAIN means["a"] : WriteAt(i)
  PROVE  ArrayInvariant'
<1>1. /\ UNCHANGED <<vars, target, handle>> /\ ~InLoop /\ pc = "returned"
      /\ Counted(Store, Handles, HandlesOfDomains)
  BY DEF Assign, WriteAt, InLoop, ArrayInvariant
<1>2. PICK n, v :
        /\ n \in DOMAIN arrays
        /\ StoreBecomes([doms |-> doms, arrays |-> [arrays EXCEPT ![n].data = v]])
  <2>1. CASE Assign
    <3> DEFINE from == arrays[handle["a"]].data
               to == arrays[handle["c"]].data
               new == IF Simple THEN from ELSE Zipped(to, from)
    <3>1. doms' = doms /\ arrays' = [arrays EXCEPT ![handle["c"]].data = new]
      BY <2>1 DEF Assign, StoreBecomes, Store
    <3>2. handle["c"] \in DOMAIN arrays
      BY <2>1, HandlesLead DEF Assign, ArrayVariables
    <3> HIDE DEF new
    <3> QED
      BY <3>1, <3>2 DEF StoreBecomes
  <2>2. ASSUME NEW i \in DOMAIN means["a"], WriteAt(i)
        PROVE  \E n, v :
                 /\ n \in DOMAIN arrays
                 /\ StoreBecomes([doms |-> doms, arrays |-> [arrays EXCEPT ![n].data = v]])
    <3> DEFINE new == Plus(arrays[handle["a"]].data, DomainIndexOrder(it.rs, Denotes[i]) + 1)
    <3>1. doms' = doms /\ arrays' = [arrays EXCEPT ![handle["a"]].data = new]
      BY <2>2 DEF WriteAt, StoreBecomes, Store
    <3>2. handle["a"] \in DOMAIN arrays
      BY <2>2, HandlesLead DEF WriteAt, ArrayVariables
    <3> HIDE DEF new
    <3> QED
      BY <3>1, <3>2 DEF StoreBecomes
  <2> QED
    BY <2>1, <2>2
<1> DEFINE t == [doms |-> doms, arrays |-> [arrays EXCEPT ![n].data = v]]
<1>3. Counted(t, Handles, HandlesOfDomains)
  <2>1. n \in DOMAIN Store.arrays /\ t = [doms |-> Store.doms,
                                          arrays |-> [Store.arrays EXCEPT ![n].data = v]]
    BY <1>2 DEF Store
  <2> HIDE DEF t
  <2> QED
    BY <1>1, <2>1, WriteCounted
<1>4. Counted(Store', Handles, HandlesOfDomains)
  BY <1>2, <1>3 DEF StoreBecomes, Store
<1>5. \A m \in Addr : Names("a", m)' + Names("c", m)' = Handles[m]
  BY <1>1, OutsideHandles DEF Names
<1>6. \A d \in Addr : Names("domain", d)' = HandlesOfDomains[d]
  BY <1>1 DEF Names, HandlesOfDomains
<1>7. handle' \in [Variables -> Nat]
  BY <1>1 DEF ArrayInvariant, HandleTypes
<1> QED
  BY <1>1, <1>4, <1>5, <1>6, <1>7, OutsideStep

-----------------------------------------------------------------------------
\* A loop that is not over the array leaves its handles alone.
LEMMA UndeclaredKeeps ==
  ASSUME ArrayInvariant, ~Declared("a"), UNCHANGED <<doms, arrays, handle, target>>,
         pc' = "idle" => pc = "idle"
  PROVE  ArrayInvariant'
<1>1. DOMAIN target = {} /\ Counted(Store, Handles, HandlesOfDomains)
  BY DEF ArrayInvariant, Targets
<1>2. HandleTypes' /\ Targets' /\ NothingBefore'
  BY <1>1 DEF ArrayInvariant, HandleTypes, Targets, NothingBefore, Declared
<1>3. Counted(Store', Handles, HandlesOfDomains)
  BY <1>1 DEF Store
<1>4. ASSUME NEW n \in Addr PROVE ArrayHandles(n)' = Handles[n]
  <2>1. Iterating(n) = {} /\ Iterating(n)' = {}
    BY <1>1 DEF Iterating
  <2> QED
    BY <2>1 DEF Handles, ArrayHandles, Names
<1>5. \A d \in Addr : Names("domain", d)' = HandlesOfDomains[d]
  BY DEF HandlesOfDomains, Names
<1> QED
  BY <1>2, <1>3, <1>4, <1>5, NextCounted

\* In a loop over the array, with the loop's own handles accounted for.
LEMMA InsideStep ==
  ASSUME ArrayInvariant, Declared("a"), handle' = handle,
         pc' # "idle", kind' # "cobegin",
         target' \in [DOMAIN target' -> Addr], Targets',
         NEW G, Counted(Store', G, HandlesOfDomains),
         \A n \in Addr : ArrayHandles(n)' = G[n]
  PROVE  ArrayInvariant'
<1>1. HandleTypes' /\ NothingBefore'
  BY DEF ArrayInvariant, HandleTypes, NothingBefore, InLoop
<1>2. \A d \in Addr : Names("domain", d)' = HandlesOfDomains[d]
  BY DEF HandlesOfDomains, Names
<1> QED
  BY <1>1, <1>2, NextCounted

\* The only chunk of a sequential loop or a forall, or none.
LEMMA FirstOrNone ==
  ASSUME TypeOK, NEW k \in {"forLoop", "forall"}, NEW b \in BOOLEAN, RunArrayLoop(k, b)
  PROVE  DOMAIN chunks' \in {{}, {0}}
  BY DEF RunArrayLoop, RunLoop, Launch, FirstChunks, WholeChunk

\* The start of a loop over the array: each generator made for it has a handle, of the
\* object or of a copy of it.
LEMMA RunArrayLoopKeeps ==
  ASSUME TypeOK, ArrayInvariant,
         NEW k \in Kinds \ {"cobegin"}, NEW b \in BOOLEAN, RunArrayLoop(k, b)
  PROVE  ArrayInvariant'
<1>1. /\ pc = "idle" /\ pc' = "running" /\ kind' = k /\ it' = it /\ handle' = handle
      /\ ~InLoop
  BY DEF RunArrayLoop, RunLoop, Launch, exprVars, InLoop
<1>2. CASE ~Declared("a")
  BY <1>1, <1>2, UndeclaredKeeps DEF RunArrayLoop
<1>3. CASE Declared("a")
  <2> DEFINE n == handle["a"]
  <2>1. /\ n \in DOMAIN Store.arrays /\ n \in Addr /\ n \in DOMAIN arrays
        /\ Counted(Store, Handles, HandlesOfDomains)
    BY <1>3, HandlesLead DEF ArrayInvariant, ArrayVariables, Store, Counted, Shape
  <2>2. /\ \A m \in Addr : Handles[m] = Names("a", m) + Names("c", m)
        /\ Handles \in [Addr -> Nat]
    BY <1>1, <2>1, OutsideHandles DEF Counted
  <2>3. Declared("a")' /\ InLoop' /\ \A v, m : Names(v, m)' = Names(v, m)
    BY <1>1, <1>3 DEF Declared, InLoop, Names
  <2>4. Owning' <=> ~Simple /\ k \in {"forLoop", "forall"}
    BY <1>1 DEF Owning, Simple
  <2>5. CASE DOMAIN chunks' = {} \/ Simple \/ k = "coforall"
    <3>1. StoreBecomes(Store) /\ target' = [s \in DOMAIN chunks' |-> n]
      BY <1>3, <2>5 DEF RunArrayLoop
    <3>2. Store' = Store
      BY <2>1, <3>1, NextStore DEF Counted
    <3>3. target' \in [DOMAIN target' -> Addr] /\ Targets'
      BY <1>1, <2>1, <2>3, <3>1 DEF Targets
    <3>4. ASSUME NEW m \in Addr PROVE ArrayHandles(m)' = Handles[m]
      <4>1. Iterating(m)' = {}
        BY <2>4, <2>5, <3>1 DEF Iterating
      <4>2. Cardinality(Iterating(m)') = 0
        BY <4>1, FS_EmptySet
      <4> QED
        BY <2>2, <2>3, <4>2 DEF ArrayHandles, Names
    <3> QED
      BY <1>1, <1>3, <2>1, <3>2, <3>3, <3>4, InsideStep
  <2>6. CASE DOMAIN chunks' # {} /\ ~Simple /\ k \in {"forLoop", "forall"}
    <3> DEFINE chosen == IF k = "forLoop" THEN [to |-> n, store |-> AddRef(Store, n)]
                         ELSE DeepCopy(Store, n)
               G == [Handles EXCEPT ![chosen.to] = @ + 1]
    <3>1. StoreBecomes(chosen.store) /\ target' = [s \in DOMAIN chunks' |-> chosen.to]
      <4>1. CASE k = "forLoop"
        BY <1>3, <2>6, <4>1 DEF RunArrayLoop
      <4>2. CASE k = "forall"
        BY <1>3, <2>6, <4>2 DEF RunArrayLoop
      <4> QED
        BY <2>6, <4>1, <4>2
    <3>2. DOMAIN chunks' = {0}
      BY <2>6, FirstOrNone
    <3>3. chosen.to \in Addr /\ Counted(chosen.store, G, HandlesOfDomains)
      <4>1. CASE k = "forLoop"
        <5>1. chosen.to = n /\ chosen.store = AddRef(Store, n)
          BY <4>1
        <5> HIDE DEF chosen
        <5> QED
          BY <2>1, <5>1, AddRefCounted
      <4>2. CASE k = "forall"
        <5> DEFINE F == [Handles EXCEPT ![chosen.to] = 1]
        <5>1. chosen = DeepCopy(Store, n)
          BY <4>2
        <5> HIDE DEF chosen
        <5>2. chosen.to \in Addr \ DOMAIN arrays /\ Counted(chosen.store, F, HandlesOfDomains)
          <6>1. Store.arrays = arrays
            BY DEF Store
          <6> QED
            BY <2>1, <5>1, <6>1, DeepCopyCounted
        <5>3. Handles[chosen.to] = 0
          BY <2>1, <5>2 DEF Counted, Store
        <5>4. F = G
          BY <2>2, <5>2, <5>3
        <5> QED
          BY <5>2, <5>4
      <4> QED
        BY <2>6, <4>1, <4>2
    <3> HIDE DEF chosen
    <3>4. Counted(Store', G, HandlesOfDomains)
      BY <3>1, <3>3, NextStore DEF Counted
    <3>5. target' \in [DOMAIN target' -> Addr] /\ Targets' /\ Owning'
      BY <1>1, <2>3, <2>4, <2>6, <3>1, <3>3 DEF Targets
    <3>6. ASSUME NEW m \in Addr PROVE ArrayHandles(m)' = G[m]
      <4>1. Iterating(m)' = IF m = chosen.to THEN {0} ELSE {}
        BY <3>1, <3>2, <3>5 DEF Iterating
      <4>2. Cardinality(Iterating(m)') = IF m = chosen.to THEN 1 ELSE 0
        BY <4>1, FS_EmptySet, FS_Singleton
      <4> QED
        BY <2>2, <2>3, <3>3, <4>2 DEF ArrayHandles, Names
    <3> QED
      BY <1>1, <1>3, <3>4, <3>5, <3>6, InsideStep
  <2> QED
    BY <2>5, <2>6 DEF Kinds
<1> QED
  BY <1>2, <1>3

\* The body writes to what its chunk iterates over.
LEMMA BeginArrayKeeps ==
  ASSUME LoopInvariant, ArrayInvariant, NEW s \in DOMAIN chunks, BeginArray(s),
         UNCHANGED exprVars
  PROVE  ArrayInvariant'
<1>1. TypeOK /\ pc = "running"
  BY DEF LoopInvariant, ChunksWhileRunning, TypeOK
<1>2. /\ pc' = pc /\ kind' = kind /\ it' = it /\ handle' = handle /\ target' = target
      /\ DOMAIN chunks' = DOMAIN chunks
  BY DEF BeginArray, Begin, exprVars
<1>3. CASE ~Declared("a")
  BY <1>2, <1>3, UndeclaredKeeps DEF BeginArray
<1>4. CASE Declared("a")
  <2> DEFINE n == target[s]
             v == Plus(arrays[n].data, chunks[s].first + 1)
             t == [doms |-> doms, arrays |-> [arrays EXCEPT ![n].data = v]]
  <2>1. doms' = doms /\ arrays' \in {arrays, [arrays EXCEPT ![n].data = v]}
    <3>1. CASE Owning
      BY <1>4, <3>1 DEF BeginArray, StoreBecomes, Store
    <3>2. CASE ~Owning
      BY <3>2 DEF BeginArray
    <3> QED
      BY <3>1, <3>2
  <2>2. n \in DOMAIN arrays /\ Counted(Store, Handles, HandlesOfDomains)
    <3>1. s \in DOMAIN target
      BY <1>1, <1>4 DEF ArrayInvariant, Targets, InLoop
    <3> QED
      BY <1>1, <3>1, HandlesLead DEF ArrayInvariant
  <2> HIDE DEF v, n
  <2>3. Counted(t, Handles, HandlesOfDomains)
    <3>1. n \in DOMAIN Store.arrays /\ t = [doms |-> Store.doms,
                                            arrays |-> [Store.arrays EXCEPT ![n].data = v]]
      BY <2>2 DEF Store
    <3> HIDE DEF t
    <3> QED
      BY <2>2, <3>1, WriteCounted
  <2>4. Counted(Store', Handles, HandlesOfDomains)
    BY <2>1, <2>2, <2>3 DEF Store
  <2>5. target' \in [DOMAIN target' -> Addr] /\ Targets' /\ kind # "cobegin"
    BY <1>1, <1>2, <1>4 DEF ArrayInvariant, HandleTypes, NothingBefore, Targets, InLoop,
                            Declared, Owning, Simple
  <2>6. \A m \in Addr : ArrayHandles(m)' = Handles[m]
    BY <1>2 DEF Handles, ArrayHandles, Names, Iterating, Owning, Simple
  <2> QED
    BY <1>1, <1>2, <1>4, <2>4, <2>5, <2>6, InsideStep
<1> QED
  BY <1>3, <1>4

\* Each piece of a cut chunk has a copy, and the chunk's own copy goes.
LEMMA SplitArrayKeeps ==
  ASSUME LoopInvariant, ArrayInvariant, NEW s \in DOMAIN chunks, NEW n \in Positions,
         SplitArray(s, n), UNCHANGED exprVars
  PROVE  ArrayInvariant'
<1>1. /\ TypeOK /\ pc = "running"
      /\ s \in Nat /\ n \in Nat /\ n > 0 /\ chunks[s].size \in Nat
  BY LoopAssumption DEF LoopInvariant, ChunksWhileRunning, TypeOK, SplitArray, Split,
                        Positions, Chunk
<1>2. /\ pc' = pc /\ kind' = kind /\ it' = it /\ handle' = handle
      /\ DOMAIN chunks' = DOMAIN chunks \cup {s + n}
      /\ kind = "forall"
  BY DEF SplitArray, Split, exprVars
<1>3. s + n \notin DOMAIN chunks
  <2>1. Stop(s) = s + chunks[s].size /\ n < chunks[s].size
    BY <1>1 DEF SplitArray, Split, Stop, Upcoming
  <2> SUFFICES ASSUME s + n \in DOMAIN chunks PROVE FALSE
    OBVIOUS
  <2>2. Stop(s) <= s + n
    BY <1>1 DEF LoopInvariant, ChunksApart
  <2> QED
    BY <1>1, <2>1, <2>2
<1>4. CASE ~Declared("a")
  BY <1>2, <1>4, UndeclaredKeeps DEF SplitArray
<1>5. CASE Declared("a")
  <2> DEFINE n0 == target[s]
  <2>1. /\ s \in DOMAIN target /\ s + n \notin DOMAIN target
        /\ DOMAIN target = DOMAIN chunks /\ target \in [DOMAIN target -> Addr]
    BY <1>1, <1>3, <1>5 DEF ArrayInvariant, Targets, HandleTypes, InLoop
  <2>2. /\ n0 \in DOMAIN Store.arrays /\ n0 \in DOMAIN arrays /\ n0 \in Addr
        /\ Counted(Store, Handles, HandlesOfDomains) /\ Store.arrays = arrays
    BY <1>1, <2>1, HandlesLead DEF ArrayInvariant, Store
  <2>3. /\ Handles \in [Addr -> Nat]
        /\ \A m \in Addr : /\ IsFiniteSet(Iterating(m)) /\ Cardinality(Iterating(m)) \in Nat
                           /\ Handles[m] = Names("a", m) + Names("c", m)
                                           + Cardinality(Iterating(m))
                           /\ m \notin DOMAIN arrays => Iterating(m) = {}
    BY <1>1, <2>2, HandlesAddUp DEF Counted
  <2>4. /\ Declared("a")' /\ InLoop' /\ \A v, m : Names(v, m)' = Names(v, m)
        /\ Owning' = Owning
    BY <1>1, <1>2, <1>5 DEF Declared, InLoop, Names, Owning, Simple
  <2>5. CASE ~Owning
    <3>1. target' = With(target, s + n, target[s]) /\ UNCHANGED <<doms, arrays>>
      BY <1>5, <2>5 DEF SplitArray
    <3>2. Counted(Store', Handles, HandlesOfDomains)
      BY <2>2, <3>1 DEF Store
    <3>3. target' \in [DOMAIN target' -> Addr] /\ Targets'
      BY <1>1, <1>2, <2>1, <2>4, <2>5, <3>1 DEF ArrayInvariant, Targets, With
    <3>4. \A m \in Addr : ArrayHandles(m)' = Handles[m]
      BY <2>4, <2>5 DEF Handles, ArrayHandles, Iterating, Names
    <3> QED
      BY <1>1, <1>2, <1>5, <3>2, <3>3, <3>4, InsideStep
  <2>6. CASE Owning
    <3> DEFINE left == DeepCopy(Store, n0)
               right == DeepCopy(left.store, n0)
               H1 == [Handles EXCEPT ![left.to] = 1]
               H2 == [H1 EXCEPT ![right.to] = 1]
               G == [H2 EXCEPT ![n0] = @ - 1]
               t == Release(right.store, n0)
    <3>1. /\ StoreBecomes(t)
          /\ target' = With(With(target, s, left.to), s + n, right.to)
      BY <1>5, <2>6 DEF SplitArray
    <3> HIDE DEF n0
    <3>2. /\ left.to \in Addr \ DOMAIN arrays
          /\ Counted(left.store, H1, HandlesOfDomains)
          /\ DOMAIN left.store.arrays = DOMAIN arrays \cup {left.to}
      BY <2>2, DeepCopyCounted
    <3> HIDE DEF left, H1
    <3>3. /\ right.to \in Addr \ (DOMAIN arrays \cup {left.to})
          /\ Counted(right.store, H2, HandlesOfDomains)
          /\ DOMAIN right.store.arrays = DOMAIN arrays \cup {left.to, right.to}
      <4>1. n0 \in DOMAIN left.store.arrays
        BY <2>2, <3>2
      <4> QED
        BY <3>2, <4>1, DeepCopyCounted
    <3> HIDE DEF right, H2
    <3>4. Counted(t, G, HandlesOfDomains)
      BY <2>2, <3>3, ReleaseCounted
    <3> HIDE DEF t, G
    <3>5. Counted(Store', G, HandlesOfDomains)
      BY <3>1, <3>4, NextStore DEF Counted
    <3>6. /\ DOMAIN target' = DOMAIN target \cup {s + n}
          /\ target'[s] = left.to /\ target'[s + n] = right.to
          /\ \A p \in DOMAIN target : p # s => target'[p] = target[p]
          /\ target' = [p \in DOMAIN target' |-> target'[p]]
      BY <2>1, <3>1 DEF With
    <3>7. target' \in [DOMAIN target' -> Addr]
      BY <2>1, <3>2, <3>3, <3>6
    <3>8. Targets'
      BY <1>2, <2>1, <2>4, <2>6, <3>6 DEF Targets
    <3>9. ASSUME NEW m \in Addr PROVE ArrayHandles(m)' = G[m]
      <4>1. Iterating(m) = {p \in DOMAIN target : target[p] = m}
        BY <2>6 DEF Iterating
      <4>2. Iterating(m)' = {p \in DOMAIN target' : target'[p] = m}
        BY <2>4, <2>6 DEF Iterating
      <4>3. ArrayHandles(m)' = Names("a", m) + Names("c", m) + Cardinality(Iterating(m)')
        BY <2>4 DEF ArrayHandles
      <4>4. CASE m = n0
        <5>1. Iterating(m)' = Iterating(m) \ {s} /\ s \in Iterating(m)
          BY <2>1, <2>2, <3>2, <3>3, <3>6, <4>1, <4>2, <4>4 DEF n0
        <5>2. Cardinality(Iterating(m)') = Cardinality(Iterating(m)) - 1
          BY <2>3, <5>1, FS_RemoveElement
        <5>3. G[m] = Handles[m] - 1
          BY <2>2, <2>3, <3>2, <3>3, <4>4 DEF G, H2, H1
        <5> QED
          BY <2>3, <4>3, <5>2, <5>3 DEF Names
      <4>5. CASE m = left.to \/ m = right.to
        <5>1. Iterating(m) = {} /\ Handles[m] = 0
          BY <2>2, <2>3, <3>2, <3>3, <4>5 DEF Counted, Store
        <5>2. Iterating(m)' = IF m = left.to THEN {s} ELSE {s + n}
          <6>1. \A p \in DOMAIN target : target[p] # m
            BY <4>1, <5>1
          <6> QED
            BY <1>3, <2>1, <3>3, <3>6, <4>2, <4>5, <6>1
        <5>3. Cardinality(Iterating(m)') = 1
          BY <5>2, FS_Singleton
        <5>4. G[m] = 1 /\ Names("a", m) + Names("c", m) = 0
          <6>1. G[m] = 1
            BY <2>2, <2>3, <3>2, <3>3, <4>5 DEF G, H2, H1
          <6>2. Cardinality(Iterating(m)) = 0
            BY <5>1, FS_EmptySet
          <6> QED
            BY <2>3, <5>1, <6>1, <6>2 DEF Names
        <5> QED
          BY <4>3, <5>3, <5>4 DEF Names
      <4>6. CASE m \notin {n0, left.to, right.to}
        <5>1. Iterating(m)' = Iterating(m)
          BY <1>3, <2>1, <3>6, <4>1, <4>2, <4>6 DEF n0
        <5>2. G[m] = Handles[m]
          BY <2>2, <2>3, <3>2, <3>3, <4>6 DEF G, H2, H1
        <5> QED
          BY <2>3, <4>3, <5>1, <5>2
      <4> QED
        BY <4>4, <4>5, <4>6
    <3> QED
      BY <1>1, <1>2, <1>5, <3>5, <3>7, <3>8, <3>9, InsideStep
  <2> QED
    BY <2>5, <2>6
<1> QED
  BY <1>4, <1>5

\* A coroutine that ends gives its handle back.
LEMMA FinishArrayKeeps ==
  ASSUME LoopInvariant, ArrayInvariant, NEW s \in DOMAIN chunks, FinishArray(s),
         UNCHANGED exprVars
  PROVE  ArrayInvariant'
<1>1. TypeOK /\ pc = "running"
  BY DEF LoopInvariant, ChunksWhileRunning, TypeOK
<1>2. /\ pc' = pc /\ kind' = kind /\ it' = it /\ handle' = handle
      /\ DOMAIN chunks' = DOMAIN chunks \ {s}
  BY DEF FinishArray, Finish, exprVars
<1>3. CASE ~Declared("a")
  BY <1>2, <1>3, UndeclaredKeeps DEF FinishArray
<1>4. CASE Declared("a")
  <2> DEFINE n == target[s]
             G == IF Owning THEN [Handles EXCEPT ![n] = @ - 1] ELSE Handles
  <2>1. /\ s \in DOMAIN target /\ DOMAIN target = DOMAIN chunks
        /\ target \in [DOMAIN target -> Addr]
    BY <1>1, <1>4 DEF ArrayInvariant, Targets, HandleTypes, InLoop
  <2>2. /\ n \in DOMAIN Store.arrays /\ n \in Addr
        /\ Counted(Store, Handles, HandlesOfDomains) /\ Store.arrays = arrays
    BY <1>1, <2>1, HandlesLead DEF ArrayInvariant, Store
  <2>3. /\ Handles \in [Addr -> Nat]
        /\ \A m \in Addr : /\ IsFiniteSet(Iterating(m)) /\ Cardinality(Iterating(m)) \in Nat
                           /\ Handles[m] = Names("a", m) + Names("c", m)
                                           + Cardinality(Iterating(m))
    BY <1>1, <2>2, HandlesAddUp DEF Counted
  <2>4. /\ Declared("a")' /\ InLoop' /\ \A v, m : Names(v, m)' = Names(v, m)
        /\ Owning' = Owning
    BY <1>1, <1>2, <1>4 DEF Declared, InLoop, Names, Owning, Simple
  <2>5. target' = Without(target, s)
    BY <1>4 DEF FinishArray
  <2>6. Counted(Store', G, HandlesOfDomains)
    <3>1. CASE Owning
      <4>1. StoreBecomes(Release(Store, n))
        BY <1>4, <3>1 DEF FinishArray
      <4>2. Counted(Release(Store, n), G, HandlesOfDomains)
        BY <2>2, <3>1, ReleaseCounted
      <4> QED
        BY <4>1, <4>2, NextStore DEF Counted
    <3>2. CASE ~Owning
      BY <1>4, <2>2, <3>2 DEF FinishArray, Store
    <3> QED
      BY <3>1, <3>2
  <2>7. target' \in [DOMAIN target' -> Addr] /\ Targets'
    BY <1>2, <2>1, <2>4, <2>5 DEF ArrayInvariant, Targets, Without
  <2>8. ASSUME NEW m \in Addr PROVE ArrayHandles(m)' = G[m]
    <3>1. ArrayHandles(m)' = Names("a", m) + Names("c", m) + Cardinality(Iterating(m)')
      BY <2>4 DEF ArrayHandles
    <3>2. CASE Owning /\ m = n
      <4>1. Iterating(m)' = Iterating(m) \ {s} /\ s \in Iterating(m)
        BY <2>1, <2>4, <2>5, <3>2 DEF Iterating, Without
      <4>2. Cardinality(Iterating(m)') = Cardinality(Iterating(m)) - 1
        BY <2>3, <4>1, FS_RemoveElement
      <4>3. G[m] = Handles[m] - 1
        BY <2>2, <2>3, <3>2
      <4> QED
        BY <2>3, <3>1, <4>2, <4>3 DEF Names
    <3>3. CASE ~(Owning /\ m = n)
      <4>1. Iterating(m)' = Iterating(m)
        BY <2>1, <2>4, <2>5, <3>3 DEF Iterating, Without
      <4>2. G[m] = Handles[m]
        BY <2>2, <2>3, <3>3
      <4> QED
        BY <2>3, <3>1, <4>1, <4>2
    <3> QED
      BY <3>2, <3>3
  <2>9. kind # "cobegin"
    BY <1>1, <1>4 DEF ArrayInvariant, NothingBefore, InLoop
  <2> HIDE DEF G
  <2> QED
    BY <1>1, <1>2, <1>4, <2>6, <2>7, <2>8, <2>9, InsideStep
<1> QED
  BY <1>3, <1>4

\* Returning a body, giving a statement to hpx and returning from the loop.
LEMMA LoopStepKeeps ==
  ASSUME LoopInvariant, ArrayInvariant, UNCHANGED <<exprVars, arrayVars>>,
         (\E s \in DOMAIN chunks : End(s)) \/ Give \/ Return
  PROVE  ArrayInvariant'
<1>1. /\ TypeOK /\ UNCHANGED <<doms, arrays, handle, target>> /\ it' = it
  BY DEF LoopInvariant, arrayVars, exprVars
<1>2. CASE ~Declared("a")
  BY <1>1, <1>2, UndeclaredKeeps DEF End, Give, Return
<1>3. CASE Declared("a")
  <2>1. kind' = kind /\ pc' # "idle" /\ pc = "running"
    BY DEF End, Give, Return, LoopInvariant, ChunksWhileRunning
  <2>2. kind # "cobegin"
    BY <1>3, <2>1 DEF ArrayInvariant, NothingBefore, InLoop
  <2>3. DOMAIN chunks' = DOMAIN chunks /\ (pc' # "running" => DOMAIN chunks = {})
    <3>1. ~Give
      BY <1>1, <2>2 DEF Give, LoopInvariant, AllGiven, TypeOK
    <3> QED
      BY <2>1, <3>1 DEF End, Return
  <2>4. Owning' = Owning /\ Declared("a")'
    BY <1>1, <1>3, <2>1 DEF Owning, Simple, Declared
  <2>5. target' \in [DOMAIN target' -> Addr] /\ Targets'
    BY <1>1, <1>3, <2>1, <2>3, <2>4 DEF ArrayInvariant, HandleTypes, Targets, InLoop
  <2>6. Counted(Store', Handles, HandlesOfDomains)
    BY <1>1 DEF ArrayInvariant, Store
  <2>7. \A m \in Addr : ArrayHandles(m)' = Handles[m]
    BY <1>1, <2>4 DEF Handles, ArrayHandles, Names, Iterating
  <2> QED
    BY <1>1, <1>3, <2>1, <2>2, <2>5, <2>6, <2>7, InsideStep
<1> QED
  BY <1>2, <1>3

-----------------------------------------------------------------------------
\* At the start there is nothing to count.
LEMMA ArrayInvariantInit == ArrayInit => ArrayInvariant
<1> SUFFICES ASSUME ArrayInit PROVE ArrayInvariant
  OBVIOUS
<1>1. /\ doms = [x \in {} |-> 0] /\ arrays = [x \in {} |-> 0] /\ target = [x \in {} |-> 0]
      /\ handle = [v \in Variables |-> None] /\ pc = "idle"
  BY DEF ArrayInit, NoFunction, ProgInit, LoopInit
<1>2. \A m \in Addr, v \in Variables : Names(v, m) = 0
  BY <1>1 DEF Names, Addr, None
<1>3. \A m \in Addr : ArrayHandles(m) = 0
  <2> SUFFICES ASSUME NEW m \in Addr PROVE ArrayHandles(m) = 0
    OBVIOUS
  <2>1. Iterating(m) = {}
    BY <1>1 DEF Iterating
  <2> QED
    BY <1>2, <2>1, FS_EmptySet DEF ArrayHandles, Variables, ArrayVariables
<1>4. Counted(Store, Handles, HandlesOfDomains)
  <2>1. Store.doms = doms /\ Store.arrays = arrays /\ DOMAIN doms = {} /\ DOMAIN arrays = {}
    BY <1>1 DEF Store
  <2>2. Shape(Store)
    <3>1. IsFiniteSet({})
      BY FS_EmptySet
    <3>2. doms \in [DOMAIN doms -> Nat] /\ arrays = [n \in DOMAIN arrays |-> arrays[n]]
      BY <1>1, <2>1
    <3> QED
      BY <2>1, <3>1, <3>2 DEF Shape, Store
  <2>3. /\ Handles \in [Addr -> Nat] /\ \A m \in Addr : Handles[m] = 0
        /\ HandlesOfDomains \in [Addr -> Nat] /\ \A m \in Addr : HandlesOfDomains[m] = 0
    BY <1>2, <1>3 DEF Handles, HandlesOfDomains, Variables
  <2> QED
    BY <2>1, <2>2, <2>3 DEF Counted
<1>5. HandleTypes /\ Targets
  BY <1>1 DEF HandleTypes, Targets, InLoop, None
<1>6. NothingBefore
  BY <1>1 DEF NothingBefore, InLoop, Declared
<1> QED
  BY <1>4, <1>5, <1>6 DEF ArrayInvariant

\* No step of a program loses or invents a handle.
LEMMA ArrayInvariantStep ==
  LoopInvariant /\ ArrayInvariant /\ [ArrayNext]_progVars => ArrayInvariant'
<1> SUFFICES ASSUME LoopInvariant, ArrayInvariant, [ArrayNext]_progVars
             PROVE  ArrayInvariant'
  OBVIOUS
<1>0. TypeOK
  BY DEF LoopInvariant
<1>1. CASE ~Declared("a") /\ Build /\ UNCHANGED arrayVars
  BY <1>1, UndeclaredKeeps DEF Build, loopVars, arrayVars
<1>2. CASE VariableStep
  BY <1>0, <1>2, DeclareArrayKeeps, CopyArrayKeeps, ElementsKeep, MoveKeeps,
     DeclareOtherKeeps, DropKeeps DEF VariableStep
<1>3. ASSUME NEW k \in Kinds \ {"cobegin"}, NEW b \in BOOLEAN, RunArrayLoop(k, b)
      PROVE  ArrayInvariant'
  BY <1>0, <1>3, RunArrayLoopKeeps
<1>4. ASSUME NEW n \in 1..MaxSize, NEW b \in BOOLEAN,
             ~Declared("a") /\ RunCobegin(n, b) /\ UNCHANGED arrayVars
      PROVE  ArrayInvariant'
  BY <1>4, UndeclaredKeeps DEF RunCobegin, arrayVars
<1>5. ASSUME NEW s \in DOMAIN chunks, ArrayChunkStep(s) PROVE ArrayInvariant'
  <2>1. UNCHANGED exprVars
    BY <1>5 DEF ArrayChunkStep
  <2>2. CASE BeginArray(s)
    BY <2>1, <2>2, BeginArrayKeeps
  <2>3. CASE End(s) /\ UNCHANGED arrayVars
    BY <2>1, <2>3, LoopStepKeeps
  <2>4. CASE FinishArray(s)
    BY <2>1, <2>4, FinishArrayKeeps
  <2>5. ASSUME NEW n \in Positions, SplitArray(s, n) PROVE ArrayInvariant'
    BY <2>1, <2>5, SplitArrayKeeps
  <2> QED
    BY <1>5, <2>2, <2>3, <2>4, <2>5 DEF ArrayChunkStep
<1>6. CASE (Give \/ Return) /\ UNCHANGED <<exprVars, arrayVars>>
  BY <1>6, LoopStepKeeps
<1>7. CASE UNCHANGED progVars
  <2>1. UNCHANGED <<vars, arrayVars>> /\ UNCHANGED <<pc, kind, chunks, it>>
    BY <1>7 DEF progVars, vars, loopVars, exprVars
  <2> QED
    BY <2>1 DEF arrayVars, ArrayInvariant, HandleTypes, Targets, NothingBefore, Store,
                Handles, HandlesOfDomains, ArrayHandles, Names, Iterating, Owning, Simple,
                InLoop, Declared
<1> QED
  BY <1>1, <1>2, <1>3, <1>4, <1>5, <1>6, <1>7 DEF ArrayNext

\* Whatever variables and coroutines end in whatever order, the count of every
\* object is the number of its handles: none is freed with a handle left, and
\* none is left without one.
THEOREM ArraysCountedExactly == ArraySpec => []CountedExactly
<1>1. ArraySpec => []LoopInvariant
  BY ArrayProgramsAreLoopPrograms, ProgramInvariant, PTL
<1>2. ArrayInit => ArrayInvariant
  BY ArrayInvariantInit
<1>3. LoopInvariant /\ ArrayInvariant /\ [ArrayNext]_progVars => ArrayInvariant'
  BY ArrayInvariantStep
<1>4. LoopInvariant /\ ArrayInvariant => CountedExactly
  BY InvariantCounts DEF LoopInvariant
<1> QED
  BY <1>1, <1>2, <1>3, <1>4, PTL DEF ArraySpec
-----------------------------------------------------------------------------
(***************************************************************************)
(* What arrays hold: A and B are tables of array objects.                  *)
(***************************************************************************)
Holds(A, n, v) == n \in DOMAIN A /\ A[n].data = v

\* From A to B the elements of all objects but those of X stay what they are.
Keeps(A, B, X) == \A n \in DOMAIN A \ X : n \in DOMAIN B /\ B[n].data = A[n].data

\* A new array has the elements it was made with; the others keep theirs.
LEMMA BuiltHolds ==
  ASSUME NEW s, NEW H, NEW D, Counted(s, H, D),
         NEW d \in DOMAIN s.doms \cup {None}, NEW data
  PROVE  LET t == BuildArray(s, d, data)
         IN  /\ Fresh(s) \in Addr \ DOMAIN s.arrays
             /\ Holds(t.arrays, Fresh(s), data) /\ Keeps(s.arrays, t.arrays, {})
<1> DEFINE t == BuildArray(s, d, data)
           n == Fresh(s)
           object == [count |-> 1, dom |-> d, data |-> data]
<1>0. s = [doms |-> s.doms, arrays |-> s.arrays]
  BY DEF Counted, Shape
<1>1. n \in Addr /\ n \notin DOMAIN s.arrays
  BY FreshIsFree DEF Counted
<1>2. t.arrays = With(s.arrays, n, object)
  BY <1>0 DEF BuildArray, AddDomRef
<1> HIDE DEF t, n
<1>3. t.arrays[n] = object /\ n \in DOMAIN t.arrays
  BY <1>2 DEF With
<1>4. Keeps(s.arrays, t.arrays, {})
  BY <1>1, <1>2 DEF With, Keeps
<1> QED
  BY <1>1, <1>3, <1>4 DEF Holds, t, n

\* So it has on a domain that goes at once.
LEMMA OnTemporaryHolds ==
  ASSUME NEW s, NEW H, NEW D, Counted(s, H, D), NEW data
  PROVE  LET d == Fresh(s)
             m == Fresh(NewDom(s))
             t == ReleaseDom(BuildArray(NewDom(s), d, data), d)
         IN  /\ m \in Addr \ DOMAIN s.arrays
             /\ Holds(t.arrays, m, data) /\ Keeps(s.arrays, t.arrays, {})
<1> DEFINE d == Fresh(s)
           withDom == NewDom(s)
           built == BuildArray(withDom, d, data)
           E == [D EXCEPT ![d] = 1]
           m == Fresh(withDom)
           G == [H EXCEPT ![m] = 1]
<1>1. /\ Counted(withDom, H, E)
      /\ DOMAIN withDom.doms = DOMAIN s.doms \cup {d} /\ withDom.arrays = s.arrays
  BY NewDomCounted
<1> HIDE DEF withDom, E, d
<1>2. Counted(built, G, E)
  BY <1>1, BuildArrayCounted
<1>3. /\ m \in Addr \ DOMAIN s.arrays
      /\ Holds(built.arrays, m, data) /\ Keeps(s.arrays, built.arrays, {})
  BY <1>1, BuiltHolds
<1> HIDE DEF built, m, G
<1>4. ReleaseDom(built, d).arrays = built.arrays
  BY <1>2 DEF ReleaseDom, Counted, Shape
<1> QED
  BY <1>3, <1>4 DEF m, built, withDom, d

\* A copy has the elements of the original.
LEMMA DeepCopyHolds ==
  ASSUME NEW s, NEW H, NEW D, Counted(s, H, D), NEW n \in DOMAIN s.arrays
  PROVE  LET copy == DeepCopy(s, n)
         IN  /\ copy.to \in Addr \ DOMAIN s.arrays /\ Keeps(s.arrays, copy.store.arrays, {})
             /\ \A v \in Seq(Nat) : Holds(s.arrays, n, v) => Holds(copy.store.arrays, copy.to, v)
<1> DEFINE copy == DeepCopy(s, n)
           data == s.arrays[n].data
           whole == Zipped([i \in DOMAIN data |-> 0], data)
<1>1. CASE s.arrays[n].dom = None
  <2>1. copy = [to |-> Fresh(s), store |-> BuildArray(s, None, data)]
    BY <1>1 DEF DeepCopy
  <2>2. copy.to = Fresh(s) /\ copy.store = BuildArray(s, None, data)
    BY <2>1
  <2> HIDE DEF copy, data
  <2>3. /\ copy.to \in Addr \ DOMAIN s.arrays
        /\ Holds(copy.store.arrays, copy.to, data) /\ Keeps(s.arrays, copy.store.arrays, {})
    BY <2>2, BuiltHolds
  <2> QED
    BY <2>3 DEF copy, data, Holds
<1>2. CASE s.arrays[n].dom # None
  <2>1. copy = [to |-> Fresh(NewDom(s)),
                store |-> ReleaseDom(BuildArray(NewDom(s), Fresh(s), whole), Fresh(s))]
    BY <1>2 DEF DeepCopy
  <2>2. /\ copy.to = Fresh(NewDom(s))
        /\ copy.store = ReleaseDom(BuildArray(NewDom(s), Fresh(s), whole), Fresh(s))
    BY <2>1
  <2>3. \A v \in Seq(Nat) : data = v => whole = v
    BY DEF Zipped
  <2> HIDE DEF copy, whole, data
  <2>4. /\ copy.to \in Addr \ DOMAIN s.arrays
        /\ Holds(copy.store.arrays, copy.to, whole) /\ Keeps(s.arrays, copy.store.arrays, {})
    BY <2>2, OnTemporaryHolds
  <2> QED
    BY <2>3, <2>4 DEF copy, data, Holds
<1> QED
  BY <1>1, <1>2

\* A released object takes no other's elements with it.
LEMMA ReleaseHolds ==
  ASSUME NEW s, NEW H, NEW D, Counted(s, H, D), NEW n \in DOMAIN s.arrays
  PROVE  Keeps(s.arrays, Release(s, n).arrays, {n})
<1> DEFINE left == [s EXCEPT !.arrays = Without(@, n)]
<1>1. s = [doms |-> s.doms, arrays |-> s.arrays]
  BY DEF Counted, Shape
<1>2. CASE s.arrays[n].count > 1
  <2>1. Release(s, n).arrays = [s.arrays EXCEPT ![n].count = @ - 1]
    BY <1>1, <1>2 DEF Release
  <2> QED
    BY <2>1 DEF Keeps
<1>3. CASE ~(s.arrays[n].count > 1)
  <2>1. left.arrays = Without(s.arrays, n) /\ left = [doms |-> s.doms, arrays |-> left.arrays]
    BY <1>1
  <2>2. Release(s, n).arrays = left.arrays
    <3> HIDE DEF left
    <3>1. \A d : ReleaseDom(left, d).arrays = left.arrays
      BY <2>1 DEF ReleaseDom
    <3>2. Release(s, n) = IF s.arrays[n].dom = None THEN left
                          ELSE ReleaseDom(left, s.arrays[n].dom)
      BY <1>3 DEF Release, left
    <3> QED
      BY <3>1, <3>2
  <2> QED
    BY <2>1, <2>2 DEF Without, Keeps
<1> QED
  BY <1>2, <1>3

\* One handle more changes no element.
LEMMA AddRefHolds ==
  ASSUME NEW s, NEW H, NEW D, Counted(s, H, D), NEW n \in DOMAIN s.arrays
  PROVE  Keeps(s.arrays, AddRef(s, n).arrays, {})
<1>0. s = [doms |-> s.doms, arrays |-> s.arrays]
  BY DEF Counted, Shape
<1>1. AddRef(s, n).arrays = [s.arrays EXCEPT ![n].count = @ + 1]
  BY <1>0 DEF AddRef
<1> QED
  BY <1>1 DEF Counted, Shape, Keeps

\* Writing to one array changes no other.
LEMMA WriteHolds ==
  ASSUME NEW s, NEW H, NEW D, Counted(s, H, D), NEW n \in DOMAIN s.arrays, NEW v
  PROVE  LET A == [s.arrays EXCEPT ![n].data = v]
         IN  Holds(A, n, v) /\ Keeps(s.arrays, A, {n})
<1> DEFINE A == [s.arrays EXCEPT ![n].data = v]
<1>1. /\ DOMAIN A = DOMAIN s.arrays
      /\ A[n] = [count |-> s.arrays[n].count, dom |-> s.arrays[n].dom, data |-> v]
      /\ \A m \in DOMAIN s.arrays : m # n => A[m] = s.arrays[m]
  BY DEF Counted, Shape
<1> HIDE DEF A
<1>2. Holds(A, n, v) /\ Keeps(s.arrays, A, {n})
  BY <1>1 DEF Holds, Keeps
<1> QED
  BY <1>2 DEF A

\* What an object holds it still holds, where its elements are kept.
LEMMA HoldsOn ==
  ASSUME NEW A, NEW B, NEW X, Keeps(A, B, X), NEW n, NEW v, Holds(A, n, v), n \notin X
  PROVE  Holds(B, n, v)
  BY DEF Holds, Keeps
-----------------------------------------------------------------------------
(***************************************************************************)
(* Where an index is.                                                      *)
(***************************************************************************)
\* The element of the i-th index of a domain is the i-th, and the i-th index
\* has that place only.
LEMMA Places ==
  ASSUME ExprTyped, WholeSequence, it.kind = "domain"
  PROVE  /\ Len(Denotes) \in Nat /\ IterandSize(it) = Len(Denotes)
         /\ \A i \in 1..Len(Denotes) : DomainIndexOrder(it.rs, Denotes[i]) = i - 1
         /\ \A p \in 0..(Len(Denotes) - 1) : PlaceOf(IndexAt(it, p)) = p + 1
<1> DEFINE L == Len(Denotes)
           rs == it.rs
<1>1. rs \in Seq(BoundedRange) /\ Len(rs) > 0 /\ IterandIsBounded(it)
  <2>1. rs \in Seq(AnyRange) /\ Len(rs) > 0 /\ \A i \in 1..Len(rs) : IsBounded(rs[i])
    BY DEF ExprTyped
  <2>2. \A i \in 1..Len(rs) : rs[i] \in BoundedRange
    <3> TAKE i \in 1..Len(rs)
    <3>1. rs[i] \in AnyRange /\ IsBounded(rs[i])
      BY <2>1
    <3> HIDE DEF rs
    <3> QED
      BY <3>1, AnyRangeTypes
  <2>3. IterandIsBounded(it)
    BY <2>1 DEF IterandIsBounded
  <2> HIDE DEF rs
  <2> QED
    BY <2>1, <2>2, <2>3
<1>2. /\ L \in Nat /\ IterandSize(it) = L /\ DomainSize(rs) = L
      /\ \A p \in 0..(L - 1) : IndexAt(it, p) = Denotes[p + 1]
  <2>1. IterandSize(it) = DomainSize(rs)
    BY DEF IterandSize
  <2> QED
    BY <1>1, <2>1 DEF WholeSequence
<1>3. \A p \in 0..(L - 1) : IndexAt(it, p) = DomainOrderToIndex(rs, p)
  BY DEF IndexAt
<1> HIDE DEF L, rs
<1>4. ASSUME NEW i \in 1..L PROVE DomainIndexOrder(rs, Denotes[i]) = i - 1
  <2>1. i - 1 \in 0..(L - 1) /\ i - 1 \in Nat /\ i - 1 < DomainSize(rs) /\ (i - 1) + 1 = i
    BY <1>2
  <2>2. Denotes[i] = DomainOrderToIndex(rs, i - 1)
    BY <1>2, <1>3, <2>1
  <2>3. DomainIndexOrder(rs, DomainOrderToIndex(rs, i - 1)) = i - 1
    BY <1>1, <2>1, DomainIndexOrderInverts
  <2> QED
    BY <2>2, <2>3
<1>5. ASSUME NEW p \in 0..(L - 1) PROVE PlaceOf(IndexAt(it, p)) = p + 1
  <2> DEFINE idx == IndexAt(it, p)
             place == PlaceOf(idx)
  <2>1. p + 1 \in 1..L /\ Denotes[p + 1] = idx
    BY <1>2
  <2>2. place \in 1..L /\ Denotes[place] = idx
    <3>1. place = CHOOSE i \in 1..L : Denotes[i] = idx
      BY DEF PlaceOf, L
    <3> HIDE DEF idx, place
    <3> QED
      BY <2>1, <3>1
  <2> HIDE DEF idx, place
  <2>3. place - 1 = (p + 1) - 1
    BY <1>4, <2>1, <2>2
  <2>4. place = p + 1
    BY <1>2, <2>1, <2>2, <2>3
  <2> QED
    BY <2>4 DEF place, idx
<1> QED
  BY <1>2, <1>4, <1>5 DEF L, rs
-----------------------------------------------------------------------------
(***************************************************************************)
(* Why an array has the values the program gave it: the object of each     *)
(* variable holds them, place by place; no two variables have one object;  *)
(* and a loop writes to the object of "a" (forLoop) or to objects that no  *)
(* variable has (forall).                                                  *)
(***************************************************************************)
VariablesHold ==
  \A v \in ArrayVariables : Declared(v) => Holds(arrays, handle[v], means[v])

OnTheDomain ==
  Declared("a") => it.kind = "domain" /\ Len(means["a"]) = IterandSize(it)

Apart == Declared("a") /\ Declared("c") => handle["a"] # handle["c"]

Writable ==
  Owning => \A s \in DOMAIN target :
    IF kind = "forLoop" THEN target[s] = handle["a"]
    ELSE target[s] # handle["a"] /\ target[s] # handle["c"]

Valued ==
  /\ means \in [ArrayVariables -> Seq(Nat)]
  /\ VariablesHold
  /\ OnTheDomain
  /\ Apart
  /\ Writable

\* Then an element is what the program has made of the element at its index.
LEMMA ValuedByIndex ==
  ASSUME ExprTyped, WholeSequence, Valued
  PROVE  ByValue
<1>1. ASSUME Declared("a"), NEW i \in DOMAIN means["a"]
      PROVE  arrays[handle["a"]].data[DomainIndexOrder(it.rs, Denotes[i]) + 1] = means["a"][i]
  <2>1. /\ means["a"] \in Seq(Nat) /\ arrays[handle["a"]].data = means["a"]
        /\ it.kind = "domain" /\ Len(means["a"]) = IterandSize(it)
    BY <1>1 DEF Valued, VariablesHold, OnTheDomain, Holds, ArrayVariables
  <2>2. i \in 1..Len(Denotes) /\ i \in Int /\ DomainIndexOrder(it.rs, Denotes[i]) = i - 1
    BY <2>1, Places
  <2>3. (i - 1) + 1 = i
    BY <2>2
  <2> QED
    BY <2>1, <2>2, <2>3
<1>2. Declared("c") => arrays[handle["c"]].data = means["c"]
  BY DEF Valued, VariablesHold, Holds, ArrayVariables
<1> QED
  BY <1>1, <1>2 DEF ByValue

\* Outside a loop nobody iterates over anything: of a step there it is enough
\* to say what the variables hold.
LEMMA OutsideValued ==
  ASSUME ArrayInvariant, ~InLoop, UNCHANGED <<vars, target>>,
         means' \in [ArrayVariables -> Seq(Nat)],
         VariablesHold', Apart',
         Declared("a")' => it.kind = "domain" /\ Len(means["a"]') = IterandSize(it)
  PROVE  Valued'
<1>1. DOMAIN target = {} /\ target' = target /\ it' = it
  BY OutsideHandles DEF vars, exprVars
<1>2. Writable'
  BY <1>1 DEF Writable
<1>3. OnTheDomain'
  BY <1>1 DEF OnTheDomain
<1> QED
  BY <1>2, <1>3 DEF Valued

\* Sequences of zeros, parts taken over and one added: values are sequences.
LEMMA ZerosAreValues ==
  ASSUME NEW n \in Nat
  PROVE  [i \in 1..n |-> 0] \in Seq(Nat) /\ Len([i \in 1..n |-> 0]) = n
<1>1. [i \in 1..n |-> 0] \in [1..n -> Nat]
  OBVIOUS
<1> QED
  BY <1>1

\* An assigned value is a value, whichever of the two arrays is the longer.
LEMMA ZippedIsValue ==
  ASSUME NEW s \in Seq(Nat), NEW t \in Seq(Nat)
  PROVE  Zipped(s, t) \in Seq(Nat)
<1>1. DOMAIN s = 1..Len(s) /\ DOMAIN t = 1..Len(t) /\ Len(s) \in Nat
  OBVIOUS
<1>2. \A i \in 1..Len(s) : (IF i \in DOMAIN t THEN t[i] ELSE s[i]) \in Nat
  BY <1>1
<1> DEFINE n == Len(s)
           z == Zipped(s, t)
<1>3. z \in [1..n -> Nat] /\ n \in Nat
  BY <1>1, <1>2 DEF Zipped
<1> HIDE DEF z, n
<1>4. z \in Seq(Nat)
  BY <1>3
<1> QED
  BY <1>4 DEF z

\* So is one with an element that is one more, and it is as long.
LEMMA PlusIsValue ==
  ASSUME NEW s \in Seq(Nat), NEW i
  PROVE  Plus(s, i) \in Seq(Nat) /\ Len(Plus(s, i)) = Len(s)
<1>1. DOMAIN s = 1..Len(s) /\ Len(s) \in Nat /\ DOMAIN Plus(s, i) = DOMAIN s
  BY DEF Plus
<1>2. \A j \in 1..Len(s) : Plus(s, i)[j] \in Nat
  BY <1>1 DEF Plus
<1>3. Plus(s, i) = [j \in 1..Len(s) |-> Plus(s, i)[j]]
  BY <1>1 DEF Plus
<1> HIDE DEF Plus
<1>4. Plus(s, i) \in [1..Len(s) -> Nat]
  BY <1>2, <1>3
<1> QED
  BY <1>1, <1>4

\* A new array is all zeros, one for each index of its domain.
LEMMA DeclareArrayValued ==
  ASSUME ExprTyped, WholeSequence, ArrayInvariant, Valued, DeclareArray
  PROVE  Valued'
<1> DEFINE H == Handles
           D == HandlesOfDomains
           zeros == [i \in 1..IterandSize(it) |-> 0]
           domain == IF Simple THEN None ELSE Fresh(Store)
           s == IF Simple THEN Store ELSE NewDom(Store)
           n == Fresh(s)
           built == BuildArray(s, domain, zeros)
           E == IF Simple THEN D ELSE [D EXCEPT ![domain] = 1]
<1>1. /\ StoreBecomes(built) /\ UNCHANGED <<vars, target>> /\ ~InLoop
      /\ handle' = [handle EXCEPT !["domain"] = domain, !["a"] = n]
      /\ means' = [means EXCEPT !["a"] = [i \in 1..Len(Denotes) |-> 0]]
      /\ it.kind = "domain" /\ ~Declared("c")
  BY DEF DeclareArray, InLoop, ArrayInvariant, NothingBefore, Variables, ArrayVariables
<1>2. /\ IterandSize(it) = Len(Denotes) /\ Len(Denotes) \in Nat
  BY <1>1, Places
<1>3. zeros \in Seq(Nat) /\ Len(zeros) = IterandSize(it)
  BY <1>2, ZerosAreValues
<1>4. Counted(Store, H, D)
  BY DEF ArrayInvariant
<1>5. Fresh(Store) \in Addr
  BY <1>4, FreshIsFree DEF Counted
<1>6. means' = [means EXCEPT !["a"] = zeros]
  BY <1>1, <1>2
<1> HIDE DEF H, D, zeros
<1>7. Counted(s, H, E) /\ domain \in DOMAIN s.doms \cup {None}
  BY <1>4, <1>5, NewDomCounted DEF Addr, None
<1> HIDE DEF s, domain
<1>8. n \in Addr /\ Holds(built.arrays, n, zeros)
  BY <1>7, BuiltHolds
<1> HIDE DEF built, n
<1>9. /\ handle'["a"] = n /\ handle'["c"] = None
  BY <1>1 DEF ArrayInvariant, HandleTypes, Variables, ArrayVariables, Declared
<1>10. /\ means' \in [ArrayVariables -> Seq(Nat)] /\ means'["a"] = zeros
  BY <1>3, <1>6 DEF Valued, ArrayVariables
<1>11. Holds(arrays', n, zeros)
  BY <1>1, <1>8 DEF StoreBecomes
<1>12. VariablesHold' /\ Apart'
  BY <1>9, <1>10, <1>11 DEF VariablesHold, Apart, ArrayVariables, Declared
<1> QED
  BY <1>1, <1>3, <1>10, <1>12, OutsideValued

\* A copy has the value of the array.
LEMMA CopyArrayValued ==
  ASSUME TypeOK, ArrayInvariant, Valued, CopyArray
  PROVE  Valued'
<1> DEFINE copy == DeepCopy(Store, handle["a"])
<1>1. /\ StoreBecomes(copy.store) /\ UNCHANGED <<vars, target>> /\ ~InLoop
      /\ handle' = [handle EXCEPT !["c"] = copy.to]
      /\ means' = [means EXCEPT !["c"] = means["a"]]
      /\ Declared("a")
  BY DEF CopyArray
<1>2. /\ handle["a"] \in DOMAIN Store.arrays /\ Store.arrays = arrays
      /\ Counted(Store, Handles, HandlesOfDomains)
  BY <1>1, HandlesLead DEF ArrayInvariant, ArrayVariables, Store
<1>3. means["a"] \in Seq(Nat) /\ Holds(arrays, handle["a"], means["a"])
  BY <1>1 DEF Valued, VariablesHold, ArrayVariables
<1>4. /\ copy.to \in Addr \ DOMAIN arrays /\ Keeps(arrays, copy.store.arrays, {})
      /\ Holds(copy.store.arrays, copy.to, means["a"])
  BY <1>2, <1>3, DeepCopyHolds
<1> HIDE DEF copy
<1>5. Holds(copy.store.arrays, handle["a"], means["a"])
  BY <1>3, <1>4, HoldsOn
<1>6. arrays' = copy.store.arrays
  BY <1>1 DEF StoreBecomes
<1>7. handle'["a"] = handle["a"] /\ handle'["c"] = copy.to /\ handle["a"] # copy.to
  BY <1>1, <1>2, <1>4 DEF ArrayInvariant, HandleTypes, Variables, ArrayVariables
<1>8. /\ means' \in [ArrayVariables -> Seq(Nat)]
      /\ means'["a"] = means["a"] /\ means'["c"] = means["a"]
  BY <1>1, <1>3 DEF Valued, ArrayVariables
<1>9. VariablesHold' /\ Apart'
  BY <1>4, <1>5, <1>6, <1>7, <1>8 DEF VariablesHold, Apart, ArrayVariables, Declared
<1>10. Declared("a")' => it.kind = "domain" /\ Len(means["a"]') = IterandSize(it)
  BY <1>1, <1>8 DEF Valued, OnTheDomain
<1> QED
  BY <1>1, <1>8, <1>9, <1>10, OutsideValued

\* An array of another size is zeros too, and the first keeps its value.
LEMMA DeclareOtherValued ==
  ASSUME TypeOK, ArrayInvariant, Valued, NEW size0 \in Nat, DeclareOther(size0)
  PROVE  Valued'
<1> DEFINE zeros == [i \in 1..size0 |-> 0]
           n == IF Simple THEN Fresh(Store) ELSE Fresh(NewDom(Store))
           t == IF Simple THEN BuildArray(Store, None, zeros)
                ELSE ReleaseDom(BuildArray(NewDom(Store), Fresh(Store), zeros), Fresh(Store))
<1>1. /\ StoreBecomes(t) /\ UNCHANGED <<vars, target>> /\ ~InLoop
      /\ handle' = [handle EXCEPT !["c"] = n]
      /\ means' = [means EXCEPT !["c"] = zeros]
      /\ Declared("a")
  <2>1. CASE Simple
    BY <2>1 DEF DeclareOther, InLoop
  <2>2. CASE ~Simple
    BY <2>2 DEF DeclareOther, InLoop
  <2> QED
    BY <2>1, <2>2
<1>2. /\ Counted(Store, Handles, HandlesOfDomains) /\ Store.arrays = arrays
      /\ handle["a"] \in DOMAIN arrays
  BY <1>1, HandlesLead DEF ArrayInvariant, Store, ArrayVariables
<1>3. zeros \in Seq(Nat)
  BY ZerosAreValues
<1>4. means["a"] \in Seq(Nat) /\ Holds(arrays, handle["a"], means["a"])
  BY <1>1 DEF Valued, VariablesHold, ArrayVariables
<1> HIDE DEF zeros
<1>5. /\ n \in Addr \ DOMAIN arrays
      /\ Holds(t.arrays, n, zeros) /\ Keeps(arrays, t.arrays, {})
  <2>1. CASE Simple
    BY <1>2, <2>1, BuiltHolds
  <2>2. CASE ~Simple
    BY <1>2, <2>2, OnTemporaryHolds
  <2> QED
    BY <2>1, <2>2
<1> HIDE DEF n, t
<1>6. Holds(arrays', handle["a"], means["a"]) /\ Holds(arrays', n, zeros)
  BY <1>1, <1>4, <1>5, HoldsOn DEF StoreBecomes
<1>7. handle'["a"] = handle["a"] /\ handle'["c"] = n /\ handle["a"] # n
  BY <1>1, <1>2, <1>5 DEF ArrayInvariant, HandleTypes, Variables, ArrayVariables
<1>8. /\ means' \in [ArrayVariables -> Seq(Nat)]
      /\ means'["a"] = means["a"] /\ means'["c"] = zeros
  BY <1>1, <1>3 DEF Valued, ArrayVariables
<1>9. VariablesHold' /\ Apart'
  BY <1>6, <1>7, <1>8 DEF VariablesHold, Apart, ArrayVariables, Declared
<1>10. Declared("a")' => it.kind = "domain" /\ Len(means["a"]') = IterandSize(it)
  BY <1>1, <1>8 DEF Valued, OnTheDomain
<1> QED
  BY <1>1, <1>8, <1>9, <1>10, OutsideValued

\* What both arrays are, when both are there.
LEMMA ValuesThere ==
  ASSUME TypeOK, ArrayInvariant, Valued, NEW v \in ArrayVariables, Declared(v)
  PROVE  /\ handle[v] \in DOMAIN arrays /\ means[v] \in Seq(Nat)
         /\ Holds(arrays, handle[v], means[v]) /\ arrays[handle[v]].data = means[v]
         /\ Store = [doms |-> doms, arrays |-> arrays]
         /\ Store.arrays = arrays /\ Counted(Store, Handles, HandlesOfDomains)
<1>1. handle[v] \in DOMAIN arrays
  BY HandlesLead
<1>2. Store = [doms |-> doms, arrays |-> arrays] /\ Store.arrays = arrays
  BY DEF Store
<1>3. means[v] \in Seq(Nat) /\ Holds(arrays, handle[v], means[v])
  BY DEF Valued, VariablesHold
<1> QED
  BY <1>1, <1>2, <1>3 DEF Holds, ArrayInvariant

\* An assigned array has the other's elements as far as it has elements.
LEMMA AssignValued ==
  ASSUME TypeOK, ArrayInvariant, Valued, Assign
  PROVE  Valued'
<1> DEFINE n == handle["c"]
           from == arrays[handle["a"]].data
           to == arrays[handle["c"]].data
           new == IF Simple THEN from ELSE Zipped(to, from)
           A == [arrays EXCEPT ![n].data = new]
<1>1. /\ arrays' = A /\ UNCHANGED <<vars, target, handle>> /\ ~InLoop
      /\ means' = [means EXCEPT !["c"] = IF Simple THEN means["a"]
                                         ELSE Zipped(means["c"], means["a"])]
      /\ Declared("a") /\ Declared("c")
  <2>1. means' = [means EXCEPT !["c"] = IF Simple THEN means["a"]
                                        ELSE Zipped(means["c"], means["a"])]
    BY DEF Assign
  <2> QED
    BY <2>1 DEF Assign, InLoop, StoreBecomes, Store
<1>2. /\ n \in DOMAIN arrays /\ from = means["a"] /\ to = means["c"]
      /\ from \in Seq(Nat) /\ to \in Seq(Nat)
      /\ Holds(arrays, handle["a"], from)
      /\ Store.arrays = arrays /\ Counted(Store, Handles, HandlesOfDomains)
  BY <1>1, ValuesThere DEF ArrayVariables
<1>3. new \in Seq(Nat)
  BY <1>2, ZippedIsValue
<1>4. means' = [means EXCEPT !["c"] = new]
  BY <1>1, <1>2
<1> HIDE DEF new, from, to
<1>5. Holds(A, n, new) /\ Keeps(arrays, A, {n})
  BY <1>2, WriteHolds
<1> HIDE DEF A, n
<1>6. handle["a"] # n
  BY <1>1 DEF Valued, Apart, n
<1>7. Holds(A, handle["a"], from)
  BY <1>2, <1>5, <1>6, HoldsOn
<1>8. /\ means' \in [ArrayVariables -> Seq(Nat)]
      /\ means'["a"] = means["a"] /\ means'["c"] = new
  BY <1>3, <1>4 DEF Valued, ArrayVariables
<1>9. VariablesHold' /\ Apart'
  BY <1>1, <1>2, <1>5, <1>6, <1>7, <1>8 DEF VariablesHold, Apart, ArrayVariables, Declared, n
<1>10. Declared("a")' => it.kind = "domain" /\ Len(means["a"]') = IterandSize(it)
  BY <1>1, <1>8 DEF Valued, OnTheDomain
<1> QED
  BY <1>1, <1>8, <1>9, <1>10, OutsideValued

\* Writing to a(idx) changes the element at the index, and no other array.
LEMMA WriteAtValued ==
  ASSUME ExprTyped, WholeSequence, TypeOK, ArrayInvariant, Valued,
         NEW i \in DOMAIN means["a"], WriteAt(i)
  PROVE  Valued'
<1> DEFINE n == handle["a"]
           place == DomainIndexOrder(it.rs, Denotes[i]) + 1
           new == Plus(means["a"], i)
           A == [arrays EXCEPT ![n].data = new]
<1>1. /\ arrays' = [arrays EXCEPT ![n].data = Plus(arrays[n].data, place)]
      /\ UNCHANGED <<vars, target, handle>> /\ ~InLoop
      /\ means' = [means EXCEPT !["a"] = new]
      /\ Declared("a")
  <2>1. means' = [means EXCEPT !["a"] = new]
    BY DEF WriteAt
  <2>2. arrays' = [arrays EXCEPT ![n].data = Plus(arrays[n].data, place)]
    BY DEF WriteAt, StoreBecomes, Store
  <2> QED
    BY <2>1, <2>2 DEF WriteAt, InLoop
<1>2. /\ n \in DOMAIN arrays /\ arrays[n].data = means["a"] /\ means["a"] \in Seq(Nat)
      /\ Store.arrays = arrays /\ Counted(Store, Handles, HandlesOfDomains)
  BY <1>1, ValuesThere DEF ArrayVariables
<1>3. place = i
  <2>1. it.kind = "domain" /\ Len(means["a"]) = IterandSize(it)
    BY <1>1 DEF Valued, OnTheDomain
  <2>2. i \in 1..Len(Denotes) /\ i \in Int /\ DomainIndexOrder(it.rs, Denotes[i]) = i - 1
    BY <1>2, <2>1, Places
  <2> QED
    BY <2>2
<1>4. arrays' = A
  BY <1>1, <1>2, <1>3
<1>5. new \in Seq(Nat) /\ Len(new) = Len(means["a"])
  BY <1>2, PlusIsValue
<1> HIDE DEF new
<1>6. Holds(A, n, new) /\ Keeps(arrays, A, {n})
  BY <1>2, WriteHolds
<1> HIDE DEF A, n
<1>7. Declared("c") => handle["c"] # n /\ Holds(A, handle["c"], means["c"])
  BY <1>1, <1>6, HoldsOn DEF Valued, VariablesHold, Apart, n, ArrayVariables
<1>8. /\ means' \in [ArrayVariables -> Seq(Nat)]
      /\ means'["a"] = new /\ means'["c"] = means["c"]
  BY <1>1, <1>5 DEF Valued, ArrayVariables
<1>9. VariablesHold' /\ Apart'
  BY <1>1, <1>4, <1>6, <1>7, <1>8 DEF VariablesHold, Apart, ArrayVariables, Declared, n
<1>10. Declared("a")' => it.kind = "domain" /\ Len(means["a"]') = IterandSize(it)
  BY <1>1, <1>5, <1>8 DEF Valued, OnTheDomain
<1> QED
  BY <1>1, <1>8, <1>9, <1>10, OutsideValued

\* A moved array is the one the other was; the one it was is gone.
LEMMA MoveValued ==
  ASSUME TypeOK, ArrayInvariant, Valued, Move
  PROVE  Valued'
<1> DEFINE n == handle["c"]
           A == Release(Store, n).arrays
<1>1. /\ arrays' = A /\ UNCHANGED <<vars, target>> /\ ~InLoop
      /\ handle' = [handle EXCEPT !["c"] = handle["a"], !["a"] = None]
      /\ means' = [means EXCEPT !["c"] = means["a"], !["a"] = <<>>]
      /\ Declared("a") /\ Declared("c")
  BY DEF Move, InLoop, StoreBecomes
<1>2. /\ n \in DOMAIN arrays /\ means["a"] \in Seq(Nat)
      /\ Holds(arrays, handle["a"], means["a"])
      /\ Store.arrays = arrays /\ Counted(Store, Handles, HandlesOfDomains)
  BY <1>1, ValuesThere DEF ArrayVariables
<1>3. Keeps(arrays, A, {n})
  BY <1>2, ReleaseHolds
<1> HIDE DEF A, n
<1>4. Holds(A, handle["a"], means["a"])
  BY <1>1, <1>2, <1>3, HoldsOn DEF Valued, Apart, n
<1>5. handle'["a"] = None /\ handle'["c"] = handle["a"]
  BY <1>1 DEF ArrayInvariant, HandleTypes, Variables, ArrayVariables
<1>6. means' \in [ArrayVariables -> Seq(Nat)] /\ means'["c"] = means["a"]
  BY <1>1, <1>2 DEF Valued, ArrayVariables
<1>7. VariablesHold' /\ Apart' /\ ~Declared("a")'
  BY <1>1, <1>4, <1>5, <1>6 DEF VariablesHold, Apart, ArrayVariables, Declared
<1> QED
  BY <1>1, <1>6, <1>7, OutsideValued

\* The end of one variable changes nothing of the others.
LEMMA DropValued ==
  ASSUME TypeOK, ArrayInvariant, Valued, NEW v \in Variables, Drop(v)
  PROVE  Valued'
<1>1. /\ UNCHANGED <<vars, target>> /\ ~InLoop
      /\ handle' = [handle EXCEPT ![v] = None]
      /\ handle \in [Variables -> Nat] /\ Declared(v)
      /\ Store.arrays = arrays /\ Counted(Store, Handles, HandlesOfDomains)
  BY DEF Drop, InLoop, ArrayInvariant, HandleTypes, Store
<1>2. /\ handle'[v] = None /\ \A w \in Variables \ {v} : handle'[w] = handle[w]
      /\ ArrayVariables \subseteq Variables
  BY <1>1 DEF Variables
<1>3. CASE v = "domain"
  <2>1. arrays' = ReleaseDom(Store, handle[v]).arrays /\ means' = means
    BY <1>3 DEF Drop, StoreBecomes
  <2>2. arrays' = arrays
    BY <1>1, <2>1 DEF ReleaseDom, Counted, Shape
  <2>3. /\ means' \in [ArrayVariables -> Seq(Nat)] /\ VariablesHold' /\ Apart'
        /\ Declared("a")' => it.kind = "domain" /\ Len(means["a"]') = IterandSize(it)
    BY <1>2, <1>3, <2>1, <2>2 DEF Valued, VariablesHold, Apart, OnTheDomain, ArrayVariables,
                                  Declared
  <2> QED
    BY <1>1, <2>3, OutsideValued
<1>4. CASE v \in ArrayVariables
  <2> DEFINE n == handle[v]
             A == Release(Store, n).arrays
  <2>1. arrays' = A /\ means' = [means EXCEPT ![v] = <<>>]
    BY <1>4 DEF Drop, StoreBecomes, ArrayVariables
  <2>2. n \in DOMAIN arrays
    BY <1>1, <1>4, ValuesThere
  <2>3. Keeps(arrays, A, {n})
    BY <1>1, <2>2, ReleaseHolds
  <2> HIDE DEF A, n
  <2>4. ASSUME NEW w \in ArrayVariables, w # v, Declared(w)
        PROVE  Holds(A, handle[w], means[w])
    <3>1. Holds(arrays, handle[w], means[w]) /\ handle[w] # n
      BY <1>1, <1>4, <2>4 DEF Valued, VariablesHold, Apart, ArrayVariables, n
    <3> QED
      BY <2>3, <3>1, HoldsOn
  <2>5. /\ means' \in [ArrayVariables -> Seq(Nat)]
        /\ \A w \in ArrayVariables \ {v} : means'[w] = means[w]
    BY <1>4, <2>1 DEF Valued
  <2>6. VariablesHold'
    BY <1>2, <2>1, <2>4, <2>5 DEF VariablesHold, Declared
  <2>7. Apart'
    BY <1>2, <1>4 DEF Apart, ArrayVariables, Declared
  <2>8. Declared("a")' => it.kind = "domain" /\ Len(means["a"]') = IterandSize(it)
    BY <1>2, <2>5 DEF Valued, OnTheDomain, Declared, ArrayVariables
  <2> QED
    BY <1>1, <2>5, <2>6, <2>7, <2>8, OutsideValued
<1> QED
  BY <1>3, <1>4 DEF Variables
-----------------------------------------------------------------------------
\* A step of a loop: of the values it is enough that those of variables are kept,
\* and that what the chunks then iterate over is again not theirs.
LEMMA KeptValued ==
  ASSUME Valued, UNCHANGED <<handle, means, it>>, Writable',
         \A v \in ArrayVariables : Declared(v) => Holds(arrays', handle[v], means[v])
  PROVE  Valued'
<1>1. /\ means' \in [ArrayVariables -> Seq(Nat)]
      /\ VariablesHold' /\ OnTheDomain' /\ Apart'
  BY DEF Valued, VariablesHold, OnTheDomain, Apart, Declared
<1> QED
  BY <1>1 DEF Valued

\* A loop that is not over the array writes to none.
LEMMA UndeclaredValued ==
  ASSUME ArrayInvariant, Valued, ~Declared("a"), UNCHANGED arrayVars
  PROVE  Valued'
<1>1. DOMAIN target' = {} /\ UNCHANGED <<handle, means, arrays>>
  BY DEF ArrayInvariant, Targets, arrayVars
<1>2. Writable'
  BY <1>1 DEF Writable
<1>3. /\ means' \in [ArrayVariables -> Seq(Nat)]
      /\ VariablesHold' /\ OnTheDomain' /\ Apart'
  BY <1>1 DEF Valued, VariablesHold, OnTheDomain, Apart, Declared
<1> QED
  BY <1>2, <1>3 DEF Valued

\* The array's values are those of the variables' objects still, when no other
\* objects were touched but X, which are not theirs.
LEMMA VariablesKept ==
  ASSUME Valued, NEW A, NEW X, Keeps(arrays, A, X),
         \A v \in ArrayVariables : Declared(v) => handle[v] \notin X
  PROVE  \A v \in ArrayVariables : Declared(v) => Holds(A, handle[v], means[v])
<1> TAKE v \in ArrayVariables
<1> HAVE Declared(v)
<1>1. Holds(arrays, handle[v], means[v])
  BY DEF Valued, VariablesHold
<1> QED
  BY <1>1, HoldsOn

\* A loop starts on the array's own object or on a copy.
LEMMA RunArrayLoopValued ==
  ASSUME TypeOK, ArrayInvariant, Valued,
         NEW k \in Kinds \ {"cobegin"}, NEW b \in BOOLEAN, RunArrayLoop(k, b)
  PROVE  Valued'
<1>1. /\ kind' = k /\ UNCHANGED <<it, handle, means>> /\ ~InLoop
  BY DEF RunArrayLoop, RunLoop, Launch, exprVars, InLoop
<1>2. CASE ~Declared("a")
  BY <1>1, <1>2, UndeclaredValued DEF RunArrayLoop, arrayVars
<1>3. CASE Declared("a")
  <2> DEFINE n == handle["a"]
  <2>1. /\ n \in DOMAIN Store.arrays /\ Store.arrays = arrays
        /\ Counted(Store, Handles, HandlesOfDomains)
    BY <1>3, ValuesThere DEF ArrayVariables
  <2>2. /\ \A v \in ArrayVariables : Declared(v) => handle[v] \in DOMAIN arrays
        /\ handle \in [Variables -> Nat]
    BY HandlesLead DEF ArrayInvariant, HandleTypes
  <2>3. Owning' <=> ~Simple /\ k \in {"forLoop", "forall"}
    BY <1>1 DEF Owning, Simple
  <2>4. CASE DOMAIN chunks' = {} \/ Simple \/ k = "coforall"
    <3>1. StoreBecomes(Store) /\ target' = [s \in DOMAIN chunks' |-> n]
      BY <1>3, <2>4 DEF RunArrayLoop
    <3>2. arrays' = arrays
      BY <2>1, <3>1 DEF StoreBecomes
    <3>3. Writable'
      BY <2>3, <2>4, <3>1 DEF Writable
    <3>4. \A v \in ArrayVariables : Declared(v) => Holds(arrays', handle[v], means[v])
      BY <3>2 DEF Valued, VariablesHold
    <3> QED
      BY <1>1, <3>3, <3>4, KeptValued
  <2>5. CASE DOMAIN chunks' # {} /\ ~Simple /\ k = "forLoop"
    <3>1. StoreBecomes(AddRef(Store, n)) /\ target' = [s \in DOMAIN chunks' |-> n]
      BY <1>3, <2>5 DEF RunArrayLoop
    <3>2. Keeps(arrays, arrays', {})
      BY <2>1, <3>1, AddRefHolds DEF StoreBecomes
    <3>3. Writable'
      BY <1>1, <2>5, <3>1 DEF Writable
    <3>4. \A v \in ArrayVariables : Declared(v) => Holds(arrays', handle[v], means[v])
      BY <3>2, VariablesKept
    <3> QED
      BY <1>1, <3>3, <3>4, KeptValued
  <2>6. CASE DOMAIN chunks' # {} /\ ~Simple /\ k = "forall"
    <3> DEFINE copy == DeepCopy(Store, n)
    <3>1. StoreBecomes(copy.store) /\ target' = [s \in DOMAIN chunks' |-> copy.to]
      BY <1>3, <2>6 DEF RunArrayLoop
    <3>2. copy.to \in Addr \ DOMAIN arrays /\ Keeps(arrays, copy.store.arrays, {})
      BY <2>1, DeepCopyHolds
    <3> HIDE DEF copy
    <3>3. copy.to # handle["a"] /\ copy.to # handle["c"]
      BY <2>2, <3>2 DEF Declared, ArrayVariables, Addr, None
    <3>4. Writable'
      BY <1>1, <2>6, <3>1, <3>3 DEF Writable
    <3>5. \A v \in ArrayVariables : Declared(v) => Holds(arrays', handle[v], means[v])
      BY <3>1, <3>2, VariablesKept DEF StoreBecomes
    <3> QED
      BY <1>1, <3>4, <3>5, KeptValued
  <2> QED
    BY <2>4, <2>5, <2>6 DEF Kinds
<1> QED
  BY <1>2, <1>3

\* A body of a forLoop writes to the element at the index it is called with,
\* one of a forall to a copy.
LEMMA BeginArrayValued ==
  ASSUME ExprTyped, WholeSequence, LoopsOverAll, LoopInvariant, ArrayInvariant, Valued,
         NEW s \in DOMAIN chunks, BeginArray(s), UNCHANGED exprVars
  PROVE  Valued'
<1>1. TypeOK /\ pc = "running"
  BY DEF LoopInvariant, ChunksWhileRunning, TypeOK
<1>2. /\ kind' = kind /\ UNCHANGED <<it, handle, target>>
  BY DEF BeginArray, Begin, exprVars
<1>3. Writable'
  BY <1>2 DEF Valued, Writable, Owning, Simple
<1>4. CASE ~Declared("a") \/ ~Owning
  <2>1. UNCHANGED <<arrays, means>>
    BY <1>4 DEF BeginArray
  <2>2. \A v \in ArrayVariables : Declared(v) => Holds(arrays', handle[v], means[v])
    BY <2>1 DEF Valued, VariablesHold
  <2> QED
    BY <1>2, <1>3, <2>1, <2>2, KeptValued
<1>5. CASE Declared("a") /\ Owning
  <2> DEFINE n == target[s]
             f == chunks[s].first
             new == Plus(arrays[n].data, f + 1)
             A == [arrays EXCEPT ![n].data = new]
  <2>1. arrays' = A
    BY <1>5 DEF BeginArray, StoreBecomes, Store
  <2>2. /\ s \in DOMAIN target
        /\ n \in DOMAIN arrays /\ Store.arrays = arrays
        /\ Counted(Store, Handles, HandlesOfDomains)
    <3>1. s \in DOMAIN target
      BY <1>1, <1>5 DEF ArrayInvariant, Targets, InLoop
    <3> QED
      BY <1>1, <3>1, HandlesLead DEF ArrayInvariant, Store
  <2>3. Holds(A, n, new) /\ Keeps(arrays, A, {n})
    <3> HIDE DEF new, n
    <3> QED
      BY <2>2, WriteHolds
  <2>4. CASE kind = "forLoop"
    <3>1. n = handle["a"] /\ arrays[n].data = means["a"] /\ means["a"] \in Seq(Nat)
      BY <1>1, <1>5, <2>2, <2>4, ValuesThere DEF Valued, Writable, ArrayVariables
    <3>2. means' = [means EXCEPT !["a"] = Plus(means["a"], PlaceOf(IndexAt(it, f)))]
      BY <1>5, <2>4 DEF BeginArray
    <3>3. PlaceOf(IndexAt(it, f)) = f + 1
      <4>1. it.kind = "domain" /\ IterandSize(it) = size
        BY <1>1, <1>5, <2>4 DEF Valued, OnTheDomain, LoopsOverAll
      <4>2. f \in 0..(size - 1)
        <5>1. /\ Stop(s) <= given /\ given \in 0..size /\ size \in Nat /\ f \in Nat
              /\ chunks[s].size \in Nat
          BY <1>1, LoopAssumption DEF LoopInvariant, TypeOK, ChunksInside, Chunk
        <5>2. chunks[s].size # 0 /\ ~chunks[s].busy
          BY DEF BeginArray, Begin
        <5>3. Stop(s) = f + chunks[s].size
          BY <5>2 DEF Stop, Upcoming
        <5> HIDE DEF f
        <5> QED
          BY <5>1, <5>2, <5>3
      <4>3. size = Len(Denotes)
        BY <4>1, Places
      <4> HIDE DEF f
      <4> QED
        BY <4>1, <4>2, <4>3, Places
    <3>4. /\ new = Plus(means["a"], f + 1) /\ new \in Seq(Nat) /\ Len(new) = Len(means["a"])
          /\ means' = [means EXCEPT !["a"] = new]
      <4>1. new = Plus(means["a"], f + 1)
        BY <3>1
      <4> HIDE DEF new, f, n
      <4>2. new \in Seq(Nat) /\ Len(new) = Len(means["a"])
        BY <3>1, <4>1, PlusIsValue
      <4> QED
        BY <3>2, <3>3, <4>1, <4>2
    <3> HIDE DEF new, A, n, f
    <3>5. /\ means' \in [ArrayVariables -> Seq(Nat)]
          /\ means'["a"] = new /\ means'["c"] = means["c"]
      BY <3>4 DEF Valued, ArrayVariables
    <3>6. Declared("c") => Holds(A, handle["c"], means["c"])
      BY <1>5, <2>3, <3>1, HoldsOn DEF Valued, VariablesHold, Apart, ArrayVariables
    <3>7. VariablesHold' /\ Apart' /\ OnTheDomain'
      BY <1>2, <2>1, <2>3, <3>1, <3>4, <3>5, <3>6
         DEF Valued, VariablesHold, Apart, OnTheDomain, ArrayVariables, Declared
    <3> QED
      BY <1>3, <3>5, <3>7 DEF Valued
  <2>5. CASE kind = "forall"
    <3>1. n # handle["a"] /\ n # handle["c"] /\ means' = means
      BY <1>5, <2>2, <2>5 DEF Valued, Writable, BeginArray
    <3> HIDE DEF new, A, n
    <3>2. \A v \in ArrayVariables : Declared(v) => Holds(arrays', handle[v], means[v])
      BY <2>1, <2>3, <3>1, VariablesKept DEF ArrayVariables
    <3> QED
      BY <1>2, <1>3, <3>1, <3>2, KeptValued
  <2> QED
    BY <1>5, <2>4, <2>5 DEF Owning
<1> QED
  BY <1>4, <1>5

\* The copies of the pieces are nobody's variable, nor was the one that goes.
LEMMA SplitArrayValued ==
  ASSUME LoopInvariant, ArrayInvariant, Valued, NEW s \in DOMAIN chunks, NEW n \in Positions,
         SplitArray(s, n), UNCHANGED exprVars
  PROVE  Valued'
<1>1. TypeOK /\ pc = "running"
  BY DEF LoopInvariant, ChunksWhileRunning, TypeOK
<1>2. /\ kind' = kind /\ kind = "forall" /\ UNCHANGED <<it, handle, means>>
      /\ Owning' = Owning
  BY DEF SplitArray, Split, exprVars, Owning, Simple
<1>3. CASE ~Declared("a")
  BY <1>2, <1>3, UndeclaredValued DEF SplitArray, arrayVars
<1>4. CASE Declared("a") /\ ~Owning
  <2>1. arrays' = arrays
    BY <1>4 DEF SplitArray
  <2>2. \A v \in ArrayVariables : Declared(v) => Holds(arrays', handle[v], means[v])
    BY <2>1 DEF Valued, VariablesHold
  <2>3. Writable'
    BY <1>2, <1>4 DEF Writable
  <2> QED
    BY <1>2, <2>2, <2>3, KeptValued
<1>5. CASE Declared("a") /\ Owning
  <2> DEFINE n0 == target[s]
             left == DeepCopy(Store, n0)
             right == DeepCopy(left.store, n0)
             H1 == [Handles EXCEPT ![left.to] = 1]
             H2 == [H1 EXCEPT ![right.to] = 1]
             t == Release(right.store, n0)
  <2>1. /\ StoreBecomes(t)
        /\ target' = With(With(target, s, left.to), s + n, right.to)
    BY <1>5 DEF SplitArray
  <2>2. /\ s \in DOMAIN target
        /\ n0 \in DOMAIN Store.arrays /\ Store.arrays = arrays
        /\ Counted(Store, Handles, HandlesOfDomains)
        /\ \A v \in ArrayVariables : Declared(v) => handle[v] \in DOMAIN arrays
        /\ handle \in [Variables -> Nat]
    <3>1. s \in DOMAIN target
      BY <1>1, <1>5 DEF ArrayInvariant, Targets, InLoop
    <3> QED
      BY <1>1, <3>1, HandlesLead DEF ArrayInvariant, HandleTypes, Store
  <2>3. n0 # handle["a"] /\ n0 # handle["c"]
    BY <1>2, <1>5, <2>2 DEF Valued, Writable
  <2> HIDE DEF n0
  <2>4. /\ left.to \in Addr \ DOMAIN arrays
        /\ Counted(left.store, H1, HandlesOfDomains)
        /\ DOMAIN left.store.arrays = DOMAIN arrays \cup {left.to}
        /\ Keeps(arrays, left.store.arrays, {})
    BY <2>2, DeepCopyCounted, DeepCopyHolds
  <2> HIDE DEF left, H1
  <2>5. /\ right.to \in Addr \ (DOMAIN arrays \cup {left.to})
        /\ Counted(right.store, H2, HandlesOfDomains)
        /\ DOMAIN right.store.arrays = DOMAIN arrays \cup {left.to, right.to}
        /\ Keeps(left.store.arrays, right.store.arrays, {})
    <3>1. n0 \in DOMAIN left.store.arrays
      BY <2>2, <2>4
    <3>2. /\ right.to \in Addr \ (DOMAIN arrays \cup {left.to})
          /\ Counted(right.store, H2, HandlesOfDomains)
          /\ DOMAIN right.store.arrays = DOMAIN arrays \cup {left.to, right.to}
      BY <2>4, <3>1, DeepCopyCounted
    <3>3. Keeps(left.store.arrays, right.store.arrays, {})
      BY <2>4, <3>1, DeepCopyHolds
    <3> QED
      BY <3>2, <3>3
  <2> HIDE DEF right, H2
  <2>6. Keeps(right.store.arrays, t.arrays, {n0})
    BY <2>2, <2>5, ReleaseHolds
  <2> HIDE DEF t
  <2>7. Keeps(arrays, arrays', {n0})
    BY <2>1, <2>4, <2>5, <2>6 DEF Keeps, StoreBecomes
  <2>8. \A v \in ArrayVariables : Declared(v) => Holds(arrays', handle[v], means[v])
    BY <2>3, <2>7, VariablesKept DEF ArrayVariables
  <2>9. /\ left.to # handle["a"] /\ left.to # handle["c"]
        /\ right.to # handle["a"] /\ right.to # handle["c"]
    BY <2>2, <2>4, <2>5 DEF Declared, ArrayVariables, Addr, None
  <2>10. Writable'
    <3> SUFFICES ASSUME NEW p \in DOMAIN target'
                 PROVE  target'[p] # handle["a"] /\ target'[p] # handle["c"]
      BY <1>2 DEF Writable
    <3>1. target'[p] = left.to \/ target'[p] = right.to
            \/ (p \in DOMAIN target /\ target'[p] = target[p])
      BY <2>1 DEF With
    <3> QED
      BY <1>2, <1>5, <2>9, <3>1 DEF Valued, Writable
  <2> QED
    BY <1>2, <2>8, <2>10, KeptValued
<1> QED
  BY <1>3, <1>4, <1>5

\* A coroutine that ends takes a copy with it, or nothing: the array's own object
\* has the variable's handle too.
LEMMA FinishArrayValued ==
  ASSUME LoopInvariant, ArrayInvariant, Valued, NEW s \in DOMAIN chunks, FinishArray(s),
         UNCHANGED exprVars
  PROVE  Valued'
<1>1. TypeOK /\ pc = "running"
  BY DEF LoopInvariant, ChunksWhileRunning, TypeOK
<1>2. /\ kind' = kind /\ UNCHANGED <<it, handle, means>>
      /\ Owning' = Owning
  BY DEF FinishArray, Finish, exprVars, Owning, Simple
<1>3. CASE ~Declared("a")
  BY <1>2, <1>3, UndeclaredValued DEF FinishArray, arrayVars
<1>4. CASE Declared("a")
  <2> DEFINE n == target[s]
  <2>1. target' = Without(target, s)
    BY <1>4 DEF FinishArray
  <2>2. Writable'
    BY <1>2, <2>1 DEF Valued, Writable, Without
  <2>3. /\ s \in DOMAIN target /\ n \in DOMAIN arrays /\ n \in Addr
        /\ Store.arrays = arrays /\ Counted(Store, Handles, HandlesOfDomains)
    <3>1. s \in DOMAIN target /\ target \in [DOMAIN target -> Addr]
      BY <1>1, <1>4 DEF ArrayInvariant, Targets, HandleTypes, InLoop
    <3> QED
      BY <1>1, <3>1, HandlesLead DEF ArrayInvariant, Store
  <2>4. CASE ~Owning
    <3>1. arrays' = arrays
      BY <1>4, <2>4 DEF FinishArray
    <3>2. \A v \in ArrayVariables : Declared(v) => Holds(arrays', handle[v], means[v])
      BY <3>1 DEF Valued, VariablesHold
    <3> QED
      BY <1>2, <2>2, <3>2, KeptValued
  <2>5. CASE Owning /\ kind = "forall"
    <3>1. n # handle["a"] /\ n # handle["c"]
      BY <2>3, <2>5 DEF Valued, Writable
    <3>2. Keeps(arrays, arrays', {n})
      BY <1>4, <2>3, <2>5, ReleaseHolds DEF FinishArray, StoreBecomes
    <3> HIDE DEF n
    <3>3. \A v \in ArrayVariables : Declared(v) => Holds(arrays', handle[v], means[v])
      BY <3>1, <3>2, VariablesKept DEF ArrayVariables
    <3> QED
      BY <1>2, <2>2, <3>3, KeptValued
  <2>6. CASE Owning /\ kind = "forLoop"
    <3>1. n = handle["a"]
      BY <2>3, <2>6 DEF Valued, Writable
    <3>2. arrays[n].count > 1
      <4>1. /\ arrays[n].count = Handles[n] /\ s \in Iterating(n)
            /\ IsFiniteSet(Iterating(n)) /\ Cardinality(Iterating(n)) \in Nat
            /\ Handles[n] = Names("a", n) + Names("c", n) + Cardinality(Iterating(n))
        BY <1>1, <2>3, <2>6, HandlesAddUp DEF Counted, Iterating
      <4>2. Cardinality(Iterating(n)) # 0
        BY <4>1, FS_EmptySet
      <4>3. Names("a", n) = 1 /\ Names("c", n) \in Nat
        BY <3>1 DEF Names
      <4> QED
        BY <4>1, <4>2, <4>3
    <3>3. arrays' = [arrays EXCEPT ![n].count = @ - 1]
      BY <1>4, <2>3, <2>6, <3>2 DEF FinishArray, StoreBecomes, Release, Store
    <3>4. Keeps(arrays, arrays', {})
      BY <2>3, <3>3 DEF Keeps, Counted, Shape
    <3>5. \A v \in ArrayVariables : Declared(v) => Holds(arrays', handle[v], means[v])
      BY <3>4, VariablesKept
    <3> QED
      BY <1>2, <2>2, <3>5, KeptValued
  <2> QED
    BY <2>4, <2>5, <2>6 DEF Owning
<1> QED
  BY <1>3, <1>4
-----------------------------------------------------------------------------
\* Steps that touch no array.
LEMMA UntouchedValued ==
  ASSUME Valued, UNCHANGED <<arrayVars, it, kind>>
  PROVE  Valued'
  BY DEF Valued, VariablesHold, OnTheDomain, Apart, Writable, Owning, Simple, Declared, arrayVars

\* No variable is there at the start.
LEMMA ValuedInit == ArrayInit => Valued
<1> SUFFICES ASSUME ArrayInit PROVE Valued
  OBVIOUS
<1>1. /\ target = [x \in {} |-> 0] /\ handle = [v \in Variables |-> None]
      /\ means = [v \in ArrayVariables |-> <<>>]
  BY DEF ArrayInit, NoFunction
<1>2. \A v \in ArrayVariables : ~Declared(v)
  BY <1>1 DEF Declared, Variables
<1>3. means \in [ArrayVariables -> Seq(Nat)] /\ Writable
  BY <1>1 DEF Writable
<1> QED
  BY <1>2, <1>3 DEF Valued, VariablesHold, OnTheDomain, Apart, ArrayVariables

\* Each step of a program changes an array as it changes the array's value.
LEMMA ValuedStep ==
  ASSUME ExprTyped, WholeSequence, LoopsOverAll, LoopInvariant, ArrayInvariant, Valued,
         [ArrayNext]_progVars
  PROVE  Valued'
<1>0. TypeOK
  BY DEF LoopInvariant
<1>1. CASE ~Declared("a") /\ Build /\ UNCHANGED arrayVars
  BY <1>1, UndeclaredValued
<1>2. CASE VariableStep
  <2>1. \A n \in OtherSizes : n \in Nat
    BY ArrayAssumption
  <2> QED
    BY <1>0, <1>2, <2>1, DeclareArrayValued, CopyArrayValued, AssignValued, MoveValued,
       DeclareOtherValued, WriteAtValued, DropValued DEF VariableStep
<1>3. ASSUME NEW k \in Kinds \ {"cobegin"}, NEW b \in BOOLEAN, RunArrayLoop(k, b)
      PROVE  Valued'
  BY <1>0, <1>3, RunArrayLoopValued
<1>4. ASSUME NEW n \in 1..MaxSize, NEW b \in BOOLEAN,
             ~Declared("a") /\ RunCobegin(n, b) /\ UNCHANGED arrayVars
      PROVE  Valued'
  BY <1>4, UndeclaredValued
<1>5. ASSUME NEW s \in DOMAIN chunks, ArrayChunkStep(s) PROVE Valued'
  <2>1. UNCHANGED exprVars
    BY <1>5 DEF ArrayChunkStep
  <2>2. CASE BeginArray(s)
    BY <2>1, <2>2, BeginArrayValued
  <2>3. CASE End(s) /\ UNCHANGED arrayVars
    BY <2>1, <2>3, UntouchedValued DEF End, exprVars
  <2>4. CASE FinishArray(s)
    BY <2>1, <2>4, FinishArrayValued
  <2>5. ASSUME NEW n \in Positions, SplitArray(s, n) PROVE Valued'
    BY <2>1, <2>5, SplitArrayValued
  <2> QED
    BY <1>5, <2>2, <2>3, <2>4, <2>5 DEF ArrayChunkStep
<1>6. CASE (Give \/ Return) /\ UNCHANGED <<exprVars, arrayVars>>
  BY <1>6, UntouchedValued DEF Give, Return, exprVars
<1>7. CASE UNCHANGED progVars
  BY <1>7, UntouchedValued DEF progVars, vars, loopVars, exprVars
<1> QED
  BY <1>1, <1>2, <1>3, <1>4, <1>5, <1>6, <1>7 DEF ArrayNext

\* "Array assignment is by value" (array.hpp:227), and an array is a map from
\* its domain's indices (array.hpp:29): for every program, every order in which
\* hpx cuts and runs the pieces of its loops and every range that std::int64_t
\* can hold, the element at an index is what the program made of it.
THEOREM ArraysByValue ==
  ASSUME Sound
  PROVE  ArraySpec /\ []Representable /\ []HorizonReaches => []ByValue
<1>1. ArraySpec => [](LoopInvariant /\ LoopsOverAll /\ ExprTyped)
  BY ArrayProgramsAreLoopPrograms, ProgramInvariant, ProgramLoopsOverAll, ExpressionsTyped, PTL
<1>2. ArraySpec /\ []Representable /\ []HorizonReaches => []PartsMatch
  BY ArrayProgramsAreLoopPrograms, RangesMatch, PTL
<1>3. ExprTyped /\ PartsMatch /\ Representable /\ HorizonReaches => WholeSequence
  BY TheWhole
<1>4. ArrayInit => ArrayInvariant /\ Valued
  BY ArrayInvariantInit, ValuedInit
<1>5. LoopInvariant /\ ArrayInvariant /\ [ArrayNext]_progVars => ArrayInvariant'
  BY ArrayInvariantStep
<1>6. /\ ExprTyped /\ WholeSequence /\ LoopsOverAll /\ LoopInvariant
      /\ ArrayInvariant /\ Valued /\ [ArrayNext]_progVars
      => Valued'
  BY ValuedStep
<1>7. ExprTyped /\ WholeSequence /\ Valued => ByValue
  BY ValuedByIndex
<1> QED
  BY <1>1, <1>2, <1>3, <1>4, <1>5, <1>6, <1>7, PTL DEF ArraySpec
=============================================================================
