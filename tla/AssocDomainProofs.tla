------------------------- MODULE AssocDomainProofs -------------------------
(***************************************************************************)
(* For any indices, buffer sizes and number of buffers, the domain and its *)
(* buffers implement AssocSpec: no index is lost and none appears from     *)
(* nowhere.                                                                *)
(***************************************************************************)
EXTENDS AssocDomain, FiniteSetTheorems, TLAPS

Buffer == [held : Seq(Indices), maxSize : MaxSizes]

BuffersTyped ==
  /\ indices \subseteq Indices
  /\ made \in Nat
  /\ DOMAIN buffers \subseteq 1 .. made
  /\ buffers \in [DOMAIN buffers -> Buffer]

(* The set of a sequence, and of one with an element more. *)
LEMMA ToSetEmpty == ToSet(<<>>) = {}
  BY DEF ToSet

(* The set of a sequence with one element more: add appends to what the *)
(* buffer holds.                                                        *)
LEMMA ToSetAppend ==
  ASSUME NEW S, NEW s \in Seq(S), NEW e \in S
  PROVE  ToSet(Append(s, e)) = ToSet(s) \cup {e}
<1> DEFINE t == Append(s, e)
<1>1. /\ DOMAIN s = 1 .. Len(s) /\ Len(s) \in Nat
      /\ DOMAIN t = 1 .. Len(s) + 1
      /\ t[Len(s) + 1] = e /\ \A i \in 1 .. Len(s) : t[i] = s[i]
  OBVIOUS
<1> HIDE DEF t
<1>2. ToSet(t) \subseteq ToSet(s) \cup {e}
  BY <1>1 DEF ToSet
<1>3. e \in ToSet(t)
  BY <1>1 DEF ToSet
<1>4. ToSet(s) \subseteq ToSet(t)
  BY <1>1 DEF ToSet
<1> QED BY <1>2, <1>3, <1>4 DEF t

(* What a buffer holds are indices. *)
LEMMA ToSetTyped == ASSUME NEW S, NEW s \in Seq(S) PROVE ToSet(s) \subseteq S
  BY DEF ToSet
------------------------------------------------------------------------------
(* The buffers keep their type. *)
LEMMA TypedInit == AssocInit => BuffersTyped
  BY DEF AssocInit, BuffersTyped, Buffer

(* No operation and no end of a scope leaves a buffer without its type. *)
LEMMA TypedStep == AssocAssumption /\ BuffersTyped /\ [Next]_vars => BuffersTyped'
<1> SUFFICES ASSUME AssocAssumption, BuffersTyped, [Next]_vars PROVE BuffersTyped'
  OBVIOUS
<1> USE DEF BuffersTyped
<1>0. ASSUME NEW b \in DOMAIN buffers
      PROVE  /\ b \in 1 .. made /\ buffers[b] \in Buffer
             /\ buffers[b].held \in Seq(Indices) /\ ToSet(buffers[b].held) \subseteq Indices
             /\ \A s \in Seq(Indices) : Holding(b, s) \in [DOMAIN buffers -> Buffer]
  BY ToSetTyped DEF Buffer, Holding
<1>1. ASSUME NEW f \in [DOMAIN buffers -> Buffer], NEW x \in Buffer, Making, buffers' = New(x, f)
      PROVE  BuffersTyped'
  BY <1>1 DEF Making, New
<1>2. CASE clear \/ StartLoop \/ Yield \/ EndLoop
  BY <1>2 DEF clear, Buffers, StartLoop, Yield, EndLoop
<1>3. ASSUME NEW idx \in Indices, add(idx) \/ remove(idx) PROVE BuffersTyped'
  BY <1>3 DEF add, remove, Buffers
<1>4. ASSUME NEW size \in MaxSizes, CreateIndexBuffer(size) PROVE BuffersTyped'
  <2>1. [held |-> <<>>, maxSize |-> size] \in Buffer
    BY DEF Buffer
  <2>2. Making /\ buffers' = New([held |-> <<>>, maxSize |-> size], buffers)
    BY <1>4 DEF CreateIndexBuffer
  <2> QED BY <1>1, <2>1, <2>2
<1>5. ASSUME NEW b \in DOMAIN buffers, Copy(b) \/ Move(b) PROVE BuffersTyped'
  <2>1. CASE Copy(b)
    BY <1>0, <1>1, <2>1 DEF Copy
  <2>2. CASE Move(b)
    <3> <<>> \in Seq(Indices)
      OBVIOUS
    <3>1. Holding(b, <<>>) \in [DOMAIN buffers -> Buffer]
      BY <1>0
    <3>2. Making /\ buffers' = New(buffers[b], Holding(b, <<>>))
      BY <2>2 DEF Move
    <3> QED BY <1>0, <1>1, <3>1, <3>2
  <2> QED BY <1>5, <2>1, <2>2
<1>6. ASSUME NEW b \in DOMAIN buffers, Commit(b) PROVE BuffersTyped'
  <2>1. <<>> \in Seq(Indices)
    OBVIOUS
  <2>2. Holding(b, <<>>) \in [DOMAIN buffers -> Buffer]
    BY <1>0, <2>1
  <2> QED BY <1>6, <1>0, <2>2 DEF Commit, Committed
<1>7. ASSUME NEW b \in DOMAIN buffers, Destroy(b) PROVE BuffersTyped'
  BY <1>7, <1>0 DEF Destroy, Committed
<1>8. ASSUME NEW b \in DOMAIN buffers, NEW idx \in Indices, BufferAdd(b, idx) PROVE BuffersTyped'
  <2>1. Append(IF IsFull(b) THEN <<>> ELSE buffers[b].held, idx) \in Seq(Indices)
    BY <1>0
  <2> QED BY <1>8, <1>0, <2>1 DEF BufferAdd, Committed
<1>9. CASE UNCHANGED vars
  BY <1>9 DEF vars
<1> QED BY <1>2, <1>3, <1>4, <1>5, <1>6, <1>7, <1>8, <1>9 DEF Next

(* The domain and the buffers are sets, and sequences, of the program's    *)
(* indices, and no buffer has a number that was not given out.             *)
THEOREM BuffersKeepType == Spec => []BuffersTyped
<1>1. AssocAssumption BY AssocAssumption
<1> QED BY <1>1, TypedInit, TypedStep, PTL DEF Spec
------------------------------------------------------------------------------
(* A step of the buffers is the abstract one if it pays what it says and   *)
(* goes on owing the rest.                                                 *)
LEMMA Pays ==
  ASSUME NEW paid \in SUBSET Held, NEW taken \in {{}} \cup {{i} : i \in Indices},
         indices' = indices \cup paid,
         Held' \subseteq Held \cup taken, (Held \cup taken) \ paid \subseteq Held'
  PROVE  Abstract!Buffered
  BY DEF Abstract!Buffered

(* What is held is held by some buffer. *)
LEMMA InHeld ==
  /\ \A x : x \in Held <=> \E b \in DOMAIN buffers : x \in ToSet(buffers[b].held)
  /\ \A x : x \in Held' <=> \E b \in DOMAIN buffers' : x \in ToSet(buffers'[b].held)
  BY DEF Held

(* A buffer more, the others as they are in f. *)
LEMMA NewHas ==
  ASSUME BuffersTyped, NEW f, NEW x, Making, buffers' = New(x, f)
  PROVE  /\ DOMAIN buffers' = DOMAIN buffers \cup {made + 1}
         /\ made + 1 \notin DOMAIN buffers
         /\ buffers'[made + 1] = x
         /\ \A c \in DOMAIN buffers : buffers'[c] = f[c]
         /\ indices' = indices
  BY DEF BuffersTyped, Making, New

(* Every step of the code is a step of AssocSpec, or leaves what AssocSpec *)
(* sees alone.                                                             *)
LEMMA ImplementsStep == BuffersTyped /\ [Next]_vars => [Abstract!Next]_(Abstract!specVars)
<1> SUFFICES ASSUME BuffersTyped, [Next]_vars PROVE [Abstract!Next]_(Abstract!specVars)
  OBVIOUS
<1> USE DEF BuffersTyped
<1>0. ASSUME NEW b \in DOMAIN buffers
      PROVE  /\ b \in 1 .. made /\ buffers[b] \in Buffer
             /\ buffers[b].held \in Seq(Indices) /\ ToSet(buffers[b].held) \in SUBSET Held
             /\ \A s : /\ DOMAIN Holding(b, s) = DOMAIN buffers
                       /\ Holding(b, s)[b].held = s
                       /\ \A c \in DOMAIN buffers \ {b} : Holding(b, s)[c] = buffers[c]
  BY DEF Buffer, Holding, Held
<1>1. CASE clear \/ StartLoop \/ Yield \/ EndLoop
  BY <1>1 DEF clear, Buffers, StartLoop, Yield, EndLoop, Abstract!Next, Abstract!Clear, Abstract!specVars, Held
<1>2. ASSUME NEW idx \in Indices, add(idx) \/ remove(idx) PROVE Abstract!Next
  BY <1>2 DEF add, remove, Buffers, Abstract!Next, Abstract!Add, Abstract!Remove, Held
<1>3. ASSUME NEW size \in MaxSizes, CreateIndexBuffer(size) PROVE UNCHANGED Abstract!specVars
  <2>1. Held' = Held
    <3> DEFINE new == [held |-> <<>>, maxSize |-> size]
    <3>0. new.held = <<>>
      OBVIOUS
    <3>1. Making /\ buffers' = New(new, buffers)
      BY <1>3 DEF CreateIndexBuffer
    <3> HIDE DEF new
    <3>2. /\ DOMAIN buffers' = DOMAIN buffers \cup {made + 1}
          /\ buffers'[made + 1].held = <<>>
          /\ \A c \in DOMAIN buffers : buffers'[c] = buffers[c]
      BY <3>0, <3>1, NewHas
    <3>3. \A x : x \in Held' <=> x \in Held
      BY <3>2, ToSetEmpty, InHeld
    <3> QED BY <3>3
  <2> QED BY <1>3, <2>1 DEF CreateIndexBuffer, Making, Abstract!specVars
<1>4. ASSUME NEW b \in DOMAIN buffers, Copy(b) PROVE UNCHANGED Abstract!specVars
  <2>1. Held' = Held
    <3>1. /\ DOMAIN buffers' = DOMAIN buffers \cup {made + 1}
          /\ buffers'[made + 1] = buffers[b]
          /\ \A c \in DOMAIN buffers : buffers'[c] = buffers[c]
      BY <1>4, NewHas DEF Copy
    <3> QED BY <3>1, InHeld
  <2> QED BY <1>4, <2>1 DEF Copy, Making, Abstract!specVars
<1>5. ASSUME NEW b \in DOMAIN buffers, Move(b) PROVE UNCHANGED Abstract!specVars
  <2>1. Held' = Held
    <3>1. /\ DOMAIN buffers' = DOMAIN buffers \cup {made + 1}
          /\ made + 1 \notin DOMAIN buffers
          /\ buffers'[made + 1] = buffers[b]
          /\ \A c \in DOMAIN buffers : buffers'[c] = Holding(b, <<>>)[c]
      BY <1>5, NewHas DEF Move
    <3>2. buffers'[b].held = <<>> /\ \A c \in DOMAIN buffers \ {b} : buffers'[c] = buffers[c]
      BY <3>1, <1>0
    <3>3. ASSUME NEW x, x \in Held PROVE x \in Held'
      <4>1. PICK c \in DOMAIN buffers : x \in ToSet(buffers[c].held)
        BY <3>3, InHeld
      <4>2. CASE c = b
        BY <4>1, <4>2, <3>1, InHeld
      <4>3. CASE c # b
        BY <4>1, <4>3, <3>1, <3>2, InHeld
      <4> QED BY <4>2, <4>3
    <3>4. ASSUME NEW x, x \in Held' PROVE x \in Held
      <4>1. PICK c \in DOMAIN buffers' : x \in ToSet(buffers'[c].held)
        BY <3>4, InHeld
      <4>2. c # b
        BY <4>1, <3>2, ToSetEmpty
      <4> QED BY <4>1, <4>2, <3>1, <3>2, InHeld
    <3> QED BY <3>3, <3>4
  <2> QED BY <1>5, <2>1 DEF Move, Making, Abstract!specVars
<1>6. ASSUME NEW b \in DOMAIN buffers, Commit(b) PROVE Abstract!Next
  <2>1. Held' \subseteq Held /\ Held \ ToSet(buffers[b].held) \subseteq Held'
    <3>1. /\ DOMAIN buffers' = DOMAIN buffers
          /\ buffers'[b].held = <<>>
          /\ \A c \in DOMAIN buffers \ {b} : buffers'[c] = buffers[c]
      BY <1>6, <1>0 DEF Commit
    <3> QED BY <3>1, ToSetEmpty, InHeld
  <2>2. Abstract!Buffered
    BY <1>6, <1>0, <2>1, Pays DEF Commit, Committed
  <2> QED BY <2>2 DEF Abstract!Next
<1>7. ASSUME NEW b \in DOMAIN buffers, Destroy(b) PROVE Abstract!Next
  <2>1. Held' \subseteq Held /\ Held \ ToSet(buffers[b].held) \subseteq Held'
    <3>1. /\ DOMAIN buffers' = DOMAIN buffers \ {b}
          /\ \A c \in DOMAIN buffers \ {b} : buffers'[c] = buffers[c]
      BY <1>7 DEF Destroy
    <3> QED BY <3>1, InHeld
  <2>2. Abstract!Buffered
    BY <1>7, <1>0, <2>1, Pays DEF Destroy, Committed
  <2> QED BY <2>2 DEF Abstract!Next
<1>8. ASSUME NEW b \in DOMAIN buffers, NEW idx \in Indices, BufferAdd(b, idx) PROVE Abstract!Next
  <2> DEFINE kept == IF IsFull(b) THEN <<>> ELSE buffers[b].held
             paid == IF IsFull(b) THEN ToSet(buffers[b].held) ELSE {}
  <2>1. kept \in Seq(Indices) /\ ToSet(Append(kept, idx)) = ToSet(kept) \cup {idx}
    <3>1. kept \in Seq(Indices)
      BY <1>0
    <3> HIDE DEF kept
    <3> QED BY <3>1, ToSetAppend
  <2>2. ToSet(kept) \in SUBSET Held /\ ToSet(kept) \cup paid = ToSet(buffers[b].held)
    BY <1>0, ToSetEmpty
  <2>3. buffers' = Holding(b, Append(kept, idx)) /\ indices' = indices \cup paid
    BY <1>8 DEF BufferAdd, Committed
  <2> HIDE DEF kept, paid
  <2>4. Held' \subseteq Held \cup {idx} /\ (Held \cup {idx}) \ paid \subseteq Held'
    <3>1. /\ DOMAIN buffers' = DOMAIN buffers
          /\ buffers'[b].held = Append(kept, idx)
          /\ \A c \in DOMAIN buffers \ {b} : buffers'[c] = buffers[c]
      <4> DEFINE held == Append(kept, idx)
      <4>1. buffers' = Holding(b, held)
        BY <2>3
      <4> HIDE DEF held
      <4>2. /\ DOMAIN buffers' = DOMAIN buffers
            /\ buffers'[b].held = held
            /\ \A c \in DOMAIN buffers \ {b} : buffers'[c] = buffers[c]
        BY <4>1, <1>0
      <4> QED BY <4>2 DEF held
    <3> QED BY <3>1, <2>1, <2>2, InHeld
  <2>5. paid \in SUBSET Held
    BY <2>2, <1>0
  <2>6. Abstract!Buffered
    BY <2>3, <2>4, <2>5, Pays
  <2> QED BY <2>6 DEF Abstract!Next
<1>9. CASE UNCHANGED vars
  BY <1>9 DEF vars, Abstract!specVars, Held
<1> QED BY <1>1, <1>2, <1>3, <1>4, <1>5, <1>6, <1>7, <1>8, <1>9 DEF Next

(* No index gets lost between a buffer and the domain, and none appears    *)
(* from nowhere, however buffers are filled, copied, moved and ended.      *)
THEOREM BuffersImplement == Spec => ImplementsAssocSpec
<1>1. AssocInit => Abstract!Init
  BY DEF AssocInit, Abstract!Init, Held
<1> QED BY <1>1, BuffersKeepType, ImplementsStep, PTL DEF Spec, ImplementsAssocSpec, Abstract!Spec
------------------------------------------------------------------------------
(* The loop over a domain.                                                 *)

(* How many indices are below one grows with it: the positions of the      *)
(* indices of a domain are all different, and none is missing.             *)
LEMMA BelowGrows ==
  ASSUME NEW S \in SUBSET Int, IsFiniteSet(S), NEW i \in S, NEW j \in S, i < j
  PROVE  Below(S, i) < Below(S, j)
<1> DEFINE A == {k \in S : k < i}
           B == {k \in S : k < j}
<1>1. A \subseteq B /\ i \in B /\ i \notin A
  <2>1. i \in Int /\ j \in Int /\ \A k \in S : k \in Int
    OBVIOUS
  <2>2. \A k \in S : k < i => k < j
    BY <2>1
  <2>3. ~ (i < i)
    BY <2>1
  <2> QED BY <2>2, <2>3
<1>2. IsFiniteSet(A) /\ IsFiniteSet(B)
  BY FS_Subset
<1>3. Cardinality(A) \in Nat /\ Cardinality(B) \in Nat
  BY <1>2, FS_CardinalityType
<1>4. Cardinality(A) <= Cardinality(B) /\ Cardinality(A) # Cardinality(B)
  <2> HIDE DEF A, B
  <2> QED BY <1>1, <1>2, FS_Subset
<1> QED
  BY <1>3, <1>4 DEF Below

\* Every position below the size is that of some index: as many positions as
\* indices, and no two indices at one.
LEMMA EachPositionTaken ==
  ASSUME NEW S \in SUBSET Int, IsFiniteSet(S), NEW n \in 0 .. (Cardinality(S) - 1)
  PROVE  \E i \in S : Below(S, i) = n
<1> DEFINE T == 0 .. (Cardinality(S) - 1)
           f == [i \in S |-> Below(S, i)]
<1>1. Cardinality(S) \in Nat
  BY FS_CardinalityType
<1>2. IsFiniteSet(T) /\ Cardinality(T) = Cardinality(S)
  BY <1>1, FS_Interval
<1>3. ASSUME NEW i \in S PROVE Below(S, i) \in T
  <2> DEFINE A == {k \in S : k < i}
  <2>1. A \subseteq S /\ A # S
    OBVIOUS
  <2>2. IsFiniteSet(A) /\ Cardinality(A) <= Cardinality(S) /\ Cardinality(A) # Cardinality(S)
    BY <2>1, FS_Subset
  <2>3. Cardinality(A) \in Nat
    BY <2>2, FS_CardinalityType
  <2> QED BY <1>1, <2>2, <2>3 DEF Below
<1>4. ASSUME NEW i \in S, NEW j \in S, i # j PROVE Below(S, i) # Below(S, j)
  <2>1. i < j \/ j < i
    BY <1>4
  <2>2. Below(S, i) \in Int /\ Below(S, j) \in Int
    BY <1>1, <1>3
  <2> QED BY <2>1, <2>2, BelowGrows
<1>5. f \in Injection(S, T)
  BY <1>3, <1>4 DEF Injection, IsInjective
<1>6. f \in Surjection(S, T)
  <2> HIDE DEF f, T
  <2> QED BY <1>2, <1>5, FS_Injection
<1> QED
  BY <1>6 DEF Surjection

(* orderToIndex answers with an index of the domain, at that position.     *)
LEMMA OrderToIndexAnswers ==
  ASSUME NEW S \in SUBSET Int, IsFiniteSet(S), NEW n \in 0 .. (Cardinality(S) - 1)
  PROVE  orderToIndex(S, n) \in S /\ indexOrder(S, orderToIndex(S, n)) = n
BY EachPositionTaken DEF orderToIndex, indexOrder

(* What the coroutine holds, with the property of it.                      *)
LoopTyped ==
  /\ loop.target \in SUBSET Indices
  /\ loop.first \in Nat /\ loop.size \in Nat
  /\ loop.yielded \in Seq(Indices)
  /\ loop = [running |-> loop.running, target |-> loop.target, first |-> loop.first,
             size |-> loop.size, yielded |-> loop.yielded]

(* Yield takes the next of the target's indices, whatever has become of    *)
(* the domain.                                                             *)
LEMMA YieldSees ==
  ASSUME AssocAssumption, LoopTyped, LoopSeesStart, Yield
  PROVE  LoopTyped' /\ LoopSeesStart'
<1> DEFINE S == loop.target
           n == loop.first
           i == orderToIndex(S, n)
           seen == Append(loop.yielded, i)
<1>1. S \in SUBSET Int /\ IsFiniteSet(S) /\ S \subseteq Indices
  BY FS_Subset DEF AssocAssumption, LoopTyped
<1>2. Cardinality(S) \in Nat
  BY <1>1, FS_CardinalityType
<1>3. /\ loop.running /\ n + loop.size = Cardinality(S) /\ Len(loop.yielded) = n
      /\ loop.size \in Nat \ {0} /\ n \in Nat /\ loop.yielded \in Seq(Indices)
      /\ \A m \in 1 .. n : indexOrder(S, loop.yielded[m]) = m - 1
  BY DEF Yield, LoopTyped, LoopSeesStart
<1>4. n \in 0 .. (Cardinality(S) - 1)
  BY <1>2, <1>3
<1>5. i \in Indices /\ indexOrder(S, i) = n
  BY <1>1, <1>4, OrderToIndexAnswers
<1>6. loop' = [running |-> loop.running, target |-> S, first |-> n + 1,
               size |-> loop.size - 1, yielded |-> seen]
  BY DEF Yield, LoopTyped
<1> HIDE DEF i
<1>7. /\ seen \in Seq(Indices) /\ Len(seen) = n + 1 /\ seen[n + 1] = i
      /\ \A m \in 1 .. n : seen[m] = loop.yielded[m]
  BY <1>3, <1>5
<1> HIDE DEF seen
<1>8. LoopTyped'
  BY <1>1, <1>3, <1>6, <1>7 DEF LoopTyped
<1>9. \A m \in 1 .. (n + 1) : indexOrder(S, seen[m]) = m - 1
  BY <1>3, <1>5, <1>7
<1>10. /\ loop'.first + loop'.size = Cardinality(loop'.target)
       /\ Len(loop'.yielded) = loop'.first
       /\ loop'.target = S /\ loop'.first = n + 1 /\ loop'.yielded = seen
  BY <1>2, <1>3, <1>6, <1>7
<1>11. \A m \in 1 .. loop'.first : indexOrder(loop'.target, (loop'.yielded)[m]) = m - 1
  BY <1>9, <1>10
<1> QED
  BY <1>8, <1>10, <1>11 DEF LoopSeesStart

\* Every step of a program keeps both what a loop is and what it has seen.
LEMMA SeesStep ==
  ASSUME AssocAssumption, BuffersTyped, LoopTyped, LoopSeesStart, [Next]_vars
  PROVE  LoopTyped' /\ LoopSeesStart'
<1>1. CASE UNCHANGED loop
  BY <1>1 DEF LoopTyped, LoopSeesStart
<1>2. CASE StartLoop
  <2>1. IsFiniteSet(indices) /\ indices \subseteq Indices
    BY FS_Subset DEF AssocAssumption, BuffersTyped
  <2>2. Cardinality(indices) \in Nat
    BY <2>1, FS_CardinalityType
  <2> QED BY <1>2, <2>1, <2>2 DEF StartLoop, LoopTyped, LoopSeesStart
<1>3. CASE Yield
  BY <1>3, YieldSees
<1>4. CASE EndLoop
  BY <1>4 DEF EndLoop, NoLoop, LoopTyped, LoopSeesStart
<1> QED
  BY <1>1, <1>2, <1>3, <1>4
  DEF Next, vars, clear, add, remove, Buffers, CreateIndexBuffer, Copy, Move, Making, Commit,
      Destroy, BufferAdd

(* A loop visits the domain it was started on, each index once and in      *)
(* order, whatever its body and the buffers do to the domain meanwhile:    *)
(* for any indices, any buffers and loops of any length.                   *)
THEOREM LoopsSeeTheirStart == Spec => []LoopSeesStart
<1>1. AssocAssumption BY AssocAssumption
<1>2. AssocInit => LoopTyped /\ LoopSeesStart
  BY DEF AssocInit, NoLoop, LoopTyped, LoopSeesStart
<1>3. BuffersTyped /\ LoopTyped /\ LoopSeesStart /\ [Next]_vars => (LoopTyped /\ LoopSeesStart)'
  BY <1>1, SeesStep
<1> QED BY <1>2, <1>3, BuffersKeepType, PTL DEF Spec
=============================================================================
