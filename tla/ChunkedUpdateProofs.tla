------------------------- MODULE ChunkedUpdateProofs -------------------------
(***************************************************************************)
(* Theorems about ChunkedUpdate, for any inputs and outputs, tensors of    *)
(* any dynamic shape and every way of cutting the batch.                   *)
(***************************************************************************)
EXTENDS ChunkedUpdate, TLAPS, FiniteSetTheorems, SequenceTheorems, WellFoundedInduction

-----------------------------------------------------------------------------
(* Numbers *)

\* A finite set of numbers has its maximum: a smallest subset without one would have
\* one when an element is taken out.
LEMMA MaxOfFinite ==
  ASSUME NEW S \in SUBSET Nat, S # {}, IsFiniteSet(S)
  PROVE  Max(S) \in S /\ \A y \in S : Max(S) >= y
<1> DEFINE NoMax == {Q \in SUBSET S : Q # {} /\ ~ \E x \in Q : \A y \in Q : x >= y}
           R == StrictSubsetOrdering(S)
<1>1. NoMax = {}
  <2> SUFFICES ASSUME NoMax # {} PROVE FALSE
    OBVIOUS
  <2>1. NoMax \subseteq FiniteSubsetsOf(S) /\ IsWellFoundedOn(R, FiniteSubsetsOf(S))
    BY FS_FiniteSubsetsOfFinite, FS_StrictSubsetOrderingWellFounded
  <2>2. PICK Q \in NoMax : \A P \in NoMax : ~(<<P, Q>> \in R)
    <3> HIDE DEF NoMax, R
    <3> QED
      BY <2>1, WFMin
  <2>3. PICK x \in Q : TRUE
    BY <2>2
  <2>4. Q \ {x} \notin NoMax
    BY <2>2, <2>3 DEF StrictSubsetOrdering
  <2>5. CASE Q \ {x} = {}
    BY <2>2, <2>3, <2>5
  <2>6. CASE Q \ {x} # {}
    <3>1. PICK z \in Q \ {x} : \A y \in Q \ {x} : z >= y
      BY <2>2, <2>4, <2>6
    <3>2. x \in Nat /\ z \in Nat /\ Q \subseteq Nat
      BY <2>2, <2>3, <3>1
    <3>3. (\A y \in Q : z >= y) \/ (\A y \in Q : x >= y)
      BY <3>1, <3>2
    <3> QED
      BY <2>2, <2>3, <3>1, <3>3
  <2> QED
    BY <2>5, <2>6
<1>2. \E x \in S : \A y \in S : x >= y
  BY <1>1
<1> QED
  BY <1>2 DEF Max

LEMMA MaxIs ==
  ASSUME NEW S, NEW m \in S, S \subseteq Int, \A x \in S : x <= m
  PROVE  Max(S) = m
<1>1. \A x \in S : (\A y \in S : x >= y) => x = m
  OBVIOUS
<1>2. \A y \in S : m >= y
  OBVIOUS
<1> QED
  BY <1>1, <1>2 DEF Max

LEMMA UpTo ==
  ASSUME NEW S, NEW L \in Nat, 0 \in S, \A k \in 0 .. L - 1 : k \in S => k + 1 \in S
  PROVE  \A k \in 0 .. L : k \in S
<1> DEFINE T == {k \in 0 .. L : \A l \in 0 .. k : l \in S}
           k == Max(T)
<1>1. T \in SUBSET Nat /\ 0 \in T
  OBVIOUS
<1>2. IsFiniteSet(T)
  <2>1. IsFiniteSet(0 .. L)
    BY FS_Interval
  <2> QED
    BY <2>1, FS_Subset
<1> HIDE DEF T
<1>3. k \in T /\ \A y \in T : k >= y
  BY <1>1, <1>2, MaxOfFinite
<1>4. CASE k < L
  <2>1. k \in 0 .. L - 1 /\ k \in S /\ k + 1 \in 0 .. L
    BY <1>3, <1>4 DEF T
  <2>2. k + 1 \in S
    BY <2>1
  <2>3. k + 1 \in T
    BY <1>3, <2>1, <2>2 DEF T
  <2> QED
    BY <1>1, <1>3, <2>1, <2>3
<1>5. CASE k >= L
  BY <1>3, <1>5 DEF T
<1>6. k \in Nat
  BY <1>1, <1>3
<1> HIDE DEF k
<1> QED
  BY <1>4, <1>5, <1>6

-----------------------------------------------------------------------------
(* Shapes and indices *)

Pos == Nat \ {0}

LEMMA IndicesAre ==
  ASSUME NEW s \in Seq(Pos)
  PROVE  Indices(s) = {i \in [1 .. Len(s) -> Pos] : \A d \in 1 .. Len(s) : i[d] <= s[d]}
<1> DEFINE T == {1} \cup {s[d] : d \in DOMAIN s}
           M == Max(T)
<1>1. Len(s) \in Nat /\ DOMAIN s = 1 .. Len(s) /\ s \in [1 .. Len(s) -> Pos]
  BY LenProperties
<1>2. T \in SUBSET Nat /\ T # {}
  BY <1>1 DEF Pos
<1>3. IsFiniteSet({s[d] : d \in DOMAIN s})
  <2>1. IsFiniteSet(DOMAIN s)
    BY <1>1, FS_Interval
  <2>2. s \in Surjection(DOMAIN s, {s[d] : d \in DOMAIN s})
    BY <1>1 DEF Surjection
  <2> QED
    BY <2>1, <2>2, FS_Surjection
<1>4. IsFiniteSet(T)
  <2>1. IsFiniteSet({1})
    BY FS_Singleton
  <2> QED
    BY <1>3, <2>1, FS_Union
<1> HIDE DEF T
<1>5. M \in T /\ \A y \in T : M >= y
  BY <1>2, <1>4, MaxOfFinite
<1>6. M \in Nat /\ \A d \in 1 .. Len(s) : s[d] \in Nat /\ s[d] <= M
  BY <1>1, <1>2, <1>5 DEF T, Pos
<1>7. Indices(s) = {i \in [1 .. Len(s) -> 1 .. M] : \A d \in 1 .. Len(s) : i[d] <= s[d]}
  BY <1>1 DEF Indices, T
<1> HIDE DEF M
<1>8. ASSUME NEW i \in [1 .. Len(s) -> Pos], \A d \in 1 .. Len(s) : i[d] <= s[d]
      PROVE  i \in [1 .. Len(s) -> 1 .. M]
  <2>1. \A d \in 1 .. Len(s) : i[d] \in 1 .. M
    BY <1>6, <1>8 DEF Pos
  <2> QED
    BY <2>1
<1>9. 1 .. M \subseteq Pos
  BY <1>6 DEF Pos
<1> QED
  BY <1>7, <1>8, <1>9

LEMMA LenIndex ==
  ASSUME NEW s \in Seq(Pos), NEW i \in Indices(s)
  PROVE  Len(i) = Len(s) /\ Len(s) \in Nat
<1>1. Len(s) \in Nat
  BY LenProperties
<1>2. i \in [1 .. Len(s) -> Pos]
  BY IndicesAre
<1>3. i \in Seq(Pos)
  BY <1>1, <1>2
<1> QED
  BY <1>1, <1>2, <1>3

-----------------------------------------------------------------------------
(* Broadcasting what an output reads, when the inputs are aligned *)

BatchedReads(m, o) == {v \in Reads[o] : Batched(m[v])}

DimOf(m, o, d) == Max({1} \cup {m[v].shape[d] : v \in BatchedReads(m, o)})

\* The tensors of m that o reads have R dynamic dimensions or none.
AlignedReads(m, o, R) ==
  \A v \in Reads[o] : /\ m[v].shape \in Seq(Pos)
                      /\ Len(m[v].shape) \in {0, R}

FitReads(m, o) ==
  \A v \in BatchedReads(m, o) : \A d \in 1 .. Len(m[v].shape) : m[v].shape[d] \in {1, DimOf(m, o, d)}

LEMMA BroadcastIs ==
  ASSUME NEW m, NEW o, NEW R \in Pos, AlignedReads(m, o, R), BatchedReads(m, o) # {}
  PROVE  /\ Broadcast(ShapesRead(m, o)) = [d \in 1 .. R |-> DimOf(m, o, d)]
         /\ Broadcasts(ShapesRead(m, o)) <=> FitReads(m, o)
<1> DEFINE S == ShapesRead(m, o)
           B == BatchedReads(m, o)
<1> USE DEF Pos
<1>1. \A v \in Reads[o] : v \in B <=> Len(m[v].shape) = R
  BY DEF BatchedReads, Batched, Rank, AlignedReads
<1>2. \A v \in Reads[o] : Len(m[v].shape) = IF v \in B THEN R ELSE 0
  BY <1>1 DEF AlignedReads
<1>3. Max({0} \cup {Len(s) : s \in S}) = R
  <2>1. {Len(s) : s \in S} \subseteq {0, R} /\ R \in {Len(s) : s \in S}
    BY <1>1, <1>2 DEF ShapesRead, BatchedReads
  <2> DEFINE L == {0} \cup {Len(s) : s \in S}
  <2>2. L \subseteq {0, R} /\ R \in L
    BY <2>1
  <2> HIDE DEF L
  <2>3. L \subseteq Int /\ \A x \in L : x <= R
    BY <2>2
  <2>4. Max(L) = R
    BY <2>2, <2>3, MaxIs
  <2> QED
    BY <2>4 DEF L
<1>4. ASSUME NEW d \in 1 .. R
      PROVE  {1} \cup {FromRight(s, R - d) : s \in S} = {1} \cup {m[v].shape[d] : v \in B}
  <2>1. ASSUME NEW v \in Reads[o]
        PROVE  FromRight(m[v].shape, R - d) = IF v \in B THEN m[v].shape[d] ELSE 1
    <3>1. CASE v \in B
      <4>1. R - d < R /\ R - (R - d) = d
        OBVIOUS
      <4> QED
        BY <1>2, <3>1, <4>1 DEF FromRight
    <3>2. CASE v \notin B
      BY <1>2, <3>2 DEF FromRight
    <3> QED
      BY <3>1, <3>2
  <2>2. {FromRight(s, R - d) : s \in S} = {FromRight(m[v].shape, R - d) : v \in Reads[o]}
    BY DEF ShapesRead
  <2>3. B \subseteq Reads[o]
    BY DEF BatchedReads
  <2> HIDE DEF B, S
  <2> QED
    BY <2>1, <2>2, <2>3
<1>5. Broadcast(S) = [d \in 1 .. R |-> DimOf(m, o, d)]
  <2>1. Broadcast(S) = [d \in 1 .. R |-> Max({1} \cup {FromRight(s, R - d) : s \in S})]
    BY <1>3 DEF Broadcast
  <2>2. \A d \in 1 .. R : Max({1} \cup {FromRight(s, R - d) : s \in S}) = DimOf(m, o, d)
    BY <1>4 DEF DimOf
  <2> HIDE DEF S
  <2> QED
    BY <2>1, <2>2
<1>6. Len(Broadcast(S)) = R
  BY <1>5
<1>7. ASSUME NEW d \in 0 .. R - 1 PROVE FromRight(Broadcast(S), d) = DimOf(m, o, R - d)
  BY <1>5, <1>6 DEF FromRight
<1>8. Broadcasts(S) <=> \A v \in B : \A d \in 0 .. R - 1 : m[v].shape[R - d] \in {1, DimOf(m, o, R - d)}
  <2>1. Broadcasts(S) <=> \A v \in Reads[o] : \A d \in 0 .. Len(m[v].shape) - 1 :
                            FromRight(m[v].shape, d) \in {1, FromRight(Broadcast(S), d)}
    BY DEF Broadcasts, ShapesRead
  <2>2. ASSUME NEW v \in Reads[o], v \notin B PROVE 0 .. Len(m[v].shape) - 1 = {}
    BY <1>2, <2>2
  <2>3. ASSUME NEW v \in B, NEW d \in 0 .. R - 1
        PROVE  /\ Len(m[v].shape) = R
               /\ FromRight(m[v].shape, d) = m[v].shape[R - d]
               /\ FromRight(Broadcast(S), d) = DimOf(m, o, R - d)
    BY <1>1, <1>7 DEF FromRight, BatchedReads
  <2>4. B \subseteq Reads[o]
    BY DEF BatchedReads
  <2>5. \A v \in B : Len(m[v].shape) = R
    BY <1>1, <2>4
  <2> HIDE DEF B, S
  <2> QED
    BY <2>1, <2>2, <2>3, <2>4, <2>5
<1>9. FitReads(m, o) <=> \A v \in B : \A d \in 0 .. R - 1 : m[v].shape[R - d] \in {1, DimOf(m, o, R - d)}
  <2>1. \A v \in B : Len(m[v].shape) = R
    BY <1>1 DEF BatchedReads
  <2>2. FitReads(m, o) <=> \A v \in B : \A d \in 1 .. R : m[v].shape[d] \in {1, DimOf(m, o, d)}
    BY <2>1 DEF FitReads
  <2>3. ASSUME NEW Q, NEW v \in B
        PROVE  (\A d \in 1 .. R : <<v, d>> \in Q) <=> \A d \in 0 .. R - 1 : <<v, R - d>> \in Q
    <3>1. ASSUME NEW d \in 1 .. R PROVE R - d \in 0 .. R - 1 /\ R - (R - d) = d
      OBVIOUS
    <3>2. ASSUME NEW d \in 0 .. R - 1 PROVE R - d \in 1 .. R
      OBVIOUS
    <3> QED
      BY <3>1, <3>2
  <2> DEFINE Q == {vd \in B \X (1 .. R) : m[vd[1]].shape[vd[2]] \in {1, DimOf(m, o, vd[2])}}
  <2>4. ASSUME NEW v \in B, NEW d \in 1 .. R PROVE <<v, d>> \in Q <=> m[v].shape[d] \in {1, DimOf(m, o, d)}
    OBVIOUS
  <2>5. ASSUME NEW d \in 0 .. R - 1 PROVE R - d \in 1 .. R
    OBVIOUS
  <2> HIDE DEF Q, B
  <2> QED
    BY <2>2, <2>3, <2>4, <2>5
<1> QED
  BY <1>5, <1>8, <1>9

\* What broadcasts has proper sizes.
LEMMA BroadcastSizes ==
  ASSUME NEW m, NEW o, NEW R \in Pos, AlignedReads(m, o, R), BatchedReads(m, o) # {}, FitReads(m, o)
  PROVE  \A d \in 1 .. R : DimOf(m, o, d) \in Pos
<1> SUFFICES ASSUME NEW d \in 1 .. R PROVE DimOf(m, o, d) \in Pos
  OBVIOUS
<1> DEFINE T == {m[v].shape[d] : v \in BatchedReads(m, o)}
           M == DimOf(m, o, d)
<1>1. ASSUME NEW v \in BatchedReads(m, o)
      PROVE  m[v].shape[d] \in Pos /\ m[v].shape[d] \in {1, M}
  <2>1. m[v].shape \in Seq(Pos) /\ Len(m[v].shape) = R
    BY DEF BatchedReads, AlignedReads, Batched, Rank
  <2>2. m[v].shape[d] \in Pos
    BY <2>1, ElementOfSeq
  <2> QED
    BY <2>1, <2>2 DEF FitReads
<1>2. T \subseteq Pos /\ T \subseteq {1, M} /\ M = Max({1} \cup T)
  BY <1>1 DEF DimOf
<1> HIDE DEF T, M
<1>3. CASE M \in T
  BY <1>2, <1>3 DEF M
<1>4. CASE M \notin T
  <2>1. {1} \cup T = {1}
    BY <1>2, <1>4
  <2>2. M = 1
    BY <1>2, <2>1, MaxIs
  <2> QED
    BY <2>2 DEF M, Pos
<1> QED
  BY <1>3, <1>4

\* An output that reads no batched tensor
LEMMA BroadcastNone ==
  ASSUME NEW m, NEW o, AlignedReads(m, o, 0)
  PROVE  /\ Broadcast(ShapesRead(m, o)) = <<>>
         /\ Broadcasts(ShapesRead(m, o))
<1> DEFINE S == ShapesRead(m, o)
<1>1. \A v \in Reads[o] : m[v].shape \in Seq(Pos) /\ Len(m[v].shape) = 0
  BY DEF AlignedReads
<1>2. \A s \in S : Len(s) = 0
  BY <1>1 DEF ShapesRead
<1> HIDE DEF S
<1>3. Max({0} \cup {Len(s) : s \in S}) = 0
  <2>1. {0} \cup {Len(s) : s \in S} = {0}
    BY <1>2
  <2> QED
    BY <2>1, MaxIs
<1>4. Broadcast(S) = <<>>
  <2>1. Broadcast(S) = [d \in 1 .. 0 |-> Max({1} \cup {FromRight(s, 0 - d) : s \in S})]
    BY <1>3 DEF Broadcast
  <2>2. 1 .. 0 = {}
    OBVIOUS
  <2> QED
    BY <2>1, <2>2
<1>5. Broadcasts(S)
  BY <1>2 DEF Broadcasts
<1> QED
  BY <1>4, <1>5 DEF S

-----------------------------------------------------------------------------
(* Chunks *)

InputsTyped == DOMAIN inputs = Inputs /\ \A v \in Inputs : inputs[v].shape \in Seq(Pos)

Sliced(v) == Batched(inputs[v]) /\ inputs[v].shape[1] # 1

\* The chunk of m entries of the batch after the first ones
ChunkOf(from, m) == [v \in Inputs |-> IF Sliced(v) THEN Slice(inputs[v], from, m) ELSE inputs[v]]

LEMMA ReadsInputs ==
  ASSUME NEW o \in Outputs
  PROVE  Reads[o] \subseteq Inputs
  BY ChunkedAssumption

LEMMA ChunkShape ==
  ASSUME InputsTyped, NEW v \in Inputs, NEW from, NEW m \in Pos
  PROVE  /\ ChunkOf(from, m)[v].shape \in Seq(Pos)
         /\ Len(ChunkOf(from, m)[v].shape) = Len(inputs[v].shape)
         /\ \A d \in 1 .. Len(inputs[v].shape) :
              ChunkOf(from, m)[v].shape[d] = IF d = 1 /\ inputs[v].shape[1] # 1 THEN m ELSE inputs[v].shape[d]
<1> DEFINE s == inputs[v].shape
           c == ChunkOf(from, m)[v].shape
<1>1. s \in Seq(Pos) /\ Len(s) \in Nat
  BY LenProperties DEF InputsTyped
<1>2. c = IF Sliced(v) THEN [s EXCEPT ![1] = m] ELSE s
  BY DEF ChunkOf, Slice
<1>3. Sliced(v) <=> Len(s) > 0 /\ s[1] # 1
  BY DEF Sliced, Batched, Rank
<1>4. CASE Sliced(v)
  <2>1. 1 \in 1 .. Len(s)
    BY <1>1, <1>3, <1>4
  <2> HIDE DEF s, c
  <2>2. /\ [s EXCEPT ![1] = m] \in Seq(Pos)
        /\ Len([s EXCEPT ![1] = m]) = Len(s)
        /\ \A d \in 1 .. Len(s) : [s EXCEPT ![1] = m][d] = IF d = 1 THEN m ELSE s[d]
    BY <1>1, <2>1, ExceptSeq
  <2>3. c \in Seq(Pos) /\ Len(c) = Len(s) /\ \A d \in 1 .. Len(s) : c[d] = IF d = 1 /\ s[1] # 1 THEN m ELSE s[d]
    BY <1>2, <1>3, <1>4, <2>2
  <2> QED
    BY <2>3 DEF s, c
<1>5. CASE ~Sliced(v)
  <2>1. c = s
    BY <1>2, <1>5
  <2>2. \A d \in 1 .. Len(s) : ~(d = 1 /\ s[1] # 1)
    BY <1>1, <1>3, <1>5
  <2> HIDE DEF s, c
  <2>3. c \in Seq(Pos) /\ Len(c) = Len(s) /\ \A d \in 1 .. Len(s) : c[d] = IF d = 1 /\ s[1] # 1 THEN m ELSE s[d]
    BY <1>1, <2>1, <2>2
  <2> QED
    BY <2>3 DEF s, c
<1> QED
  BY <1>4, <1>5

\* The inputs that an output reads
LEMMA InputReads ==
  ASSUME InputsTyped, AlignedInputs, NEW o \in Outputs
  PROVE  /\ BatchedReads(inputs, o) = {} => AlignedReads(inputs, o, 0)
         /\ BatchedReads(inputs, o) # {} => \E R \in Pos : AlignedReads(inputs, o, R)
<1>1. Reads[o] \subseteq Inputs
  BY ReadsInputs
<1>2. \A v \in Reads[o] : inputs[v].shape \in Seq(Pos) /\ Len(inputs[v].shape) \in Nat
  BY <1>1, LenProperties DEF InputsTyped
<1>3. \A v \in Reads[o] : v \in BatchedReads(inputs, o) <=> Len(inputs[v].shape) > 0
  BY DEF BatchedReads, Batched, Rank
<1>4. CASE BatchedReads(inputs, o) = {}
  BY <1>2, <1>3, <1>4 DEF AlignedReads
<1>5. CASE BatchedReads(inputs, o) # {}
  <2>1. PICK w \in BatchedReads(inputs, o) : TRUE
    BY <1>5
  <2> DEFINE R == Len(inputs[w].shape)
  <2>2. R \in Pos /\ w \in Inputs /\ w \in Reads[o]
    BY <1>1, <1>2, <1>3, <2>1 DEF BatchedReads, Pos
  <2>3. ASSUME NEW v \in Reads[o] PROVE Len(inputs[v].shape) \in {0, R}
    <3>1. CASE v \in BatchedReads(inputs, o)
      BY <1>1, <2>1, <2>2, <3>1 DEF AlignedInputs, BatchedReads, Rank
    <3>2. CASE v \notin BatchedReads(inputs, o)
      BY <1>2, <1>3, <3>2
    <3> QED
      BY <3>1, <3>2
  <2> HIDE DEF R
  <2> QED
    BY <1>2, <1>5, <2>2, <2>3 DEF AlignedReads
<1> QED
  BY <1>4, <1>5

LEMMA ChunkReads ==
  ASSUME InputsTyped, NEW o \in Outputs, NEW from, NEW m \in Pos
  PROVE  /\ BatchedReads(ChunkOf(from, m), o) = BatchedReads(inputs, o)
         /\ \A R : AlignedReads(inputs, o, R) => AlignedReads(ChunkOf(from, m), o, R)
<1>1. \A v \in Reads[o] : /\ ChunkOf(from, m)[v].shape \in Seq(Pos)
                          /\ Len(ChunkOf(from, m)[v].shape) = Len(inputs[v].shape)
  BY ReadsInputs, ChunkShape
<1> QED
  BY <1>1 DEF BatchedReads, Batched, Rank, AlignedReads

\* The sizes that an output has got for a chunk and for all of the inputs
LEMMA ChunkDims ==
  ASSUME InputsTyped, Loads, NEW o \in Outputs, NEW from, NEW m \in Pos,
         NEW R \in Pos, AlignedReads(inputs, o, R), BatchedReads(inputs, o) # {}
  PROVE  /\ \A d \in 2 .. R : DimOf(ChunkOf(from, m), o, d) = DimOf(inputs, o, d)
         /\ DimOf(ChunkOf(from, m), o, 1) = IF OfSizeOne(o) THEN 1 ELSE m
         /\ DimOf(inputs, o, 1) = IF OfSizeOne(o) THEN 1 ELSE BatchSize(inputs)
         /\ ~OfSizeOne(o) => BatchSize(inputs) \in Pos
<1> DEFINE C == ChunkOf(from, m)
           B == BatchedReads(inputs, o)
           N == BatchSize(inputs)
<1> USE DEF Pos
<1>1. BatchedReads(C, o) = B
  BY ChunkReads
<1>2. ASSUME NEW v \in B
      PROVE  /\ v \in Inputs /\ Len(inputs[v].shape) = R
             /\ \A d \in 1 .. R : C[v].shape[d] = IF d = 1 /\ inputs[v].shape[1] # 1 THEN m ELSE inputs[v].shape[d]
             /\ inputs[v].shape[1] \in {1, N} /\ inputs[v].shape[1] \in Pos
  <2>1. v \in Reads[o] /\ v \in Inputs /\ Batched(inputs[v])
    BY ReadsInputs DEF BatchedReads
  <2>2. Len(inputs[v].shape) = R
    BY <2>1 DEF AlignedReads, Batched, Rank
  <2>3. inputs[v].shape[1] \in {1, N}
    BY <2>1 DEF Loads
  <2>4. inputs[v].shape[1] \in Pos
    <3>1. inputs[v].shape \in Seq(Pos) /\ 1 \in 1 .. Len(inputs[v].shape)
      BY <2>1, <2>2 DEF InputsTyped
    <3> QED
      BY <3>1, ElementOfSeq
  <2>5. \A d \in 1 .. R : C[v].shape[d] = IF d = 1 /\ inputs[v].shape[1] # 1 THEN m ELSE inputs[v].shape[d]
    BY <2>1, <2>2, ChunkShape
  <2> QED
    BY <2>1, <2>2, <2>3, <2>4, <2>5
<1>3. OfSizeOne(o) <=> \A v \in B : inputs[v].shape[1] = 1
  BY DEF OfSizeOne, BatchedReads
<1>4. 1 \in 1 .. R
  OBVIOUS
<1>5. ASSUME NEW d \in 2 .. R PROVE DimOf(C, o, d) = DimOf(inputs, o, d)
  <2>1. \A v \in B : C[v].shape[d] = inputs[v].shape[d]
    BY <1>2
  <2>2. {C[v].shape[d] : v \in B} = {inputs[v].shape[d] : v \in B}
    BY <2>1
  <2> QED
    BY <1>1, <2>2 DEF DimOf
<1> DEFINE T == {C[v].shape[1] : v \in B}
           U == {inputs[v].shape[1] : v \in B}
<1>6. DimOf(C, o, 1) = Max({1} \cup T) /\ DimOf(inputs, o, 1) = Max({1} \cup U)
  BY <1>1 DEF DimOf
<1>7. \A v \in B : C[v].shape[1] = IF inputs[v].shape[1] # 1 THEN m ELSE 1
  BY <1>2, <1>4
<1>8. CASE OfSizeOne(o)
  <2>1. {1} \cup T = {1} /\ {1} \cup U = {1}
    BY <1>3, <1>7, <1>8
  <2>2. Max({1}) = 1
    BY MaxIs
  <2> QED
    BY <1>5, <1>6, <1>8, <2>1, <2>2
<1>9. CASE ~OfSizeOne(o)
  <2>1. PICK v \in B : inputs[v].shape[1] # 1
    BY <1>3, <1>9
  <2>2. inputs[v].shape[1] = N /\ N \in Pos /\ C[v].shape[1] = m
    BY <1>2, <1>7, <2>1
  <2>3. N \in U /\ m \in T
    BY <2>2
  <2>4. U \subseteq {1, N} /\ T \subseteq {1, m}
    BY <1>2, <1>7
  <2> HIDE DEF T, U, N, C, B
  <2>5. Max({1} \cup U) = N
    <3>1. {1} \cup U \subseteq Int /\ N \in {1} \cup U /\ \A x \in {1} \cup U : x <= N
      BY <2>2, <2>3, <2>4
    <3> QED
      BY <3>1, MaxIs
  <2>6. Max({1} \cup T) = m
    <3>1. {1} \cup T \subseteq Int /\ m \in {1} \cup T /\ \A x \in {1} \cup T : x <= m
      BY <2>3, <2>4
    <3> QED
      BY <3>1, MaxIs
  <2> QED
    BY <1>5, <1>6, <1>9, <2>2, <2>5, <2>6 DEF C, N
<1> QED
  BY <1>8, <1>9

\* A chunk fits where the whole batch does.
LEMMA ChunkFits ==
  ASSUME InputsTyped, Loads, NEW o \in Outputs, NEW from, NEW m \in Pos,
         NEW R \in Pos, AlignedReads(inputs, o, R), BatchedReads(inputs, o) # {}
  PROVE  FitReads(ChunkOf(from, m), o) <=> FitReads(inputs, o)
<1> DEFINE C == ChunkOf(from, m)
           B == BatchedReads(inputs, o)
           N == BatchSize(inputs)
<1>1. BatchedReads(C, o) = B
  BY ChunkReads
<1>2. ASSUME NEW v \in B
      PROVE  /\ Len(inputs[v].shape) = R /\ Len(C[v].shape) = R
             /\ \A d \in 1 .. R : C[v].shape[d] = IF d = 1 /\ inputs[v].shape[1] # 1 THEN m ELSE inputs[v].shape[d]
             /\ inputs[v].shape[1] \in {1, N} /\ (OfSizeOne(o) => inputs[v].shape[1] = 1)
  <2>1. v \in Reads[o] /\ v \in Inputs /\ Batched(inputs[v])
    BY ReadsInputs DEF BatchedReads
  <2>2. Len(inputs[v].shape) = R
    BY <2>1 DEF AlignedReads, Batched, Rank
  <2>3. inputs[v].shape[1] \in {1, N} /\ (OfSizeOne(o) => inputs[v].shape[1] = 1)
    BY <2>1 DEF Loads, OfSizeOne
  <2> QED
    BY <2>1, <2>2, <2>3, ChunkShape
<1>3. /\ \A d \in 2 .. R : DimOf(C, o, d) = DimOf(inputs, o, d)
      /\ DimOf(C, o, 1) = IF OfSizeOne(o) THEN 1 ELSE m
      /\ DimOf(inputs, o, 1) = IF OfSizeOne(o) THEN 1 ELSE N
  BY ChunkDims
<1>4. FitReads(C, o) <=> \A v \in B : \A d \in 1 .. R : C[v].shape[d] \in {1, DimOf(C, o, d)}
  BY <1>1, <1>2 DEF FitReads
<1>5. FitReads(inputs, o) <=> \A v \in B : \A d \in 1 .. R : inputs[v].shape[d] \in {1, DimOf(inputs, o, d)}
  BY <1>2 DEF FitReads
<1>6. 1 \in 1 .. R /\ 1 .. R = {1} \cup 2 .. R
  BY DEF Pos
<1>7. ASSUME NEW v \in B
      PROVE  C[v].shape[1] \in {1, DimOf(C, o, 1)} /\ inputs[v].shape[1] \in {1, DimOf(inputs, o, 1)}
  BY <1>2, <1>3, <1>6
<1>8. ASSUME NEW v \in B, NEW d \in 2 .. R
      PROVE  C[v].shape[d] = inputs[v].shape[d] /\ DimOf(C, o, d) = DimOf(inputs, o, d)
  BY <1>2, <1>3, <1>6
<1> HIDE DEF B, C, N
<1> QED
  BY <1>4, <1>5, <1>6, <1>7, <1>8 DEF C

\* Evaluating a chunk fails if and only if evaluating the whole batch does.
LEMMA ChunkAccepted ==
  ASSUME InputsTyped, Loads, AlignedInputs, NEW from, NEW m \in Pos
  PROVE  Accepts(ChunkOf(from, m)) <=> Accepts(inputs)
<1> DEFINE C == ChunkOf(from, m)
<1>1. ASSUME NEW o \in Outputs
      PROVE  Broadcasts(ShapesRead(C, o)) <=> Broadcasts(ShapesRead(inputs, o))
  <2>1. CASE BatchedReads(inputs, o) = {}
    <3>1. AlignedReads(inputs, o, 0) /\ AlignedReads(C, o, 0)
      BY <2>1, InputReads, ChunkReads
    <3> QED
      BY <3>1, BroadcastNone
  <2>2. CASE BatchedReads(inputs, o) # {}
    <3>1. PICK R \in Pos : AlignedReads(inputs, o, R)
      BY <2>2, InputReads
    <3>2. AlignedReads(C, o, R) /\ BatchedReads(C, o) # {}
      BY <2>2, <3>1, ChunkReads
    <3>3. Broadcasts(ShapesRead(C, o)) <=> FitReads(C, o)
      BY <3>2, BroadcastIs
    <3>4. Broadcasts(ShapesRead(inputs, o)) <=> FitReads(inputs, o)
      BY <2>2, <3>1, BroadcastIs
    <3>5. FitReads(C, o) <=> FitReads(inputs, o)
      BY <2>2, <3>1, ChunkFits
    <3> QED
      BY <3>3, <3>4, <3>5
  <2> QED
    BY <2>1, <2>2
<1> QED
  BY <1>1 DEF Accepts

-----------------------------------------------------------------------------
(* The entries of an update *)

Shifted(i, from) == [i EXCEPT ![1] = @ + from]

\* Outputs that read no input which is cut are the same for every chunk.
LEMMA WholeChunk ==
  ASSUME NEW o \in Outputs, NEW from, NEW m, \A v \in Reads[o] : ~Sliced(v)
  PROVE  Update(ChunkOf(from, m))[o] = Update(inputs)[o]
<1> DEFINE C == ChunkOf(from, m)
<1>1. \A v \in Reads[o] : C[v] = inputs[v]
  BY ReadsInputs DEF ChunkOf
<1> HIDE DEF C
<1>2. ShapesRead(C, o) = ShapesRead(inputs, o)
  BY <1>1 DEF ShapesRead
<1>3. \A i : [v \in Reads[o] |-> At(C[v], i)] = [v \in Reads[o] |-> At(inputs[v], i)]
  BY <1>1
<1> QED
  BY <1>2, <1>3 DEF Update, C

\* The entry of an input that an entry of a chunk refers to
LEMMA ChunkEntry ==
  ASSUME InputsTyped, NEW v \in Inputs, NEW from \in Nat, NEW m \in Pos, NEW R \in Pos,
         Len(inputs[v].shape) \in {0, R}, NEW i \in [1 .. R -> Pos],
         \A d \in 1 .. Len(inputs[v].shape) :
           ChunkOf(from, m)[v].shape[d] = 1 \/ i[d] <= ChunkOf(from, m)[v].shape[d],
         Sliced(v) => i[1] <= m
  PROVE  At(ChunkOf(from, m)[v], i) = At(inputs[v], Shifted(i, from))
<1> USE DEF Pos
<1> DEFINE s == inputs[v].shape
           c == ChunkOf(from, m)[v].shape
           i2 == Shifted(i, from)
<1>1. Len(i) = R /\ R \in Nat /\ 1 \in 1 .. R
  OBVIOUS
<1>2. i2 \in [1 .. R -> Int] /\ i2[1] = i[1] + from /\ \A d \in 2 .. R : i2[d] = i[d]
  BY <1>1 DEF Shifted
<1>3. Len(i2) = R
  <2>1. i2 \in Seq(Int)
    BY <1>1, <1>2
  <2> QED
    BY <1>1, <1>2, <2>1
<1>4. /\ c \in Seq(Pos) /\ s \in Seq(Pos) /\ Len(c) = Len(s)
      /\ \A d \in 1 .. Len(s) : c[d] = IF d = 1 /\ s[1] # 1 THEN m ELSE s[d]
  BY ChunkShape DEF InputsTyped
<1>5. Sliced(v) <=> Len(s) > 0 /\ s[1] # 1
  BY DEF Sliced, Batched, Rank
<1>6. At(ChunkOf(from, m)[v], i)
        = ChunkOf(from, m)[v].at[[d \in 1 .. Len(c) |-> IF c[d] = 1 THEN 1 ELSE i[d + Len(i) - Len(c)]]]
  BY DEF At, Rank
<1>7. At(inputs[v], i2) = inputs[v].at[[d \in 1 .. Len(s) |-> IF s[d] = 1 THEN 1 ELSE i2[d + Len(i2) - Len(s)]]]
  BY DEF At, Rank
<1> DEFINE j == [d \in 1 .. Len(c) |-> IF c[d] = 1 THEN 1 ELSE i[d + Len(i) - Len(c)]]
           k == [d \in 1 .. Len(s) |-> IF s[d] = 1 THEN 1 ELSE i2[d + Len(i2) - Len(s)]]
<1>8. CASE Sliced(v)
  <2>1. Len(s) = R /\ s[1] # 1
    BY <1>5, <1>8
  <2>2. c = [s EXCEPT ![1] = m]
    BY <1>8 DEF ChunkOf, Slice
  <2>3. j = [d \in 1 .. R |-> IF c[d] = 1 THEN 1 ELSE i[d]]
    BY <1>1, <1>4, <2>1
  <2>4. k = [d \in 1 .. R |-> IF s[d] = 1 THEN 1 ELSE i2[d]]
    BY <1>3, <2>1
  <2>5. j \in Indices(c)
    <3>1. ASSUME NEW d \in 1 .. R PROVE j[d] \in Pos /\ j[d] <= c[d]
      <4>1. c[d] \in Pos
        BY <1>4, <2>1, ElementOfSeq
      <4>2. c[d] = 1 \/ i[d] <= c[d]
        BY <2>1
      <4> HIDE DEF c, s, j
      <4> QED
        BY <2>3, <4>1, <4>2
    <3>2. j \in [1 .. R -> Pos]
      BY <2>3, <3>1
    <3>3. Indices(c) = {x \in [1 .. R -> Pos] : \A d \in 1 .. R : x[d] <= c[d]}
      BY <1>4, <2>1, IndicesAre
    <3> HIDE DEF j, c, s
    <3> QED
      BY <3>1, <3>2, <3>3
  <2>6. ChunkOf(from, m)[v].at = [x \in Indices(c) |-> inputs[v].at[[x EXCEPT ![1] = @ + from]]]
    BY <1>8 DEF ChunkOf, Slice
  <2>7. [j EXCEPT ![1] = @ + from] = k
    <3>1. j[1] = i[1]
      <4>1. c[1] = m /\ i[1] <= m /\ i[1] \in Pos
        BY <1>1, <1>4, <1>8, <2>1
      <4>2. j[1] = IF c[1] = 1 THEN 1 ELSE i[1]
        BY <1>1, <2>3
      <4> HIDE DEF j, c, s
      <4> QED
        BY <4>1, <4>2
    <3>2. k[1] = i[1] + from
      BY <1>1, <1>2, <2>1, <2>4
    <3>3. ASSUME NEW d \in 2 .. R PROVE j[d] = k[d]
      <4>1. d \in 1 .. R /\ d # 1
        OBVIOUS
      <4>2. c[d] = s[d] /\ i2[d] = i[d]
        BY <1>2, <1>4, <2>1, <4>1
      <4>3. j[d] = (IF c[d] = 1 THEN 1 ELSE i[d]) /\ k[d] = (IF s[d] = 1 THEN 1 ELSE i2[d])
        BY <2>3, <2>4, <4>1
      <4> HIDE DEF j, k, c, s, i2
      <4> QED
        BY <4>2, <4>3
    <3>4. DOMAIN j = 1 .. R /\ DOMAIN k = 1 .. R /\ j = [d \in 1 .. R |-> j[d]] /\ k = [d \in 1 .. R |-> k[d]]
      BY <2>3, <2>4
    <3> HIDE DEF j, k
    <3>5. ASSUME NEW d \in 1 .. R PROVE [j EXCEPT ![1] = @ + from][d] = k[d]
      <4>1. [j EXCEPT ![1] = @ + from][d] = IF d = 1 THEN j[1] + from ELSE j[d]
        BY <3>4
      <4>2. d = 1 \/ d \in 2 .. R
        OBVIOUS
      <4> QED
        BY <3>1, <3>2, <3>3, <4>1, <4>2
    <3>6. [j EXCEPT ![1] = @ + from] = [d \in 1 .. R |-> [j EXCEPT ![1] = @ + from][d]]
      BY <3>4
    <3> QED
      BY <3>4, <3>5, <3>6
  <2> HIDE DEF j, k, i2
  <2> QED
    BY <1>6, <1>7, <2>5, <2>6, <2>7 DEF j, k, i2
<1>9. CASE ~Sliced(v)
  <2>1. ChunkOf(from, m)[v] = inputs[v] /\ c = s
    BY <1>9 DEF ChunkOf
  <2>2. ASSUME NEW d \in 1 .. Len(s) PROVE j[d] = k[d]
    <3>1. Len(s) = R
      BY <1>4
    <3>2. s[1] = 1
      BY <1>5, <1>9, <3>1
    <3>3. d + Len(i) - Len(c) = d /\ d + Len(i2) - Len(s) = d
      BY <1>1, <1>3, <1>4, <3>1
    <3>4. j[d] = (IF s[d] = 1 THEN 1 ELSE i[d]) /\ k[d] = (IF s[d] = 1 THEN 1 ELSE i2[d])
      BY <1>4, <2>1, <3>3
    <3> HIDE DEF j, k, s, c, i2
    <3> QED
      BY <1>2, <3>1, <3>2, <3>4
  <2>3. j = k
    BY <1>4, <2>2
  <2> HIDE DEF j, k, i2
  <2> QED
    BY <1>6, <1>7, <2>1, <2>3 DEF j, k, i2
<1> QED
  BY <1>8, <1>9


\* The sizes of an output whose dimension 0 is cut
Sizes(o, R, n) == [d \in 1 .. R |-> IF d = 1 THEN n ELSE DimOf(inputs, o, d)]

\* Its entries for a chunk are those that it has for the whole batch, further on.
LEMMA CutUpdate ==
  ASSUME InputsTyped, Loads, NEW o \in Outputs, NEW R \in Pos, AlignedReads(inputs, o, R),
         BatchedReads(inputs, o) # {}, FitReads(inputs, o), ~OfSizeOne(o),
         NEW from \in Nat, NEW m \in Pos, from + m <= BatchSize(inputs)
  PROVE  /\ Update(inputs)[o].shape = Sizes(o, R, BatchSize(inputs))
         /\ Update(ChunkOf(from, m))[o].shape = Sizes(o, R, m)
         /\ BatchSize(inputs) \in Pos
         /\ \A n \in Pos : Sizes(o, R, n) \in Seq(Pos) /\ Len(Sizes(o, R, n)) = R
         /\ \A i \in Indices(Sizes(o, R, m)) :
              /\ Shifted(i, from) \in Indices(Sizes(o, R, BatchSize(inputs)))
              /\ Update(ChunkOf(from, m))[o].at[i] = Update(inputs)[o].at[Shifted(i, from)]
<1> DEFINE C == ChunkOf(from, m)
           N == BatchSize(inputs)
           D(n) == Sizes(o, R, n)
<1>1. AlignedReads(C, o, R) /\ BatchedReads(C, o) # {} /\ FitReads(C, o)
  BY ChunkReads, ChunkFits
<1>2. /\ \A d \in 2 .. R : DimOf(C, o, d) = DimOf(inputs, o, d)
      /\ DimOf(C, o, 1) = m /\ DimOf(inputs, o, 1) = N /\ N \in Pos
  BY ChunkDims
<1>3. Broadcast(ShapesRead(inputs, o)) = [d \in 1 .. R |-> DimOf(inputs, o, d)]
  BY BroadcastIs
<1>4. Broadcast(ShapesRead(C, o)) = [d \in 1 .. R |-> DimOf(C, o, d)]
  BY <1>1, BroadcastIs
<1>5. \A d \in 1 .. R : d = 1 \/ d \in 2 .. R
  BY DEF Pos
<1>6. Broadcast(ShapesRead(inputs, o)) = D(N) /\ Broadcast(ShapesRead(C, o)) = D(m)
  <2>1. \A d \in 1 .. R : DimOf(inputs, o, d) = IF d = 1 THEN N ELSE DimOf(inputs, o, d)
    BY <1>2
  <2>2. \A d \in 1 .. R : DimOf(C, o, d) = IF d = 1 THEN m ELSE DimOf(inputs, o, d)
    BY <1>2, <1>5
  <2> HIDE DEF C, N
  <2> QED
    BY <1>3, <1>4, <2>1, <2>2 DEF Sizes
<1>7. ASSUME NEW n \in Pos PROVE D(n) \in [1 .. R -> Pos] /\ D(n) \in Seq(Pos) /\ Len(D(n)) = R
  <2>1. \A d \in 1 .. R : DimOf(inputs, o, d) \in Pos
    BY BroadcastSizes
  <2>2. D(n) \in [1 .. R -> Pos]
    BY <2>1 DEF Sizes
  <2> QED
    BY <2>2 DEF Pos
<1>8. Update(inputs)[o].shape = D(N) /\ Update(C)[o].shape = D(m)
  BY <1>6 DEF Update
<1>9. ASSUME NEW n \in Pos
      PROVE  Indices(D(n)) = {i \in [1 .. R -> Pos] : \A d \in 1 .. R : i[d] <= D(n)[d]}
  BY <1>7, IndicesAre
<1>10. ASSUME NEW i \in Indices(D(m))
       PROVE  /\ i \in [1 .. R -> Pos] /\ i[1] <= m
              /\ \A d \in 2 .. R : i[d] <= DimOf(inputs, o, d)
              /\ Shifted(i, from) \in Indices(D(N))
  <2>1. i \in [1 .. R -> Pos] /\ \A d \in 1 .. R : i[d] <= D(m)[d]
    BY <1>9
  <2>2. 1 \in 1 .. R /\ i[1] <= m /\ \A d \in 2 .. R : i[d] <= DimOf(inputs, o, d)
    BY <2>1 DEF Sizes, Pos
  <2> DEFINE j == Shifted(i, from)
  <2>3. j \in [1 .. R -> Pos] /\ j[1] = i[1] + from /\ \A d \in 2 .. R : j[d] = i[d]
    BY <2>1, <2>2 DEF Shifted, Pos
  <2>4. i[1] + from <= N
    BY <1>2, <2>1, <2>2 DEF Pos
  <2> HIDE DEF j
  <2>5. ASSUME NEW d \in 1 .. R PROVE j[d] <= D(N)[d]
    <3>1. D(N)[d] = IF d = 1 THEN N ELSE DimOf(inputs, o, d)
      BY DEF Sizes
    <3> HIDE DEF D, N
    <3> QED
      BY <1>5, <2>2, <2>3, <2>4, <3>1
  <2>6. j \in Indices(D(N))
    BY <1>2, <1>9, <2>3, <2>5
  <2> QED
    BY <2>1, <2>2, <2>6 DEF j
<1>11. ASSUME NEW i \in Indices(D(m))
       PROVE  Update(C)[o].at[i] = Update(inputs)[o].at[Shifted(i, from)]
  <2>1. Update(C)[o].at[i] = [v \in Reads[o] |-> At(C[v], i)]
    BY <1>6 DEF Update
  <2>2. Update(inputs)[o].at[Shifted(i, from)] = [v \in Reads[o] |-> At(inputs[v], Shifted(i, from))]
    BY <1>6, <1>10 DEF Update
  <2>3. ASSUME NEW v \in Reads[o] PROVE At(C[v], i) = At(inputs[v], Shifted(i, from))
    <3>1. v \in Inputs /\ Len(inputs[v].shape) \in {0, R} /\ Len(C[v].shape) = Len(inputs[v].shape)
      BY ReadsInputs, ChunkShape DEF AlignedReads
    <3>2. ASSUME NEW d \in 1 .. Len(inputs[v].shape) PROVE C[v].shape[d] = 1 \/ i[d] <= C[v].shape[d]
      <4>1. Len(inputs[v].shape) = R /\ Len(C[v].shape) = R /\ d \in 1 .. R
        BY <3>1
      <4>2. v \in BatchedReads(C, o)
        BY <4>1 DEF BatchedReads, Batched, Rank, Pos
      <4>3. C[v].shape[d] \in {1, DimOf(C, o, d)}
        BY <1>1, <4>1, <4>2 DEF FitReads
      <4>4. i[d] <= DimOf(C, o, d)
        BY <1>2, <1>5, <1>10, <4>1
      <4> HIDE DEF C
      <4> QED
        BY <4>3, <4>4
    <3> QED
      BY <1>10, <3>1, <3>2, ChunkEntry
  <2> QED
    BY <2>1, <2>2, <2>3
<1> QED
  BY <1>2, <1>7, <1>8, <1>10, <1>11

-----------------------------------------------------------------------------
(* Concatenation *)

\* Tensors with a dimension 0
Parts(ts) ==
  /\ Len(ts) \in Nat /\ DOMAIN ts = 1 .. Len(ts)
  /\ \A k \in 1 .. Len(ts) : ts[k].shape[1] \in Pos

LEMMA StartStep ==
  ASSUME NEW ts, Parts(ts)
  PROVE  /\ Start(ts, 1) = 0
         /\ \A k \in 1 .. Len(ts) : Start(ts, k + 1) = Start(ts, k) + ts[k].shape[1]
         /\ \A k \in 1 .. Len(ts) + 1 : Start(ts, k) \in Nat
<1> DEFINE L == Len(ts)
           Def(f, l) == f = [n \in 0 .. l |-> IF n = 0 THEN 0 ELSE f[n - 1] + ts[n].shape[1]]
           S == {l \in 0 .. L : \E f : Def(f, l)}
<1>1. L \in Nat /\ \A k \in 1 .. L : ts[k].shape[1] \in Pos
  BY DEF Parts
<1>2. 0 \in S
  <2>1. Def([n \in 0 .. 0 |-> 0], 0)
    <3>1. \A n \in 0 .. 0 : n = 0
      OBVIOUS
    <3> QED
      BY <3>1
  <2> HIDE DEF Def
  <2> QED
    BY <1>1, <2>1
<1>3. ASSUME NEW l \in 0 .. L - 1, l \in S PROVE l + 1 \in S
  <2>1. PICK f : Def(f, l)
    BY <1>3
  <2> DEFINE g == [n \in 0 .. l + 1 |-> IF n = l + 1 THEN f[l] + ts[l + 1].shape[1] ELSE f[n]]
  <2>2. ASSUME NEW n \in 0 .. l + 1
        PROVE  g[n] = IF n = 0 THEN 0 ELSE g[n - 1] + ts[n].shape[1]
    <3>1. CASE n = 0
      <4>1. g[n] = f[0]
        BY <3>1
      <4>2. f[0] = 0
        BY <2>1
      <4> QED
        BY <3>1, <4>1, <4>2
    <3>2. CASE n = l + 1
      BY <3>2
    <3>3. CASE n \in 1 .. l
      <4>1. g[n] = f[n] /\ g[n - 1] = f[n - 1]
        BY <3>3
      <4>2. f[n] = f[n - 1] + ts[n].shape[1]
        BY <2>1, <3>3
      <4> QED
        BY <3>3, <4>1, <4>2
    <3> QED
      BY <3>1, <3>2, <3>3
  <2>3. g = [n \in 0 .. l + 1 |-> g[n]]
    OBVIOUS
  <2> HIDE DEF g
  <2>4. Def(g, l + 1)
    BY <2>2, <2>3
  <2>5. l + 1 \in 0 .. L
    BY <1>1
  <2> HIDE DEF Def
  <2> QED
    BY <2>4, <2>5
<1> HIDE DEF S
<1>4. \A l \in 0 .. L : l \in S
  BY <1>1, <1>2, <1>3, UpTo
<1>5. L \in S
  BY <1>1, <1>4
<1> DEFINE f == CHOOSE f : Def(f, L)
<1>6. Def(f, L)
  BY <1>5 DEF S
<1>7. \A k : Start(ts, k) = f[k - 1]
  BY DEF Start
<1> HIDE DEF f
<1>8. f[0] = 0 /\ \A n \in 1 .. L : f[n] = f[n - 1] + ts[n].shape[1]
  BY <1>1, <1>6
<1>9. ASSUME NEW k \in 1 .. L PROVE Start(ts, k + 1) = Start(ts, k) + ts[k].shape[1]
  BY <1>7, <1>8
<1>10. \A n \in 0 .. L : n \in {l \in 0 .. L : f[l] \in Nat}
  <2> DEFINE T == {l \in 0 .. L : f[l] \in Nat}
  <2>1. 0 \in T
    BY <1>1, <1>8
  <2>2. ASSUME NEW l \in 0 .. L - 1, l \in T PROVE l + 1 \in T
    <3>1. l + 1 \in 1 .. L /\ f[l + 1] = f[l] + ts[l + 1].shape[1] /\ ts[l + 1].shape[1] \in Nat
      BY <1>1, <1>8 DEF Pos
    <3> QED
      BY <2>2, <3>1
  <2> HIDE DEF T
  <2>3. \A l \in 0 .. L : l \in T
    BY <1>1, <2>1, <2>2, UpTo
  <2> QED
    BY <2>3 DEF T
<1>11. ASSUME NEW k \in 1 .. L + 1 PROVE Start(ts, k) \in Nat
  <2>1. k - 1 \in 0 .. L
    BY <1>1
  <2> QED
    BY <1>7, <1>10, <2>1
<1> QED
  BY <1>7, <1>8, <1>9, <1>11

\* Every place along dimension 0 is in some part.
LEMMA PartExists ==
  ASSUME NEW ts, Parts(ts), NEW n \in 1 .. Start(ts, Len(ts) + 1)
  PROVE  \E k \in 1 .. Len(ts) : Start(ts, k) < n /\ n <= Start(ts, k + 1)
<1> DEFINE L == Len(ts)
           In(k) == Start(ts, k) < n /\ n <= Start(ts, k + 1)
           S == {l \in 0 .. L : n <= Start(ts, l + 1) => \E k \in 1 .. l : In(k)}
<1>1. L \in Nat /\ Start(ts, 1) = 0 /\ \A k \in 1 .. L + 1 : Start(ts, k) \in Nat
  BY StartStep DEF Parts
<1>2. 0 \in S
  BY <1>1
<1>3. ASSUME NEW l \in 0 .. L - 1, l \in S PROVE l + 1 \in S
  <2>1. l + 1 \in 0 .. L /\ l + 1 \in 1 .. L + 1 /\ (l + 1) + 1 \in 1 .. L + 1 /\ l + 1 \in 1 .. l + 1
    BY <1>1
  <2>2. CASE n <= Start(ts, l + 1)
    <3>1. \E k \in 1 .. l : In(k)
      BY <1>3, <2>2
    <3> QED
      BY <2>1, <3>1
  <2>3. CASE Start(ts, l + 1) < n
    BY <2>1, <2>3
  <2>4. Start(ts, l + 1) \in Int /\ n \in Int
    BY <1>1, <2>1
  <2> QED
    BY <2>2, <2>3, <2>4
<1> HIDE DEF S
<1>4. \A l \in 0 .. L : l \in S
  BY <1>1, <1>2, <1>3, UpTo
<1>5. L \in S
  BY <1>1, <1>4
<1>6. n <= Start(ts, L + 1)
  BY <1>1
<1> QED
  BY <1>5, <1>6 DEF S

\* An entry of the concatenation is one of a part.
LEMMA CatEntry ==
  ASSUME NEW ts, Parts(ts), NEW i \in Indices(Cat(ts).shape), i[1] \in 1 .. Start(ts, Len(ts) + 1)
  PROVE  \E k \in 1 .. Len(ts) :
           /\ Start(ts, k) < i[1] /\ i[1] <= Start(ts, k + 1)
           /\ Cat(ts).at[i] = ts[k].at[[i EXCEPT ![1] = @ - Start(ts, k)]]
<1> DEFINE n == i[1]
           part == CHOOSE k \in DOMAIN ts : Start(ts, k) < n /\ n <= Start(ts, k + 1)
<1>1. DOMAIN ts = 1 .. Len(ts)
  BY DEF Parts
<1>2. \E k \in DOMAIN ts : Start(ts, k) < n /\ n <= Start(ts, k + 1)
  BY <1>1, PartExists
<1>3. part \in 1 .. Len(ts) /\ Start(ts, part) < n /\ n <= Start(ts, part + 1)
  BY <1>1, <1>2
<1>4. Cat(ts).at[i] = ts[part].at[[i EXCEPT ![1] = @ - Start(ts, part)]]
  BY DEF Cat
<1> QED
  BY <1>3, <1>4

-----------------------------------------------------------------------------
(* Tensors with the same entries *)

LEMMA BroadcastOfTwo ==
  ASSUME NEW s \in Seq(Pos), Len(s) \in Pos, NEW w \in Seq(Pos), Len(w) \in {0, Len(s)},
         \A d \in 1 .. Len(w) : w[d] \in {1, s[d]}
  PROVE  Broadcast({s, w}) = s /\ Broadcasts({s, w})
<1> USE DEF Pos
<1> DEFINE R == Len(s)
<1>1. R \in Nat /\ s \in [1 .. R -> Pos]
  BY LenProperties
<1>2. Max({0} \cup {Len(x) : x \in {s, w}}) = R
  <2> DEFINE T == {0} \cup {Len(x) : x \in {s, w}}
  <2>1. T = {0, R}
    OBVIOUS
  <2> HIDE DEF T, R
  <2>2. Max({0, R}) = R
    <3>1. {0, R} \subseteq Int /\ \A x \in {0, R} : x <= R
      BY <1>1
    <3> QED
      BY <3>1, MaxIs
  <2> QED
    BY <2>1, <2>2 DEF T
<1>3. ASSUME NEW d \in 0 .. R - 1
      PROVE  /\ FromRight(s, d) = s[R - d] /\ FromRight(w, d) \in {1, s[R - d]} /\ R - d \in 1 .. R
  <2>1. R - d \in 1 .. R
    BY <1>1
  <2>2. CASE Len(w) = 0
    BY <1>1, <2>1, <2>2 DEF FromRight
  <2>3. CASE Len(w) = R
    BY <1>1, <2>1, <2>3 DEF FromRight
  <2> QED
    BY <2>1, <2>2, <2>3
<1>4. ASSUME NEW d \in 1 .. R
      PROVE  Max({1} \cup {FromRight(x, R - d) : x \in {s, w}}) = s[d]
  <2>1. R - d \in 0 .. R - 1 /\ R - (R - d) = d
    BY <1>1
  <2>2. FromRight(s, R - d) = s[d] /\ FromRight(w, R - d) \in {1, s[d]}
    BY <1>3, <2>1
  <2>3. s[d] \in Pos
    BY <1>1
  <2> DEFINE T == {1} \cup {FromRight(x, R - d) : x \in {s, w}}
             e == s[d]
  <2>4. T \subseteq {1, e} /\ e \in T
    BY <2>2
  <2> HIDE DEF T, e
  <2>5. e \in Int /\ 1 <= e
    BY <2>3 DEF e
  <2>6. T \subseteq Int /\ \A x \in T : x <= e
    BY <2>4, <2>5
  <2>7. Max(T) = e
    BY <2>4, <2>6, MaxIs
  <2> QED
    BY <2>7 DEF T, e
<1>5. Broadcast({s, w}) = [d \in 1 .. R |-> s[d]]
  <2>1. Broadcast({s, w}) = [d \in 1 .. R |-> Max({1} \cup {FromRight(x, R - d) : x \in {s, w}})]
    BY <1>2 DEF Broadcast
  <2> QED
    BY <1>4, <2>1
<1>6. Broadcast({s, w}) = s
  BY <1>1, <1>5
<1>7. Broadcasts({s, w})
  <2> SUFFICES ASSUME NEW x \in {s, w}, NEW d \in 0 .. Len(x) - 1
               PROVE  FromRight(x, d) \in {1, FromRight(s, d)}
    BY <1>6 DEF Broadcasts
  <2>1. d \in 0 .. R - 1
    BY <1>1
  <2> QED
    BY <1>3, <2>1
<1> QED
  BY <1>6, <1>7

\* The part of an index that refers to an entry of a tensor with dimensions of size one
Clip(w, i) == [d \in 1 .. Len(w) |-> IF w[d] = 1 THEN 1 ELSE i[d]]

LEMMA SameWhenClipped ==
  ASSUME NEW t, NEW u, t.shape \in Seq(Pos), Len(t.shape) \in Pos,
         u.shape \in Seq(Pos), Len(u.shape) \in {0, Len(t.shape)},
         \A d \in 1 .. Len(u.shape) : u.shape[d] \in {1, t.shape[d]},
         \A i \in Indices(t.shape) : t.at[i] = u.at[Clip(u.shape, i)]
  PROVE  SameEntries(t, u)
<1> DEFINE s == t.shape
           w == u.shape
<1>1. Broadcast({s, w}) = s /\ Broadcasts({s, w})
  BY BroadcastOfTwo
<1>2. ASSUME NEW i \in Indices(s) PROVE At(t, i) = At(u, i)
  <2>1. Len(i) = Len(s) /\ Len(s) \in Nat
    BY LenIndex
  <2>2. i \in [1 .. Len(s) -> Pos] /\ \A d \in 1 .. Len(s) : i[d] <= s[d]
    BY IndicesAre
  <2>3. [d \in 1 .. Len(s) |-> IF s[d] = 1 THEN 1 ELSE i[d + Len(i) - Len(s)]] = i
    <3>1. ASSUME NEW d \in 1 .. Len(s) PROVE (IF s[d] = 1 THEN 1 ELSE i[d + Len(i) - Len(s)]) = i[d]
      <4>1. d + Len(i) - Len(s) = d
        BY <2>1
      <4>2. s[d] = 1 => i[d] = 1
        BY <2>2 DEF Pos
      <4> QED
        BY <4>1, <4>2
    <3> HIDE DEF s
    <3> QED
      BY <2>2, <3>1
  <2>4. At(t, i) = t.at[i]
    BY <2>3 DEF At, Rank
  <2>5. [d \in 1 .. Len(w) |-> IF w[d] = 1 THEN 1 ELSE i[d + Len(i) - Len(w)]] = Clip(w, i)
    <3>1. ASSUME NEW d \in 1 .. Len(w) PROVE d + Len(i) - Len(w) = d
      BY <2>1
    <3> QED
      BY <3>1 DEF Clip
  <2>6. At(u, i) = u.at[Clip(w, i)]
    BY <2>5 DEF At, Rank
  <2> QED
    BY <2>4, <2>6
<1> QED
  BY <1>1, <1>2 DEF SameEntries


-----------------------------------------------------------------------------
(* The reduction *)

LEMMA BatchSizeType ==
  ASSUME InputsTyped, Loads
  PROVE  BatchSize(inputs) \in Pos
<1> DEFINE N == BatchSize(inputs)
           T == {inputs[v].shape[1] : v \in {w \in Inputs : Batched(inputs[w])}}
<1>1. N = Max({0} \cup T)
  BY DEF BatchSize, InputsTyped
<1>2. T \subseteq {1, N} /\ N > 0
  BY DEF Loads
<1>3. T \subseteq Pos
  <2>1. ASSUME NEW v \in Inputs, Batched(inputs[v]) PROVE inputs[v].shape[1] \in Pos
    <3>1. inputs[v].shape \in Seq(Pos) /\ Len(inputs[v].shape) \in Nat
      BY LenProperties DEF InputsTyped
    <3>2. 1 \in 1 .. Len(inputs[v].shape)
      BY <2>1, <3>1 DEF Batched, Rank
    <3> QED
      BY <3>1, <3>2, ElementOfSeq
  <2> QED
    BY <2>1
<1> HIDE DEF T, N
<1>4. CASE N \in T
  BY <1>3, <1>4 DEF N
<1>5. CASE N \notin T
  <2>1. T = {} \/ T = {1}
    BY <1>2, <1>5
  <2>2. CASE T = {}
    <3>1. Max({0}) = 0 /\ {0} \cup T = {0}
      BY <2>2, MaxIs
    <3> QED
      BY <1>1, <1>2, <3>1
  <2>3. CASE T = {1}
    <3>1. Max({0, 1}) = 1 /\ {0} \cup T = {0, 1}
      BY <2>3, MaxIs
    <3> QED
      BY <1>1, <1>5, <2>3, <3>1
  <2> QED
    BY <2>1, <2>2, <2>3
<1> QED
  BY <1>4, <1>5

\* The results are those of chunks that follow each other up to a place in the batch.
Cuts(f, K, last) ==
  /\ f \in [0 .. K -> Nat] /\ f[0] = 0 /\ f[K] = last
  /\ \A k \in 1 .. K : /\ f[k - 1] < f[k]
                       /\ Accepts(ChunkOf(f[k - 1], f[k] - f[k - 1]))
                       /\ results[k] = Update(ChunkOf(f[k - 1], f[k] - f[k - 1]))

Evaluated(last) ==
  /\ results \in Seq({results[k] : k \in DOMAIN results})
  /\ \E f \in [0 .. Len(results) -> 0 .. last] : Cuts(f, Len(results), last)

LEMMA CutsGrow ==
  ASSUME NEW K \in Nat, NEW last, NEW f, Cuts(f, K, last)
  PROVE  \A k \in 0 .. K : f[k] <= last
<1> DEFINE S == {k \in 0 .. K : \A j \in 0 .. k : f[j] <= f[k]}
<1>1. f \in [0 .. K -> Nat] /\ f[K] = last /\ \A k \in 1 .. K : f[k - 1] < f[k]
  BY DEF Cuts
<1>2. 0 \in S
  <2>1. \A j \in 0 .. 0 : j = 0
    OBVIOUS
  <2> QED
    BY <1>1, <2>1
<1>3. ASSUME NEW k \in 0 .. K - 1, k \in S PROVE k + 1 \in S
  <2>1. k + 1 \in 1 .. K /\ k + 1 \in 0 .. K /\ f[k] < f[k + 1] /\ f[k] \in Nat /\ f[k + 1] \in Nat
    BY <1>1
  <2>2. ASSUME NEW j \in 0 .. k + 1 PROVE f[j] <= f[k + 1]
    <3>1. CASE j = k + 1
      BY <2>1, <3>1
    <3>2. CASE j \in 0 .. k
      <4>1. f[j] <= f[k] /\ f[j] \in Nat
        BY <1>1, <1>3, <3>2
      <4> QED
        BY <2>1, <4>1
    <3> QED
      BY <3>1, <3>2
  <2> QED
    BY <2>1, <2>2
<1> HIDE DEF S
<1>4. \A k \in 0 .. K : k \in S
  BY <1>2, <1>3, UpTo
<1>5. K \in S
  BY <1>4
<1> QED
  BY <1>1, <1>5 DEF S

Constant(o) == BatchedReads(inputs, o) = {}

RankRead(o) == CHOOSE R \in Pos : AlignedReads(inputs, o, R)

\* Outputs of three kinds: those that read no batched input, only inputs of size one,
\* or an input that is cut.
LEMMA OutputKinds ==
  ASSUME InputsTyped, Loads, AlignedInputs, Accepts(inputs), NEW o \in Outputs,
         NEW from \in Nat, NEW m \in Pos, from + m <= BatchSize(inputs)
  PROVE  LET u == Update(inputs)[o]
             c == Update(ChunkOf(from, m))[o]
             R == RankRead(o)
             N == BatchSize(inputs)
         IN /\ Constant(o) => c = u /\ u.shape = <<>> /\ ~OfSizeOne(o)
            /\ OfSizeOne(o) => /\ c = u /\ u.shape \in Seq(Pos) /\ Len(u.shape) \in Pos
                               /\ u.shape[1] = 1
            /\ ~Constant(o) /\ ~OfSizeOne(o) =>
                 /\ R \in Pos
                 /\ u.shape = Sizes(o, R, N) /\ c.shape = Sizes(o, R, m)
                 /\ \A n \in Pos : Sizes(o, R, n) \in Seq(Pos) /\ Len(Sizes(o, R, n)) = R
                 /\ \A i \in Indices(Sizes(o, R, m)) :
                      /\ Shifted(i, from) \in Indices(Sizes(o, R, N))
                      /\ c.at[i] = u.at[Shifted(i, from)]
<1> DEFINE u == Update(inputs)[o]
           c == Update(ChunkOf(from, m))[o]
           R == RankRead(o)
           N == BatchSize(inputs)
<1>1. Broadcasts(ShapesRead(inputs, o))
  BY DEF Accepts
<1>2. u.shape = Broadcast(ShapesRead(inputs, o))
  BY DEF Update
<1>3. ASSUME Constant(o) PROVE c = u /\ u.shape = <<>> /\ ~OfSizeOne(o)
  <2>1. AlignedReads(inputs, o, 0)
    BY <1>3, InputReads DEF Constant
  <2>2. u.shape = <<>>
    BY <1>2, <2>1, BroadcastNone
  <2>3. \A v \in Reads[o] : ~Sliced(v)
    BY <1>3 DEF Constant, BatchedReads, Sliced
  <2>4. c = u
    BY <2>3, WholeChunk
  <2>5. ~OfSizeOne(o)
    BY <1>3 DEF Constant, OfSizeOne, BatchedReads
  <2> QED
    BY <2>2, <2>4, <2>5
<1>4. ASSUME ~Constant(o)
      PROVE  R \in Pos /\ AlignedReads(inputs, o, R) /\ BatchedReads(inputs, o) # {} /\ FitReads(inputs, o)
  <2>1. BatchedReads(inputs, o) # {} /\ \E Q \in Pos : AlignedReads(inputs, o, Q)
    BY <1>4, InputReads DEF Constant
  <2>2. R \in Pos /\ AlignedReads(inputs, o, R)
    BY <2>1 DEF RankRead
  <2> HIDE DEF R
  <2>3. FitReads(inputs, o)
    BY <1>1, <2>1, <2>2, BroadcastIs
  <2> QED
    BY <2>1, <2>2, <2>3
<1>5. ASSUME OfSizeOne(o)
      PROVE  c = u /\ u.shape \in Seq(Pos) /\ Len(u.shape) \in Pos /\ u.shape[1] = 1
  <2>1. ~Constant(o)
    BY <1>5 DEF Constant, OfSizeOne, BatchedReads
  <2>2. \A v \in Reads[o] : ~Sliced(v)
    BY <1>5 DEF OfSizeOne, Sliced
  <2>3. c = u
    BY <2>2, WholeChunk
  <2> HIDE DEF R, c, u
  <2>4. u.shape = [d \in 1 .. R |-> DimOf(inputs, o, d)]
    BY <1>2, <1>4, <2>1, BroadcastIs
  <2>5. \A d \in 1 .. R : DimOf(inputs, o, d) \in Pos
    BY <1>4, <2>1, BroadcastSizes
  <2>6. u.shape \in [1 .. R -> Pos] /\ R \in Pos
    BY <1>4, <2>1, <2>4, <2>5
  <2>7. u.shape \in Seq(Pos) /\ Len(u.shape) = R /\ 1 \in 1 .. R
    BY <2>6 DEF Pos
  <2>8. DimOf(inputs, o, 1) = 1
    BY <1>4, <1>5, <2>1, ChunkDims
  <2> QED
    BY <2>3, <2>4, <2>6, <2>7, <2>8
<1>6. ASSUME ~Constant(o), ~OfSizeOne(o)
      PROVE  /\ R \in Pos
             /\ u.shape = Sizes(o, R, N) /\ c.shape = Sizes(o, R, m)
             /\ \A n \in Pos : Sizes(o, R, n) \in Seq(Pos) /\ Len(Sizes(o, R, n)) = R
             /\ \A i \in Indices(Sizes(o, R, m)) :
                  /\ Shifted(i, from) \in Indices(Sizes(o, R, N))
                  /\ c.at[i] = u.at[Shifted(i, from)]
  <2>1. R \in Pos /\ AlignedReads(inputs, o, R) /\ BatchedReads(inputs, o) # {} /\ FitReads(inputs, o)
    BY <1>4, <1>6
  <2> HIDE DEF R
  <2> QED
    BY <1>6, <2>1, CutUpdate
<1> HIDE DEF u, c, R, N
<1>7. /\ Constant(o) => c = u /\ u.shape = <<>> /\ ~OfSizeOne(o)
      /\ OfSizeOne(o) => c = u /\ u.shape \in Seq(Pos) /\ Len(u.shape) \in Pos /\ u.shape[1] = 1
      /\ ~Constant(o) /\ ~OfSizeOne(o) =>
           /\ R \in Pos
           /\ u.shape = Sizes(o, R, N) /\ c.shape = Sizes(o, R, m)
           /\ \A n \in Pos : Sizes(o, R, n) \in Seq(Pos) /\ Len(Sizes(o, R, n)) = R
           /\ \A i \in Indices(Sizes(o, R, m)) :
                /\ Shifted(i, from) \in Indices(Sizes(o, R, N))
                /\ c.at[i] = u.at[Shifted(i, from)]
  BY <1>3, <1>5, <1>6
<1> QED
  BY <1>7 DEF u, c, R, N

\* Parts that agree but for dimension 0, and their concatenation
Alike(ts, s) ==
  \A k \in 1 .. Len(ts) : ts[k].shape = [s EXCEPT ![1] = ts[k].shape[1]]

LEMMA AlikeConcatenable ==
  ASSUME NEW ts, Parts(ts), Len(ts) \in Pos, NEW s \in Seq(Pos), Len(s) \in Pos, Alike(ts, s)
  PROVE  Concatenable(ts)
<1>1. DOMAIN ts = 1 .. Len(ts) /\ 1 \in 1 .. Len(ts)
  BY DEF Parts, Pos
<1>2. s \in [1 .. Len(s) -> Pos] /\ 1 \in 1 .. Len(s)
  BY LenProperties DEF Pos
<1>3. ASSUME NEW k \in 1 .. Len(ts)
      PROVE  Len(ts[k].shape) = Len(s) /\ \A d \in 2 .. Len(s) : ts[k].shape[d] = s[d]
  <2>1. ts[k].shape = [s EXCEPT ![1] = ts[k].shape[1]] /\ ts[k].shape[1] \in Pos
    BY DEF Alike, Parts
  <2> DEFINE n == ts[k].shape[1]
  <2>2. ts[k].shape = [s EXCEPT ![1] = n] /\ n \in Pos
    BY <2>1
  <2> HIDE DEF n
  <2>3. Len([s EXCEPT ![1] = n]) = Len(s)
    BY <1>2, <2>2, ExceptSeq
  <2>4. \A d \in 2 .. Len(s) : d \in 1 .. Len(s) /\ d # 1
    BY <1>2
  <2> QED
    BY <1>2, <2>2, <2>3, <2>4
<1> QED
  BY <1>1, <1>3 DEF Concatenable

LEMMA CatAlike ==
  ASSUME NEW ts, Parts(ts), Len(ts) \in Pos, NEW s \in Seq(Pos), Len(s) \in Pos, Alike(ts, s)
  PROVE  /\ Start(ts, Len(ts) + 1) \in Pos
         /\ Cat(ts).shape = [s EXCEPT ![1] = Start(ts, Len(ts) + 1)]
         /\ Cat(ts).shape \in Seq(Pos) /\ Len(Cat(ts).shape) = Len(s)
         /\ \A i \in Indices(Cat(ts).shape) : \E k \in 1 .. Len(ts) :
              /\ Shifted(i, -Start(ts, k)) \in Indices(ts[k].shape)
              /\ Cat(ts).at[i] = ts[k].at[Shifted(i, -Start(ts, k))]
<1> USE DEF Pos
<1> DEFINE L == Len(ts)
           R == Len(s)
           total == Start(ts, L + 1)
           c == Cat(ts).shape
<1>1. s \in [1 .. R -> Pos] /\ 1 \in 1 .. R /\ R \in Nat /\ R # 0
  BY LenProperties
<1>2. \A k \in 1 .. L : ts[k].shape[1] \in Pos /\ ts[k].shape = [s EXCEPT ![1] = ts[k].shape[1]]
  BY DEF Parts, Alike
<1>3. /\ \A k \in 1 .. L : Start(ts, k + 1) = Start(ts, k) + ts[k].shape[1]
      /\ \A k \in 1 .. L + 1 : Start(ts, k) \in Nat
  BY StartStep
<1>4. total \in Pos
  <2>1. L \in 1 .. L /\ L \in 1 .. L + 1
    OBVIOUS
  <2>2. total = Start(ts, L) + ts[L].shape[1] /\ Start(ts, L) \in Nat /\ ts[L].shape[1] \in Pos
    BY <1>2, <1>3, <2>1
  <2> QED
    BY <2>2
<1>5. c = [s EXCEPT ![1] = total]
  <2>1. 1 \in 1 .. L /\ c = [ts[1].shape EXCEPT ![1] = total]
    BY DEF Cat
  <2>2. ts[1].shape = [s EXCEPT ![1] = ts[1].shape[1]]
    BY <1>2, <2>1
  <2> DEFINE n == ts[1].shape[1]
  <2>3. ts[1].shape = [s EXCEPT ![1] = n]
    BY <2>2
  <2> HIDE DEF n, total, c
  <2>4. [[s EXCEPT ![1] = n] EXCEPT ![1] = total] = [s EXCEPT ![1] = total]
    BY <1>1
  <2> QED
    BY <2>1, <2>3, <2>4
<1>6. c \in Seq(Pos) /\ Len(c) = R
  <2> HIDE DEF total, c
  <2> QED
    BY <1>1, <1>4, <1>5, ExceptSeq
<1>7. ASSUME NEW i \in Indices(c)
      PROVE  \E k \in 1 .. L : /\ Shifted(i, -Start(ts, k)) \in Indices(ts[k].shape)
                               /\ Cat(ts).at[i] = ts[k].at[Shifted(i, -Start(ts, k))]
  <2>1. i \in [1 .. R -> Pos] /\ \A d \in 1 .. R : i[d] <= c[d]
    <3> HIDE DEF c, R
    <3> QED
      BY <1>6, IndicesAre
  <2>2. i[1] \in 1 .. total
    <3>1. c[1] = total
      BY <1>1, <1>5
    <3>2. i[1] \in Pos /\ i[1] <= c[1]
      BY <1>1, <2>1
    <3> HIDE DEF c, total
    <3> QED
      BY <1>4, <3>1, <3>2
  <2>3. PICK k \in 1 .. L : /\ Start(ts, k) < i[1] /\ i[1] <= Start(ts, k + 1)
                            /\ Cat(ts).at[i] = ts[k].at[[i EXCEPT ![1] = @ - Start(ts, k)]]
    BY <2>2, CatEntry
  <2> DEFINE a == Start(ts, k)
             n == ts[k].shape[1]
             j == Shifted(i, -a)
             p == ts[k].shape
  <2>4. a \in Nat /\ n \in Pos /\ Start(ts, k + 1) = a + n /\ p = [s EXCEPT ![1] = n]
    BY <1>2, <1>3
  <2>5. a < i[1] /\ i[1] <= a + n
    BY <2>3, <2>4
  <2> HIDE DEF a, n, p
  <2>6. i[1] - a = i[1] + (-a) /\ i[1] + (-a) \in Pos /\ i[1] + (-a) <= n /\ i[1] \in Pos
    BY <1>1, <2>1, <2>4, <2>5
  <2>7. j = [i EXCEPT ![1] = @ - a]
    BY <2>6 DEF Shifted
  <2>8. j \in [1 .. R -> Pos] /\ j[1] = i[1] + (-a) /\ \A d \in 1 .. R : d # 1 => j[d] = i[d]
    BY <1>1, <2>1, <2>6 DEF Shifted
  <2>9. p \in Seq(Pos) /\ Len(p) = R
    BY <1>1, <2>4, ExceptSeq
  <2>10. ASSUME NEW d \in 1 .. R PROVE j[d] <= p[d]
    <3>1. CASE d = 1
      <4>1. p[1] = n
        BY <1>1, <2>4
      <4> HIDE DEF j
      <4> QED
        BY <2>6, <2>8, <3>1, <4>1
    <3>2. CASE d # 1
      <4>1. p[d] = s[d] /\ c[d] = s[d]
        BY <1>1, <1>5, <2>4, <3>2
      <4> HIDE DEF j, c
      <4> QED
        BY <2>1, <2>8, <3>2, <4>1
    <3> QED
      BY <3>1, <3>2
  <2> HIDE DEF j, R
  <2>11. j \in Indices(p)
    BY <2>8, <2>9, <2>10, IndicesAre
  <2> QED
    BY <2>3, <2>7, <2>11 DEF j, a, p
<1> QED
  BY <1>4, <1>5, <1>6, <1>7

\* A constant, expanded to the sizes of the chunks
Expansions(ts, u) == \A k \in 1 .. Len(ts) : ts[k] = Expand(u, ts[k].shape[1])

LEMMA CatConstant ==
  ASSUME NEW ts, Parts(ts), Len(ts) \in Pos, NEW u, u.shape = <<>>, Expansions(ts, u)
  PROVE  Alike(ts, <<1>>) /\ SameEntries(Cat(ts), u)
<1>1. <<1>> \in Seq(Pos) /\ Len(<<1>>) = 1
  BY DEF Pos
<1>2. ASSUME NEW k \in 1 .. Len(ts)
      PROVE  /\ ts[k].shape = <<ts[k].shape[1]>>
             /\ \A i \in Indices(ts[k].shape) : ts[k].at[i] = u.at[<<>>]
  <2> DEFINE n == ts[k].shape[1]
  <2>1. ts[k] = Expand(u, n)
    BY DEF Expansions
  <2> HIDE DEF n
  <2>2. ts[k].shape = <<n>> /\ ts[k].at = [i \in Indices(<<n>>) |-> u.at[<<>>]]
    BY <2>1 DEF Expand
  <2> QED
    BY <2>2 DEF n
<1>3. Alike(ts, <<1>>)
  <2>1. \A n : <<n>> = [<<1>> EXCEPT ![1] = n]
    OBVIOUS
  <2> QED
    BY <1>2, <2>1 DEF Alike
<1>4. /\ Cat(ts).shape \in Seq(Pos) /\ Len(Cat(ts).shape) = 1
      /\ \A i \in Indices(Cat(ts).shape) : \E k \in 1 .. Len(ts) :
           /\ Shifted(i, -Start(ts, k)) \in Indices(ts[k].shape)
           /\ Cat(ts).at[i] = ts[k].at[Shifted(i, -Start(ts, k))]
  <2> DEFINE s == <<1>>
  <2>1. s \in Seq(Pos) /\ Len(s) = 1 /\ Len(s) \in Pos /\ Alike(ts, s)
    BY <1>1, <1>3 DEF Pos
  <2> HIDE DEF s
  <2>2. /\ Cat(ts).shape \in Seq(Pos) /\ Len(Cat(ts).shape) = Len(s)
        /\ \A i \in Indices(Cat(ts).shape) : \E k \in 1 .. Len(ts) :
             /\ Shifted(i, -Start(ts, k)) \in Indices(ts[k].shape)
             /\ Cat(ts).at[i] = ts[k].at[Shifted(i, -Start(ts, k))]
    BY <2>1, CatAlike
  <2> QED
    BY <2>1, <2>2
<1>5. ASSUME NEW i \in Indices(Cat(ts).shape) PROVE Cat(ts).at[i] = u.at[Clip(u.shape, i)]
  <2>1. Cat(ts).at[i] = u.at[<<>>]
    BY <1>2, <1>4
  <2>2. Clip(u.shape, i) = <<>>
    <3>1. Len(u.shape) = 0 /\ 1 .. 0 = {}
      OBVIOUS
    <3> QED
      BY <3>1 DEF Clip
  <2> QED
    BY <2>1, <2>2
<1>6. u.shape \in Seq(Pos) /\ Len(u.shape) = 0 /\ 1 .. 0 = {}
  OBVIOUS
<1>7. SameEntries(Cat(ts), u)
  <2> DEFINE t == Cat(ts)
  <2>1. /\ t.shape \in Seq(Pos) /\ Len(t.shape) \in Pos
        /\ u.shape \in Seq(Pos) /\ Len(u.shape) \in {0, Len(t.shape)}
        /\ \A d \in 1 .. Len(u.shape) : u.shape[d] \in {1, t.shape[d]}
        /\ \A i \in Indices(t.shape) : t.at[i] = u.at[Clip(u.shape, i)]
    BY <1>4, <1>5, <1>6 DEF Pos
  <2> HIDE DEF t
  <2>2. SameEntries(t, u)
    BY <2>1, SameWhenClipped
  <2> QED
    BY <2>2 DEF t
<1> QED
  BY <1>3, <1>7

\* A tensor of batch size one, repeated for every chunk
LEMMA CatOne ==
  ASSUME NEW ts, Parts(ts), Len(ts) \in Pos, NEW u, u.shape \in Seq(Pos), Len(u.shape) \in Pos,
         u.shape[1] = 1, \A k \in 1 .. Len(ts) : ts[k] = u
  PROVE  Alike(ts, u.shape) /\ SameEntries(Cat(ts), u)
<1> USE DEF Pos
<1> DEFINE s == u.shape
           R == Len(s)
           c == Cat(ts).shape
<1>1. s \in [1 .. R -> Pos] /\ 1 \in 1 .. R /\ R \in Nat
  BY LenProperties
<1>2. Alike(ts, s)
  <2>1. s = [s EXCEPT ![1] = s[1]]
    BY <1>1
  <2> QED
    BY <2>1 DEF Alike
<1>3. /\ Start(ts, Len(ts) + 1) \in Pos
      /\ c = [s EXCEPT ![1] = Start(ts, Len(ts) + 1)]
      /\ c \in Seq(Pos) /\ Len(c) = R
      /\ \A i \in Indices(c) : \E k \in 1 .. Len(ts) :
           /\ Shifted(i, -Start(ts, k)) \in Indices(ts[k].shape)
           /\ Cat(ts).at[i] = ts[k].at[Shifted(i, -Start(ts, k))]
  BY <1>2, CatAlike
<1>4. ASSUME NEW i \in Indices(c) PROVE Cat(ts).at[i] = u.at[Clip(s, i)]
  <2>1. PICK k \in 1 .. Len(ts) : /\ Shifted(i, -Start(ts, k)) \in Indices(s)
                                  /\ Cat(ts).at[i] = u.at[Shifted(i, -Start(ts, k))]
    BY <1>3
  <2> DEFINE j == Shifted(i, -Start(ts, k))
  <2>2. i \in [1 .. R -> Pos] /\ j \in [1 .. R -> Pos] /\ \A d \in 1 .. R : j[d] <= s[d] /\ i[d] <= c[d]
    <3> HIDE DEF j, c, R, s
    <3>1. Indices(c) = {x \in [1 .. R -> Pos] : \A d \in 1 .. R : x[d] <= c[d]}
      BY <1>3, IndicesAre
    <3>2. Indices(s) = {x \in [1 .. R -> Pos] : \A d \in 1 .. R : x[d] <= s[d]}
      BY IndicesAre DEF R, s
    <3> QED
      BY <2>1, <3>1, <3>2 DEF j
  <2>3. j[1] = 1
    <3>1. j[1] \in Pos /\ j[1] <= 1
      BY <1>1, <2>2
    <3> HIDE DEF j
    <3> QED
      BY <3>1
  <2>4. ASSUME NEW d \in 1 .. R, d # 1 PROVE j[d] = IF s[d] = 1 THEN 1 ELSE i[d]
    <3>1. j[d] = i[d]
      BY <2>2, <2>4 DEF Shifted
    <3>2. j[d] \in Pos /\ j[d] <= s[d] /\ s[d] \in Pos
      BY <1>1, <2>2
    <3> HIDE DEF j, s
    <3> QED
      BY <3>1, <3>2
  <2> HIDE DEF j
  <2>5. j = [d \in 1 .. R |-> j[d]] /\ \A d \in 1 .. R : j[d] = IF s[d] = 1 THEN 1 ELSE i[d]
    BY <2>2, <2>3, <2>4
  <2>6. j = Clip(s, i)
    BY <2>5 DEF Clip
  <2> QED
    BY <2>1, <2>6 DEF j
<1>5. ASSUME NEW d \in 1 .. R PROVE s[d] \in {1, c[d]}
  <2>1. CASE d = 1
    BY <2>1
  <2>2. CASE d # 1
    BY <1>1, <1>3, <2>2
  <2> QED
    BY <2>1, <2>2
<1>6. SameEntries(Cat(ts), u)
  <2> DEFINE t == Cat(ts)
  <2>1. /\ t.shape \in Seq(Pos) /\ Len(t.shape) \in Pos
        /\ Len(u.shape) \in {0, Len(t.shape)}
        /\ \A d \in 1 .. Len(u.shape) : u.shape[d] \in {1, t.shape[d]}
        /\ \A i \in Indices(t.shape) : t.at[i] = u.at[Clip(u.shape, i)]
    BY <1>3, <1>4, <1>5
  <2> HIDE DEF t
  <2>2. SameEntries(t, u)
    BY <2>1, SameWhenClipped
  <2> QED
    BY <2>2 DEF t
<1> QED
  BY <1>2, <1>6

\* What is cut, put together
LEMMA CatCut ==
  ASSUME NEW ts, Parts(ts), Len(ts) \in Pos, NEW u, u.shape \in Seq(Pos), Len(u.shape) \in Pos,
         Alike(ts, u.shape), u.shape[1] = Start(ts, Len(ts) + 1),
         \A k \in 1 .. Len(ts) : \A i \in Indices(ts[k].shape) :
           ts[k].at[i] = u.at[Shifted(i, Start(ts, k))]
  PROVE  SameEntries(Cat(ts), u)
<1> USE DEF Pos
<1> DEFINE s == u.shape
           R == Len(s)
           t == Cat(ts)
<1>1. s \in [1 .. R -> Pos] /\ 1 \in 1 .. R /\ R \in Nat
  BY LenProperties
<1>2. /\ t.shape = [s EXCEPT ![1] = Start(ts, Len(ts) + 1)]
      /\ \A i \in Indices(t.shape) : \E k \in 1 .. Len(ts) :
           /\ Shifted(i, -Start(ts, k)) \in Indices(ts[k].shape)
           /\ t.at[i] = ts[k].at[Shifted(i, -Start(ts, k))]
  BY CatAlike
<1>3. t.shape = s
  BY <1>1, <1>2
<1>4. ASSUME NEW i \in Indices(s) PROVE t.at[i] = u.at[Clip(s, i)]
  <2>1. PICK k \in 1 .. Len(ts) : /\ Shifted(i, -Start(ts, k)) \in Indices(ts[k].shape)
                                  /\ t.at[i] = ts[k].at[Shifted(i, -Start(ts, k))]
    BY <1>2, <1>3
  <2> DEFINE a == Start(ts, k)
  <2>2. a \in Nat
    BY StartStep
  <2>3. i \in [1 .. R -> Pos] /\ \A d \in 1 .. R : i[d] <= s[d]
    <3> HIDE DEF s
    <3> QED
      BY IndicesAre DEF s
  <2>4. t.at[i] = u.at[Shifted(Shifted(i, -a), a)]
    BY <2>1
  <2> HIDE DEF a, t
  <2>5. Shifted(Shifted(i, -a), a) = i
    <3> DEFINE j == Shifted(i, -a)
    <3>1. i[1] \in Int /\ i[1] + (-a) + a = i[1]
      BY <1>1, <2>2, <2>3
    <3>2. DOMAIN i = 1 .. R /\ i = [d \in 1 .. R |-> i[d]]
      BY <2>3
    <3>3. j[1] = i[1] + (-a) /\ DOMAIN j = 1 .. R /\ \A d \in 1 .. R : d # 1 => j[d] = i[d]
      BY <1>1, <3>2 DEF Shifted
    <3> HIDE DEF j
    <3>4. Shifted(j, a) = [d \in 1 .. R |-> IF d = 1 THEN i[1] ELSE i[d]]
      BY <1>1, <3>1, <3>3 DEF Shifted
    <3> QED
      BY <3>2, <3>4 DEF j
  <2>6. Clip(s, i) = i
    <3>1. \A d \in 1 .. R : (IF s[d] = 1 THEN 1 ELSE i[d]) = i[d]
      BY <2>3
    <3>2. i = [d \in 1 .. R |-> i[d]]
      BY <2>3
    <3> HIDE DEF s
    <3> QED
      BY <3>1, <3>2 DEF Clip
  <2> QED
    BY <2>4, <2>5, <2>6
<1> HIDE DEF t
<1>5. SameEntries(t, u)
  BY <1>1, <1>3, <1>4, SameWhenClipped
<1> QED
  BY <1>5 DEF t

\* The result of a chunk, one output at a time
LEMMA ChunkResults ==
  ASSUME InputsTyped, Loads, AlignedInputs, NEW K \in Nat, NEW f, Cuts(f, K, BatchSize(inputs)),
         NEW k \in 1 .. K
  PROVE  /\ Accepts(inputs)
         /\ f[k - 1] \in Nat /\ f[k] \in Nat /\ f[k] - f[k - 1] \in Pos
         /\ f[k - 1] + (f[k] - f[k - 1]) <= BatchSize(inputs)
         /\ results[k] = Update(ChunkOf(f[k - 1], f[k] - f[k - 1]))
<1> DEFINE from == f[k - 1]
           m == f[k] - f[k - 1]
<1>1. k - 1 \in 0 .. K /\ k \in 0 .. K
  OBVIOUS
<1>2. /\ from \in Nat /\ f[k] \in Nat /\ from < f[k]
      /\ Accepts(ChunkOf(from, m)) /\ results[k] = Update(ChunkOf(from, m))
  BY <1>1 DEF Cuts
<1>3. f[k] <= BatchSize(inputs)
  BY <1>1, CutsGrow
<1>4. m \in Pos /\ from + m = f[k]
  BY <1>2 DEF Pos
<1>5. Accepts(inputs)
  <2> HIDE DEF from, m
  <2> QED
    BY <1>2, <1>4, ChunkAccepted
<1> QED
  BY <1>2, <1>3, <1>4, <1>5

LEMMA ResultSizes ==
  ASSUME InputsTyped, Loads, AlignedInputs, NEW K \in Nat, NEW f, Cuts(f, K, BatchSize(inputs)),
         NEW k \in 1 .. K
  PROVE  /\ SizesOf(results[k]) \subseteq {1, f[k] - f[k - 1]}
         /\ \A o \in Outputs : Batched(results[k][o]) <=> ~Constant(o)
         /\ \A o \in Outputs : ~Constant(o) /\ ~OfSizeOne(o) => f[k] - f[k - 1] \in SizesOf(results[k])
         /\ (\A o \in Outputs : ~OfSizeOne(o)) => SizesOf(results[k]) \subseteq {f[k] - f[k - 1]}
<1> DEFINE from == f[k - 1]
           m == f[k] - f[k - 1]
<1>1. /\ Accepts(inputs) /\ from \in Nat /\ m \in Pos /\ from + m <= BatchSize(inputs)
      /\ results[k] = Update(ChunkOf(from, m))
  BY ChunkResults
<1> HIDE DEF from, m
<1>2. ASSUME NEW o \in Outputs
      PROVE  /\ Batched(results[k][o]) <=> ~Constant(o)
             /\ ~Constant(o) => results[k][o].shape[1] = IF OfSizeOne(o) THEN 1 ELSE m
  <2> DEFINE u == Update(inputs)[o]
             c == Update(ChunkOf(from, m))[o]
             R == RankRead(o)
             N == BatchSize(inputs)
  <2>1. /\ Constant(o) => c = u /\ u.shape = <<>> /\ ~OfSizeOne(o)
        /\ OfSizeOne(o) => c = u /\ u.shape \in Seq(Pos) /\ Len(u.shape) \in Pos /\ u.shape[1] = 1
        /\ ~Constant(o) /\ ~OfSizeOne(o) =>
             /\ R \in Pos /\ c.shape = Sizes(o, R, m)
             /\ \A n \in Pos : Sizes(o, R, n) \in Seq(Pos) /\ Len(Sizes(o, R, n)) = R
    BY <1>1, OutputKinds
  <2>2. results[k][o] = c
    BY <1>1
  <2> HIDE DEF c, u, R
  <2>3. CASE Constant(o)
    BY <2>1, <2>2, <2>3 DEF Batched, Rank
  <2>4. CASE OfSizeOne(o)
    BY <2>1, <2>2, <2>4 DEF Batched, Rank, Pos
  <2>5. CASE ~Constant(o) /\ ~OfSizeOne(o)
    <3>1. c.shape = Sizes(o, R, m) /\ Len(c.shape) = R /\ R \in Pos
      BY <1>1, <2>1, <2>5
    <3>2. c.shape[1] = m
      BY <3>1 DEF Sizes, Pos
    <3> QED
      BY <2>2, <2>5, <3>1, <3>2 DEF Batched, Rank, Pos
  <2> QED
    BY <2>3, <2>4, <2>5
<1>3. SizesOf(results[k]) = {results[k][o].shape[1] : o \in {p \in Outputs : ~Constant(p)}}
  BY <1>2 DEF SizesOf
<1>4. SizesOf(results[k]) \subseteq {1, m} /\ \A o \in Outputs : ~Constant(o) /\ ~OfSizeOne(o) => m \in SizesOf(results[k])
  BY <1>2, <1>3
<1>5. (\A o \in Outputs : ~OfSizeOne(o)) => SizesOf(results[k]) \subseteq {m}
  BY <1>2, <1>3
<1> QED
  BY <1>2, <1>4, <1>5 DEF m

\* The kinds of outputs, as their results show them
LEMMA ResultKinds ==
  ASSUME InputsTyped, Loads, AlignedInputs, NEW K \in Nat, NEW f, Cuts(f, K, BatchSize(inputs)),
         NEW k \in 1 .. K, NEW o \in Outputs
  PROVE  LET from == f[k - 1]
             m == f[k] - f[k - 1]
             c == results[k][o]
             u == Update(inputs)[o]
             R == RankRead(o)
         IN /\ Constant(o) => c = u /\ u.shape = <<>> /\ ~OfSizeOne(o)
            /\ OfSizeOne(o) => /\ c = u /\ u.shape \in Seq(Pos) /\ Len(u.shape) \in Pos
                               /\ u.shape[1] = 1
            /\ ~Constant(o) /\ ~OfSizeOne(o) =>
                 /\ R \in Pos
                 /\ u.shape = Sizes(o, R, BatchSize(inputs)) /\ c.shape = Sizes(o, R, m)
                 /\ \A n \in Pos : Sizes(o, R, n) \in Seq(Pos) /\ Len(Sizes(o, R, n)) = R
                 /\ \A i \in Indices(Sizes(o, R, m)) : c.at[i] = u.at[Shifted(i, from)]
<1> DEFINE from == f[k - 1]
           m == f[k] - f[k - 1]
           c == Update(ChunkOf(from, m))[o]
           u == Update(inputs)[o]
           R == RankRead(o)
<1>1. /\ Accepts(inputs) /\ from \in Nat /\ m \in Pos /\ from + m <= BatchSize(inputs)
      /\ results[k] = Update(ChunkOf(from, m))
  BY ChunkResults
<1> HIDE DEF from, m
<1>2. /\ Constant(o) => c = u /\ u.shape = <<>> /\ ~OfSizeOne(o)
      /\ OfSizeOne(o) => c = u /\ u.shape \in Seq(Pos) /\ Len(u.shape) \in Pos /\ u.shape[1] = 1
      /\ ~Constant(o) /\ ~OfSizeOne(o) =>
           /\ R \in Pos
           /\ u.shape = Sizes(o, R, BatchSize(inputs)) /\ c.shape = Sizes(o, R, m)
           /\ \A n \in Pos : Sizes(o, R, n) \in Seq(Pos) /\ Len(Sizes(o, R, n)) = R
           /\ \A i \in Indices(Sizes(o, R, m)) : /\ Shifted(i, from) \in Indices(Sizes(o, R, BatchSize(inputs)))
                                                 /\ c.at[i] = u.at[Shifted(i, from)]
  BY <1>1, OutputKinds
<1>3. results[k][o] = c
  BY <1>1
<1> HIDE DEF c, u, R
<1> QED
  BY <1>2, <1>3 DEF R, u, from, m

\* What Reduce concatenates for an output
PartsOf(o) == [k \in DOMAIN results |-> Rebin(results[k])[o]]

\* The place of a part is the offset of its chunk.
LEMMA CutStart ==
  ASSUME NEW ts, Parts(ts), NEW f, f[0] = 0, \A k \in 0 .. Len(ts) : f[k] \in Nat,
         \A k \in 1 .. Len(ts) : ts[k].shape[1] = f[k] - f[k - 1]
  PROVE  \A k \in 0 .. Len(ts) : Start(ts, k + 1) = f[k]
<1> DEFINE L == Len(ts)
           S == {l \in 0 .. L : Start(ts, l + 1) = f[l]}
<1>1. /\ L \in Nat /\ Start(ts, 1) = 0
      /\ \A k \in 1 .. L : Start(ts, k + 1) = Start(ts, k) + ts[k].shape[1]
  BY StartStep DEF Parts
<1>2. 0 \in S
  BY <1>1
<1>3. ASSUME NEW l \in 0 .. L - 1, l \in S PROVE l + 1 \in S
  <2>1. l + 1 \in 1 .. L /\ l + 1 \in 0 .. L /\ l \in 0 .. L
    BY <1>1
  <2>2. Start(ts, (l + 1) + 1) = Start(ts, l + 1) + ts[l + 1].shape[1]
    BY <1>1, <2>1
  <2>3. ts[l + 1].shape[1] = f[l + 1] - f[l] /\ f[l + 1] \in Nat /\ f[l] \in Nat
    BY <2>1
  <2>4. Start(ts, l + 1) = f[l]
    BY <1>3
  <2>5. f[l] + (f[l + 1] - f[l]) = f[l + 1]
    BY <2>3
  <2> QED
    BY <2>1, <2>2, <2>3, <2>4, <2>5
<1> HIDE DEF S
<1>4. \A l \in 0 .. L : l \in S
  BY <1>1, <1>2, <1>3, UpTo
<1> QED
  BY <1>4 DEF S

\* When every result can be reduced, the parts of an output can be concatenated, and
\* the concatenation has the entries of the update of the whole batch.
LEMMA WholeOutput ==
  ASSUME InputsTyped, Loads, AlignedInputs, Evaluated(BatchSize(inputs)),
         \A k \in DOMAIN results : Reducible(results[k]), NEW o \in Outputs
  PROVE  /\ Accepts(inputs)
         /\ Concatenable(PartsOf(o))
         /\ SameEntries(Cat(PartsOf(o)), Update(inputs)[o])
<1> DEFINE N == BatchSize(inputs)
           K == Len(results)
           ts == PartsOf(o)
           u == Update(inputs)[o]
           Size(k) == CHOOSE n \in SizesOf(results[k]) : TRUE
<1>1. K \in Nat /\ DOMAIN results = 1 .. K
  BY LenProperties DEF Evaluated
<1>2. PICK f : Cuts(f, K, N)
  BY DEF Evaluated
<1>3. ASSUME NEW k \in 1 .. K
       PROVE  LET from == f[k - 1]
                  m == f[k] - f[k - 1]
                  c == results[k][o]
                  R == RankRead(o)
              IN /\ Constant(o) => c = u /\ u.shape = <<>> /\ ~OfSizeOne(o)
                 /\ OfSizeOne(o) => /\ c = u /\ u.shape \in Seq(Pos) /\ Len(u.shape) \in Pos
                                    /\ u.shape[1] = 1
                 /\ ~Constant(o) /\ ~OfSizeOne(o) =>
                      /\ R \in Pos
                      /\ u.shape = Sizes(o, R, N) /\ c.shape = Sizes(o, R, m)
                      /\ \A n \in Pos : Sizes(o, R, n) \in Seq(Pos) /\ Len(Sizes(o, R, n)) = R
                      /\ \A i \in Indices(Sizes(o, R, m)) : c.at[i] = u.at[Shifted(i, from)]
  <2>1. K \in Nat /\ Cuts(f, K, BatchSize(inputs))
    BY <1>1, <1>2
  <2> HIDE DEF K
  <2> QED
    BY <2>1, ResultKinds
<1> USE DEF Pos
<1>4. N \in Pos
  BY BatchSizeType
<1>5. /\ f[0] = 0 /\ f[K] = N /\ \A k \in 0 .. K : f[k] \in Nat
  BY <1>2 DEF Cuts
<1>6. K \in Pos
  BY <1>1, <1>4, <1>5
<1> HIDE DEF N, K
<1>7. ASSUME NEW k \in 1 .. K
      PROVE  /\ Accepts(inputs)
             /\ f[k - 1] \in Nat /\ f[k] \in Nat /\ f[k] - f[k - 1] \in Pos
             /\ f[k - 1] + (f[k] - f[k - 1]) <= N
             /\ results[k] = Update(ChunkOf(f[k - 1], f[k] - f[k - 1]))
  BY <1>1, <1>2, ChunkResults DEF N
<1>8. Accepts(inputs)
  <2>1. 1 \in 1 .. K
    BY <1>6
  <2> QED
    BY <1>7, <2>1
<1>9. ASSUME NEW k \in 1 .. K
      PROVE  /\ Size(k) \in Pos
             /\ Batched(results[k][o]) <=> ~Constant(o)
  <2>1. /\ SizesOf(results[k]) \subseteq {1, f[k] - f[k - 1]}
        /\ Batched(results[k][o]) <=> ~Constant(o)
    BY <1>1, <1>2, ResultSizes DEF N
  <2>2. SizesOf(results[k]) # {}
    <3>1. Cardinality(SizesOf(results[k])) = 1
      BY <1>1 DEF Reducible
    <3>2. Cardinality({}) = 0
      BY FS_EmptySet
    <3> QED
      BY <3>1, <3>2
  <2>3. Size(k) \in SizesOf(results[k])
    BY <2>2
  <2>4. f[k] - f[k - 1] \in Pos
    BY <1>7
  <2> HIDE DEF Size
  <2> QED
    BY <2>1, <2>3, <2>4
<1>10. /\ Len(ts) = K /\ DOMAIN ts = 1 .. K
      /\ \A k \in 1 .. K : ts[k] = IF Constant(o) THEN Expand(results[k][o], Size(k)) ELSE results[k][o]
  <2>1. ts = [k \in 1 .. K |-> Rebin(results[k])[o]]
    BY <1>1 DEF PartsOf
  <2>2. \A k \in 1 .. K : Rebin(results[k])[o] = IF Constant(o) THEN Expand(results[k][o], Size(k)) ELSE results[k][o]
    BY <1>9 DEF Rebin
  <2> HIDE DEF ts, Size
  <2>3. Len(ts) = K
    BY <1>1, <2>1
  <2> QED
    BY <2>1, <2>2, <2>3
<1> HIDE DEF ts, u, Size
<1>11. 1 \in 1 .. K
  BY <1>6
<1>12. CASE Constant(o)
  <2>1. u.shape = <<>>
    BY <1>3, <1>11, <1>12
  <2>2. ASSUME NEW k \in 1 .. K PROVE ts[k] = Expand(u, ts[k].shape[1]) /\ ts[k].shape[1] \in Pos
    <3>1. ts[k] = Expand(u, Size(k))
      BY <1>10, <1>3, <1>12
    <3>2. ts[k].shape[1] = Size(k)
      BY <3>1 DEF Expand
    <3> QED
      BY <1>9, <3>1, <3>2
  <2>3. Parts(ts) /\ Len(ts) \in Pos
    BY <1>6, <1>10, <2>2 DEF Parts
  <2>4. Expansions(ts, u)
    BY <1>10, <2>2 DEF Expansions
  <2>5. Alike(ts, <<1>>) /\ SameEntries(Cat(ts), u)
    BY <2>1, <2>3, <2>4, CatConstant
  <2>6. Concatenable(ts)
    <3> DEFINE s == <<1>>
    <3>1. s \in Seq(Pos) /\ Len(s) \in Pos /\ Alike(ts, s)
      BY <2>5
    <3> HIDE DEF s
    <3> QED
      BY <2>3, <3>1, AlikeConcatenable
  <2> QED
    BY <1>8, <2>5, <2>6 DEF ts, u
<1>13. CASE OfSizeOne(o)
  <2>1. u.shape \in Seq(Pos) /\ Len(u.shape) \in Pos /\ u.shape[1] = 1 /\ ~Constant(o)
    BY <1>3, <1>11, <1>13
  <2>2. \A k \in 1 .. K : ts[k] = u
    BY <1>10, <1>3, <1>13, <2>1
  <2>3. Parts(ts) /\ Len(ts) \in Pos
    BY <1>6, <1>10, <2>1, <2>2 DEF Parts
  <2>4. \A k \in 1 .. Len(ts) : ts[k] = u
    BY <1>10, <2>2
  <2>5. Alike(ts, u.shape) /\ SameEntries(Cat(ts), u)
    BY <2>1, <2>3, <2>4, CatOne
  <2>6. Concatenable(ts)
    BY <2>1, <2>3, <2>5, AlikeConcatenable
  <2> QED
    BY <1>8, <2>5, <2>6 DEF ts, u
<1>14. CASE ~Constant(o) /\ ~OfSizeOne(o)
  <2> DEFINE R == RankRead(o)
             M(k) == f[k] - f[k - 1]
  <2>1. /\ R \in Pos /\ u.shape = Sizes(o, R, N)
        /\ \A n \in Pos : Sizes(o, R, n) \in Seq(Pos) /\ Len(Sizes(o, R, n)) = R
    BY <1>3, <1>11, <1>14
  <2>2. ASSUME NEW k \in 1 .. K
        PROVE  /\ ts[k].shape = Sizes(o, R, M(k)) /\ M(k) \in Pos
               /\ \A i \in Indices(ts[k].shape) : ts[k].at[i] = u.at[Shifted(i, f[k - 1])]
    <3>1. ts[k] = results[k][o]
      BY <1>10, <1>14
    <3>2. /\ results[k][o].shape = Sizes(o, R, M(k))
          /\ \A i \in Indices(Sizes(o, R, M(k))) : results[k][o].at[i] = u.at[Shifted(i, f[k - 1])]
      BY <1>3, <1>14
    <3>3. M(k) \in Pos
      BY <1>7
    <3> HIDE DEF M, R
    <3> QED
      BY <3>1, <3>2, <3>3
  <2> HIDE DEF R, M
  <2>3. \A n : Sizes(o, R, n) = [u.shape EXCEPT ![1] = n] /\ Sizes(o, R, n)[1] = n
    BY <2>1 DEF Sizes
  <2>4. u.shape \in Seq(Pos) /\ Len(u.shape) = R /\ u.shape[1] = N
    BY <1>4, <2>1, <2>3
  <2>5. \A k \in 1 .. K : ts[k].shape[1] = M(k) /\ M(k) \in Pos /\ ts[k].shape = [u.shape EXCEPT ![1] = M(k)]
    BY <2>2, <2>3
  <2>6. Parts(ts) /\ Len(ts) \in Pos /\ Alike(ts, u.shape)
    BY <1>6, <1>10, <2>5 DEF Parts, Alike
  <2>7. \A k \in 0 .. K : Start(ts, k + 1) = f[k]
    <3>1. \A k \in 1 .. Len(ts) : ts[k].shape[1] = f[k] - f[k - 1]
      BY <1>10, <2>5 DEF M
    <3>2. \A k \in 0 .. Len(ts) : f[k] \in Nat
      BY <1>5, <1>10
    <3>3. \A k \in 0 .. Len(ts) : Start(ts, k + 1) = f[k]
      BY <1>5, <2>6, <3>1, <3>2, CutStart
    <3> QED
      BY <1>10, <3>3
  <2>8. u.shape[1] = Start(ts, Len(ts) + 1)
    <3>1. K \in 0 .. K
      BY <1>6
    <3> QED
      BY <1>5, <1>10, <2>4, <2>7, <3>1
  <2>9. \A k \in 1 .. Len(ts) : \A i \in Indices(ts[k].shape) : ts[k].at[i] = u.at[Shifted(i, Start(ts, k))]
    <3>1. ASSUME NEW k \in 1 .. K PROVE Start(ts, k) = f[k - 1]
      <4>1. k - 1 \in 0 .. K /\ (k - 1) + 1 = k
        BY <1>6
      <4> QED
        BY <2>7, <4>1
    <3> QED
      BY <1>10, <2>2, <3>1
  <2>10. SameEntries(Cat(ts), u)
    BY <2>1, <2>4, <2>6, <2>8, <2>9, CatCut
  <2>11. Concatenable(ts)
    BY <2>1, <2>4, <2>6, AlikeConcatenable
  <2> QED
    BY <1>8, <2>10, <2>11 DEF ts, u
<1> QED
  BY <1>12, <1>13, <1>14

\* Without outputs of batch size one, every result can be reduced.
LEMMA AllReducible ==
  ASSUME InputsTyped, Loads, AlignedInputs, Evaluated(BatchSize(inputs)),
         \A o \in Outputs : ~OfSizeOne(o), NEW p \in Outputs, ~Constant(p)
  PROVE  \A k \in DOMAIN results : Reducible(results[k])
<1>1. Len(results) \in Nat /\ DOMAIN results = 1 .. Len(results)
  BY LenProperties DEF Evaluated
<1>2. PICK f : Cuts(f, Len(results), BatchSize(inputs))
  BY DEF Evaluated
<1>3. ASSUME NEW k \in 1 .. Len(results) PROVE Reducible(results[k])
  <2> DEFINE m == f[k] - f[k - 1]
  <2>1. SizesOf(results[k]) = {m}
    BY <1>1, <1>2, ResultSizes
  <2>2. Cardinality({m}) = 1
    BY FS_Singleton
  <2> QED
    BY <2>1, <2>2 DEF Reducible
<1> QED
  BY <1>1, <1>3

-----------------------------------------------------------------------------
(* The invariant *)

\* At every step, the results are those of the chunks so far, which follow each other,
\* and the chunk at hand is the next one.
ChInv ==
  /\ pc \in {"load", "generate", "evaluate", "reduced", "threw"}
  /\ InputsTyped
  /\ offset \in Nat
  /\ pc = "load" => offset = 0 /\ results = <<>>
  /\ pc \in {"generate", "evaluate"} => Loads /\ offset <= BatchSize(inputs)
  /\ pc = "generate" => Evaluated(offset)
  /\ pc = "evaluate" => \E from \in 0 .. offset - 1 :
                          Evaluated(from) /\ chunk = ChunkOf(from, offset - from)
  /\ ChunkedIsWhole /\ AlignedReduces

LEMMA InputsKept ==
  ASSUME inputs' = inputs
  PROVE  /\ InputsTyped' <=> InputsTyped
         /\ Loads' <=> Loads
         /\ AlignedInputs' <=> AlignedInputs
         /\ \A o \in Outputs : OfSizeOne(o)' <=> OfSizeOne(o)
         /\ \A from, m : ChunkOf(from, m)' = ChunkOf(from, m)
  BY DEF InputsTyped, Loads, AlignedInputs, OfSizeOne, ChunkOf, Sliced

LEMMA EvaluatedKept ==
  ASSUME inputs' = inputs, results' = results, NEW last, Evaluated(last)
  PROVE  Evaluated(last)'
<1>1. \A from, m : ChunkOf(from, m)' = ChunkOf(from, m)
  BY InputsKept
<1> QED
  BY <1>1 DEF Evaluated, Cuts

LEMMA NothingEvaluated ==
  ASSUME results = <<>>
  PROVE  Evaluated(0)
<1> DEFINE f == [k \in 0 .. 0 |-> 0]
<1>1. f \in [0 .. 0 -> 0 .. 0] /\ f \in [0 .. 0 -> Nat] /\ f[0] = 0 /\ 1 .. 0 = {}
  OBVIOUS
<1>2. Len(results) = 0 /\ results \in Seq({results[k] : k \in DOMAIN results})
  OBVIOUS
<1> HIDE DEF f
<1>3. Cuts(f, 0, 0)
  BY <1>1 DEF Cuts
<1> QED
  BY <1>1, <1>2, <1>3 DEF Evaluated

\* The next result
LEMMA EvaluatedNext ==
  ASSUME inputs' = inputs, NEW from \in Nat, NEW last \in Nat, from < last, Evaluated(from),
         Accepts(ChunkOf(from, last - from)),
         results' = Append(results, Update(ChunkOf(from, last - from)))
  PROVE  Evaluated(last)'
<1> DEFINE r == Update(ChunkOf(from, last - from))
           S == {results[k] : k \in DOMAIN results}
           T == {results'[k] : k \in DOMAIN results'}
<1>1. PICK K \in Nat : K = Len(results)
  BY LenProperties DEF Evaluated
<1>2. results \in Seq(S) /\ K \in Nat /\ K = Len(results) /\ DOMAIN results = 1 .. K
  BY <1>1, LenProperties DEF Evaluated
<1>3. PICK f \in [0 .. K -> 0 .. from] : Cuts(f, K, from)
  BY <1>2 DEF Evaluated
<1>4. /\ Len(results') = K + 1 /\ DOMAIN results' = 1 .. K + 1
      /\ results'[K + 1] = r /\ \A k \in 1 .. K : results'[k] = results[k]
      /\ results' \in Seq(S \cup {r})
  <2>1. results \in Seq(S \cup {r}) /\ r \in S \cup {r}
    BY <1>2
  <2> HIDE DEF r, S
  <2>2. results' = Append(results, r)
    BY DEF r
  <2> QED
    BY <1>2, <2>1, <2>2, AppendProperties
<1>5. results' \in Seq(T)
  <2>1. results' \in [1 .. K + 1 -> T]
    <3>1. results' = [k \in 1 .. K + 1 |-> results'[k]]
      BY <1>2, <1>4
    <3> QED
      BY <1>4, <3>1
  <2> QED
    BY <1>2, <2>1
<1> DEFINE g == [k \in 0 .. K + 1 |-> IF k = K + 1 THEN last ELSE f[k]]
<1>6. /\ g \in [0 .. K + 1 -> 0 .. last] /\ g \in [0 .. K + 1 -> Nat]
      /\ g[0] = 0 /\ g[K + 1] = last /\ g[K] = from /\ \A k \in 0 .. K : g[k] = f[k]
  <2>1. f[0] = 0 /\ f[K] = from /\ \A k \in 0 .. K : f[k] \in 0 .. from
    BY <1>3 DEF Cuts
  <2>2. ASSUME NEW k \in 0 .. K + 1 PROVE g[k] \in 0 .. last /\ g[k] \in Nat
    <3>1. k = K + 1 \/ (k \in 0 .. K /\ k # K + 1)
      OBVIOUS
    <3> QED
      BY <2>1, <3>1
  <2>3. 0 \in 0 .. K + 1 /\ K \in 0 .. K + 1 /\ K + 1 \in 0 .. K + 1 /\ 0 # K + 1 /\ K # K + 1
    BY <1>2
  <2>4. \A k \in 0 .. K : k \in 0 .. K + 1 /\ k # K + 1
    BY <1>2
  <2> QED
    BY <2>1, <2>2, <2>3, <2>4
<1> HIDE DEF g, r, T
<1>7. ASSUME NEW k \in 1 .. K + 1
      PROVE  /\ g[k - 1] < g[k]
             /\ Accepts(ChunkOf(g[k - 1], g[k] - g[k - 1]))
             /\ results'[k] = Update(ChunkOf(g[k - 1], g[k] - g[k - 1]))
  <2>1. CASE k = K + 1
    <3>1. k - 1 = K
      BY <1>2, <2>1
    <3>2. g[k - 1] = from /\ g[k] = last
      BY <1>6, <2>1, <3>1
    <3> QED
      BY <1>4, <2>1, <3>2 DEF r
  <2>2. CASE k \in 1 .. K
    <3>1. k - 1 \in 0 .. K /\ k \in 0 .. K
      BY <1>2, <2>2
    <3>2. g[k - 1] = f[k - 1] /\ g[k] = f[k]
      BY <1>6, <3>1
    <3> QED
      BY <1>3, <1>4, <2>2, <3>2 DEF Cuts
  <2> QED
    BY <1>2, <2>1, <2>2
<1>8. \A a, m : ChunkOf(a, m)' = ChunkOf(a, m)
  BY InputsKept
<1>9. Cuts(g, K + 1, last)'
  BY <1>6, <1>7, <1>8 DEF Cuts
<1> QED
  BY <1>4, <1>5, <1>6, <1>9 DEF Evaluated, T

LEMMA ChInit == Init => ChInv
<1> SUFFICES ASSUME Init PROVE ChInv
  OBVIOUS
<1>1. InputsTyped
  BY ChunkedAssumption DEF Init, InputsTyped, Pos
<1> QED
  BY <1>1 DEF Init, ChInv, ChunkedIsWhole, AlignedReduces

LEMMA LoadStep ==
  ASSUME ChInv, Load
  PROVE  ChInv'
<1>1. /\ pc = "load" /\ pc' = (IF Loads THEN "generate" ELSE "threw")
      /\ inputs' = inputs /\ offset' = offset /\ results' = results
      /\ InputsTyped /\ offset = 0 /\ results = <<>>
  BY DEF ChInv, Load
<1>2. InputsTyped' /\ (Loads' <=> Loads)
  BY <1>1, InputsKept
<1>3. Loads' => offset' <= BatchSize(inputs)'
  <2>1. Loads => BatchSize(inputs) \in Pos
    BY <1>1, BatchSizeType
  <2> QED
    BY <1>1, <1>2, <2>1 DEF Pos
<1>4. Evaluated(0)'
  BY <1>1, NothingEvaluated, EvaluatedKept
<1>5. offset' = 0
  BY <1>1
<1>6. ChunkedIsWhole'
  BY <1>1 DEF ChunkedIsWhole
<1>7. AlignedReduces'
  BY <1>1, <1>2 DEF AlignedReduces
<1>8. pc' \in {"generate", "threw"} /\ (pc' = "generate" => Loads')
  BY <1>1, <1>2
<1>9. pc' = "generate" => Evaluated(offset)'
  BY <1>4, <1>5 DEF Evaluated
<1> QED
  BY <1>2, <1>3, <1>5, <1>6, <1>7, <1>8, <1>9 DEF ChInv

LEMMA GenerateStep ==
  ASSUME ChInv, NEW n \in ChunkSizes, Generate(n)
  PROVE  ChInv'
<1>1. PICK from \in Nat : from = offset
  BY DEF ChInv
<1>2. /\ pc = "generate" /\ pc' = "evaluate" /\ from < BatchSize(inputs)
      /\ inputs' = inputs /\ results' = results
      /\ InputsTyped /\ Loads /\ Evaluated(from)
  BY <1>1 DEF ChInv, Generate
<1>3. BatchSize(inputs) \in Pos /\ n \in Pos
  BY <1>2, BatchSizeType, ChunkedAssumption DEF Pos
<1> DEFINE left == BatchSize(inputs) - from
           size == IF n < left THEN n ELSE left
<1>4. chunk' = ChunkOf(from, size) /\ offset' = from + size
  BY <1>1 DEF Generate, ChunkOf, Sliced
<1>5. size \in Pos /\ from + size <= BatchSize(inputs)
  BY <1>2, <1>3 DEF Pos
<1>6. PICK m \in Pos : m = size
  BY <1>5
<1> HIDE DEF size
<1>7. /\ offset' \in Nat /\ from \in 0 .. offset' - 1 /\ offset' - from = m
      /\ offset' <= BatchSize(inputs')
  <2>1. offset' = from + m /\ from + m <= BatchSize(inputs)
    BY <1>4, <1>5, <1>6
  <2> QED
    BY <1>2, <2>1 DEF Pos
<1>8. InputsTyped' /\ Loads' /\ Evaluated(from)'
  BY <1>2, InputsKept, EvaluatedKept
<1>9. chunk' = ChunkOf(from, m)'
  <2>1. ChunkOf(from, m)' = ChunkOf(from, m)
    BY <1>2, InputsKept
  <2> QED
    BY <1>4, <1>6, <2>1
<1>10. \E f \in 0 .. offset' - 1 : Evaluated(f)' /\ chunk' = ChunkOf(f, offset - f)'
  <2>1. ChunkOf(from, offset - from)' = ChunkOf(from, m)'
    BY <1>7 DEF ChunkOf
  <2> QED
    BY <1>7, <1>8, <1>9, <2>1
<1>11. ChunkedIsWhole' /\ AlignedReduces'
  BY <1>2 DEF ChunkedIsWhole, AlignedReduces
<1> QED
  BY <1>2, <1>7, <1>8, <1>10, <1>11 DEF ChInv

LEMMA EvaluateStep ==
  ASSUME ChInv, Evaluate
  PROVE  ChInv'
<1>1. PICK last \in Nat : last = offset
  BY DEF ChInv
<1>2. PICK from \in 0 .. last - 1 : Evaluated(from) /\ chunk = ChunkOf(from, last - from)
  BY <1>1 DEF ChInv, Evaluate
<1>3. /\ pc = "evaluate" /\ inputs' = inputs /\ offset' = last
      /\ InputsTyped /\ Loads /\ last <= BatchSize(inputs)
      /\ from \in Nat /\ from < last /\ last - from \in Pos
  BY <1>1 DEF ChInv, Evaluate, Pos
<1>4. InputsTyped' /\ Loads' /\ last <= BatchSize(inputs')
  BY <1>3, InputsKept
<1>5. CASE Accepts(chunk)
  <2>1. pc' = "generate" /\ results' = Append(results, Update(ChunkOf(from, last - from)))
    BY <1>2, <1>5 DEF Evaluate
  <2>2. Evaluated(last)'
    BY <1>2, <1>3, <1>5, <2>1, EvaluatedNext
  <2>3. Evaluated(offset)'
    BY <1>3, <2>2 DEF Evaluated
  <2>4. ChunkedIsWhole' /\ AlignedReduces'
    BY <2>1 DEF ChunkedIsWhole, AlignedReduces
  <2> QED
    BY <1>3, <1>4, <2>1, <2>3, <2>4 DEF ChInv
<1>6. CASE ~Accepts(chunk)
  <2>1. pc' = "threw"
    BY <1>6 DEF Evaluate
  <2>2. AlignedInputs => ~Accepts(inputs)
    BY <1>2, <1>3, <1>6, ChunkAccepted
  <2>3. AlignedReduces'
    <3>1. AlignedInputs' <=> AlignedInputs
      BY <1>3, InputsKept
    <3>2. Accepts(inputs)' <=> Accepts(inputs)
      BY <1>3
    <3> QED
      BY <2>2, <3>1, <3>2 DEF AlignedReduces
  <2>4. ChunkedIsWhole'
    BY <2>1 DEF ChunkedIsWhole
  <2> QED
    BY <1>3, <1>4, <2>1, <2>3, <2>4 DEF ChInv
<1> QED
  BY <1>5, <1>6

LEMMA ReduceStep ==
  ASSUME ChInv, Reduce
  PROVE  ChInv'
<1> DEFINE ok == /\ \A k \in DOMAIN results : Reducible(results[k])
                 /\ \A o \in Outputs : Concatenable(PartsOf(o))
<1>1. /\ pc = "generate" /\ offset = BatchSize(inputs) /\ inputs' = inputs /\ offset' = offset
      /\ reduced' = IF ok THEN [o \in Outputs |-> Cat(PartsOf(o))] ELSE reduced
      /\ pc' = IF ok THEN "reduced" ELSE "threw"
  BY DEF Reduce, PartsOf
<1>2. InputsTyped /\ Loads /\ Evaluated(BatchSize(inputs)) /\ offset \in Nat
  BY <1>1 DEF ChInv
<1>3. /\ InputsTyped' /\ (Loads' <=> Loads) /\ (AlignedInputs' <=> AlignedInputs)
      /\ \A o \in Outputs : OfSizeOne(o)' <=> OfSizeOne(o)
  BY <1>1, <1>2, InputsKept
<1>4. ASSUME AlignedInputs, \A k \in DOMAIN results : Reducible(results[k]), NEW o \in Outputs
      PROVE  /\ Accepts(inputs) /\ Concatenable(PartsOf(o))
             /\ SameEntries(Cat(PartsOf(o)), Update(inputs)[o])
  BY <1>2, <1>4, WholeOutput
<1>5. CASE ok
  <2>1. ASSUME AlignedInputs PROVE WholeUpdate'
    <3>1. Accepts(inputs)
      <4>1. CASE Outputs = {}
        BY <4>1 DEF Accepts
      <4>2. CASE Outputs # {}
        BY <1>4, <1>5, <2>1, <4>2
      <4> QED
        BY <4>1, <4>2
    <3>2. ASSUME NEW o \in Outputs PROVE SameEntries(reduced'[o], Update(inputs')[o])
      <4>1. SameEntries(Cat(PartsOf(o)), Update(inputs)[o])
        BY <1>4, <1>5, <2>1
      <4>2. reduced'[o] = Cat(PartsOf(o)) /\ inputs' = inputs
        BY <1>1, <1>5
      <4> QED
        BY <4>1, <4>2
    <3>3. Accepts(inputs')
      BY <1>1, <3>1
    <3> QED
      BY <3>2, <3>3 DEF WholeUpdate
  <2>2. pc' = "reduced"
    BY <1>1, <1>5
  <2>3. ChunkedIsWhole' /\ AlignedReduces'
    BY <1>3, <2>1, <2>2 DEF ChunkedIsWhole, AlignedReduces
  <2> QED
    BY <1>1, <1>2, <1>3, <2>2, <2>3 DEF ChInv
<1>6. CASE ~ok
  <2>1. pc' = "threw"
    BY <1>1, <1>6
  <2>2. ASSUME AlignedInputs, \A o \in Outputs : ~OfSizeOne(o), NEW p \in Outputs, ~Constant(p)
        PROVE  FALSE
    <3>1. \A k \in DOMAIN results : Reducible(results[k])
      BY <1>2, <2>2, AllReducible
    <3>2. \A o \in Outputs : Concatenable(PartsOf(o))
      BY <1>4, <2>2, <3>1
    <3> QED
      BY <1>6, <3>1, <3>2
  <2>3. ASSUME NEW p \in Outputs PROVE Constant(p) <=> \A v \in Reads[p] : ~Batched(inputs[v])
    BY DEF Constant, BatchedReads
  <2>4. AlignedReduces'
    <3> HIDE DEF ok
    <3>1. AlignedInputs => \/ \E o \in Outputs : OfSizeOne(o)
                           \/ \A o \in Outputs : \A v \in Reads[o] : ~Batched(inputs[v])
      BY <2>2, <2>3
    <3> QED
      BY <1>1, <1>3, <3>1 DEF AlignedReduces
  <2>5. ChunkedIsWhole'
    BY <2>1 DEF ChunkedIsWhole
  <2> QED
    BY <1>1, <1>2, <1>3, <2>1, <2>4, <2>5 DEF ChInv
<1> QED
  BY <1>5, <1>6

LEMMA ChStutter ==
  ASSUME ChInv, UNCHANGED vars
  PROVE  ChInv'
<1>1. /\ pc' = pc /\ inputs' = inputs /\ offset' = offset /\ chunk' = chunk
      /\ results' = results /\ reduced' = reduced
  BY DEF vars
<1>2. /\ InputsTyped' <=> InputsTyped
      /\ Loads' <=> Loads
      /\ AlignedInputs' <=> AlignedInputs
      /\ \A o \in Outputs : OfSizeOne(o)' <=> OfSizeOne(o)
      /\ \A from, m : ChunkOf(from, m)' = ChunkOf(from, m)
  BY <1>1, InputsKept
<1>3. ASSUME NEW last, Evaluated(last) PROVE Evaluated(last)'
  BY <1>1, <1>3, EvaluatedKept
<1>4. ChunkedIsWhole' /\ AlignedReduces'
  BY <1>1, <1>2 DEF ChInv, ChunkedIsWhole, AlignedReduces, WholeUpdate
<1>5. pc = "generate" => Evaluated(offset)'
  <2>1. PICK last \in Nat : last = offset
    BY DEF ChInv
  <2> SUFFICES ASSUME pc = "generate" PROVE Evaluated(offset)'
    OBVIOUS
  <2>2. Evaluated(last)
    BY <2>1 DEF ChInv
  <2>3. Evaluated(last)'
    BY <1>3, <2>2
  <2> QED
    BY <1>1, <2>1, <2>3 DEF Evaluated
<1>6. pc = "evaluate" => \E from \in 0 .. offset' - 1 : Evaluated(from)' /\ chunk' = ChunkOf(from, offset - from)'
  <2> SUFFICES ASSUME pc = "evaluate"
               PROVE  \E from \in 0 .. offset' - 1 : Evaluated(from)' /\ chunk' = ChunkOf(from, offset - from)'
    OBVIOUS
  <2>1. PICK from \in 0 .. offset - 1 : Evaluated(from) /\ chunk = ChunkOf(from, offset - from)
    BY DEF ChInv
  <2>2. Evaluated(from)'
    BY <1>3, <2>1
  <2>3. ChunkOf(from, offset - from)' = ChunkOf(from, offset - from)
    BY <1>1 DEF ChunkOf, Sliced
  <2> QED
    BY <1>1, <2>1, <2>2, <2>3
<1> QED
  BY <1>1, <1>2, <1>4, <1>5, <1>6 DEF ChInv

LEMMA ChStep == ChInv /\ [Next]_vars => ChInv'
<1> SUFFICES ASSUME ChInv, [Next]_vars PROVE ChInv'
  OBVIOUS
<1>1. CASE Load
  BY <1>1, LoadStep
<1>2. CASE \E n \in ChunkSizes : Generate(n)
  BY <1>2, GenerateStep
<1>3. CASE Evaluate
  BY <1>3, EvaluateStep
<1>4. CASE Reduce
  BY <1>4, ReduceStep
<1>5. CASE Ended
  BY <1>5, ChStutter DEF Ended
<1>6. CASE UNCHANGED vars
  BY <1>6, ChStutter
<1> QED
  BY <1>1, <1>2, <1>3, <1>4, <1>5, <1>6 DEF Next

-----------------------------------------------------------------------------
(* Theorems *)

\* However the loader cuts a batch, the results are those of the chunks so far, which
\* follow each other without a gap or an overlap (ValueMapLoader::generate, run_sync).
THEOREM ChunkedInvariance == Spec => []ChInv
<1>1. Init => ChInv
  BY ChInit
<1>2. ChInv /\ [Next]_vars => ChInv'
  BY ChStep
<1> QED
  BY <1>1, <1>2, PTL DEF Spec

\* What valuemap_cat_reduce puts together has, in every place, the entry that an update
\* of the whole batch has there, for inputs of any shape whose dimensions line up and
\* chunks of any sizes; and that update succeeds.
THEOREM ReductionIsWhole == Spec => []ChunkedIsWhole
<1>1. ChInv => ChunkedIsWhole
  BY DEF ChInv
<1> QED
  BY <1>1, ChunkedInvariance, PTL

\* An update of aligned inputs that the loader takes and the model accepts comes back
\* from the reduction, unless it has an output that reads inputs of batch size one and
\* no others, or none that reads a batched input (valuemap_cat_reduce's assertions).
THEOREM AlignedReduction == Spec => []AlignedReduces
<1>1. ChInv => AlignedReduces
  BY DEF ChInv
<1> QED
  BY <1>1, ChunkedInvariance, PTL

=============================================================================
