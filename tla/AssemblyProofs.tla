--------------------------- MODULE AssemblyProofs ---------------------------
(***************************************************************************)
(* Proofs about Assembly for any variables, names and shapes: the axis has *)
(* each of its variables once, row major positions and indices are inverse *)
(* to each other, the pieces of a sequence are where it was put together   *)
(* from them; and with these, that an unknown is given the entries of the  *)
(* solution vector that its columns of the Jacobian are for.               *)
(***************************************************************************)
EXTENDS Assembly, TLAPS, FiniteSetTheorems, SequenceTheorems, WellFoundedInduction

-----------------------------------------------------------------------------
(* Numbers and sequences *)

\* Induction up to a number
LEMMA UpTo ==
  ASSUME NEW S, NEW L \in Nat, 0 \in S, \A k \in 0 .. L - 1 : k \in S => k + 1 \in S
  PROVE  \A k \in 0 .. L : k \in S
<1> DEFINE R == OpToRel(<, Nat)
           Bad == {k \in 0 .. L : k \notin S}
<1>1. IsWellFoundedOn(R, Nat)
  BY NatLessThanWellFounded
<1>2. SUFFICES ASSUME Bad # {} PROVE FALSE
  OBVIOUS
<1>3. PICK k \in Bad : \A l \in Bad : ~(<<l, k>> \in R)
  <2>1. Bad \subseteq Nat
    OBVIOUS
  <2> HIDE DEF Bad, R
  <2> QED
    BY <1>1, <1>2, <2>1, WFMin
<1>4. k \in 0 .. L /\ k \notin S /\ k # 0
  OBVIOUS
<1>5. k - 1 \in 0 .. L - 1 /\ k - 1 \in 0 .. L /\ (k - 1) + 1 = k
  BY <1>4
<1>7. k - 1 \in Bad
  BY <1>4, <1>5
<1>6. <<k - 1, k>> \in R
  <2>1. k - 1 \in Nat /\ k \in Nat /\ k - 1 < k
    BY <1>4, <1>5
  <2> QED
    BY <2>1 DEF OpToRel
<1> QED
  BY <1>3, <1>6, <1>7

\* The maximum of a set of numbers that has its upper bound
LEMMA MaxIs ==
  ASSUME NEW k \in Nat, NEW S, S \subseteq 1 .. k, k \in S
  PROVE  Max(S) = k
<1>1. \A y \in S : k >= y
  OBVIOUS
<1>2. \A x \in S : (\A y \in S : x >= y) => x = k
  <2>1. \A x \in S : x >= k /\ k >= x => x = k
    OBVIOUS
  <2> QED
    BY <1>1, <2>1
<1> QED
  BY <1>1, <1>2 DEF Max

\* A set of numbers up to a bound has a maximum.
LEMMA MaxIn ==
  ASSUME NEW L \in Nat, NEW S \in SUBSET (1 .. L), S # {}
  PROVE  Max(S) \in S
<1> DEFINE T == {k \in 0 .. L : \A R \in SUBSET (1 .. k) : R # {} => Max(R) \in R}
<1>1. 0 \in T
  <2>1. 1 .. 0 = {} /\ 0 \in 0 .. L
    OBVIOUS
  <2>2. \A R \in SUBSET (1 .. 0) : R # {} => Max(R) \in R
    BY <2>1
  <2> QED
    BY <2>1, <2>2
<1>2. ASSUME NEW k \in 0 .. L - 1, k \in T PROVE k + 1 \in T
  <2>1. ASSUME NEW R \in SUBSET (1 .. k + 1), R # {} PROVE Max(R) \in R
    <3>1. CASE k + 1 \in R
      <4>1. k + 1 \in Nat
        OBVIOUS
      <4> HIDE DEF T
      <4>2. Max(R) = k + 1
        BY <3>1, <4>1, MaxIs
      <4> QED
        BY <3>1, <4>2
    <3>2. CASE k + 1 \notin R
      <4>1. R \in SUBSET (1 .. k)
        BY <3>2
      <4> QED
        BY <1>2, <2>1, <4>1
    <3> QED
      BY <3>1, <3>2
  <2>2. k + 1 \in 0 .. L
    BY <1>2
  <2> QED
    BY <2>1, <2>2
<1> HIDE DEF T
<1>3. L \in T
  <2>1. \A k \in 0 .. L : k \in T
    BY <1>1, <1>2, UpTo
  <2> QED
    BY <2>1
<1> QED
  BY <1>3 DEF T

\* What a fold over a sequence takes off its domain, at each step
LEMMA InitialSegment ==
  ASSUME NEW k \in Nat, k # 0
  PROVE  /\ 1 .. k # {} /\ Max(1 .. k) = k /\ (1 .. k) \ {k} = 1 .. k - 1
  <1>1. 1 .. k \subseteq 1 .. k /\ k \in 1 .. k
    OBVIOUS
  <1>2. Max(1 .. k) = k
    BY <1>1, MaxIs
  <1> QED
    BY <1>2

\* What a fold over the indices up to k needs
Folded(f, k, b, g) ==
  /\ f[{}] = b
  /\ \A S \in SUBSET (1 .. k) : S # {} => f[S] = g[<<Max(S), f[S \ {Max(S)}]>>]

\* The function that the library defines a fold with, on the sets it goes through
LEMMA FoldExists ==
  ASSUME NEW L \in Nat, NEW V, NEW b \in V, NEW g \in [(1 .. L) \X V -> V]
  PROVE  \E f \in [SUBSET (1 .. L) -> V] : Folded(f, L, b, g)
<1> DEFINE T == {k \in 0 .. L : \E f \in [SUBSET (1 .. k) -> V] : Folded(f, k, b, g)}
<1>1. 0 \in T
  <2> DEFINE f == [S \in SUBSET (1 .. 0) |-> b]
  <2>1. 1 .. 0 = {}
    OBVIOUS
  <2>2. f \in [SUBSET (1 .. 0) -> V] /\ f[{}] = b
    OBVIOUS
  <2>3. \A S \in SUBSET (1 .. 0) : S = {}
    BY <2>1
  <2>4. Folded(f, 0, b, g)
    BY <2>2, <2>3 DEF Folded
  <2> QED
    BY <2>2, <2>4
<1>2. ASSUME NEW k \in 0 .. L - 1, k \in T PROVE k + 1 \in T
  <2>1. PICK f \in [SUBSET (1 .. k) -> V] : Folded(f, k, b, g)
    BY <1>2
  <2> DEFINE h == [S \in SUBSET (1 .. k + 1) |->
                     IF k + 1 \in S THEN g[<<k + 1, f[S \ {k + 1}]>>] ELSE f[S]]
  <2>2. k \in Nat /\ k + 1 \in 1 .. L /\ k + 1 \in 0 .. L
    BY <1>2
  <2>3. \A S \in SUBSET (1 .. k + 1) : S \ {k + 1} \in SUBSET (1 .. k)
    BY <2>2
  <2>4. \A S \in SUBSET (1 .. k + 1) : k + 1 \notin S => S \in SUBSET (1 .. k)
    BY <2>2
  <2>5. ASSUME NEW S \in SUBSET (1 .. k + 1) PROVE h[S] \in V
    <3>1. CASE k + 1 \in S
      <4>1. f[S \ {k + 1}] \in V
        BY <2>3
      <4>2. <<k + 1, f[S \ {k + 1}]>> \in (1 .. L) \X V
        BY <2>2, <4>1
      <4>3. h[S] = g[<<k + 1, f[S \ {k + 1}]>>]
        BY <3>1
      <4> QED
        BY <4>2, <4>3
    <3>2. CASE k + 1 \notin S
      BY <2>4, <3>2
    <3> QED
      BY <3>1, <3>2
  <2>6. h \in [SUBSET (1 .. k + 1) -> V]
    BY <2>5
  <2>7. h[{}] = b
    <3>1. {} \in SUBSET (1 .. k + 1) /\ k + 1 \notin {}
      OBVIOUS
    <3> QED
      BY <2>1, <3>1 DEF Folded
  <2>8. ASSUME NEW S \in SUBSET (1 .. k + 1), S # {}
        PROVE  h[S] = g[<<Max(S), h[S \ {Max(S)}]>>]
    <3>1. CASE k + 1 \in S
      <4>1. Max(S) = k + 1
        <5>1. k + 1 \in Nat
          BY <2>2
        <5> HIDE DEF h, T
        <5> QED
          BY <3>1, <5>1, MaxIs
      <4>2. h[S \ {k + 1}] = f[S \ {k + 1}]
        <5>1. S \ {k + 1} \in SUBSET (1 .. k + 1) /\ k + 1 \notin S \ {k + 1}
          OBVIOUS
        <5> QED
          BY <5>1
      <4>3. h[S] = g[<<k + 1, f[S \ {k + 1}]>>]
        BY <3>1
      <4> QED
        BY <4>1, <4>2, <4>3
    <3>2. CASE k + 1 \notin S
      <4>1. S \in SUBSET (1 .. k)
        BY <2>4, <3>2
      <4>2. h[S] = f[S] /\ f[S] = g[<<Max(S), f[S \ {Max(S)}]>>]
        BY <2>1, <2>8, <3>2, <4>1 DEF Folded
      <4>3. S \ {Max(S)} \in SUBSET (1 .. k + 1) /\ k + 1 \notin S \ {Max(S)}
        BY <3>2
      <4>4. h[S \ {Max(S)}] = f[S \ {Max(S)}]
        BY <4>3
      <4> QED
        BY <4>2, <4>4
    <3> QED
      BY <3>1, <3>2
  <2>9. Folded(h, k + 1, b, g)
    <3> HIDE DEF h
    <3> QED
      BY <2>7, <2>8 DEF Folded
  <2> HIDE DEF h
  <2> QED
    BY <2>2, <2>6, <2>9
<1> HIDE DEF T
<1>3. \A k \in 0 .. L : k \in T
  BY <1>1, <1>2, UpTo
<1>4. L \in T
  BY <1>3
<1> QED
  BY <1>4 DEF T

\* The same of one that need not be of this type
FoldedIn(F, k, V, b, g) ==
  /\ F[{}] = b
  /\ \A S \in SUBSET (1 .. k) : S # {} /\ F[S \ {Max(S)}] \in V => F[S] = g[<<Max(S), F[S \ {Max(S)}]>>]

\* Its values, from the front
Steps(P, F, k, b, g) ==
  /\ P[0] = b /\ P[k] = F[1 .. k]
  /\ \A j \in 1 .. k : P[j] = g[<<j, P[j - 1]>>]

\* The values of a fold, one position after the other from the front
LEMMA FoldSteps ==
  ASSUME NEW L \in Nat, NEW V, NEW b \in V, NEW g \in [(1 .. L) \X V -> V], NEW F, FoldedIn(F, L, V, b, g)
  PROVE  \E P \in [0 .. L -> V] : Steps(P, F, L, b, g)
<1> DEFINE P == [k \in 0 .. L |-> F[1 .. k]]
           T == {k \in 0 .. L : F[1 .. k] \in V}
<1>1. ASSUME NEW k \in 1 .. L, F[1 .. k - 1] \in V PROVE F[1 .. k] = g[<<k, F[1 .. k - 1]>>]
  <2>1. k \in Nat /\ k # 0 /\ 1 .. k \in SUBSET (1 .. L)
    OBVIOUS
  <2>2. 1 .. k # {} /\ Max(1 .. k) = k /\ (1 .. k) \ {k} = 1 .. k - 1
    BY <2>1, InitialSegment
  <2>3. F[(1 .. k) \ {Max(1 .. k)}] \in V
    BY <1>1, <2>2
  <2>4. F[1 .. k] = g[<<Max(1 .. k), F[(1 .. k) \ {Max(1 .. k)}]>>]
    <3> DEFINE S == 1 .. k
    <3>1. S \in SUBSET (1 .. L) /\ S # {} /\ F[S \ {Max(S)}] \in V
      BY <2>1, <2>2, <2>3
    <3> HIDE DEF S
    <3>2. F[S] = g[<<Max(S), F[S \ {Max(S)}]>>]
      BY <3>1 DEF FoldedIn
    <3> QED
      BY <3>2 DEF S
  <2>5. Max(1 .. k) = k /\ (1 .. k) \ {Max(1 .. k)} = 1 .. k - 1
    BY <2>2, Zenon
  <2> DEFINE m == Max(1 .. k)
             R == (1 .. k) \ {m}
             Q == 1 .. k - 1
             U == F[1 .. k]
  <2>6. U = g[<<m, F[R]>>] /\ m = k /\ R = Q
    BY <2>4, <2>5
  <2> HIDE DEF m, R, Q, U
  <2>7. U = g[<<k, F[Q]>>]
    BY <2>6
  <2> QED
    BY <2>7 DEF U, Q
<1>2. 0 \in T /\ 1 .. 0 = {}
  <2>1. 1 .. 0 = {} /\ 0 \in 0 .. L
    OBVIOUS
  <2>2. F[{}] \in V
    BY DEF FoldedIn
  <2>3. F[1 .. 0] \in V
    BY <2>1, <2>2
  <2> QED
    BY <2>1, <2>3
<1>3. ASSUME NEW k \in 0 .. L - 1, k \in T PROVE k + 1 \in T
  <2>1. k + 1 \in 1 .. L /\ k + 1 \in 0 .. L /\ (k + 1) - 1 = k
    OBVIOUS
  <2>2. F[1 .. k + 1] = g[<<k + 1, F[1 .. k]>>] /\ F[1 .. k] \in V
    <3>1. F[1 .. (k + 1) - 1] \in V
      BY <1>3, <2>1
    <3>2. F[1 .. k + 1] = g[<<k + 1, F[1 .. (k + 1) - 1]>>]
      BY <1>1, <2>1, <3>1
    <3> QED
      BY <2>1, <3>1, <3>2
  <2>3. <<k + 1, F[1 .. k]>> \in (1 .. L) \X V
    BY <2>1, <2>2
  <2> QED
    BY <2>1, <2>2, <2>3
<1> HIDE DEF T
<1>4. \A k \in 0 .. L : k \in T
  BY <1>2, <1>3, UpTo
<1>5. \A k \in 0 .. L : F[1 .. k] \in V
  BY <1>4 DEF T
<1>6. \A k \in 1 .. L : k \in 0 .. L /\ k - 1 \in 0 .. L
  OBVIOUS
<1>7. P[0] = b /\ P[L] = F[1 .. L] /\ \A k \in 1 .. L : P[k] = g[<<k, P[k - 1]>>]
  <2>1. 0 \in 0 .. L /\ L \in 0 .. L
    OBVIOUS
  <2> QED
    BY <1>1, <1>2, <1>5, <1>6, <2>1 DEF FoldedIn
<1>8. P \in [0 .. L -> V]
  BY <1>5
<1> HIDE DEF P
<1>9. Steps(P, F, L, b, g)
  BY <1>7 DEF Steps
<1> QED
  BY <1>8, <1>9

\* The product of the numbers, from the front
LEMMA NumElIs ==
  ASSUME NEW s \in Seq(Nat)
  PROVE  \E P \in [0 .. Len(s) -> Nat] :
           /\ P[0] = 1 /\ NumEl(s) = P[Len(s)]
           /\ \A k \in 1 .. Len(s) : P[k] = P[k - 1] * s[k]
<1> DEFINE Step(a, x) == a * s[x]
           L == Len(s)
           V == Nat
           g == [q \in (1 .. L) \X V |-> Step(q[2], q[1])]
           Def(f) == f = [S \in SUBSET (1 .. L) |->
                            IF S = {} THEN 1 ELSE LET x == Max(S) IN Step(f[S \ {x}], x)]
           F == CHOOSE f : Def(f)
<1>1. L \in Nat /\ DOMAIN s = 1 .. L /\ \A k \in 1 .. L : s[k] \in Nat
  BY LenProperties
<1>2. NumEl(s) = F[1 .. L]
  BY <1>1 DEF NumEl, FoldLeft, MapThenFoldSet
<1>3. 1 \in V /\ \A x \in 1 .. L : \A a \in V : Step(a, x) \in V
  <2> HIDE DEF L
  <2> QED
    BY <1>1
<1> HIDE DEF Step, L, V
<1>4. g \in [(1 .. L) \X V -> V] /\ \A x \in 1 .. L : \A a \in V : g[<<x, a>>] = Step(a, x)
  <2>1. ASSUME NEW q \in (1 .. L) \X V PROVE Step(q[2], q[1]) \in V
    <3>1. q[1] \in 1 .. L /\ q[2] \in V
      OBVIOUS
    <3> QED
      BY <1>3, <3>1
  <2> QED
    BY <2>1
<1> HIDE DEF g
<1>5. \A S \in SUBSET (1 .. L) : S # {} => Max(S) \in 1 .. L
  BY <1>1, MaxIn
<1>6. Def(F)
  <2>1. PICK f \in [SUBSET (1 .. L) -> V] : Folded(f, L, 1, g)
    BY <1>1, <1>3, <1>4, FoldExists
  <2>2. ASSUME NEW S \in SUBSET (1 .. L), S # {} PROVE f[S] = Step(f[S \ {Max(S)}], Max(S))
    <3>1. Max(S) \in 1 .. L /\ f[S \ {Max(S)}] \in V
      BY <1>5, <2>2
    <3>2. f[S] = g[<<Max(S), f[S \ {Max(S)}]>>]
      BY <2>1, <2>2 DEF Folded
    <3> QED
      BY <1>1, <1>4, <3>1, <3>2
  <2>3. Def(f)
    BY <2>1, <2>2 DEF Folded
  <2> HIDE DEF Def
  <2> QED
    BY <2>3
<1> HIDE DEF F
<1>7. F[{}] = 1
  BY <1>6
<1> HIDE DEF Def
<1>8. ASSUME NEW S \in SUBSET (1 .. L), S # {}, F[S \ {Max(S)}] \in V
      PROVE  F[S] = g[<<Max(S), F[S \ {Max(S)}]>>]
  <2>1. F[S] = Step(F[S \ {Max(S)}], Max(S))
    BY <1>6, <1>8 DEF Def
  <2>2. Max(S) \in 1 .. L
    BY <1>5, <1>8
  <2> QED
    BY <1>1, <1>4, <1>8, <2>1, <2>2
<1>9. FoldedIn(F, L, V, 1, g)
  BY <1>7, <1>8 DEF FoldedIn
<1>10. PICK P \in [0 .. L -> V] : Steps(P, F, L, 1, g)
  BY <1>1, <1>3, <1>4, <1>9, FoldSteps
<1>11. ASSUME NEW k \in 1 .. L PROVE P[k] = P[k - 1] * s[k]
  <2>1. P[k - 1] \in V
    BY <1>1, <1>10
  <2>2. P[k] = Step(P[k - 1], k)
    BY <1>4, <1>10, <2>1 DEF Steps
  <2> QED
    BY <2>2 DEF Step
<1>12. /\ P \in [0 .. Len(s) -> Nat] /\ P[0] = 1 /\ NumEl(s) = P[Len(s)]
       /\ \A k \in 1 .. Len(s) : P[k] = P[k - 1] * s[k]
  BY <1>2, <1>10, <1>11 DEF Steps, L, V
<1> QED
  BY <1>12

\* The position of an index
LEMMA PositionIs ==
  ASSUME NEW s \in Seq(Nat), NEW i \in Seq(Nat), Len(i) = Len(s)
  PROVE  \E P \in [0 .. Len(s) -> Nat] :
           /\ P[0] = 0 /\ Position(i, s) = P[Len(s)]
           /\ \A k \in 1 .. Len(s) : P[k] = P[k - 1] * s[k] + i[k]
<1> DEFINE Step(a, x) == a * s[x] + i[x]
           L == Len(s)
           V == Nat
           g == [q \in (1 .. L) \X V |-> Step(q[2], q[1])]
           Def(f) == f = [S \in SUBSET (1 .. L) |->
                            IF S = {} THEN 0 ELSE LET x == Max(S) IN Step(f[S \ {x}], [y \in DOMAIN s |-> y][x])]
           F == CHOOSE f : Def(f)
<1>1. L \in Nat /\ DOMAIN s = 1 .. L /\ \A k \in 1 .. L : s[k] \in Nat /\ i[k] \in Nat /\ \A x \in 1 .. L : [y \in DOMAIN s |-> y][x] = x
  BY LenProperties
<1>2. Position(i, s) = F[1 .. L]
  BY <1>1 DEF Position, FoldLeftDomain, FoldLeft, MapThenFoldSet
<1>3. 0 \in V /\ \A x \in 1 .. L : \A a \in V : Step(a, x) \in V
  <2> HIDE DEF L
  <2> QED
    BY <1>1
<1> HIDE DEF Step, L, V
<1>4. g \in [(1 .. L) \X V -> V] /\ \A x \in 1 .. L : \A a \in V : g[<<x, a>>] = Step(a, x)
  <2>1. ASSUME NEW q \in (1 .. L) \X V PROVE Step(q[2], q[1]) \in V
    <3>1. q[1] \in 1 .. L /\ q[2] \in V
      OBVIOUS
    <3> QED
      BY <1>3, <3>1
  <2> QED
    BY <2>1
<1> HIDE DEF g
<1>5. \A S \in SUBSET (1 .. L) : S # {} => Max(S) \in 1 .. L
  BY <1>1, MaxIn
<1>6. Def(F)
  <2>1. PICK f \in [SUBSET (1 .. L) -> V] : Folded(f, L, 0, g)
    BY <1>1, <1>3, <1>4, FoldExists
  <2>2. ASSUME NEW S \in SUBSET (1 .. L), S # {} PROVE f[S] = Step(f[S \ {Max(S)}], [y \in DOMAIN s |-> y][Max(S)])
    <3>1. Max(S) \in 1 .. L /\ f[S \ {Max(S)}] \in V
      BY <1>5, <2>2
    <3>2. f[S] = g[<<Max(S), f[S \ {Max(S)}]>>]
      BY <2>1, <2>2 DEF Folded
    <3> QED
      BY <1>1, <1>4, <3>1, <3>2
  <2>3. Def(f)
    BY <2>1, <2>2 DEF Folded
  <2> HIDE DEF Def
  <2> QED
    BY <2>3
<1> HIDE DEF F
<1>7. F[{}] = 0
  BY <1>6
<1> HIDE DEF Def
<1>8. ASSUME NEW S \in SUBSET (1 .. L), S # {}, F[S \ {Max(S)}] \in V
      PROVE  F[S] = g[<<Max(S), F[S \ {Max(S)}]>>]
  <2>1. F[S] = Step(F[S \ {Max(S)}], [y \in DOMAIN s |-> y][Max(S)])
    BY <1>6, <1>8 DEF Def
  <2>2. Max(S) \in 1 .. L
    BY <1>5, <1>8
  <2> QED
    BY <1>1, <1>4, <1>8, <2>1, <2>2
<1>9. FoldedIn(F, L, V, 0, g)
  BY <1>7, <1>8 DEF FoldedIn
<1>10. PICK P \in [0 .. L -> V] : Steps(P, F, L, 0, g)
  BY <1>1, <1>3, <1>4, <1>9, FoldSteps
<1>11. ASSUME NEW k \in 1 .. L PROVE P[k] = P[k - 1] * s[k] + i[k]
  <2>1. P[k - 1] \in V
    BY <1>1, <1>10
  <2>2. P[k] = Step(P[k - 1], k)
    BY <1>4, <1>10, <2>1 DEF Steps
  <2> QED
    BY <2>2 DEF Step
<1>12. /\ P \in [0 .. Len(s) -> Nat] /\ P[0] = 0 /\ Position(i, s) = P[Len(s)]
       /\ \A k \in 1 .. Len(s) : P[k] = P[k - 1] * s[k] + i[k]
  BY <1>2, <1>10, <1>11 DEF Steps, L, V
<1> QED
  BY <1>12

\* Every sequence with every element behind it
Longer(ts, S) == {Append(t, e) : t \in ts, e \in S}

\* Sequences with one element of each set
LEMMA TuplesAre ==
  ASSUME NEW U, NEW Ss \in Seq(SUBSET U)
  PROVE  \E P \in [0 .. Len(Ss) -> SUBSET Seq(U)] :
           /\ P[0] = {<<>>} /\ Tuples(Ss) = P[Len(Ss)]
           /\ \A k \in 1 .. Len(Ss) : P[k] = Longer(P[k - 1], Ss[k])
<1> DEFINE Step(a, x) == Longer(a, Ss[x])
           L == Len(Ss)
           V == SUBSET Seq(U)
           g == [q \in (1 .. L) \X V |-> Step(q[2], q[1])]
           Def(f) == f = [S \in SUBSET (1 .. L) |->
                            IF S = {} THEN {<<>>} ELSE LET x == Max(S) IN Step(f[S \ {x}], x)]
           F == CHOOSE f : Def(f)
<1>1. L \in Nat /\ DOMAIN Ss = 1 .. L /\ \A k \in 1 .. L : Ss[k] \subseteq U
  BY LenProperties
<1>2. Tuples(Ss) = F[1 .. L]
  BY <1>1 DEF Longer, Tuples, FoldLeft, MapThenFoldSet
<1>3. {<<>>} \in V /\ \A x \in 1 .. L : \A a \in V : Step(a, x) \in V
  <2>1. {<<>>} \in V
    BY EmptySeq
  <2>2. ASSUME NEW x \in 1 .. L, NEW a \in V, NEW t \in a, NEW e \in Ss[x]
        PROVE  Append(t, e) \in Seq(U)
    <3>1. t \in Seq(U) /\ e \in U
      BY <1>1
    <3> QED
      BY <3>1, AppendProperties
  <2>3. ASSUME NEW x \in 1 .. L, NEW a \in V PROVE Step(a, x) \in V
    <3>1. {Append(t, e) : t \in a, e \in Ss[x]} \subseteq Seq(U)
      <4> HIDE DEF L, V
      <4> QED
        BY <2>2
    <3> QED
      BY <3>1 DEF Longer
  <2> HIDE DEF L, V, Step
  <2> QED
    BY <2>1, <2>3
<1> HIDE DEF Step, L, V
<1>4. g \in [(1 .. L) \X V -> V] /\ \A x \in 1 .. L : \A a \in V : g[<<x, a>>] = Step(a, x)
  <2>1. ASSUME NEW q \in (1 .. L) \X V PROVE Step(q[2], q[1]) \in V
    <3>1. q[1] \in 1 .. L /\ q[2] \in V
      OBVIOUS
    <3> QED
      BY <1>3, <3>1
  <2> QED
    BY <2>1
<1> HIDE DEF g
<1>5. \A S \in SUBSET (1 .. L) : S # {} => Max(S) \in 1 .. L
  BY <1>1, MaxIn
<1>6. Def(F)
  <2>1. PICK f \in [SUBSET (1 .. L) -> V] : Folded(f, L, {<<>>}, g)
    BY <1>1, <1>3, <1>4, FoldExists
  <2>2. ASSUME NEW S \in SUBSET (1 .. L), S # {} PROVE f[S] = Step(f[S \ {Max(S)}], Max(S))
    <3>1. Max(S) \in 1 .. L /\ f[S \ {Max(S)}] \in V
      BY <1>5, <2>2
    <3>2. f[S] = g[<<Max(S), f[S \ {Max(S)}]>>]
      BY <2>1, <2>2 DEF Folded
    <3> QED
      BY <1>1, <1>4, <3>1, <3>2
  <2>3. Def(f)
    BY <2>1, <2>2 DEF Folded
  <2> HIDE DEF Def
  <2> QED
    BY <2>3
<1> HIDE DEF F
<1>7. F[{}] = {<<>>}
  BY <1>6
<1> HIDE DEF Def
<1>8. ASSUME NEW S \in SUBSET (1 .. L), S # {}, F[S \ {Max(S)}] \in V
      PROVE  F[S] = g[<<Max(S), F[S \ {Max(S)}]>>]
  <2>1. F[S] = Step(F[S \ {Max(S)}], Max(S))
    BY <1>6, <1>8 DEF Def
  <2>2. Max(S) \in 1 .. L
    BY <1>5, <1>8
  <2> QED
    BY <1>1, <1>4, <1>8, <2>1, <2>2
<1>9. FoldedIn(F, L, V, {<<>>}, g)
  BY <1>7, <1>8 DEF FoldedIn
<1>10. PICK P \in [0 .. L -> V] : Steps(P, F, L, {<<>>}, g)
  BY <1>1, <1>3, <1>4, <1>9, FoldSteps
<1>11. ASSUME NEW k \in 1 .. L PROVE P[k] = Longer(P[k - 1], Ss[k])
  <2>1. P[k - 1] \in V
    BY <1>1, <1>10
  <2>2. P[k] = Step(P[k - 1], k)
    BY <1>4, <1>10, <2>1 DEF Steps
  <2> QED
    BY <2>2 DEF Step
<1>12. /\ P \in [0 .. Len(Ss) -> SUBSET Seq(U)] /\ P[0] = {<<>>} /\ Tuples(Ss) = P[Len(Ss)]
       /\ \A k \in 1 .. Len(Ss) : P[k] = Longer(P[k - 1], Ss[k])
  BY <1>2, <1>10, <1>11 DEF Steps, L, V
<1> QED
  BY <1>12

\* The sizes of the variables, added up from the front
LEMMA SizesAddUp ==
  ASSUME NEW V0, \A v \in V0 : Size(v) \in Nat, NEW s \in Seq(V0)
  PROVE  \E P \in [0 .. Len(s) -> Nat] :
           /\ P[0] = 0 /\ FoldLeft(LAMBDA n, v : n + Size(v), 0, s) = P[Len(s)]
           /\ \A k \in 1 .. Len(s) : P[k] = P[k - 1] + Size(s[k])
<1> DEFINE Step(a, x) == a + Size(s[x])
           L == Len(s)
           V == Nat
           g == [q \in (1 .. L) \X V |-> Step(q[2], q[1])]
           Def(f) == f = [S \in SUBSET (1 .. L) |->
                            IF S = {} THEN 0 ELSE LET x == Max(S) IN Step(f[S \ {x}], x)]
           F == CHOOSE f : Def(f)
<1>1. L \in Nat /\ DOMAIN s = 1 .. L /\ \A k \in 1 .. L : Size(s[k]) \in Nat
  BY LenProperties
<1>2. FoldLeft(LAMBDA n, v : n + Size(v), 0, s) = F[1 .. L]
  BY <1>1 DEF FoldLeft, MapThenFoldSet
<1>3. 0 \in V /\ \A x \in 1 .. L : \A a \in V : Step(a, x) \in V
  <2> HIDE DEF L
  <2> QED
    BY <1>1
<1> HIDE DEF Step, L, V
<1>4. g \in [(1 .. L) \X V -> V] /\ \A x \in 1 .. L : \A a \in V : g[<<x, a>>] = Step(a, x)
  <2>1. ASSUME NEW q \in (1 .. L) \X V PROVE Step(q[2], q[1]) \in V
    <3>1. q[1] \in 1 .. L /\ q[2] \in V
      OBVIOUS
    <3> QED
      BY <1>3, <3>1
  <2> QED
    BY <2>1
<1> HIDE DEF g
<1>5. \A S \in SUBSET (1 .. L) : S # {} => Max(S) \in 1 .. L
  BY <1>1, MaxIn
<1>6. Def(F)
  <2>1. PICK f \in [SUBSET (1 .. L) -> V] : Folded(f, L, 0, g)
    BY <1>1, <1>3, <1>4, FoldExists
  <2>2. ASSUME NEW S \in SUBSET (1 .. L), S # {} PROVE f[S] = Step(f[S \ {Max(S)}], Max(S))
    <3>1. Max(S) \in 1 .. L /\ f[S \ {Max(S)}] \in V
      BY <1>5, <2>2
    <3>2. f[S] = g[<<Max(S), f[S \ {Max(S)}]>>]
      BY <2>1, <2>2 DEF Folded
    <3> QED
      BY <1>1, <1>4, <3>1, <3>2
  <2>3. Def(f)
    BY <2>1, <2>2 DEF Folded
  <2> HIDE DEF Def
  <2> QED
    BY <2>3
<1> HIDE DEF F
<1>7. F[{}] = 0
  BY <1>6
<1> HIDE DEF Def
<1>8. ASSUME NEW S \in SUBSET (1 .. L), S # {}, F[S \ {Max(S)}] \in V
      PROVE  F[S] = g[<<Max(S), F[S \ {Max(S)}]>>]
  <2>1. F[S] = Step(F[S \ {Max(S)}], Max(S))
    BY <1>6, <1>8 DEF Def
  <2>2. Max(S) \in 1 .. L
    BY <1>5, <1>8
  <2> QED
    BY <1>1, <1>4, <1>8, <2>1, <2>2
<1>9. FoldedIn(F, L, V, 0, g)
  BY <1>7, <1>8 DEF FoldedIn
<1>10. PICK P \in [0 .. L -> V] : Steps(P, F, L, 0, g)
  BY <1>1, <1>3, <1>4, <1>9, FoldSteps
<1>11. ASSUME NEW k \in 1 .. L PROVE P[k] = P[k - 1] + Size(s[k])
  <2>1. P[k - 1] \in V
    BY <1>1, <1>10
  <2>2. P[k] = Step(P[k - 1], k)
    BY <1>4, <1>10, <2>1 DEF Steps
  <2> QED
    BY <2>2 DEF Step
<1>12. /\ P \in [0 .. Len(s) -> Nat] /\ P[0] = 0 /\ FoldLeft(LAMBDA n, v : n + Size(v), 0, s) = P[Len(s)]
       /\ \A k \in 1 .. Len(s) : P[k] = P[k - 1] + Size(s[k])
  BY <1>2, <1>10, <1>11 DEF Steps, L, V
<1> QED
  BY <1>12

-----------------------------------------------------------------------------
(* Sizes and positions *)

\* Shapes without an empty dimension
Sizes == Seq(Nat \ {0})

\* What sizes are, position by position
LEMMA SizesAre ==
  ASSUME NEW s \in Sizes
  PROVE  /\ s \in Seq(Nat) /\ Len(s) \in Nat /\ DOMAIN s = 1 .. Len(s)
         /\ \A k \in 1 .. Len(s) : s[k] \in Nat \ {0}
  BY LenProperties, SeqMonotonic DEF Sizes

\* What is where in two sequences, one behind the other
LEMMA ConcatIs ==
  ASSUME NEW S, NEW s \in Seq(S), NEW t \in Seq(S)
  PROVE  /\ s \o t \in Seq(S) /\ Len(s) \in Nat /\ Len(t) \in Nat
         /\ Len(s \o t) = Len(s) + Len(t)
         /\ \A k \in 1 .. Len(s) : (s \o t)[k] = s[k]
         /\ \A k \in 1 .. Len(t) : (s \o t)[Len(s) + k] = t[k]
  <1>1. s \o t \in Seq(S) /\ Len(s) \in Nat /\ Len(t) \in Nat
    BY ConcatProperties, LenProperties
  <1>2. /\ Len(s \o t) = Len(s) + Len(t)
        /\ \A k \in 1 .. Len(s) + Len(t) : (s \o t)[k] = IF k <= Len(s) THEN s[k] ELSE t[k - Len(s)]
    BY ConcatProperties
  <1>3. \A k \in 1 .. Len(s) : k \in 1 .. Len(s) + Len(t) /\ k <= Len(s)
    BY <1>1
  <1>4. \A k \in 1 .. Len(t) : Len(s) + k \in 1 .. Len(s) + Len(t) /\ ~(Len(s) + k <= Len(s)) /\ (Len(s) + k) - Len(s) = k
    BY <1>1
  <1> QED
    BY <1>1, <1>2, <1>3, <1>4

\* A tensor without dimensions has one entry.
LEMMA NumElEmpty == NumEl(<<>>) = 1
  <1>1. <<>> \in Seq(Nat) /\ Len(<<>>) = 0
    BY EmptySeq
  <1> QED
    BY <1>1, NumElIs

\* Numbers of entries are numbers.
LEMMA NumElNat ==
  ASSUME NEW s \in Seq(Nat)
  PROVE  NumEl(s) \in Nat
  <1>1. PICK P \in [0 .. Len(s) -> Nat] : NumEl(s) = P[Len(s)]
    BY NumElIs
  <1>2. Len(s) \in 0 .. Len(s)
    BY LenProperties
  <1> QED
    BY <1>1, <1>2

\* Without an empty dimension there is an entry.
LEMMA NumElPositive ==
  ASSUME NEW s \in Sizes
  PROVE  NumEl(s) \in Nat \ {0}
  <1>1. PICK P \in [0 .. Len(s) -> Nat] :
          P[0] = 1 /\ NumEl(s) = P[Len(s)] /\ \A k \in 1 .. Len(s) : P[k] = P[k - 1] * s[k]
    BY NumElIs, SizesAre
  <1> DEFINE T == {k \in 0 .. Len(s) : P[k] \in Nat \ {0}}
  <1>2. 0 \in T
    BY <1>1, SizesAre
  <1>3. ASSUME NEW k \in 0 .. Len(s) - 1, k \in T PROVE k + 1 \in T
    <2>1. k + 1 \in 1 .. Len(s) /\ k + 1 \in 0 .. Len(s) /\ (k + 1) - 1 = k
      BY SizesAre
    <2>2. P[k + 1] = P[k] * s[k + 1] /\ P[k] \in Nat \ {0} /\ s[k + 1] \in Nat \ {0}
      BY <1>1, <1>3, <2>1, SizesAre
    <2>3. \A a, c \in Nat \ {0} : a * c \in Nat \ {0}
      OBVIOUS
    <2> QED
      BY <2>1, <2>2, <2>3
  <1> HIDE DEF T
  <1>4. Len(s) \in T
    <2>1. Len(s) \in Nat /\ Len(s) \in 0 .. Len(s)
      BY SizesAre
    <2>2. \A k \in 0 .. Len(s) : k \in T
      BY <1>2, <1>3, <2>1, UpTo
    <2> QED
      BY <2>1, <2>2
  <1> QED
    BY <1>1, <1>4 DEF T

\* Numbers of entries of the two parts of a shape are multiplied.
LEMMA NumElConcat ==
  ASSUME NEW s \in Seq(Nat), NEW t \in Seq(Nat)
  PROVE  NumEl(s \o t) = NumEl(s) * NumEl(t)
  <1> DEFINE m == Len(s)
             n == Len(t)
  <1>1. /\ s \o t \in Seq(Nat) /\ m \in Nat /\ n \in Nat
        /\ Len(s \o t) = m + n
        /\ \A k \in 1 .. m : (s \o t)[k] = s[k]
        /\ \A k \in 1 .. n : (s \o t)[m + k] = t[k]
    BY ConcatIs
  <1>2. PICK P \in [0 .. m -> Nat] : P[0] = 1 /\ NumEl(s) = P[m] /\ \A k \in 1 .. m : P[k] = P[k - 1] * s[k]
    BY NumElIs
  <1>3. PICK Q \in [0 .. n -> Nat] : Q[0] = 1 /\ NumEl(t) = Q[n] /\ \A k \in 1 .. n : Q[k] = Q[k - 1] * t[k]
    BY NumElIs
  <1>4. PICK R \in [0 .. m + n -> Nat] :
          R[0] = 1 /\ NumEl(s \o t) = R[m + n] /\ \A k \in 1 .. m + n : R[k] = R[k - 1] * (s \o t)[k]
    BY <1>1, NumElIs
  <1> HIDE DEF m, n
  <1> DEFINE A == {k \in 0 .. m : R[k] = P[k]}
  <1>5. \A k \in 0 .. m : k \in A
    <2>1. 0 \in A
      BY <1>1, <1>2, <1>4
    <2>2. ASSUME NEW k \in 0 .. m - 1, k \in A PROVE k + 1 \in A
      <3>1. k + 1 \in 1 .. m /\ k + 1 \in 1 .. m + n /\ k + 1 \in 0 .. m /\ (k + 1) - 1 = k
        BY <1>1
      <3>2. R[k] = P[k] /\ R[k + 1] = R[k] * (s \o t)[k + 1] /\ P[k + 1] = P[k] * s[k + 1]
        BY <1>2, <1>4, <2>2, <3>1
      <3>3. (s \o t)[k + 1] = s[k + 1]
        BY <1>1, <3>1
      <3>4. R[k + 1] = P[k + 1]
        BY <3>2, <3>3
      <3> QED
        BY <3>1, <3>4
    <2> HIDE DEF A
    <2> QED
      BY <1>1, <2>1, <2>2, UpTo
  <1> DEFINE B == {k \in 0 .. n : R[m + k] = P[m] * Q[k]}
  <1>6. \A k \in 0 .. n : k \in B
    <2>0. m \in 0 .. m /\ m + 0 = m /\ P[m] \in Nat
      BY <1>1
    <2>1. 0 \in B
      <3>1. R[m] = P[m]
        BY <1>5, <2>0
      <3> QED
        BY <1>1, <1>3, <2>0, <3>1
    <2>2. ASSUME NEW k \in 0 .. n - 1, k \in B PROVE k + 1 \in B
      <3>1. /\ k + 1 \in 1 .. n /\ k + 1 \in 0 .. n /\ (k + 1) - 1 = k /\ k \in 0 .. n
            /\ m + (k + 1) \in 1 .. m + n /\ (m + (k + 1)) - 1 = m + k
        BY <1>1
      <3>2. R[m + (k + 1)] = R[m + k] * t[k + 1] /\ Q[k + 1] = Q[k] * t[k + 1] /\ R[m + k] = P[m] * Q[k]
        BY <1>1, <1>3, <1>4, <2>2, <3>1
      <3>3. P[m] \in Nat /\ Q[k] \in Nat /\ t[k + 1] \in Nat
        <4>1. \A l \in 1 .. n : t[l] \in Nat
          BY LenProperties DEF n
        <4> QED
          BY <2>0, <3>1, <4>1
      <3>4. \A a, b, c \in Nat : (a * b) * c = a * (b * c)
        OBVIOUS
      <3>5. R[m + (k + 1)] = P[m] * Q[k + 1]
        BY <3>2, <3>3, <3>4
      <3> QED
        BY <3>1, <3>5
    <2> HIDE DEF B
    <2> QED
      BY <1>1, <2>1, <2>2, UpTo
  <1>7. n \in 0 .. n
    BY <1>1
  <1> QED
    BY <1>2, <1>3, <1>4, <1>6, <1>7

\* A vector has as many entries as its dimension says.
LEMMA NumElOne ==
  ASSUME NEW a \in Nat
  PROVE  <<a>> \in Seq(Nat) /\ Len(<<a>>) = 1 /\ NumEl(<<a>>) = a
  <1>1. <<a>> \in Seq(Nat) /\ Len(<<a>>) = 1 /\ <<a>>[1] = a
    OBVIOUS
  <1>2. PICK P \in [0 .. 1 -> Nat] :
          P[0] = 1 /\ NumEl(<<a>>) = P[1] /\ \A k \in 1 .. 1 : P[k] = P[k - 1] * <<a>>[k]
    BY <1>1, NumElIs
  <1>3. 1 \in 1 .. 1 /\ 1 - 1 = 0 /\ 1 * a = a
    OBVIOUS
  <1> QED
    BY <1>1, <1>2, <1>3

\* Positions are numbers.
LEMMA PositionNat ==
  ASSUME NEW s \in Seq(Nat), NEW i \in Seq(Nat), Len(i) = Len(s)
  PROVE  Position(i, s) \in Nat
  <1>1. PICK P \in [0 .. Len(s) -> Nat] : Position(i, s) = P[Len(s)]
    BY PositionIs
  <1>2. Len(s) \in 0 .. Len(s)
    BY LenProperties
  <1> QED
    BY <1>1, <1>2

\* The position of an index in a shape of two parts, row major
LEMMA PositionConcat ==
  ASSUME NEW s \in Seq(Nat), NEW t \in Seq(Nat), NEW i \in Seq(Nat), NEW j \in Seq(Nat),
         Len(i) = Len(s), Len(j) = Len(t)
  PROVE  Position(i \o j, s \o t) = Position(i, s) * NumEl(t) + Position(j, t)
  <1> DEFINE m == Len(s)
             n == Len(t)
  <1>1. /\ s \o t \in Seq(Nat) /\ m \in Nat /\ n \in Nat
        /\ Len(s \o t) = m + n
        /\ \A k \in 1 .. m : (s \o t)[k] = s[k]
        /\ \A k \in 1 .. n : (s \o t)[m + k] = t[k]
    BY ConcatIs
  <1>2. /\ i \o j \in Seq(Nat) /\ Len(i \o j) = m + n
        /\ \A k \in 1 .. m : (i \o j)[k] = i[k]
        /\ \A k \in 1 .. n : (i \o j)[m + k] = j[k]
    <2> HIDE DEF m, n
    <2>1. \A x, y \in Seq(Nat) :
            /\ x \o y \in Seq(Nat) /\ Len(x \o y) = Len(x) + Len(y)
            /\ \A k \in 1 .. Len(x) : (x \o y)[k] = x[k]
            /\ \A k \in 1 .. Len(y) : (x \o y)[Len(x) + k] = y[k]
      BY ConcatIs
    <2>2. Len(i) = m /\ Len(j) = n
      BY DEF m, n
    <2> QED
      BY <2>1, <2>2
  <1>3. PICK P \in [0 .. m -> Nat] :
          P[0] = 0 /\ Position(i, s) = P[m] /\ \A k \in 1 .. m : P[k] = P[k - 1] * s[k] + i[k]
    BY PositionIs
  <1>4. PICK Q \in [0 .. n -> Nat] :
          Q[0] = 0 /\ Position(j, t) = Q[n] /\ \A k \in 1 .. n : Q[k] = Q[k - 1] * t[k] + j[k]
    BY PositionIs
  <1>5. PICK N \in [0 .. n -> Nat] : N[0] = 1 /\ NumEl(t) = N[n] /\ \A k \in 1 .. n : N[k] = N[k - 1] * t[k]
    BY NumElIs
  <1>6. PICK R \in [0 .. m + n -> Nat] :
          /\ R[0] = 0 /\ Position(i \o j, s \o t) = R[m + n]
          /\ \A k \in 1 .. m + n : R[k] = R[k - 1] * (s \o t)[k] + (i \o j)[k]
    <2> HIDE DEF m, n
    <2>1. Len(i \o j) = Len(s \o t)
      BY <1>1, <1>2
    <2>2. \E R \in [0 .. Len(s \o t) -> Nat] :
            /\ R[0] = 0 /\ Position(i \o j, s \o t) = R[Len(s \o t)]
            /\ \A k \in 1 .. Len(s \o t) : R[k] = R[k - 1] * (s \o t)[k] + (i \o j)[k]
      BY <1>1, <1>2, <2>1, PositionIs
    <2> QED
      BY <1>1, <2>2
  <1>7. \A k \in 1 .. n : t[k] \in Nat /\ j[k] \in Nat
    BY LenProperties
  <1> HIDE DEF m, n
  <1> DEFINE A == {k \in 0 .. m : R[k] = P[k]}
  <1>8. \A k \in 0 .. m : k \in A
    <2>1. 0 \in A
      BY <1>1, <1>3, <1>6
    <2>2. ASSUME NEW k \in 0 .. m - 1, k \in A PROVE k + 1 \in A
      <3>1. k + 1 \in 1 .. m /\ k + 1 \in 1 .. m + n /\ k + 1 \in 0 .. m /\ (k + 1) - 1 = k
        BY <1>1
      <3>2. R[k] = P[k]
        BY <2>2
      <3>3. R[k + 1] = R[k] * (s \o t)[k + 1] + (i \o j)[k + 1] /\ P[k + 1] = P[k] * s[k + 1] + i[k + 1]
        BY <1>3, <1>6, <3>1
      <3>4. (s \o t)[k + 1] = s[k + 1] /\ (i \o j)[k + 1] = i[k + 1]
        BY <1>1, <1>2, <3>1
      <3>5. R[k + 1] = P[k + 1]
        BY <3>2, <3>3, <3>4
      <3> QED
        BY <3>1, <3>5
    <2> HIDE DEF A
    <2> QED
      BY <1>1, <2>1, <2>2, UpTo
  <1> DEFINE B == {k \in 0 .. n : R[m + k] = P[m] * N[k] + Q[k]}
  <1>9. \A k \in 0 .. n : k \in B
    <2>0. m \in 0 .. m /\ m + 0 = m /\ P[m] \in Nat
      BY <1>1
    <2>1. 0 \in B
      <3>1. R[m] = P[m]
        BY <1>8, <2>0
      <3>2. P[m] * 1 + 0 = P[m]
        BY <2>0
      <3> QED
        BY <1>1, <1>4, <1>5, <2>0, <3>1, <3>2
    <2>2. ASSUME NEW k \in 0 .. n - 1, k \in B PROVE k + 1 \in B
      <3>1. /\ k + 1 \in 1 .. n /\ k + 1 \in 0 .. n /\ (k + 1) - 1 = k /\ k \in 0 .. n
            /\ m + (k + 1) \in 1 .. m + n /\ (m + (k + 1)) - 1 = m + k
        BY <1>1
      <3>2. R[m + (k + 1)] = R[m + k] * (s \o t)[m + (k + 1)] + (i \o j)[m + (k + 1)]
        BY <1>6, <3>1
      <3>3. (s \o t)[m + (k + 1)] = t[k + 1] /\ (i \o j)[m + (k + 1)] = j[k + 1]
        BY <1>1, <1>2, <3>1
      <3>4. Q[k + 1] = Q[k] * t[k + 1] + j[k + 1] /\ N[k + 1] = N[k] * t[k + 1]
        BY <1>4, <1>5, <3>1
      <3>5. R[m + k] = P[m] * N[k] + Q[k]
        BY <2>2
      <3>6. P[m] \in Nat /\ N[k] \in Nat /\ Q[k] \in Nat /\ t[k + 1] \in Nat /\ j[k + 1] \in Nat
        BY <1>7, <2>0, <3>1
      <3>8. (P[m] * N[k] + Q[k]) * t[k + 1] + j[k + 1] = P[m] * (N[k] * t[k + 1]) + (Q[k] * t[k + 1] + j[k + 1])
        <4> DEFINE a == P[m]
                   b == N[k]
                   c == Q[k]
                   d == t[k + 1]
                   e == j[k + 1]
        <4>1. a \in Nat /\ b \in Nat /\ c \in Nat /\ d \in Nat /\ e \in Nat
          BY <3>6
        <4> HIDE DEF a, b, c, d, e
        <4>2. (a * b + c) * d + e = a * (b * d) + (c * d + e)
          BY <4>1
        <4> QED
          BY <4>2 DEF a, b, c, d, e
      <3>9. R[m + (k + 1)] = (P[m] * N[k] + Q[k]) * t[k + 1] + j[k + 1]
        BY <3>2, <3>3, <3>5
      <3>10. R[m + (k + 1)] = P[m] * N[k + 1] + Q[k + 1]
        BY <3>4, <3>8, <3>9
      <3> QED
        BY <3>1, <3>10
    <2> HIDE DEF B
    <2> QED
      BY <1>1, <2>1, <2>2, UpTo
  <1>10. n \in 0 .. n
    BY <1>1
  <1> QED
    BY <1>3, <1>4, <1>5, <1>6, <1>9, <1>10

\* The index of a vector is its position.
LEMMA PositionOne ==
  ASSUME NEW a \in Nat, NEW n \in Nat
  PROVE  Position(<<a>>, <<n>>) = a
  <1>1. <<n>> \in Seq(Nat) /\ Len(<<n>>) = 1 /\ <<a>> \in Seq(Nat) /\ Len(<<a>>) = 1 /\ <<a>>[1] = a /\ <<n>>[1] = n
    OBVIOUS
  <1>2. PICK P \in [0 .. 1 -> Nat] :
          P[0] = 0 /\ Position(<<a>>, <<n>>) = P[1] /\ \A k \in 1 .. 1 : P[k] = P[k - 1] * <<n>>[k] + <<a>>[k]
    BY <1>1, PositionIs
  <1>3. 1 \in 1 .. 1 /\ 1 - 1 = 0 /\ 0 * n + a = a
    OBVIOUS
  <1> QED
    BY <1>1, <1>2, <1>3

\* Division with a remainder
LEMMA DivMod ==
  ASSUME NEW a \in Nat, NEW b \in Nat \ {0}
  PROVE  /\ a \div b \in Nat /\ a % b \in Nat /\ a % b < b
         /\ a = (a \div b) * b + (a % b)
  OBVIOUS

\* There is one way to divide with a remainder.
LEMMA DivUnique ==
  ASSUME NEW q \in Nat, NEW b \in Nat \ {0}, NEW r \in Nat, r < b
  PROVE  (q * b + r) \div b = q /\ (q * b + r) % b = r
  <1> DEFINE a == q * b + r
             p == a \div b
             m == a % b
  <1>1. a \in Nat
    OBVIOUS
  <1> HIDE DEF a
  <1>2. p \in Nat /\ m \in Nat /\ m < b /\ a = p * b + m
    BY <1>1, DivMod
  <1> HIDE DEF p, m
  <1>3. p * b + m = q * b + r
    BY <1>2 DEF a
  <1>4. p = q
    <2>1. ASSUME p < q PROVE FALSE
      <3>1. PICK d \in Nat : q = p + 1 + d
        <4>1. q - p - 1 \in Nat /\ q = p + 1 + (q - p - 1)
          BY <1>2, <2>1
        <4> QED
          BY <4>1
      <3>2. (p + 1 + d) * b = p * b + b + d * b /\ d * b >= 0 /\ p * b \in Int
        BY <1>2
      <3> QED
        BY <1>2, <1>3, <3>1, <3>2
    <2>2. ASSUME q < p PROVE FALSE
      <3>1. PICK d \in Nat : p = q + 1 + d
        <4>1. p - q - 1 \in Nat /\ p = q + 1 + (p - q - 1)
          BY <1>2, <2>2
        <4> QED
          BY <4>1
      <3>2. (q + 1 + d) * b = q * b + b + d * b /\ d * b >= 0 /\ q * b \in Int
        BY <1>2
      <3> QED
        BY <1>2, <1>3, <3>1, <3>2
    <2> QED
      BY <1>2, <2>1, <2>2
  <1>5. m = r
    <2>1. q * b \in Int
      OBVIOUS
    <2> QED
      BY <1>2, <1>3, <1>4, <2>1
  <1> QED
    BY <1>4, <1>5 DEF p, m, a

\* Division by a product is division by one factor after the other.
LEMMA DivDiv ==
  ASSUME NEW p \in Nat, NEW a \in Nat \ {0}, NEW b \in Nat \ {0}
  PROVE  p \div (a * b) = (p \div b) \div a
  <1> DEFINE x == p \div b
             r == p % b
             y == x \div a
             t == x % a
  <1>1. x \in Nat /\ r \in Nat /\ r < b /\ p = x * b + r
    BY DivMod
  <1> HIDE DEF x, r
  <1>2. y \in Nat /\ t \in Nat /\ t < a /\ x = y * a + t
    BY <1>1, DivMod
  <1> HIDE DEF y, t
  <1>3. t * b + r \in Nat /\ t * b + r < a * b
    <2>1. PICK d \in Nat : a = t + 1 + d
      <3>1. a - t - 1 \in Nat /\ a = t + 1 + (a - t - 1)
        BY <1>2
      <3> QED
        BY <3>1
    <2>2. (t + 1 + d) * b = t * b + b + d * b /\ d * b >= 0 /\ t * b \in Nat
      BY <1>2
    <2> QED
      BY <1>1, <2>1, <2>2
  <1>4. p = y * (a * b) + (t * b + r)
    <2>1. (y * a + t) * b = y * (a * b) + t * b /\ y * (a * b) \in Nat /\ t * b \in Nat
      BY <1>2
    <2> QED
      BY <1>1, <1>2, <2>1
  <1>5. a * b \in Nat \ {0}
    OBVIOUS
  <1> DEFINE c == a * b
             u == t * b + r
  <1>6. c \in Nat \ {0} /\ u \in Nat /\ u < c /\ p = y * c + u
    BY <1>3, <1>4, <1>5
  <1> HIDE DEF c, u
  <1>7. p \div c = y
    BY <1>2, <1>6, DivUnique
  <1> QED
    BY <1>7 DEF c, y, x

\* The entries behind position k
LEMMA SuffixIs ==
  ASSUME NEW S, NEW s \in Seq(S), NEW k \in 1 .. Len(s)
  PROVE  /\ SubSeq(s, k + 1, Len(s)) \in Seq(S)
         /\ SubSeq(s, k, Len(s)) = <<s[k]>> \o SubSeq(s, k + 1, Len(s))
  <1> DEFINE L == Len(s)
             t == SubSeq(s, k + 1, L)
             u == SubSeq(s, k, L)
  <1>1. L \in Nat /\ k \in 1 .. L /\ \A x \in 1 .. L : s[x] \in S
    BY LenProperties
  <1> HIDE DEF L
  <1>2. /\ u \in Seq(S) /\ Len(u) = L - k + 1
        /\ \A x \in 1 .. L - k + 1 : u[x] = s[k + x - 1]
    <2>1. k \in Int /\ L \in Int /\ k <= L /\ \A x \in k .. L : s[x] \in S
      BY <1>1
    <2> QED
      BY <2>1, SubSeqProperties
  <1>3. /\ t \in Seq(S) /\ Len(t) = L - k
        /\ \A x \in 1 .. L - k : t[x] = s[k + x]
    <2>1. k + 1 \in Int /\ L \in Int /\ \A x \in k + 1 .. L : s[x] \in S
      BY <1>1
    <2>2. /\ t \in Seq(S) /\ Len(t) = IF k + 1 <= L THEN L - (k + 1) + 1 ELSE 0
          /\ \A x \in 1 .. L - (k + 1) + 1 : t[x] = s[(k + 1) + x - 1]
      BY <2>1, SubSeqProperties
    <2>3. L - (k + 1) + 1 = L - k /\ (~(k + 1 <= L) => L - k = 0) /\ \A x \in 1 .. L - k : (k + 1) + x - 1 = k + x
      BY <1>1
    <2> HIDE DEF t
    <2> QED
      BY <2>2, <2>3
  <1> DEFINE v == <<s[k]>> \o t
  <1> HIDE DEF t, u
  <1>4. s[k] \in S /\ <<s[k]>> \in Seq(S) /\ Len(<<s[k]>>) = 1 /\ <<s[k]>>[1] = s[k]
    BY <1>1
  <1>5. /\ v \in Seq(S) /\ Len(v) = 1 + (L - k)
        /\ \A x \in 1 .. 1 : v[x] = <<s[k]>>[x]
        /\ \A x \in 1 .. L - k : v[1 + x] = t[x]
    <2>1. \A x, y \in Seq(S) :
            /\ x \o y \in Seq(S) /\ Len(x \o y) = Len(x) + Len(y)
            /\ \A z \in 1 .. Len(x) : (x \o y)[z] = x[z]
            /\ \A z \in 1 .. Len(y) : (x \o y)[Len(x) + z] = y[z]
      BY ConcatIs
    <2> QED
      BY <1>3, <1>4, <2>1
  <1>6. u = v
    <2>1. Len(u) = Len(v)
      BY <1>1, <1>2, <1>5
    <2>2. ASSUME NEW x \in 1 .. Len(u) PROVE u[x] = v[x]
      <3>1. CASE x = 1
        <4>1. k + x - 1 = k /\ x \in 1 .. 1 /\ x \in 1 .. L - k + 1
          BY <1>1, <3>1
        <4> QED
          BY <1>2, <1>4, <1>5, <3>1, <4>1
      <3>2. CASE x # 1
        <4>1. x - 1 \in 1 .. L - k /\ 1 + (x - 1) = x /\ k + (x - 1) = k + x - 1 /\ x \in 1 .. L - k + 1
          BY <1>1, <1>2, <2>2, <3>2
        <4>2. u[x] = s[k + x - 1] /\ v[x] = t[x - 1] /\ t[x - 1] = s[k + (x - 1)]
          BY <1>2, <1>3, <1>5, <4>1
        <4> QED
          BY <4>1, <4>2
      <3> QED
        BY <3>1, <3>2
    <2> HIDE DEF v
    <2> QED
      BY <1>2, <1>5, <2>1, <2>2, SeqEqual
  <1> QED
    BY <1>3, <1>6 DEF u, v, t, L

-----------------------------------------------------------------------------
(* Indices in row major order *)

\* i is an index of a tensor with these sizes.
IsIndex(i, s) == i \in Seq(Nat) /\ Len(i) = Len(s) /\ \A k \in 1 .. Len(s) : i[k] < s[k]

\* The number of entries of the dimensions behind k
Stride(s, k) == NumEl(SubSeq(s, k + 1, Len(s)))

\* Strides, from the last dimension to the first
LEMMA StrideIs ==
  ASSUME NEW s \in Sizes
  PROVE  /\ Stride(s, Len(s)) = 1 /\ Stride(s, 0) = NumEl(s)
         /\ \A k \in 0 .. Len(s) : Stride(s, k) \in Nat \ {0}
         /\ \A k \in 1 .. Len(s) : Stride(s, k - 1) = s[k] * Stride(s, k)
  <1>1. Len(s) \in Nat /\ s \in Seq(Nat) /\ \A k \in 1 .. Len(s) : s[k] \in Nat \ {0}
    BY SizesAre
  <1>2. Stride(s, Len(s)) = 1
    <2>1. SubSeq(s, Len(s) + 1, Len(s)) = <<>>
      BY <1>1, SubSeqEmpty
    <2> QED
      BY <2>1, NumElEmpty DEF Stride
  <1>3. Stride(s, 0) = NumEl(s)
    <2>1. SubSeq(s, 1, Len(s)) = s
      BY SubSeqFull DEF Sizes
    <2>2. 0 + 1 = 1
      OBVIOUS
    <2> QED
      BY <2>1, <2>2 DEF Stride
  <1>4. ASSUME NEW k \in 0 .. Len(s) PROVE Stride(s, k) \in Nat \ {0}
    <2>1. k + 1 \in Int /\ Len(s) \in Int /\ \A x \in k + 1 .. Len(s) : s[x] \in Nat \ {0}
      BY <1>1
    <2>2. SubSeq(s, k + 1, Len(s)) \in Sizes
      BY <2>1, SubSeqProperties DEF Sizes
    <2> QED
      BY <2>2, NumElPositive DEF Stride
  <1>5. ASSUME NEW k \in 1 .. Len(s) PROVE Stride(s, k - 1) = s[k] * Stride(s, k)
    <2>1. SubSeq(s, k + 1, Len(s)) \in Seq(Nat) /\ SubSeq(s, k, Len(s)) = <<s[k]>> \o SubSeq(s, k + 1, Len(s))
      BY <1>1, SuffixIs
    <2>2. s[k] \in Nat /\ (k - 1) + 1 = k
      BY <1>1
    <2>3. <<s[k]>> \in Seq(Nat) /\ NumEl(<<s[k]>>) = s[k]
      BY <2>2, NumElOne
    <2>4. NumEl(SubSeq(s, k, Len(s))) = s[k] * NumEl(SubSeq(s, k + 1, Len(s)))
      BY <2>1, <2>3, NumElConcat
    <2> QED
      BY <2>2, <2>4 DEF Stride
  <1> QED
    BY <1>2, <1>3, <1>4, <1>5

\* The position's index is an index, with these digits.
LEMMA IndexAtIs ==
  ASSUME NEW s \in Sizes, NEW p \in Nat
  PROVE  IsIndex(IndexAt(p, s), s) /\ \A k \in 1 .. Len(s) : IndexAt(p, s)[k] = (p \div Stride(s, k)) % s[k]
  <1> DEFINE i == IndexAt(p, s)
  <1>1. Len(s) \in Nat /\ DOMAIN s = 1 .. Len(s) /\ \A k \in 1 .. Len(s) : s[k] \in Nat \ {0}
    BY SizesAre
  <1>2. i = [k \in 1 .. Len(s) |-> (p \div Stride(s, k)) % s[k]]
    BY <1>1 DEF IndexAt, Stride
  <1>3. ASSUME NEW k \in 1 .. Len(s)
        PROVE  i[k] = (p \div Stride(s, k)) % s[k] /\ i[k] \in Nat /\ i[k] < s[k]
    <2>1. i[k] = (p \div Stride(s, k)) % s[k]
      BY <1>2
    <2>2. Stride(s, k) \in Nat \ {0}
      <3>1. k \in 0 .. Len(s)
        BY <1>1
      <3> QED
        BY <3>1, StrideIs
    <2>3. p \div Stride(s, k) \in Nat
      BY <2>2, DivMod
    <2> DEFINE q == p \div Stride(s, k)
    <2> HIDE DEF q
    <2>4. q % s[k] \in Nat /\ q % s[k] < s[k]
      BY <1>1, <2>3, DivMod DEF q
    <2> QED
      BY <2>1, <2>4 DEF q
  <1>4. i \in [1 .. Len(s) -> Nat]
    BY <1>2, <1>3
  <1> HIDE DEF i
  <1>5. i \in Seq(Nat) /\ Len(i) = Len(s)
    BY <1>1, <1>4, SeqDef, LenProperties
  <1> QED
    BY <1>3, <1>5 DEF i, IsIndex

\* From a position to its index and back
LEMMA PositionIndexAt ==
  ASSUME NEW s \in Sizes, NEW p \in Nat, p < NumEl(s)
  PROVE  Position(IndexAt(p, s), s) = p
  <1> DEFINE L == Len(s)
             i == IndexAt(p, s)
  <1>1. L \in Nat /\ s \in Seq(Nat) /\ \A k \in 1 .. L : s[k] \in Nat \ {0}
    BY SizesAre
  <1>2. i \in Seq(Nat) /\ Len(i) = L /\ \A k \in 1 .. L : i[k] = (p \div Stride(s, k)) % s[k]
    BY IndexAtIs DEF IsIndex
  <1>3. PICK P \in [0 .. L -> Nat] :
          P[0] = 0 /\ Position(i, s) = P[L] /\ \A k \in 1 .. L : P[k] = P[k - 1] * s[k] + i[k]
    <2> HIDE DEF i
    <2> QED
      BY <1>1, <1>2, PositionIs
  <1>4. /\ Stride(s, L) = 1 /\ Stride(s, 0) = NumEl(s)
        /\ \A k \in 0 .. L : Stride(s, k) \in Nat \ {0}
        /\ \A k \in 1 .. L : Stride(s, k - 1) = s[k] * Stride(s, k)
    BY StrideIs
  <1> HIDE DEF i, L
  <1> DEFINE A == {k \in 0 .. L : P[k] = p \div Stride(s, k)}
  <1>5. 0 \in A
    <2> DEFINE n == NumEl(s)
    <2>1. n \in Nat \ {0} /\ p < n
      BY NumElPositive
    <2> HIDE DEF n
    <2>2. 0 * n + p = p
      BY <2>1
    <2>3. p \div n = 0
      BY <2>1, <2>2, DivUnique
    <2> QED
      BY <1>1, <1>3, <1>4, <2>3 DEF n
  <1>6. ASSUME NEW k \in 0 .. L - 1, k \in A PROVE k + 1 \in A
    <2>1. k + 1 \in 1 .. L /\ k + 1 \in 0 .. L /\ (k + 1) - 1 = k
      BY <1>1
    <2> DEFINE b == Stride(s, k + 1)
               a == s[k + 1]
               q == p \div b
    <2>2. a \in Nat \ {0} /\ b \in Nat \ {0} /\ Stride(s, k) = a * b
      BY <1>1, <1>4, <2>1
    <2>3. P[k] = p \div (a * b) /\ P[k + 1] = P[k] * a + i[k + 1] /\ i[k + 1] = q % a
      <3>1. P[k] = p \div Stride(s, k)
        BY <1>6
      <3>2. P[k + 1] = P[k] * a + i[k + 1] /\ i[k + 1] = q % a
        BY <1>2, <1>3, <2>1
      <3> HIDE DEF a, b, q
      <3> QED
        BY <2>2, <3>1, <3>2
    <2> HIDE DEF a, b
    <2>4. q \in Nat
      BY <2>2, DivMod
    <2>5. p \div (a * b) = q \div a
      BY <2>2, DivDiv
    <2> HIDE DEF q
    <2>6. q = (q \div a) * a + (q % a)
      BY <2>2, <2>4, DivMod
    <2>7. P[k + 1] = q
      BY <2>3, <2>5, <2>6
    <2> QED
      BY <2>1, <2>7 DEF q, b
  <1> HIDE DEF A
  <1>7. L \in A
    <2>1. \A k \in 0 .. L : k \in A
      BY <1>1, <1>5, <1>6, UpTo
    <2> QED
      BY <1>1, <2>1
  <1>8. P[L] = p \div 1
    BY <1>4, <1>7 DEF A
  <1>9. p \div 1 = p
    OBVIOUS
  <1> QED
    BY <1>3, <1>8, <1>9 DEF i

\* From an index to its position and back
LEMMA IndexAtPosition ==
  ASSUME NEW s \in Sizes, NEW i, IsIndex(i, s)
  PROVE  /\ Position(i, s) \in Nat /\ Position(i, s) < NumEl(s)
         /\ IndexAt(Position(i, s), s) = i
  <1> DEFINE L == Len(s)
             p == Position(i, s)
  <1>1. L \in Nat /\ s \in Seq(Nat) /\ \A k \in 1 .. L : s[k] \in Nat \ {0}
    BY SizesAre
  <1>2. i \in Seq(Nat) /\ Len(i) = L /\ \A k \in 1 .. L : i[k] \in Nat /\ i[k] < s[k]
    BY LenProperties DEF IsIndex
  <1>3. PICK P \in [0 .. L -> Nat] :
          P[0] = 0 /\ p = P[L] /\ \A k \in 1 .. L : P[k] = P[k - 1] * s[k] + i[k]
    BY <1>1, <1>2, PositionIs
  <1>4. /\ Stride(s, L) = 1 /\ Stride(s, 0) = NumEl(s)
        /\ \A k \in 0 .. L : Stride(s, k) \in Nat \ {0}
        /\ \A k \in 1 .. L : Stride(s, k - 1) = s[k] * Stride(s, k)
    BY StrideIs
  <1>5. p \in Nat
    BY <1>1, <1>3
  <1> HIDE DEF p, L
  <1> DEFINE A == {m \in 0 .. L : \E r \in Nat : r < Stride(s, L - m) /\ p = P[L - m] * Stride(s, L - m) + r}
  <1>6. 0 \in A
    <2>1. L - 0 = L /\ P[L] * 1 + 0 = P[L] /\ 0 \in Nat /\ 0 < 1 /\ 0 \in 0 .. L
      BY <1>1, <1>3
    <2> QED
      BY <1>3, <1>4, <2>1
  <1>7. ASSUME NEW m \in 0 .. L - 1, m \in A PROVE m + 1 \in A
    <2> DEFINE k == L - m
    <2>1. k \in 1 .. L /\ L - (m + 1) = k - 1 /\ m + 1 \in 0 .. L /\ k \in 0 .. L /\ k - 1 \in 0 .. L
      BY <1>1
    <2>2. PICK r \in Nat : r < Stride(s, k) /\ p = P[k] * Stride(s, k) + r
      BY <1>7
    <2> HIDE DEF k
    <2> DEFINE a == s[k]
               b == Stride(s, k)
               c == P[k - 1]
               d == i[k]
    <2>3. /\ a \in Nat \ {0} /\ b \in Nat \ {0} /\ c \in Nat /\ d \in Nat /\ d < a
          /\ Stride(s, k - 1) = a * b /\ P[k] = c * a + d
      BY <1>1, <1>2, <1>3, <1>4, <2>1
    <2>4. r < b /\ p = P[k] * b + r
      BY <2>2
    <2> HIDE DEF a, b, c, d
    <2>5. (c * a + d) * b = c * (a * b) + d * b /\ c * (a * b) \in Nat /\ d * b \in Nat
      BY <2>3
    <2>6. d * b + r < a * b
      <3>1. PICK e \in Nat : a = d + 1 + e
        <4>1. a - d - 1 \in Nat /\ a = d + 1 + (a - d - 1)
          BY <2>3
        <4> QED
          BY <4>1
      <3>2. (d + 1 + e) * b = d * b + b + e * b /\ e * b >= 0
        BY <2>3
      <3> QED
        BY <2>3, <2>4, <2>5, <3>1, <3>2
    <2>7. p = c * (a * b) + (d * b + r)
      BY <2>3, <2>4, <2>5
    <2>8. d * b + r \in Nat
      BY <2>5
    <2> QED
      BY <2>1, <2>3, <2>6, <2>7, <2>8 DEF c
  <1> HIDE DEF A
  <1>8. \A m \in 0 .. L : m \in A
    BY <1>1, <1>6, <1>7, UpTo
  <1>9. ASSUME NEW k \in 0 .. L
        PROVE  \E r \in Nat : r < Stride(s, k) /\ p = P[k] * Stride(s, k) + r
    <2>1. L - k \in 0 .. L /\ L - (L - k) = k
      BY <1>1
    <2>2. L - k \in A
      BY <1>8, <2>1
    <2> QED
      BY <2>1, <2>2 DEF A
  <1>10. p < NumEl(s)
    <2>1. PICK r \in Nat : r < Stride(s, 0) /\ p = P[0] * Stride(s, 0) + r
      BY <1>1, <1>9
    <2>2. 0 * NumEl(s) + r = r
      BY <1>1, NumElNat
    <2> QED
      BY <1>3, <1>4, <2>1, <2>2
  <1>11. ASSUME NEW k \in 1 .. L PROVE IndexAt(p, s)[k] = i[k]
    <2> DEFINE b == Stride(s, k)
               a == s[k]
               q == P[k]
    <2>1. PICK r \in Nat : r < b /\ p = q * b + r
      BY <1>1, <1>9
    <2>2. q \in Nat /\ a \in Nat \ {0} /\ b \in Nat \ {0} /\ q = P[k - 1] * a + i[k] /\ P[k - 1] \in Nat /\ i[k] \in Nat /\ i[k] < a
      BY <1>1, <1>2, <1>3, <1>4
    <2> HIDE DEF a, b, q
    <2>3. p \div b = q
      BY <2>1, <2>2, DivUnique
    <2>4. q % a = i[k]
      BY <2>2, DivUnique
    <2>5. IndexAt(p, s)[k] = (p \div b) % a
      BY <1>5, IndexAtIs DEF a, b, L
    <2> QED
      BY <2>3, <2>4, <2>5
  <1>12. IndexAt(p, s) = i
    <2> DEFINE j == IndexAt(p, s)
    <2>1. j \in Seq(Nat) /\ Len(j) = L
      BY <1>5, IndexAtIs DEF IsIndex, L
    <2>2. \A k \in 1 .. L : j[k] = i[k]
      BY <1>11
    <2> HIDE DEF j
    <2>3. j = i
      BY <1>2, <2>1, <2>2, SeqEqual
    <2> QED
      BY <2>3 DEF j
  <1> QED
    BY <1>5, <1>10, <1>12 DEF p

-----------------------------------------------------------------------------
(* Sequences put together, and sets in the order of keys *)

\* Where the pieces start in the sequence they make up, which has nothing else
Starts(start, ss) ==
  /\ start[0] = 0
  /\ \A k \in 1 .. Len(ss) : start[k] = start[k - 1] + Len(ss[k])
  /\ Len(Flatten(ss)) = start[Len(ss)]
  /\ \A k \in 1 .. Len(ss) : \A p \in 1 .. Len(ss[k]) :
       /\ start[k - 1] + p \in 1 .. Len(Flatten(ss))
       /\ Flatten(ss)[start[k - 1] + p] = ss[k][p]
  /\ \A q \in 1 .. Len(Flatten(ss)) :
       \E k \in 1 .. Len(ss) : \E p \in 1 .. Len(ss[k]) : q = start[k - 1] + p

\* Where the pieces are in the sequence put together from them
LEMMA FlattenIs ==
  ASSUME NEW S, NEW ss \in Seq(Seq(S))
  PROVE  /\ Flatten(ss) \in Seq(S)
         /\ \E start \in [0 .. Len(ss) -> Nat] : Starts(start, ss)
<1> DEFINE L == Len(ss)
           Def(f) == f = [i \in 1 .. L |-> IF i = 1 THEN ss[i] ELSE f[i - 1] \o ss[i]]
           F == CHOOSE f : Def(f)
           Good(g, k) ==
             /\ g \in [0 .. k -> Seq(S)] /\ g[0] = <<>>
             /\ \A i \in 1 .. k : g[i] = g[i - 1] \o ss[i]
           T == {k \in 0 .. L : \E g : Good(g, k)}
<1>1. L \in Nat /\ \A k \in 1 .. L : ss[k] \in Seq(S)
  BY LenProperties
<1>2. Flatten(ss) = IF L = 0 THEN ss ELSE F[L]
  BY DEF Flatten, FlattenSeq
<1> HIDE DEF L
<1>3. L \in T
  <2>1. 0 \in T
    <3> DEFINE g == [k \in 0 .. 0 |-> <<>>]
    <3>1. Good(g, 0) /\ 0 \in 0 .. L
      BY <1>1, EmptySeq
    <3> QED
      BY <3>1
  <2>2. ASSUME NEW k \in 0 .. L - 1, k \in T PROVE k + 1 \in T
    <3>1. PICK g : Good(g, k)
      BY <2>2
    <3> DEFINE h == [i \in 0 .. k + 1 |-> IF i = k + 1 THEN g[k] \o ss[k + 1] ELSE g[i]]
    <3>2. k \in Nat /\ k + 1 \in 1 .. L /\ k + 1 \in 0 .. L /\ k \in 0 .. k
      BY <1>1
    <3>3. g[k] \o ss[k + 1] \in Seq(S)
      <4>1. g[k] \in Seq(S) /\ ss[k + 1] \in Seq(S)
        BY <1>1, <3>1, <3>2
      <4> QED
        BY <4>1, ConcatProperties
    <3>4. \A i \in 0 .. k + 1 : i # k + 1 => i \in 0 .. k
      BY <3>2
    <3>5. h \in [0 .. k + 1 -> Seq(S)]
      <4>1. ASSUME NEW i \in 0 .. k + 1 PROVE h[i] \in Seq(S)
        BY <3>1, <3>3, <3>4
      <4> QED
        BY <4>1
    <3>6. h[0] = <<>>
      BY <3>1, <3>2
    <3>7. ASSUME NEW i \in 1 .. k + 1 PROVE h[i] = h[i - 1] \o ss[i]
      <4>1. i \in 0 .. k + 1 /\ i - 1 \in 0 .. k + 1 /\ i - 1 # k + 1
        BY <3>2
      <4>2. h[i - 1] = g[i - 1]
        BY <4>1
      <4>3. CASE i = k + 1
        <5>1. (k + 1) - 1 = k
          BY <3>2
        <5> QED
          BY <4>1, <4>2, <4>3, <5>1
      <4>4. CASE i # k + 1
        <5>1. i \in 1 .. k
          BY <3>2, <4>4
        <5> QED
          BY <3>1, <4>1, <4>2, <4>4, <5>1
      <4> QED
        BY <4>3, <4>4
    <3> HIDE DEF h
    <3>8. Good(h, k + 1)
      BY <3>5, <3>6, <3>7
    <3> QED
      BY <3>2, <3>8
  <2> HIDE DEF T
  <2>3. \A k \in 0 .. L : k \in T
    BY <1>1, <2>1, <2>2, UpTo
  <2> QED
    BY <1>1, <2>3
<1>4. PICK g : Good(g, L)
  BY <1>3
<1>5. L # 0 => F[L] = g[L]
  <2> SUFFICES ASSUME L # 0 PROVE F[L] = g[L]
    OBVIOUS
  <2> DEFINE f == [i \in 1 .. L |-> g[i]]
  <2>1. Def(f)
    <3>1. ASSUME NEW i \in 1 .. L PROVE g[i] = IF i = 1 THEN ss[i] ELSE f[i - 1] \o ss[i]
      <4>1. CASE i = 1
        <5>0. 1 \in 1 .. L /\ 1 - 1 = 0
          BY <4>1
        <5>1. g[1] = <<>> \o ss[1] /\ ss[1] \in Seq(S)
          BY <1>1, <1>4, <5>0
        <5> QED
          BY <4>1, <5>1, ConcatEmptySeq
      <4>2. CASE i # 1
        <5>1. i - 1 \in 1 .. L
          BY <1>1, <4>2
        <5> QED
          BY <1>4, <4>2, <5>1
      <4> QED
        BY <4>1, <4>2
    <3> QED
      BY <3>1
  <2>2. Def(F)
    <3> HIDE DEF Def, f
    <3> QED
      BY <2>1
  <2> HIDE DEF F
  <2> DEFINE A == {k \in 0 .. L : k = 0 \/ F[k] = g[k]}
  <2>3. 0 \in A
    BY <1>1
  <2>4. ASSUME NEW k \in 0 .. L - 1, k \in A PROVE k + 1 \in A
    <3>1. k + 1 \in 1 .. L /\ k + 1 \in 0 .. L /\ (k + 1) - 1 = k
      BY <1>1
    <3>2. F[k + 1] = IF k + 1 = 1 THEN ss[k + 1] ELSE F[k] \o ss[k + 1]
      BY <2>2, <3>1
    <3>3. g[k + 1] = g[k] \o ss[k + 1] /\ ss[k + 1] \in Seq(S)
      BY <1>1, <1>4, <3>1
    <3>4. CASE k = 0
      <4>1. k + 1 = 1 /\ g[k] = <<>>
        BY <1>4, <3>4
      <4>2. g[k + 1] = ss[k + 1]
        BY <3>3, <4>1, ConcatEmptySeq
      <4> QED
        BY <3>1, <3>2, <4>1, <4>2
    <3>5. CASE k # 0
      <4>1. k + 1 # 1
        BY <3>5
      <4> QED
        BY <2>4, <3>1, <3>2, <3>3, <3>5, <4>1
    <3> QED
      BY <3>4, <3>5
  <2> HIDE DEF A
  <2>5. \A k \in 0 .. L : k \in A
    BY <1>1, <2>3, <2>4, UpTo
  <2>6. L \in A
    BY <1>1, <2>5
  <2> QED
    BY <2>6 DEF A
<1>6. Flatten(ss) = g[L]
  <2>1. CASE L = 0
    <3>1. ss = <<>>
      BY <2>1, EmptySeq DEF L
    <3> QED
      BY <1>2, <1>4, <2>1, <3>1
  <2>2. CASE L # 0
    BY <1>2, <1>5, <2>2
  <2> QED
    BY <2>1, <2>2
<1> HIDE DEF F, Def, T
<1> DEFINE start == [k \in 0 .. L |-> Len(g[k])]
<1>7. \A k \in 0 .. L : g[k] \in Seq(S) /\ Len(g[k]) \in Nat
  BY <1>4, LenProperties
<1>8. ASSUME NEW k \in 1 .. L
      PROVE  /\ Len(g[k]) = Len(g[k - 1]) + Len(ss[k]) /\ Len(ss[k]) \in Nat
             /\ \A p \in 1 .. Len(g[k - 1]) : g[k][p] = g[k - 1][p]
             /\ \A p \in 1 .. Len(ss[k]) : g[k][Len(g[k - 1]) + p] = ss[k][p]
  <2>1. g[k] = g[k - 1] \o ss[k]
    BY <1>4
  <2>2. g[k - 1] \in Seq(S) /\ ss[k] \in Seq(S)
    <3>1. k - 1 \in 0 .. L
      BY <1>1
    <3> QED
      BY <1>1, <1>7, <3>1
  <2> DEFINE x == g[k - 1]
             y == ss[k]
  <2> HIDE DEF x, y
  <2>3. x \in Seq(S) /\ y \in Seq(S)
    BY <2>2 DEF x, y
  <2>4. /\ Len(x) \in Nat /\ Len(y) \in Nat /\ Len(x \o y) = Len(x) + Len(y)
        /\ \A p \in 1 .. Len(x) : (x \o y)[p] = x[p]
        /\ \A p \in 1 .. Len(y) : (x \o y)[Len(x) + p] = y[p]
    BY <2>3, ConcatIs
  <2> QED
    BY <2>1, <2>4 DEF x, y
<1> HIDE DEF Good
<1>9. start \in [0 .. L -> Nat] /\ start[0] = 0 /\ \A k \in 1 .. L : start[k] = start[k - 1] + Len(ss[k])
  <2>1. g[0] = <<>>
    BY <1>4 DEF Good
  <2>2. Len(<<>>) = 0
    OBVIOUS
  <2>3. \A k \in 1 .. L : k \in 0 .. L /\ k - 1 \in 0 .. L
    BY <1>1
  <2>4. 0 \in 0 .. L
    BY <1>1
  <2> QED
    BY <1>7, <1>8, <2>1, <2>2, <2>3, <2>4
<1> DEFINE B == {k \in 0 .. L :
             /\ \A i \in 1 .. k : \A p \in 1 .. Len(ss[i]) :
                  /\ start[i - 1] + p \in 1 .. Len(g[k])
                  /\ g[k][start[i - 1] + p] = ss[i][p]
             /\ \A q \in 1 .. Len(g[k]) : \E i \in 1 .. k : \E p \in 1 .. Len(ss[i]) : q = start[i - 1] + p}
<1>10. 0 \in B
  <2>1. Len(g[0]) = 0
    BY <1>1, <1>9
  <2> QED
    BY <1>1, <2>1
<1>11. ASSUME NEW k \in 0 .. L - 1, k \in B PROVE k + 1 \in B
  <2>1. k + 1 \in 1 .. L /\ k + 1 \in 0 .. L /\ (k + 1) - 1 = k /\ k \in 0 .. L
    BY <1>1
  <2>2. start[k] = Len(g[k])
    BY <2>1
  <2> HIDE DEF start
  <2>3. /\ Len(g[k + 1]) = Len(g[k]) + Len(ss[k + 1]) /\ Len(ss[k + 1]) \in Nat /\ Len(g[k]) \in Nat
        /\ \A p \in 1 .. Len(g[k]) : g[k + 1][p] = g[k][p]
        /\ \A p \in 1 .. Len(ss[k + 1]) : g[k + 1][Len(g[k]) + p] = ss[k + 1][p]
    <3>1. Len(g[k]) \in Nat
      BY <1>7, <2>1
    <3>2. /\ Len(g[k + 1]) = Len(g[(k + 1) - 1]) + Len(ss[k + 1]) /\ Len(ss[k + 1]) \in Nat
          /\ \A p \in 1 .. Len(g[(k + 1) - 1]) : g[k + 1][p] = g[(k + 1) - 1][p]
          /\ \A p \in 1 .. Len(ss[k + 1]) : g[k + 1][Len(g[(k + 1) - 1]) + p] = ss[k + 1][p]
      BY <1>8, <2>1
    <3> QED
      BY <2>1, <3>1, <3>2
  <2> DEFINE a == Len(g[k])
             b == Len(ss[k + 1])
             c == Len(g[k + 1])
  <2>9. a \in Nat /\ b \in Nat /\ c = a + b
    BY <2>3
  <2> HIDE DEF a, b, c
  <2>4. ASSUME NEW i \in 1 .. k + 1, NEW p \in 1 .. Len(ss[i])
        PROVE  start[i - 1] + p \in 1 .. Len(g[k + 1]) /\ g[k + 1][start[i - 1] + p] = ss[i][p]
    <3>1. CASE i = k + 1
      <4>1. start[i - 1] = a /\ p \in 1 .. b
        BY <2>1, <2>2, <3>1 DEF a, b
      <4>2. a + p \in 1 .. c
        BY <2>9, <4>1
      <4>3. g[k + 1][a + p] = ss[k + 1][p]
        BY <2>3, <4>1 DEF a, b
      <4> QED
        BY <3>1, <4>1, <4>2, <4>3 DEF c
    <3>2. CASE i # k + 1
      <4>1. i \in 1 .. k
        BY <2>1, <3>2
      <4>2. start[i - 1] + p \in 1 .. Len(g[k]) /\ g[k][start[i - 1] + p] = ss[i][p]
        BY <1>11, <4>1
      <4> DEFINE x == start[i - 1] + p
      <4>3. x \in 1 .. a /\ g[k][x] = ss[i][p]
        BY <4>2 DEF a
      <4> HIDE DEF x
      <4>4. x \in 1 .. c
        BY <2>9, <4>3
      <4>5. g[k + 1][x] = g[k][x]
        BY <2>3, <4>3 DEF a
      <4> QED
        BY <4>3, <4>4, <4>5 DEF x, c
    <3> QED
      BY <3>1, <3>2
  <2>5. ASSUME NEW q \in 1 .. Len(g[k + 1])
        PROVE  \E i \in 1 .. k + 1 : \E p \in 1 .. Len(ss[i]) : q = start[i - 1] + p
    <3>1. CASE q <= Len(g[k])
      <4>1. q \in 1 .. Len(g[k])
        BY <2>3, <3>1
      <4>2. PICK i \in 1 .. k : \E p \in 1 .. Len(ss[i]) : q = start[i - 1] + p
        BY <1>11, <4>1
      <4>3. i \in 1 .. k + 1
        BY <2>1
      <4> QED
        BY <4>2, <4>3
    <3>2. CASE ~(q <= Len(g[k]))
      <4> DEFINE p == q - a
      <4>0. p \in 1 .. b /\ q = a + p
        <5>1. q \in 1 .. c /\ ~(q <= a)
          BY <3>2 DEF a, c
        <5> QED
          BY <2>9, <5>1
      <4>1. p \in 1 .. Len(ss[k + 1]) /\ q = start[(k + 1) - 1] + p
        <5>1. start[(k + 1) - 1] = a
          BY <2>1, <2>2 DEF a
        <5> HIDE DEF p
        <5> QED
          BY <4>0, <5>1 DEF b
      <4>2. k + 1 \in 1 .. k + 1
        BY <2>1
      <4> HIDE DEF p
      <4> QED
        BY <4>1, <4>2
    <3> QED
      BY <3>1, <3>2
  <2> QED
    BY <2>1, <2>4, <2>5
<1>12. L \in B
  <2> HIDE DEF B
  <2>1. \A k \in 0 .. L : k \in B
    BY <1>1, <1>10, <1>11, UpTo
  <2> QED
    BY <1>1, <2>1
<1>13. start[L] = Len(g[L]) /\ L \in 0 .. L /\ g[L] \in Seq(S)
  BY <1>1, <1>7
<1> HIDE DEF start
<1>14. /\ \A k \in 1 .. L : \A p \in 1 .. Len(ss[k]) :
             start[k - 1] + p \in 1 .. Len(g[L]) /\ g[L][start[k - 1] + p] = ss[k][p]
       /\ \A q \in 1 .. Len(g[L]) : \E k \in 1 .. L : \E p \in 1 .. Len(ss[k]) : q = start[k - 1] + p
  BY <1>12
<1>15. start[L] = Len(Flatten(ss)) /\ Flatten(ss) \in Seq(S)
  BY <1>6, <1>13
<1>16. /\ \A k \in 1 .. L : \A p \in 1 .. Len(ss[k]) :
             start[k - 1] + p \in 1 .. Len(Flatten(ss)) /\ Flatten(ss)[start[k - 1] + p] = ss[k][p]
       /\ \A q \in 1 .. Len(Flatten(ss)) : \E k \in 1 .. L : \E p \in 1 .. Len(ss[k]) : q = start[k - 1] + p
  BY <1>6, <1>14
<1>17. /\ start \in [0 .. L -> Nat] /\ start[0] = 0
       /\ \A k \in 1 .. L : start[k] = start[k - 1] + Len(ss[k])
       /\ Flatten(ss) \in Seq(S) /\ Len(Flatten(ss)) = start[L]
  BY <1>9, <1>15
<1> HIDE DEF B
<1>18. Starts(start, ss)
  BY <1>16, <1>17 DEF Starts, L
<1>19. start \in [0 .. Len(ss) -> Nat]
  BY <1>17 DEF L
<1> QED
  BY <1>17, <1>18, <1>19

\* A sequence with each element of a set once
Enumerates(s, S) ==
  /\ s \in Seq(S)
  /\ \A i, j \in 1 .. Len(s) : s[i] = s[j] => i = j
  /\ \A v \in S : \E i \in 1 .. Len(s) : s[i] = v

\* A finite set with something in it has an element of greatest key.
LEMMA GreatestKey ==
  ASSUME NEW S, IsFiniteSet(S), S # {}, NEW f \in [S -> Int]
  PROVE  \E m \in S : \A x \in S : f[x] <= f[m]
<1> DEFINE N == Cardinality(S)
           T == {n \in 0 .. N : \A R \in SUBSET S : Cardinality(R) = n /\ R # {} =>
                   \E m \in R : \A x \in R : f[x] <= f[m]}
<1>1. N \in Nat
  BY FS_CardinalityType
<1> HIDE DEF N
<1>2. 0 \in T
  <2>1. ASSUME NEW R \in SUBSET S, Cardinality(R) = 0, R # {} PROVE FALSE
    <3>1. IsFiniteSet(R)
      BY FS_Subset
    <3> QED
      BY <2>1, <3>1, FS_EmptySet
  <2> QED
    BY <1>1, <2>1
<1>3. ASSUME NEW n \in 0 .. N - 1, n \in T PROVE n + 1 \in T
  <2>1. ASSUME NEW R \in SUBSET S, Cardinality(R) = n + 1, R # {}
        PROVE  \E m \in R : \A x \in R : f[x] <= f[m]
    <3>1. PICK y \in R : TRUE
      BY <2>1
    <3> DEFINE Q == R \ {y}
    <3>2. Q \in SUBSET S /\ Cardinality(Q) = n
      <4>1. IsFiniteSet(R)
        BY FS_Subset
      <4>2. Cardinality(Q) = Cardinality(R) - 1
        BY <4>1, FS_RemoveElement
      <4> QED
        BY <1>1, <2>1, <4>2
    <3>3. f[y] \in Int
      OBVIOUS
    <3>4. CASE Q = {}
      <4>1. \A x \in R : x = y
        BY <3>4
      <4> QED
        BY <3>3, <4>1
    <3>5. CASE Q # {}
      <4>1. PICK m \in Q : \A x \in Q : f[x] <= f[m]
        BY <1>3, <3>2, <3>5
      <4>2. m \in R /\ f[m] \in Int /\ \A x \in R : x # y => x \in Q
        BY <4>1
      <4>3. \A x \in R : f[x] \in Int
        OBVIOUS
      <4>4. CASE f[y] <= f[m]
        <5>1. \A x \in R : f[x] <= f[m]
          BY <4>1, <4>2, <4>4
        <5> QED
          BY <4>2, <5>1
      <4>5. CASE ~(f[y] <= f[m])
        <5>1. ASSUME NEW x \in R PROVE f[x] <= f[y]
          <6>1. CASE x = y
            BY <3>3, <6>1
          <6>2. CASE x # y
            <7>1. f[x] <= f[m] /\ f[x] \in Int
              BY <4>1, <4>2, <4>3, <6>2
            <7> QED
              BY <3>3, <4>2, <4>5, <7>1
          <6> QED
            BY <6>1, <6>2
        <5> QED
          BY <5>1
      <4> QED
        BY <4>4, <4>5
    <3> QED
      BY <3>4, <3>5
  <2> QED
    BY <1>1, <2>1
<1> HIDE DEF T
<1>4. N \in T
  <2>1. \A n \in 0 .. N : n \in T
    BY <1>1, <1>2, <1>3, UpTo
  <2> QED
    BY <1>1, <2>1
<1> QED
  BY <1>4 DEF T, N

\* A finite set can be put in the order of distinct keys
LEMMA OrderExists ==
  ASSUME NEW S, IsFiniteSet(S), NEW f \in [S -> Int], \A x, y \in S : f[x] = f[y] => x = y
  PROVE  \E s \in [1 .. Cardinality(S) -> S] : \A i, j \in 1 .. Cardinality(S) : i < j => f[s[i]] < f[s[j]]
<1> DEFINE N == Cardinality(S)
           Ordered(s, n) == \A i, j \in 1 .. n : i < j => f[s[i]] < f[s[j]]
           T == {n \in 0 .. N : \A R \in SUBSET S : Cardinality(R) = n => \E s \in [1 .. n -> R] : Ordered(s, n)}
<1>1. N \in Nat
  BY FS_CardinalityType
<1> HIDE DEF N
<1>2. 0 \in T
  <2>1. ASSUME NEW R \in SUBSET S PROVE \E s \in [1 .. 0 -> R] : Ordered(s, 0)
    <3> DEFINE s == [i \in 1 .. 0 |-> 0]
    <3>1. s \in [1 .. 0 -> R] /\ Ordered(s, 0)
      OBVIOUS
    <3> QED
      BY <3>1
  <2> QED
    BY <1>1, <2>1
<1>3. ASSUME NEW n \in 0 .. N - 1, n \in T PROVE n + 1 \in T
  <2>0. n \in Nat /\ n + 1 \in 0 .. N /\ n + 1 # 0
    BY <1>1
  <2>1. ASSUME NEW R \in SUBSET S, Cardinality(R) = n + 1
        PROVE  \E s \in [1 .. n + 1 -> R] : Ordered(s, n + 1)
    <3>1. IsFiniteSet(R)
      BY FS_Subset
    <3>2. R # {}
      BY <2>0, <2>1, FS_EmptySet
    <3>3. PICK m \in R : \A x \in R : f[x] <= f[m]
      <4> DEFINE g == [x \in R |-> f[x]]
      <4>1. g \in [R -> Int] /\ \A x \in R : g[x] = f[x]
        OBVIOUS
      <4> HIDE DEF g
      <4>2. \E m \in R : \A x \in R : g[x] <= g[m]
        BY <3>1, <3>2, <4>1, GreatestKey
      <4> QED
        BY <4>1, <4>2
    <3> DEFINE Q == R \ {m}
    <3>4. Q \in SUBSET S /\ Cardinality(Q) = n
      <4>1. Cardinality(Q) = Cardinality(R) - 1
        BY <3>1, FS_RemoveElement
      <4> QED
        BY <2>0, <2>1, <4>1
    <3>5. PICK s \in [1 .. n -> Q] : Ordered(s, n)
      BY <1>3, <3>4
    <3> DEFINE t == [i \in 1 .. n + 1 |-> IF i = n + 1 THEN m ELSE s[i]]
    <3>6. \A i \in 1 .. n + 1 : i # n + 1 => i \in 1 .. n /\ s[i] \in Q /\ s[i] \in R /\ s[i] # m
      BY <2>0, <3>5
    <3>7. t \in [1 .. n + 1 -> R]
      BY <3>6
    <3>8. ASSUME NEW i \in 1 .. n + 1, NEW j \in 1 .. n + 1, i < j PROVE f[t[i]] < f[t[j]]
      <4>1. i # n + 1 /\ t[i] = s[i] /\ i \in 1 .. n
        BY <2>0, <3>8
      <4>2. CASE j = n + 1
        <5>1. t[j] = m /\ s[i] \in R /\ s[i] # m
          BY <3>6, <4>1, <4>2
        <5>2. f[s[i]] \in Int /\ f[m] \in Int /\ f[s[i]] <= f[m] /\ f[s[i]] # f[m]
          BY <3>3, <5>1
        <5> QED
          BY <4>1, <5>1, <5>2
      <4>3. CASE j # n + 1
        <5>1. j \in 1 .. n /\ t[j] = s[j]
          BY <3>6, <4>3
        <5> QED
          BY <3>5, <3>8, <4>1, <5>1
      <4> QED
        BY <4>2, <4>3
    <3> HIDE DEF t
    <3> QED
      BY <3>7, <3>8
  <2> QED
    BY <2>0, <2>1
<1> HIDE DEF T
<1>4. N \in T
  <2>1. \A n \in 0 .. N : n \in T
    BY <1>1, <1>2, <1>3, UpTo
  <2> QED
    BY <1>1, <2>1
<1> QED
  BY <1>4 DEF T, N

\* A set in the order of keys has each of its elements once.
LEMMA OrderEnumerates ==
  ASSUME NEW S, IsFiniteSet(S), NEW f \in [S -> Int], NEW s \in [1 .. Cardinality(S) -> S],
         \A i, j \in 1 .. Cardinality(S) : i < j => f[s[i]] < f[s[j]]
  PROVE  Enumerates(s, S)
<1> DEFINE N == Cardinality(S)
<1>1. N \in Nat
  BY FS_CardinalityType
<1>2. s \in Seq(S) /\ Len(s) = N
  <2> HIDE DEF N
  <2>1. s \in [1 .. N -> S]
    BY DEF N
  <2> QED
    BY <1>1, <2>1, SeqDef, LenProperties
<1>3. ASSUME NEW i \in 1 .. N, NEW j \in 1 .. N, s[i] = s[j] PROVE i = j
  <2>1. f[s[i]] \in Int /\ ~(f[s[i]] < f[s[i]])
    OBVIOUS
  <2>2. ~(i < j) /\ ~(j < i)
    BY <1>3, <2>1
  <2> QED
    BY <1>1, <2>2
<1>4. s \in Injection(1 .. N, S)
  BY <1>3 DEF Injection, IsInjective
<1>5. Cardinality(1 .. N) = N
  BY <1>1, FS_Interval
<1>6. s \in Surjection(1 .. N, S)
  BY <1>4, <1>5, FS_Injection
<1>7. \A v \in S : \E i \in 1 .. N : s[i] = v
  BY <1>6 DEF Surjection
<1> QED
  BY <1>2, <1>3, <1>7 DEF Enumerates

\* One set behind the other
LEMMA ConcatEnumerates ==
  ASSUME NEW S, NEW A \in SUBSET S, NEW B \in SUBSET S, A \cap B = {}, A \cup B = S,
         NEW s, Enumerates(s, A), NEW t, Enumerates(t, B)
  PROVE  Enumerates(s \o t, S)
<1> DEFINE m == Len(s)
           n == Len(t)
           u == s \o t
<1>1. /\ s \in Seq(S) /\ t \in Seq(S) /\ m \in Nat /\ n \in Nat
      /\ \A i \in 1 .. m : s[i] \in A
      /\ \A i \in 1 .. n : t[i] \in B
  BY SeqMonotonic, LenProperties DEF Enumerates
<1>2. /\ u \in Seq(S) /\ Len(u) = m + n
      /\ \A k \in 1 .. m : u[k] = s[k]
      /\ \A k \in 1 .. n : u[m + k] = t[k]
  BY <1>1, ConcatIs
<1>3. /\ \A i, j \in 1 .. m : s[i] = s[j] => i = j
      /\ \A i, j \in 1 .. n : t[i] = t[j] => i = j
      /\ \A v \in A : \E i \in 1 .. m : s[i] = v
      /\ \A v \in B : \E i \in 1 .. n : t[i] = v
  BY DEF Enumerates
<1> HIDE DEF m, n, u
<1>4. ASSUME NEW i \in 1 .. m + n
      PROVE  \/ i \in 1 .. m /\ u[i] = s[i] /\ u[i] \in A
             \/ i \notin 1 .. m /\ i - m \in 1 .. n /\ u[i] = t[i - m] /\ u[i] \in B
  <2>1. CASE i <= m
    <3>1. i \in 1 .. m
      BY <1>1, <2>1
    <3> QED
      BY <1>1, <1>2, <3>1
  <2>2. CASE ~(i <= m)
    <3>1. i - m \in 1 .. n /\ m + (i - m) = i /\ i \notin 1 .. m
      BY <1>1, <2>2
    <3>2. u[m + (i - m)] = t[i - m] /\ t[i - m] \in B
      BY <1>1, <1>2, <3>1
    <3> QED
      BY <3>1, <3>2
  <2> QED
    BY <2>1, <2>2
<1>5. ASSUME NEW i \in 1 .. m + n, NEW j \in 1 .. m + n, u[i] = u[j] PROVE i = j
  <2>1. CASE i \in 1 .. m
    <3>1. j \in 1 .. m
      BY <1>4, <1>5, <2>1
    <3> QED
      BY <1>2, <1>3, <1>5, <2>1, <3>1
  <2>2. CASE i \notin 1 .. m
    <3>1. i - m \in 1 .. n /\ u[i] = t[i - m] /\ j - m \in 1 .. n /\ u[j] = t[j - m]
      BY <1>4, <1>5, <2>2
    <3>2. t[i - m] = t[j - m]
      BY <1>5, <3>1
    <3> DEFINE p == i - m
               q == j - m
    <3>3. p \in 1 .. n /\ q \in 1 .. n /\ t[p] = t[q]
      BY <3>1, <3>2
    <3> HIDE DEF p, q
    <3>4. p = q
      BY <1>3, <3>3
    <3>5. i - m = j - m
      BY <3>4 DEF p, q
    <3> QED
      BY <1>1, <3>5
  <2> QED
    BY <2>1, <2>2
<1>6. ASSUME NEW v \in S PROVE \E i \in 1 .. m + n : u[i] = v
  <2>1. CASE v \in A
    <3>1. PICK i \in 1 .. m : s[i] = v
      BY <1>3, <2>1
    <3>2. i \in 1 .. m + n
      BY <1>1
    <3> QED
      BY <1>2, <3>1, <3>2
  <2>2. CASE v \in B
    <3>1. PICK i \in 1 .. n : t[i] = v
      BY <1>3, <2>2
    <3>2. m + i \in 1 .. m + n
      BY <1>1
    <3> QED
      BY <1>2, <3>1, <3>2
  <2> QED
    BY <2>1, <2>2
<1> QED
  BY <1>2, <1>5, <1>6 DEF Enumerates, u

\* The classes of a set, one behind the other
LEMMA FlattenEnumerates ==
  ASSUME NEW S, NEW n \in Nat, NEW C \in [1 .. n -> SUBSET S],
         \A k, l \in 1 .. n : \A v \in C[k] : v \in C[l] => k = l,
         \A v \in S : \E k \in 1 .. n : v \in C[k],
         NEW ss, DOMAIN ss = 1 .. n, ss = [k \in 1 .. n |-> ss[k]], \A k \in 1 .. n : Enumerates(ss[k], C[k])
  PROVE  Enumerates(Flatten(ss), S)
<1>1. \A k \in 1 .. n : /\ ss[k] \in Seq(S)
                        /\ \A p \in 1 .. Len(ss[k]) : ss[k][p] \in C[k]
                        /\ \A p, q \in 1 .. Len(ss[k]) : ss[k][p] = ss[k][q] => p = q
                        /\ \A v \in C[k] : \E p \in 1 .. Len(ss[k]) : ss[k][p] = v
  BY SeqMonotonic, LenProperties DEF Enumerates
<1>2. ss \in Seq(Seq(S)) /\ Len(ss) = n
  <2>1. ss \in [1 .. n -> Seq(S)]
    BY <1>1
  <2> QED
    BY <2>1, SeqDef, LenProperties
<1> DEFINE F == Flatten(ss)
<1>3. PICK start \in [0 .. n -> Nat] : Starts(start, ss)
  BY <1>2, FlattenIs
<1>9. F \in Seq(S)
  BY <1>2, FlattenIs
<1>10. /\ \A k \in 1 .. n : \A p \in 1 .. Len(ss[k]) :
             start[k - 1] + p \in 1 .. Len(F) /\ F[start[k - 1] + p] = ss[k][p]
       /\ \A q \in 1 .. Len(F) : \E k \in 1 .. n : \E p \in 1 .. Len(ss[k]) : q = start[k - 1] + p
  BY <1>2, <1>3 DEF Starts
<1> HIDE DEF F
<1>4. ASSUME NEW q \in 1 .. Len(F), NEW r \in 1 .. Len(F), F[q] = F[r] PROVE q = r
  <2>1. PICK k \in 1 .. n : \E p \in 1 .. Len(ss[k]) : q = start[k - 1] + p
    BY <1>10
  <2>2. PICK p \in 1 .. Len(ss[k]) : q = start[k - 1] + p
    BY <2>1
  <2>3. PICK l \in 1 .. n : \E o \in 1 .. Len(ss[l]) : r = start[l - 1] + o
    BY <1>10
  <2>4. PICK o \in 1 .. Len(ss[l]) : r = start[l - 1] + o
    BY <2>3
  <2>5. F[q] = ss[k][p] /\ F[r] = ss[l][o]
    BY <1>10, <2>2, <2>4
  <2>6. k = l
    <3>1. ss[k][p] \in C[k] /\ ss[l][o] \in C[l] /\ ss[k][p] = ss[l][o]
      BY <1>1, <1>4, <2>5
    <3> QED
      BY <3>1
  <2>7. p = o
    BY <1>1, <1>4, <2>5, <2>6
  <2> QED
    BY <2>2, <2>4, <2>6, <2>7
<1>5. ASSUME NEW v \in S PROVE \E q \in 1 .. Len(F) : F[q] = v
  <2>1. PICK k \in 1 .. n : v \in C[k]
    OBVIOUS
  <2>2. PICK p \in 1 .. Len(ss[k]) : ss[k][p] = v
    BY <1>1, <2>1
  <2> QED
    <3>1. start[k - 1] + p \in 1 .. Len(F) /\ F[start[k - 1] + p] = v
      BY <1>10, <2>2
    <3> QED
      BY <3>1
<1> QED
  BY <1>9, <1>4, <1>5 DEF Enumerates, F

\* Variables whose names agree up to level d - 1, and are at least as long as d
Siblings(ws, d) ==
  /\ ws \in SUBSET Inputs
  /\ \A v \in ws : Len(Path[v]) >= d
  /\ \A v, w \in ws : \A j \in 1 .. d - 1 : Path[v][j] = Path[w][j]

-----------------------------------------------------------------------------
(* Axes *)

\* The names of the inputs, from AssemblyAssumption
LEMMA PathIs ==
  ASSUME NEW v \in Inputs
  PROVE  /\ Path[v] \in Seq(Nat) /\ Len(Path[v]) \in Nat \ {0}
         /\ \A j \in 1 .. Len(Path[v]) : Path[v][j] \in Nat
<1>1. Path[v] \in Seq(Nat) /\ Path[v] # <<>>
  BY AssemblyAssumption
<1>2. Len(Path[v]) \in Nat \ {0}
  BY <1>1, EmptySeq
<1> QED
  BY <1>1, <1>2, LenProperties

\* One level of the axis has its variables once if its subaxes have theirs
LEMMA SetupLayoutEnumerates ==
  ASSUME NEW ws, NEW d \in Nat \ {0}, Siblings(ws, d),
         NEW sub, \A us \in SUBSET ws : Siblings(us, d + 1) => Enumerates(sub[us], us)
  PROVE  Enumerates(SetupLayout(ws, d, sub), ws)
<1> DEFINE below == {v \in ws : Len(Path[v]) > d}
           here == {v \in ws : Len(Path[v]) = d}
           N == {Path[v][d] : v \in below}
           names == ByKey(N, LAMBDA a : a)
           first == ByKey(here, LAMBDA v : Path[v][d])
           C == [k \in DOMAIN names |-> {v \in below : Path[v][d] = names[k]}]
           ss == [k \in DOMAIN names |-> sub[{v \in below : Path[v][d] = names[k]}]]
<1>1. SetupLayout(ws, d, sub) = first \o Flatten(ss)
  BY DEF SetupLayout
<1>2. ws \in SUBSET Inputs /\ IsFiniteSet(ws) /\ IsFiniteSet(here) /\ IsFiniteSet(below)
  <2>1. ws \in SUBSET Inputs
    BY DEF Siblings
  <2>2. IsFiniteSet(ws)
    BY <2>1, AssemblyAssumption, FS_Subset
  <2>3. here \in SUBSET ws /\ below \in SUBSET ws
    OBVIOUS
  <2> HIDE DEF here, below
  <2> QED
    BY <2>1, <2>2, <2>3, FS_Subset
<1>3. \A v \in ws : Path[v][d] \in Nat /\ Len(Path[v]) \in Nat /\ Len(Path[v]) >= d
  <2>1. ASSUME NEW v \in ws PROVE Path[v][d] \in Nat /\ Len(Path[v]) \in Nat /\ Len(Path[v]) >= d
    <3>1. Len(Path[v]) >= d /\ v \in Inputs
      BY DEF Siblings
    <3>2. Len(Path[v]) \in Nat \ {0} /\ \A j \in 1 .. Len(Path[v]) : Path[v][j] \in Nat
      BY <3>1, PathIs
    <3> QED
      BY <3>1, <3>2
  <2> QED
    BY <2>1
<1>4. Enumerates(first, here)
  <2> DEFINE f == [v \in here |-> Path[v][d]]
  <2>1. f \in [here -> Int]
    BY <1>3
  <2>2. ASSUME NEW v \in here, NEW w \in here, f[v] = f[w] PROVE v = w
    <3>1. v \in Inputs /\ w \in Inputs /\ Len(Path[v]) = d /\ Len(Path[w]) = d /\ Path[v][d] = Path[w][d]
      BY <1>2, <2>2
    <3>2. \A j \in 1 .. d - 1 : Path[v][j] = Path[w][j]
      BY DEF Siblings
    <3>3. \A j \in 1 .. d : Path[v][j] = Path[w][j]
      BY <3>1, <3>2
    <3>4. Path[v] \in Seq(Nat) /\ Path[w] \in Seq(Nat)
      BY <3>1, PathIs
    <3>5. Path[v] = Path[w]
      BY <3>1, <3>3, <3>4, SeqEqual
    <3> QED
      BY <3>1, <3>5, AssemblyAssumption
  <2>3. PICK s \in [1 .. Cardinality(here) -> here] :
          \A i, j \in 1 .. Cardinality(here) : i < j => f[s[i]] < f[s[j]]
    <3> HIDE DEF f, here
    <3> QED
      BY <1>2, <2>1, <2>2, OrderExists
  <2>4. /\ first \in [1 .. Cardinality(here) -> here]
        /\ \A i, j \in 1 .. Cardinality(here) : i < j => Path[first[i]][d] < Path[first[j]][d]
    <3> DEFINE Sorted(z) == \A i, j \in DOMAIN z : i < j => Path[z[i]][d] < Path[z[j]][d]
    <3>1. s \in [1 .. Cardinality(here) -> here] /\ Sorted(s)
      <4> HIDE DEF here
      <4> QED
        BY <2>3
    <3>2. first = CHOOSE z \in [1 .. Cardinality(here) -> here] : Sorted(z)
      BY DEF ByKey
    <3> HIDE DEF Sorted, first, here
    <3>3. first \in [1 .. Cardinality(here) -> here] /\ Sorted(first)
      BY <3>1, <3>2
    <3> QED
      BY <3>3 DEF Sorted
  <2>5. \A i, j \in 1 .. Cardinality(here) : i < j => f[first[i]] < f[first[j]]
    <3> HIDE DEF here, first
    <3> QED
      BY <2>4
  <2> HIDE DEF f, here, first
  <2> QED
    BY <1>2, <2>1, <2>4, <2>5, OrderEnumerates
<1>5. IsFiniteSet(N) /\ N \in SUBSET Nat
  <2> DEFINE g == [v \in below |-> Path[v][d]]
  <2>1. g \in Surjection(below, N)
    BY DEF Surjection
  <2>2. N \in SUBSET Nat
    BY <1>3
  <2> HIDE DEF g, below, N
  <2> QED
    BY <1>2, <2>1, <2>2, FS_Surjection
<1>6. Enumerates(names, N)
  <2> HIDE DEF N
  <2> DEFINE f == [a \in N |-> a]
  <2>1. f \in [N -> Int] /\ \A x, y \in N : f[x] = f[y] => x = y
    BY <1>5
  <2>3. PICK s \in [1 .. Cardinality(N) -> N] :
          \A i, j \in 1 .. Cardinality(N) : i < j => f[s[i]] < f[s[j]]
    <3> HIDE DEF f
    <3> QED
      BY <1>5, <2>1, OrderExists
  <2>4. /\ names \in [1 .. Cardinality(N) -> N]
        /\ \A i, j \in 1 .. Cardinality(N) : i < j => names[i] < names[j]
    <3> DEFINE Sorted(z) == \A i, j \in DOMAIN z : i < j => z[i] < z[j]
    <3>1. s \in [1 .. Cardinality(N) -> N] /\ Sorted(s)
      BY <2>3
    <3>2. names = CHOOSE z \in [1 .. Cardinality(N) -> N] : Sorted(z)
      BY DEF ByKey
    <3> HIDE DEF Sorted, names
    <3>3. names \in [1 .. Cardinality(N) -> N] /\ Sorted(names)
      BY <3>1, <3>2
    <3> QED
      BY <3>3 DEF Sorted
  <2>5. \A i, j \in 1 .. Cardinality(N) : i < j => f[names[i]] < f[names[j]]
    <3> HIDE DEF names
    <3> QED
      BY <2>4
  <2> HIDE DEF f, names
  <2> QED
    BY <1>5, <2>1, <2>4, <2>5, OrderEnumerates
<1> DEFINE n == Len(names)
<1>7. n \in Nat /\ DOMAIN names = 1 .. n
  <2>1. names \in Seq(N)
    BY <1>6 DEF Enumerates
  <2> HIDE DEF names, N
  <2> QED
    BY <2>1, LenProperties
<1> HIDE DEF n, names, first
<1>8. /\ \A i, j \in 1 .. n : names[i] = names[j] => i = j
      /\ \A a \in N : \E i \in 1 .. n : names[i] = a
  BY <1>6 DEF Enumerates, n
<1>9. /\ C \in [1 .. n -> SUBSET below]
      /\ \A k \in 1 .. n : C[k] = {v \in below : Path[v][d] = names[k]} /\ ss[k] = sub[C[k]]
      /\ DOMAIN ss = 1 .. n /\ ss = [k \in 1 .. n |-> ss[k]]
  BY <1>7
<1>10. ASSUME NEW k \in 1 .. n PROVE Enumerates(ss[k], C[k])
  <2>1. C[k] \in SUBSET ws /\ C[k] \in SUBSET Inputs
    BY <1>2, <1>9
  <2>2. ASSUME NEW v \in C[k] PROVE Len(Path[v]) >= d + 1 /\ Path[v][d] = names[k]
    BY <1>3, <1>9
  <2>3. ASSUME NEW v \in C[k], NEW w \in C[k], NEW j \in 1 .. (d + 1) - 1 PROVE Path[v][j] = Path[w][j]
    <3>1. CASE j = d
      BY <2>2, <3>1
    <3>2. CASE j # d
      <4>1. j \in 1 .. d - 1
        BY <3>2
      <4> QED
        BY <2>1, <4>1 DEF Siblings
    <3> QED
      BY <3>1, <3>2
  <2>4. Siblings(C[k], d + 1)
    <3> HIDE DEF C
    <3> QED
      BY <2>1, <2>2, <2>3 DEF Siblings
  <2> HIDE DEF C, ss
  <2> QED
    BY <1>9, <2>1, <2>4
<1>11. \A k, l \in 1 .. n : \A v \in C[k] : v \in C[l] => k = l
  BY <1>8, <1>9
<1>12. ASSUME NEW v \in below PROVE \E k \in 1 .. n : v \in C[k]
  <2>1. Path[v][d] \in N
    OBVIOUS
  <2>2. PICK k \in 1 .. n : names[k] = Path[v][d]
    BY <1>8, <2>1
  <2> QED
    BY <1>9, <2>2
<1>13. here \cap below = {} /\ here \cup below = ws /\ here \in SUBSET ws /\ below \in SUBSET ws
  BY <1>3
<1> HIDE DEF C, ss, below, here
<1>14. Enumerates(Flatten(ss), below)
  BY <1>7, <1>9, <1>10, <1>11, <1>12, FlattenEnumerates
<1> QED
  BY <1>1, <1>4, <1>13, <1>14, ConcatEnumerates

\* The depth of an axis is the length of its longest name.
LEMMA DepthIs ==
  ASSUME NEW vs \in SUBSET Inputs
  PROVE  /\ Max({0} \cup {Len(Path[v]) : v \in vs}) \in Nat
         /\ \A v \in vs : Len(Path[v]) <= Max({0} \cup {Len(Path[v2]) : v2 \in vs})
<1> DEFINE M == {0} \cup {Len(Path[v]) : v \in vs}
<1>1. \A v \in vs : Len(Path[v]) \in Nat \ {0}
  BY PathIs
<1>2. \E x \in M : \A y \in M : x >= y
  <2>1. CASE vs = {}
    BY <2>1
  <2>2. CASE vs # {}
    <3> DEFINE f == [v \in vs |-> Len(Path[v])]
    <3>1. f \in [vs -> Int] /\ IsFiniteSet(vs) /\ \A v \in vs : f[v] = Len(Path[v])
      BY <1>1, AssemblyAssumption, FS_Subset
    <3> HIDE DEF f
    <3>2. PICK m \in vs : \A x \in vs : f[x] <= f[m]
      BY <2>2, <3>1, GreatestKey
    <3>3. Len(Path[m]) \in M /\ Len(Path[m]) \in Nat \ {0}
      BY <1>1
    <3>4. ASSUME NEW y \in M PROVE Len(Path[m]) >= y
      <4>1. CASE y = 0
        BY <3>3, <4>1
      <4>2. CASE y # 0
        <5>1. PICK v \in vs : y = Len(Path[v])
          BY <4>2
        <5>2. f[v] <= f[m] /\ f[v] = y /\ f[m] = Len(Path[m])
          BY <3>1, <3>2, <5>1
        <5>3. y \in Nat
          BY <1>1, <5>1
        <5> QED
          BY <3>3, <5>2, <5>3
      <4> QED
        BY <4>1, <4>2
    <3> HIDE DEF M
    <3> QED
      BY <3>3, <3>4
  <2> QED
    BY <2>1, <2>2
<1>3. Max(M) \in M /\ \A y \in M : Max(M) >= y
  <2> HIDE DEF M
  <2> QED
    BY <1>2 DEF Max
<1>4. M \subseteq Nat
  BY <1>1
<1>5. \A v \in vs : Len(Path[v]) \in M
  OBVIOUS
<1> DEFINE D == Max(M)
<1>6. D \in Nat /\ \A v \in vs : Len(Path[v]) <= D
  <2>1. D \in M /\ \A y \in M : D >= y
    BY <1>3
  <2> HIDE DEF D, M
  <2>2. \A v \in vs : D >= Len(Path[v]) /\ Len(Path[v]) \in Nat /\ D \in Nat
    BY <1>4, <1>5, <2>1
  <2> QED
    BY <1>4, <2>1, <2>2
<1> QED
  BY <1>6

\* An axis has its variables once each.
LEMMA AxisEnumerates ==
  ASSUME NEW vs \in SUBSET Inputs
  PROVE  Enumerates(Axis(vs), vs)
<1> DEFINE D == Max({0} \cup {Len(Path[v]) : v \in vs})
           Row(f, n) == [ws \in SUBSET vs |-> IF n = 0 THEN <<>> ELSE SetupLayout(ws, D - n + 1, f[n - 1])]
           Def(f) == f = [n \in 0 .. D |-> Row(f, n)]
           F == CHOOSE f : Def(f)
           T == {k \in 0 .. D : \E f : f = [n \in 0 .. k |-> Row(f, n)]}
<1>1. D \in Nat /\ \A v \in vs : Len(Path[v]) <= D
  BY DepthIs
<1>2. Axis(vs) = F[D][vs]
  BY DEF Axis
<1> HIDE DEF D
<1>3. D \in T
  <2>1. 0 \in T
    <3> DEFINE f == [n \in 0 .. 0 |-> [ws \in SUBSET vs |-> <<>>]]
    <3>1. f = [n \in 0 .. 0 |-> Row(f, n)]
      OBVIOUS
    <3>2. \E z : z = [n \in 0 .. 0 |-> Row(z, n)]
      <4> HIDE DEF f, Row
      <4> QED
        BY <3>1
    <3> QED
      BY <1>1, <3>2
  <2>2. ASSUME NEW k \in 0 .. D - 1, k \in T PROVE k + 1 \in T
    <3>1. PICK f : f = [n \in 0 .. k |-> Row(f, n)]
      BY <2>2
    <3> DEFINE h == [n \in 0 .. k + 1 |-> IF n = k + 1 THEN Row(f, k + 1) ELSE f[n]]
    <3>2. k \in Nat /\ k + 1 \in 0 .. D /\ k + 1 # 0 /\ (k + 1) - 1 = k
      BY <1>1
    <3>3. ASSUME NEW n \in 0 .. k + 1 PROVE h[n] = Row(h, n)
      <4>1. n = 0 \/ h[n - 1] = f[n - 1]
        <5>1. n # 0 => n - 1 \in 0 .. k + 1 /\ n - 1 # k + 1
          BY <3>2
        <5> HIDE DEF Row
        <5> QED
          BY <5>1
      <4>2. Row(h, n) = Row(f, n)
        <5> HIDE DEF h
        <5>1. CASE n = 0
          BY <5>1
        <5>2. CASE n # 0
          <6>1. h[n - 1] = f[n - 1]
            BY <4>1, <5>2
          <6> QED
            BY <6>1
        <5> QED
          BY <5>1, <5>2
      <4>3. h[n] = Row(f, n)
        <5> HIDE DEF Row
        <5>1. n # k + 1 => n \in 0 .. k
          BY <3>2
        <5> QED
          BY <3>1, <5>1
      <4> HIDE DEF h, Row
      <4> QED
        BY <4>2, <4>3
    <3>4. h = [n \in 0 .. k + 1 |-> Row(h, n)]
      <4> HIDE DEF Row
      <4>1. h = [n \in 0 .. k + 1 |-> h[n]]
        OBVIOUS
      <4> HIDE DEF h
      <4> QED
        BY <3>3, <4>1
    <3> HIDE DEF h, Row
    <3> QED
      BY <3>2, <3>4
  <2> HIDE DEF T
  <2>3. \A k \in 0 .. D : k \in T
    BY <1>1, <2>1, <2>2, UpTo
  <2> QED
    BY <1>1, <2>3
<1>4. Def(F)
  <2> HIDE DEF Row
  <2>1. \E f : Def(f)
    BY <1>3
  <2> HIDE DEF Def
  <2> QED
    BY <2>1
<1>5. \A n \in 0 .. D : F[n] = Row(F, n)
  <2> HIDE DEF Row, F
  <2> QED
    BY <1>4
<1> HIDE DEF F, Def, T
<1> DEFINE G == {n \in 0 .. D : \A ws \in SUBSET vs : Siblings(ws, D - n + 1) => Enumerates(F[n][ws], ws)}
<1>6. 0 \in G
  <2>1. ASSUME NEW ws \in SUBSET vs, Siblings(ws, D - 0 + 1) PROVE Enumerates(F[0][ws], ws)
    <3>1. ws = {}
      <4> SUFFICES ASSUME NEW v \in ws PROVE FALSE
        OBVIOUS
      <4>1. Len(Path[v]) >= D - 0 + 1
        BY <2>1 DEF Siblings
      <4>2. Len(Path[v]) <= D /\ Len(Path[v]) \in Nat
        BY <1>1, PathIs
      <4> QED
        BY <1>1, <4>1, <4>2
    <3>2. F[0][ws] = <<>>
      <4>1. 0 \in 0 .. D
        BY <1>1
      <4>2. F[0] = Row(F, 0)
        BY <1>5, <4>1
      <4> QED
        BY <4>2
    <3>3. Len(<<>>) = 0 /\ <<>> \in Seq(ws)
      BY EmptySeq
    <3> QED
      BY <3>1, <3>2, <3>3 DEF Enumerates
  <2> QED
    BY <1>1, <2>1
<1>7. ASSUME NEW k \in 0 .. D - 1, k \in G PROVE k + 1 \in G
  <2>1. k + 1 \in 0 .. D /\ k + 1 # 0 /\ (k + 1) - 1 = k /\ D - (k + 1) + 1 \in Nat \ {0} /\ (D - (k + 1) + 1) + 1 = D - k + 1
    BY <1>1
  <2>2. ASSUME NEW ws \in SUBSET vs, Siblings(ws, D - (k + 1) + 1) PROVE Enumerates(F[k + 1][ws], ws)
    <3> DEFINE d == D - (k + 1) + 1
    <3>1. F[k + 1][ws] = SetupLayout(ws, d, F[k])
      <4>1. F[k + 1] = Row(F, k + 1)
        BY <1>5, <2>1
      <4> QED
        BY <2>1, <4>1
    <3>2. \A us \in SUBSET ws : Siblings(us, d + 1) => Enumerates(F[k][us], us)
      <4>1. d + 1 = D - k + 1
        BY <2>1
      <4> HIDE DEF d
      <4>2. \A us \in SUBSET ws : us \in SUBSET vs
        OBVIOUS
      <4> QED
        BY <1>7, <4>1, <4>2
    <3>3. d \in Nat \ {0} /\ Siblings(ws, d)
      BY <2>1, <2>2
    <3> HIDE DEF d
    <3> QED
      BY <3>1, <3>2, <3>3, SetupLayoutEnumerates
  <2> QED
    BY <2>1, <2>2
<1> HIDE DEF G
<1>8. D \in G
  <2>1. \A n \in 0 .. D : n \in G
    BY <1>1, <1>6, <1>7, UpTo
  <2> QED
    BY <1>1, <2>1
<1>9. Siblings(vs, D - D + 1)
  <2>1. D - D + 1 = 1 /\ 1 - 1 = 0 /\ 1 .. 0 = {}
    BY <1>1
  <2>2. \A v \in vs : Len(Path[v]) >= 1
    BY PathIs
  <2>3. Siblings(vs, 1)
    BY <2>1, <2>2 DEF Siblings
  <2> QED
    BY <2>1, <2>3
<1>10. Enumerates(F[D][vs], vs)
  BY <1>8, <1>9 DEF G
<1> QED
  BY <1>2, <1>10

\* The offset of each variable of an axis
OffsetsAre(at, axis) ==
  /\ at[0] = 0
  /\ \A k \in 1 .. Len(axis) : at[k] = at[k - 1] + Size(axis[k])
  /\ \A k \in 0 .. Len(axis) : Offset(axis, k + 1) = at[k]

\* The offsets of an axis, one variable after the other
LEMMA OffsetIs ==
  ASSUME NEW V, \A v \in V : Size(v) \in Nat, NEW axis \in Seq(V)
  PROVE  \E at \in [0 .. Len(axis) -> Nat] : OffsetsAre(at, axis)
<1> DEFINE L == Len(axis)
<1>1. L \in Nat /\ \A k \in 1 .. L : axis[k] \in V /\ Size(axis[k]) \in Nat
  BY LenProperties
<1>2. PICK P \in [0 .. L -> Nat] : P[0] = 0 /\ \A k \in 1 .. L : P[k] = P[k - 1] + Size(axis[k])
  BY SizesAddUp
<1>3. ASSUME NEW k \in 0 .. L PROVE Offset(axis, k + 1) = P[k]
  <2> DEFINE s == SubSeq(axis, 1, k)
  <2>1. s \in Seq(V) /\ Len(s) = k /\ \A j \in 1 .. k : s[j] = axis[j]
    <3>1. 1 \in Int /\ k \in Int /\ \A x \in 1 .. k : axis[x] \in V
      BY <1>1
    <3>2. /\ s \in Seq(V) /\ Len(s) = IF 1 <= k THEN k - 1 + 1 ELSE 0
          /\ \A x \in 1 .. k - 1 + 1 : s[x] = axis[1 + x - 1]
      BY <3>1, SubSeqProperties
    <3>3. k - 1 + 1 = k /\ (~(1 <= k) => k = 0) /\ \A x \in 1 .. k : 1 + x - 1 = x
      BY <1>1
    <3> HIDE DEF s
    <3> QED
      BY <3>2, <3>3
  <2>2. Offset(axis, k + 1) = FoldLeft(LAMBDA n, v : n + Size(v), 0, s)
    <3>1. (k + 1) - 1 = k
      BY <1>1
    <3> QED
      BY <3>1 DEF Offset
  <2> HIDE DEF s
  <2>3. PICK Q \in [0 .. Len(s) -> Nat] :
          /\ Q[0] = 0 /\ FoldLeft(LAMBDA n, v : n + Size(v), 0, s) = Q[Len(s)]
          /\ \A j \in 1 .. Len(s) : Q[j] = Q[j - 1] + Size(s[j])
    BY <2>1, SizesAddUp
  <2> DEFINE A == {j \in 0 .. k : Q[j] = P[j]}
  <2>4. 0 \in A
    <3>1. 0 \in 0 .. k
      BY <1>1
    <3>2. Q[0] = P[0]
      BY <1>2, <2>3
    <3> QED
      BY <3>1, <3>2
  <2>5. ASSUME NEW j \in 0 .. k - 1, j \in A PROVE j + 1 \in A
    <3>1. j + 1 \in 1 .. k /\ j + 1 \in 0 .. k /\ j + 1 \in 1 .. L /\ (j + 1) - 1 = j
      BY <1>1
    <3>2. Q[j + 1] = Q[j] + Size(s[j + 1]) /\ P[j + 1] = P[j] + Size(axis[j + 1]) /\ s[j + 1] = axis[j + 1]
      BY <1>2, <2>1, <2>3, <3>1
    <3> QED
      BY <2>5, <3>1, <3>2
  <2> HIDE DEF A
  <2>6. k \in A
    <3>1. k \in Nat
      BY <1>1
    <3>2. \A j \in 0 .. k : j \in A
      BY <2>4, <2>5, <3>1, UpTo
    <3> QED
      BY <3>1, <3>2
  <2> QED
    BY <2>1, <2>2, <2>3, <2>6 DEF A
<1>4. OffsetsAre(P, axis)
  BY <1>2, <1>3 DEF OffsetsAre, L
<1> QED
  BY <1>2, <1>4 DEF L

\* What is at the entries of an assembled vector
LEMMA SlotsAre ==
  ASSUME NEW V, \A v \in V : Size(v) \in Nat, NEW axis \in Seq(V)
  PROVE  /\ Len(Slots(axis)) \in Nat
         /\ Len(Slots(axis)) = Offset(axis, Len(axis) + 1)
         /\ \A k \in 1 .. Len(axis) : Offset(axis, k) \in Nat
         /\ \A q \in 1 .. Len(Slots(axis)) :
              \E k \in 1 .. Len(axis) : \E p \in 0 .. Size(axis[k]) - 1 :
                q = Offset(axis, k) + p + 1 /\ Slots(axis)[q] = [var |-> axis[k], at |-> p]
<1> DEFINE L == Len(axis)
           ss == [k \in DOMAIN axis |-> [p \in 1 .. Size(axis[k]) |-> [var |-> axis[k], at |-> p - 1]]]
           S == [var : V, at : Nat]
           F == Flatten(ss)
<1>1. L \in Nat /\ DOMAIN axis = 1 .. L /\ \A k \in 1 .. L : axis[k] \in V /\ Size(axis[k]) \in Nat
  BY LenProperties
<1>2. Slots(axis) = F
  BY DEF Slots
<1>3. ASSUME NEW k \in 1 .. L
      PROVE  /\ ss[k] \in Seq(S) /\ Len(ss[k]) = Size(axis[k])
             /\ \A p \in 1 .. Size(axis[k]) : ss[k][p] = [var |-> axis[k], at |-> p - 1]
  <2> DEFINE n == Size(axis[k])
             z == [p \in 1 .. n |-> [var |-> axis[k], at |-> p - 1]]
  <2>1. n \in Nat /\ axis[k] \in V /\ ss[k] = z
    BY <1>1
  <2>2. \A p \in 1 .. n : z[p] = [var |-> axis[k], at |-> p - 1]
    OBVIOUS
  <2> HIDE DEF n
  <2>3. z \in [1 .. n -> S]
    <3>1. ASSUME NEW p \in 1 .. n PROVE [var |-> axis[k], at |-> p - 1] \in S
      <4>1. p - 1 \in Nat
        BY <2>1
      <4> QED
        BY <2>1, <4>1
    <3> HIDE DEF S
    <3> QED
      BY <3>1
  <2> HIDE DEF z, S, ss
  <2>4. z \in Seq(S) /\ Len(z) = n
    BY <2>1, <2>3, SeqDef, LenProperties
  <2> QED
    BY <2>1, <2>2, <2>4 DEF n
<1>4. ss \in Seq(Seq(S)) /\ Len(ss) = L
  <2>1. ss \in [1 .. L -> Seq(S)]
    <3>1. \A k \in 1 .. L : ss[k] \in Seq(S)
      BY <1>3
    <3>2. ss = [k \in 1 .. L |-> ss[k]]
      BY <1>1
    <3> HIDE DEF ss, S, L
    <3> QED
      BY <3>1, <3>2
  <2> HIDE DEF ss, S, L
  <2> QED
    BY <1>1, <2>1, SeqDef, LenProperties
<1> HIDE DEF ss, S, F, L
<1>5. PICK start \in [0 .. L -> Nat] : Starts(start, ss)
  BY <1>4, FlattenIs
<1>6. F \in Seq(S)
  BY <1>4, FlattenIs DEF F
<1>7. PICK at \in [0 .. L -> Nat] : OffsetsAre(at, axis)
  BY OffsetIs DEF L
<1> DEFINE A == {k \in 0 .. L : start[k] = at[k]}
<1>8. 0 \in A
  BY <1>1, <1>5, <1>7 DEF Starts, OffsetsAre
<1>9. ASSUME NEW k \in 0 .. L - 1, k \in A PROVE k + 1 \in A
  <2>1. k + 1 \in 1 .. L /\ k + 1 \in 0 .. L /\ (k + 1) - 1 = k
    BY <1>1
  <2>2. start[k + 1] = start[(k + 1) - 1] + Len(ss[k + 1])
    BY <1>4, <1>5, <2>1 DEF Starts
  <2>3. at[k + 1] = at[(k + 1) - 1] + Size(axis[k + 1])
    BY <1>7, <2>1 DEF OffsetsAre, L
  <2>4. Len(ss[k + 1]) = Size(axis[k + 1])
    BY <1>3, <2>1
  <2> QED
    BY <1>9, <2>1, <2>2, <2>3, <2>4
<1>10. \A k \in 0 .. L : start[k] = at[k]
  <2> HIDE DEF A
  <2>1. \A k \in 0 .. L : k \in A
    BY <1>1, <1>8, <1>9, UpTo
  <2> QED
    BY <2>1 DEF A
<1>11. \A k \in 0 .. L : Offset(axis, k + 1) = start[k]
  BY <1>7, <1>10 DEF OffsetsAre, L
<1>12. \A k \in 1 .. L : Offset(axis, k) = start[k - 1] /\ start[k - 1] \in Nat
  <2>1. ASSUME NEW k \in 1 .. L PROVE Offset(axis, k) = start[k - 1] /\ start[k - 1] \in Nat
    <3>1. k - 1 \in 0 .. L /\ (k - 1) + 1 = k
      BY <1>1
    <3>2. Offset(axis, (k - 1) + 1) = start[k - 1]
      BY <1>11, <3>1
    <3> QED
      BY <1>5, <3>1, <3>2
  <2> QED
    BY <2>1
<1>13. Len(F) = start[L] /\ Len(F) \in Nat
  BY <1>4, <1>5, <1>6, LenProperties DEF Starts, F
<1>14. ASSUME NEW q \in 1 .. Len(F)
       PROVE  \E k \in 1 .. L : \E p \in 0 .. Size(axis[k]) - 1 :
                q = Offset(axis, k) + p + 1 /\ F[q] = [var |-> axis[k], at |-> p]
  <2>1. PICK k \in 1 .. L : \E p \in 1 .. Len(ss[k]) : q = start[k - 1] + p
    BY <1>4, <1>5 DEF Starts, F
  <2>2. PICK p \in 1 .. Len(ss[k]) : q = start[k - 1] + p
    BY <2>1
  <2>3. F[q] = ss[k][p]
    BY <1>4, <1>5, <2>2 DEF Starts, F
  <2>4. p \in 1 .. Size(axis[k]) /\ Size(axis[k]) \in Nat
    BY <1>1, <1>3, <2>2
  <2>5. F[q] = [var |-> axis[k], at |-> p - 1]
    BY <1>3, <2>3, <2>4
  <2>6. p - 1 \in 0 .. Size(axis[k]) - 1 /\ start[k - 1] + p = start[k - 1] + (p - 1) + 1
    BY <1>12, <2>4
  <2>7. q = Offset(axis, k) + (p - 1) + 1
    BY <1>12, <2>2, <2>6
  <2> QED
    BY <2>5, <2>6, <2>7
<1>15. L \in 0 .. L
  BY <1>1
<1>16. Len(F) = Offset(axis, L + 1)
  BY <1>11, <1>13, <1>15
<1> QED
  BY <1>2, <1>12, <1>13, <1>14, <1>16 DEF L

-----------------------------------------------------------------------------
(* Assembly format of one variable *)

\* A sequence with one more element of the next set
LEMMA LongerHas ==
  ASSUME NEW ts, NEW S, NEW u \in ts, NEW e \in S
  PROVE  Append(u, e) \in Longer(ts, S)
BY DEF Longer

\* The indices of a tensor are what Indices enumerates.
LEMMA IndicesAre ==
  ASSUME NEW s \in Seq(Nat), NEW i
  PROVE  i \in Indices(s) <=> IsIndex(i, s)
<1> DEFINE Ss == [k \in DOMAIN s |-> 0 .. s[k] - 1]
           L == Len(s)
<1>1. /\ s \in Seq(Nat) /\ L \in Nat /\ DOMAIN s = 1 .. L
      /\ \A k \in 1 .. L : s[k] \in Nat
  BY LenProperties
<1>2. Ss \in Seq(SUBSET Nat) /\ Len(Ss) = L /\ \A k \in 1 .. L : Ss[k] = 0 .. s[k] - 1
  <2>1. Ss \in [1 .. L -> SUBSET Nat] /\ \A k \in 1 .. L : Ss[k] = 0 .. s[k] - 1
    <3> HIDE DEF L
    <3>1. \A k \in 1 .. L : (0 .. s[k] - 1) \in (SUBSET Nat)
      <4> TAKE k \in 1 .. L
      <4>1. \A x \in 0 .. s[k] - 1 : x \in Nat
        OBVIOUS
      <4> QED
        BY <4>1
    <3> QED
      BY <1>1, <3>1
  <2> HIDE DEF Ss, L
  <2> QED
    BY <1>1, <2>1, SeqDef, LenProperties
<1> HIDE DEF Ss
<1>3. PICK P \in [0 .. L -> SUBSET Seq(Nat)] :
        P[0] = {<<>>} /\ Tuples(Ss) = P[L] /\ \A k \in 1 .. L : P[k] = Longer(P[k - 1], Ss[k])
  <2>1. Ss \in Seq(SUBSET Nat)
    BY <1>2
  <2>2. \E P \in [0 .. Len(Ss) -> SUBSET Seq(Nat)] :
          /\ P[0] = {<<>>} /\ Tuples(Ss) = P[Len(Ss)]
          /\ \A k \in 1 .. Len(Ss) : P[k] = Longer(P[k - 1], Ss[k])
    BY ONLY <2>1, TuplesAre, Zenon
  <2>3. Len(Ss) = L
    BY <1>2
  <2> HIDE DEF L
  <2> QED
    BY <2>2, <2>3
<1> HIDE DEF L
<1> DEFINE Fits(t, k) == t \in Seq(Nat) /\ Len(t) = k /\ \A j \in 1 .. k : t[j] \in Ss[j]
           A == {k \in 0 .. L : \A t : t \in P[k] <=> Fits(t, k)}
<1>4. 0 \in A
  <2>1. ASSUME NEW t PROVE t \in P[0] <=> Fits(t, 0)
    <3>1. t \in P[0] <=> t = <<>>
      BY <1>3
    <3>2. <<>> \in Seq(Nat) /\ Len(<<>>) = 0
      BY EmptySeq
    <3>3. t \in Seq(Nat) /\ Len(t) = 0 => t = <<>>
      BY EmptySeq
    <3>4. \A j \in 1 .. 0 : t[j] \in Ss[j]
      OBVIOUS
    <3> QED
      BY <3>1, <3>2, <3>3, <3>4
  <2> HIDE DEF Fits
  <2> QED
    BY <1>1, <2>1
<1>5. ASSUME NEW k \in 0 .. L - 1, k \in A PROVE k + 1 \in A
  <2>1. k \in Nat /\ k + 1 \in 1 .. L /\ k + 1 \in 0 .. L /\ (k + 1) - 1 = k
    BY <1>1
  <2>2. P[k + 1] = Longer(P[k], Ss[k + 1])
    BY <1>3, <2>1
  <2>3. \A t : t \in P[k] <=> Fits(t, k)
    BY <1>5
  <2>4. ASSUME NEW t, t \in P[k + 1] PROVE Fits(t, k + 1)
    <3>1. PICK u \in P[k], e \in Ss[k + 1] : t = Append(u, e)
      BY <2>2, <2>4 DEF Longer
    <3>2. Fits(u, k)
      BY <2>3, <3>1
    <3>3. e \in Nat
      BY <1>1, <1>2, <2>1
    <3>4. t \in Seq(Nat) /\ Len(t) = k + 1 /\ t[k + 1] = e /\ \A j \in 1 .. k : t[j] = u[j]
      BY <3>1, <3>2, <3>3, AppendProperties
    <3>5. ASSUME NEW j \in 1 .. k + 1 PROVE t[j] \in Ss[j]
      <4>1. CASE j = k + 1
        BY <3>1, <3>4, <4>1
      <4>2. CASE j # k + 1
        <5>1. j \in 1 .. k
          BY <2>1, <4>2
        <5> QED
          BY <3>2, <3>4, <5>1
      <4> QED
        BY <4>1, <4>2
    <3> QED
      BY <3>4, <3>5
  <2>5. ASSUME NEW t, Fits(t, k + 1) PROVE t \in P[k + 1]
    <3> DEFINE u == [j \in 1 .. k |-> t[j]]
               e == t[k + 1]
    <3>1. t \in Seq(Nat) /\ Len(t) = k + 1 /\ e \in Ss[k + 1] /\ e \in Nat /\ \A j \in 1 .. k : t[j] \in Nat /\ t[j] \in Ss[j]
      <4>1. t \in Seq(Nat) /\ Len(t) = k + 1 /\ \A j \in 1 .. k + 1 : t[j] \in Ss[j]
        BY <2>5
      <4>2. \A j \in 1 .. k + 1 : t[j] \in Nat
        BY <4>1, LenProperties
      <4>3. k + 1 \in 1 .. k + 1 /\ \A j \in 1 .. k : j \in 1 .. k + 1
        BY <2>1
      <4> QED
        BY <4>1, <4>2, <4>3
    <3>2. u \in Seq(Nat) /\ Len(u) = k /\ \A j \in 1 .. k : u[j] = t[j]
      <4>1. u \in [1 .. k -> Nat] /\ \A j \in 1 .. k : u[j] = t[j]
        BY <3>1
      <4> HIDE DEF u
      <4> QED
        BY <2>1, <4>1, SeqDef, LenProperties
    <3> HIDE DEF u
    <3>3. Fits(u, k)
      BY <3>1, <3>2
    <3> HIDE DEF e
    <3>4. /\ Append(u, e) \in Seq(Nat) /\ Len(Append(u, e)) = k + 1
          /\ Append(u, e)[k + 1] = e /\ \A j \in 1 .. k : Append(u, e)[j] = u[j]
      BY <3>1, <3>2, AppendProperties
    <3>5. ASSUME NEW j \in 1 .. k + 1 PROVE Append(u, e)[j] = t[j]
      <4>1. CASE j = k + 1
        BY <3>4, <4>1 DEF e
      <4>2. CASE j # k + 1
        <5>1. j \in 1 .. k
          BY <2>1, <4>2
        <5> QED
          BY <3>2, <3>4, <5>1
      <4> QED
        BY <4>1, <4>2
    <3>6. t = Append(u, e)
      <4> DEFINE w == Append(u, e)
      <4>1. w \in Seq(Nat) /\ Len(w) = Len(t) /\ \A j \in 1 .. Len(t) : w[j] = t[j]
        BY <3>1, <3>4, <3>5
      <4> HIDE DEF w
      <4>2. t = w
        BY <3>1, <4>1, SeqEqual
      <4> QED
        BY <4>2 DEF w
    <3>7. u \in P[k]
      BY <2>3, <3>3
    <3> HIDE DEF Fits
    <3>8. e \in Ss[k + 1]
      BY <3>1
    <3> HIDE DEF u
    <3>9. Append(u, e) \in Longer(P[k], Ss[k + 1])
      BY <3>7, <3>8, LongerHas
    <3> QED
      BY <2>2, <3>6, <3>9
  <2> HIDE DEF Fits
  <2> QED
    BY <2>1, <2>4, <2>5
<1> HIDE DEF A
<1>6. L \in A
  <2>1. \A k \in 0 .. L : k \in A
    BY <1>1, <1>4, <1>5, UpTo
  <2> QED
    BY <1>1, <2>1
<1>7. i \in P[L] <=> Fits(i, L)
  BY <1>6 DEF A
<1>8. Indices(s) = P[L]
  BY <1>3 DEF Indices, Ss
<1>9. ASSUME i \in Seq(Nat), Len(i) = L PROVE (\A j \in 1 .. L : i[j] \in Ss[j]) <=> \A j \in 1 .. L : i[j] < s[j]
  <2>1. ASSUME NEW j \in 1 .. L PROVE i[j] \in Ss[j] <=> i[j] < s[j]
    <3>1. i[j] \in Nat /\ s[j] \in Nat /\ Ss[j] = 0 .. s[j] - 1
      BY <1>1, <1>2, <1>9, LenProperties
    <3> QED
      BY <3>1
  <2> QED
    BY <2>1
<1> QED
  BY <1>7, <1>8, <1>9 DEF IsIndex, L

\* Nothing, put together
LEMMA FlattenEmpty == Flatten(<<>>) = <<>>
BY DEF Flatten, FlattenSeq

\* One piece, put together
LEMMA FlattenOne ==
  ASSUME NEW S, NEW s \in Seq(S)
  PROVE  Flatten(<<s>>) = s
<1> DEFINE ss == <<s>>
<1>1. ss \in Seq(Seq(S)) /\ Len(ss) = 1 /\ ss[1] = s
  OBVIOUS
<1>2. Len(s) \in Nat
  BY LenProperties
<1> DEFINE F == Flatten(ss)
<1> HIDE DEF ss
<1>3. PICK start \in [0 .. Len(ss) -> Nat] : Starts(start, ss)
  BY <1>1, FlattenIs
<1>4. F \in Seq(S)
  BY <1>1, FlattenIs
<1>5. start[0] = 0 /\ start[1] = Len(s) /\ Len(F) = Len(s)
  <2>1. 1 \in 1 .. 1 /\ 1 - 1 = 0
    OBVIOUS
  <2>2. start[0] = 0 /\ start[1] = start[1 - 1] + Len(s) /\ Len(F) = start[1]
    BY <1>1, <1>3, <2>1 DEF Starts
  <2> QED
    BY <1>2, <2>1, <2>2
<1>6. ASSUME NEW p \in 1 .. Len(s) PROVE F[p] = s[p]
  <2>1. 1 \in 1 .. 1 /\ 1 - 1 = 0
    OBVIOUS
  <2>2. F[start[1 - 1] + p] = s[p]
    BY <1>1, <1>3, <2>1 DEF Starts
  <2> QED
    BY <1>2, <1>5, <2>1, <2>2
<1> HIDE DEF F
<1>7. F = s
  BY <1>4, <1>5, <1>6, SeqEqual
<1> QED
  BY <1>7 DEF F, ss

\* Consecutive dimensions
LEMMA DimsAre ==
  ASSUME NEW first \in Nat, NEW n \in Nat
  PROVE  /\ Dims(first, n) \in Seq(Int) /\ Len(Dims(first, n)) = n /\ DOMAIN Dims(first, n) = 1 .. n
         /\ \A k \in 1 .. n : Dims(first, n)[k] = first + k - 1
<1> DEFINE d == [k \in 1 .. n |-> first + k - 1]
<1>1. d \in [1 .. n -> Int] /\ DOMAIN d = 1 .. n /\ \A k \in 1 .. n : d[k] = first + k - 1
  OBVIOUS
<1> HIDE DEF d
<1>2. d \in Seq(Int) /\ Len(d) = n
  BY <1>1, SeqDef, LenProperties
<1> QED
  BY <1>1, <1>2 DEF Dims, d

\* The dimensions of one variable are in order as they are.
LEMMA OneInterleaved ==
  ASSUME NEW a \in Sizes, NEW b \in Sizes
  PROVE  Interleaved(<<a>>, <<b>>) = Dims(1, Len(a) + Len(b))
<1> DEFINE m == Len(a)
           n == Len(b)
           x == Dims(1, m)
           y == Dims(1 + m, n)
           w == Dims(1, m + n)
<1>1. m \in Nat /\ n \in Nat /\ a \in Seq(Nat) /\ b \in Seq(Nat)
  BY SizesAre
<1>2. SubSeq(<<a>>, 1, 1 - 1) = <<>> /\ SubSeq(<<b>>, 1, 1 - 1) = <<>>
  OBVIOUS
<1>3. IntmdStart(<<a>>, 1) = 1
  <2>1. IntmdStart(<<a>>, 1) = 1 + Len(Flatten(SubSeq(<<a>>, 1, 1 - 1)))
    BY DEF IntmdStart
  <2>2. Flatten(SubSeq(<<a>>, 1, 1 - 1)) = <<>> /\ Len(<<>>) = 0
    BY <1>2, FlattenEmpty
  <2> QED
    BY <2>1, <2>2
<1>4. BaseStart(<<a>>, <<b>>, 1) = 1 + m
  <2>1. BaseStart(<<a>>, <<b>>, 1) = 1 + Len(Flatten(<<a>>)) + Len(Flatten(SubSeq(<<b>>, 1, 1 - 1)))
    BY DEF BaseStart
  <2>2. Flatten(SubSeq(<<b>>, 1, 1 - 1)) = <<>> /\ Len(<<>>) = 0
    BY <1>2, FlattenEmpty
  <2>3. Flatten(<<a>>) = a
    BY <1>1, FlattenOne
  <2> HIDE DEF m
  <2>4. Len(Flatten(<<a>>)) = m
    BY <2>3 DEF m
  <2> QED
    BY <1>1, <2>1, <2>2, <2>4
<1>5. Interleaved(<<a>>, <<b>>) = Flatten(<<x \o y>>)
  <2> DEFINE G(k) == Dims(IntmdStart(<<a>>, k), Len(<<a>>[k])) \o Dims(BaseStart(<<a>>, <<b>>, k), Len(<<b>>[k]))
  <2>1. G(1) = x \o y
    BY <1>3, <1>4
  <2>2. Interleaved(<<a>>, <<b>>) = Flatten([k \in DOMAIN <<a>> |-> G(k)])
    BY DEF Interleaved
  <2> HIDE DEF G, x, y
  <2>3. [k \in DOMAIN <<a>> |-> G(k)] = <<x \o y>>
    BY <2>1
  <2> QED
    BY <2>2, <2>3
<1>6. /\ x \in Seq(Int) /\ Len(x) = m /\ \A k \in 1 .. m : x[k] = k
      /\ y \in Seq(Int) /\ Len(y) = n /\ \A k \in 1 .. n : y[k] = m + k
      /\ w \in Seq(Int) /\ Len(w) = m + n /\ \A k \in 1 .. m + n : w[k] = k
  <2> HIDE DEF m, n
  <2>1. /\ x \in Seq(Int) /\ Len(x) = m /\ \A k \in 1 .. m : x[k] = 1 + k - 1
    BY <1>1, DimsAre
  <2>2. /\ y \in Seq(Int) /\ Len(y) = n /\ \A k \in 1 .. n : y[k] = (1 + m) + k - 1
    <3>1. 1 + m \in Nat
      BY <1>1
    <3> QED
      BY <1>1, <3>1, DimsAre
  <2>3. /\ w \in Seq(Int) /\ Len(w) = m + n /\ \A k \in 1 .. m + n : w[k] = 1 + k - 1
    <3>1. m + n \in Nat
      BY <1>1
    <3> QED
      BY <3>1, DimsAre
  <2> HIDE DEF x, y, w
  <2>4. (\A k \in 1 .. m : x[k] = k) /\ (\A k \in 1 .. n : y[k] = m + k) /\ (\A k \in 1 .. m + n : w[k] = k)
    BY <1>1, <2>1, <2>2, <2>3
  <2> QED
    BY <2>1, <2>2, <2>3, <2>4
<1> HIDE DEF x, y, w, m, n
<1> DEFINE z == x \o y
<1>7. /\ z \in Seq(Int) /\ Len(z) = m + n
      /\ \A k \in 1 .. m : z[k] = x[k]
      /\ \A k \in 1 .. n : z[m + k] = y[k]
  <2>1. x \in Seq(Int) /\ Len(x) = m /\ y \in Seq(Int) /\ Len(y) = n
    BY <1>6
  <2>2. ASSUME NEW s \in Seq(Int), NEW t \in Seq(Int)
        PROVE  /\ s \o t \in Seq(Int) /\ Len(s \o t) = Len(s) + Len(t)
               /\ \A k \in 1 .. Len(s) : (s \o t)[k] = s[k]
               /\ \A k \in 1 .. Len(t) : (s \o t)[Len(s) + k] = t[k]
    BY ConcatIs
  <2> HIDE DEF z
  <2>3. /\ z \in Seq(Int) /\ Len(z) = Len(x) + Len(y)
        /\ \A k \in 1 .. Len(x) : z[k] = x[k]
        /\ \A k \in 1 .. Len(y) : z[Len(x) + k] = y[k]
    BY <2>1, <2>2, Zenon DEF z
  <2> QED
    BY <2>1, <2>3
<1> HIDE DEF z
<1>8. ASSUME NEW k \in 1 .. m + n PROVE z[k] = w[k]
  <2>1. CASE k <= m
    <3>1. k \in 1 .. m
      BY <1>1, <2>1
    <3> QED
      BY <1>6, <1>7, <3>1
  <2>2. CASE ~(k <= m)
    <3>1. k - m \in 1 .. n /\ m + (k - m) = k
      BY <1>1, <2>2
    <3>2. z[m + (k - m)] = y[k - m] /\ y[k - m] = m + (k - m)
      BY <1>6, <1>7, <3>1
    <3> QED
      BY <1>6, <3>1, <3>2
  <2> QED
    BY <2>1, <2>2
<1>9. z = w
  BY <1>6, <1>7, <1>8, SeqEqual
<1>10. Flatten(<<z>>) = z
  BY <1>7, FlattenOne
<1> QED
  BY <1>5, <1>9, <1>10 DEF z, w, m, n

\* All dimensions in their order
LEMMA SelectAll ==
  ASSUME NEW S, NEW x \in Seq(S), NEW p, DOMAIN p = 1 .. Len(x), \A k \in 1 .. Len(x) : p[k] = k
  PROVE  Select(x, p) = x
<1> DEFINE n == Len(x)
           y == [k \in DOMAIN p |-> x[p[k]]]
<1>1. n \in Nat /\ \A k \in 1 .. n : x[k] \in S
  BY LenProperties
<1>2. y \in [1 .. n -> S] /\ \A k \in 1 .. n : y[k] = x[k]
  BY <1>1
<1> HIDE DEF y
<1>3. y \in Seq(S) /\ Len(y) = n
  BY <1>1, <1>2, SeqDef, LenProperties
<1>4. y = x
  BY <1>2, <1>3, SeqEqual
<1> QED
  BY <1>4 DEF Select, y

\* The places of a permutation that changes nothing
LEMMA InverseOfDims ==
  ASSUME NEW n \in Nat
  PROVE  LET p == Dims(1, n) IN [d \in DOMAIN p |-> CHOOSE k \in DOMAIN p : p[k] = d] = p
<1> DEFINE p == Dims(1, n)
           inv == [d \in DOMAIN p |-> CHOOSE k \in DOMAIN p : p[k] = d]
<1>1. DOMAIN p = 1 .. n /\ \A k \in 1 .. n : p[k] = k
  <2> HIDE DEF p
  <2>1. DOMAIN p = 1 .. n /\ \A k \in 1 .. n : p[k] = 1 + k - 1
    BY DimsAre DEF p
  <2> QED
    BY <2>1
<1>2. p = [d \in 1 .. n |-> p[d]]
  BY DEF Dims
<1> HIDE DEF p
<1>3. ASSUME NEW d \in 1 .. n PROVE (CHOOSE k \in DOMAIN p : p[k] = d) = d
  BY <1>1
<1>4. inv = [d \in 1 .. n |-> p[d]]
  BY <1>1, <1>3
<1> QED
  BY <1>2, <1>4 DEF p

\* A permutation that changes nothing leaves shape and entries alone.
LEMMA PermuteNothing ==
  ASSUME NEW s \in Sizes, NEW T, T.sizes = s
  PROVE  /\ Permute(T, Dims(1, Len(s))).sizes = s
         /\ \A i : IsIndex(i, s) => Permute(T, Dims(1, Len(s))).at[i] = T.at[i]
<1> DEFINE n == Len(s)
           p == Dims(1, n)
           inv == [d \in DOMAIN p |-> CHOOSE k \in DOMAIN p : p[k] = d]
<1>1. s \in Seq(Nat) /\ n \in Nat
  BY SizesAre
<1>2. DOMAIN p = 1 .. n /\ \A k \in 1 .. n : p[k] = k
  <2> HIDE DEF p
  <2>1. DOMAIN p = 1 .. n /\ \A k \in 1 .. n : p[k] = 1 + k - 1
    BY <1>1, DimsAre DEF p
  <2> QED
    BY <2>1
<1>3. inv = p
  BY <1>1, InverseOfDims
<1>4. Select(T.sizes, p) = s
  BY <1>1, <1>2, SelectAll
<1>5. Permute(T, p) = [sizes |-> Select(T.sizes, p), at |-> [i \in Indices(Select(T.sizes, p)) |-> T.at[Select(i, inv)]]]
  BY DEF Permute, Tensor
<1> HIDE DEF p, inv
<1>6. Permute(T, p) = [sizes |-> s, at |-> [i \in Indices(s) |-> T.at[Select(i, p)]]]
  BY <1>3, <1>4, <1>5
<1>7. ASSUME NEW i, IsIndex(i, s) PROVE Permute(T, p).at[i] = T.at[i]
  <2>1. i \in Indices(s)
    BY <1>1, <1>7, IndicesAre
  <2>2. Select(i, p) = i
    BY <1>2, <1>7, SelectAll DEF IsIndex
  <2> QED
    BY <1>6, <2>1, <2>2
<1> QED
  BY <1>6, <1>7 DEF p, n

\* Indices of a vector
LEMMA Vector ==
  ASSUME NEW N \in Nat \ {0}, NEW q \in Nat, q < N
  PROVE  <<N>> \in Sizes /\ IsIndex(<<q>>, <<N>>) /\ IndexAt(q, <<N>>) = <<q>>
<1>1. <<N>> \in Sizes
  BY DEF Sizes
<1>2. <<q>> \in Seq(Nat) /\ Len(<<q>>) = 1 /\ <<q>>[1] = q /\ Len(<<N>>) = 1 /\ <<N>>[1] = N
  OBVIOUS
<1>3. IsIndex(<<q>>, <<N>>)
  BY <1>2 DEF IsIndex
<1>4. Position(<<q>>, <<N>>) = q
  BY PositionOne
<1> QED
  BY <1>1, <1>3, <1>4, IndexAtPosition

\* The indices of a vector of any length, none included
LEMMA VectorIndices ==
  ASSUME NEW N \in Nat, NEW i
  PROVE  i \in Indices(<<N>>) <=> \E q \in 0 .. N - 1 : i = <<q>>
<1>1. <<N>> \in Seq(Nat) /\ Len(<<N>>) = 1 /\ <<N>>[1] = N
  OBVIOUS
<1>2. ASSUME NEW q \in 0 .. N - 1 PROVE <<q>> \in Indices(<<N>>)
  <2>1. q \in Nat /\ q < N
    OBVIOUS
  <2>2. <<q>> \in Seq(Nat) /\ Len(<<q>>) = 1 /\ <<q>>[1] = q
    BY <2>1
  <2>3. IsIndex(<<q>>, <<N>>)
    BY <1>1, <2>1, <2>2 DEF IsIndex
  <2> QED
    BY <1>1, <2>3, IndicesAre
<1>3. ASSUME i \in Indices(<<N>>) PROVE \E q \in 0 .. N - 1 : i = <<q>>
  <2>1. i \in Seq(Nat) /\ Len(i) = 1 /\ i[1] < N
    <3>1. IsIndex(i, <<N>>)
      BY <1>1, <1>3, IndicesAre
    <3>2. i \in Seq(Nat) /\ Len(i) = Len(<<N>>) /\ \A k \in 1 .. Len(<<N>>) : i[k] < <<N>>[k]
      BY <3>1 DEF IsIndex
    <3>3. 1 \in 1 .. 1
      OBVIOUS
    <3> QED
      BY <1>1, <3>2, <3>3
  <2>2. i[1] \in Nat /\ i[1] \in 0 .. N - 1
    <3>1. 1 \in 1 .. Len(i)
      BY <2>1
    <3>2. i[1] \in Nat
      BY <2>1, <3>1, LenProperties
    <3> QED
      BY <2>1, <3>2
  <2> DEFINE w == <<i[1]>>
  <2>3. w \in Seq(Nat) /\ Len(w) = 1 /\ w[1] = i[1]
    BY <2>2
  <2> HIDE DEF w
  <2>4. i = w
    <3>1. \A k \in 1 .. Len(i) : i[k] = w[k]
      BY <2>1, <2>3
    <3> QED
      BY <2>1, <2>3, <3>1, SeqEqual
  <2> QED
    BY <2>2, <2>4 DEF w
<1> QED
  BY <1>2, <1>3

\* The shape of a variable, intermediate and base dimensions together
LEMMA ElementSizes ==
  ASSUME NEW a \in Sizes, NEW b \in Sizes
  PROVE  /\ a \o b \in Sizes /\ Len(a \o b) = Len(a) + Len(b)
         /\ NumEl(a) * NumEl(b) \in Nat \ {0} /\ NumEl(a \o b) = NumEl(a) * NumEl(b)
<1>1. a \in Seq(Nat) /\ b \in Seq(Nat)
  BY SizesAre
<1>2. a \o b \in Seq(Nat \ {0}) /\ Len(a \o b) = Len(a) + Len(b)
  BY ConcatIs DEF Sizes
<1>3. NumEl(a \o b) = NumEl(a) * NumEl(b)
  BY <1>1, NumElConcat
<1>4. a \o b \in Sizes
  BY <1>2 DEF Sizes
<1> QED
  BY <1>2, <1>3, <1>4, NumElPositive

\* to_assembly of a variable: its entries in row major order
LEMMA ToAssemblyOne ==
  ASSUME NEW a \in Sizes, NEW b \in Sizes, NEW T, T.sizes = a \o b,
         NEW p \in Nat, p < NumEl(a) * NumEl(b)
  PROVE  ToAssembly(T, <<a>>, <<b>>).at[<<p>>] = T.at[IndexAt(p, a \o b)]
<1> DEFINE s == a \o b
           N == NumEl(a) * NumEl(b)
           P == Permute(T, Dims(1, Len(s)))
<1>1. s \in Sizes /\ Len(s) = Len(a) + Len(b) /\ N \in Nat \ {0} /\ NumEl(s) = N
  BY ElementSizes
<1>2. P.sizes = s /\ \A i : IsIndex(i, s) => P.at[i] = T.at[i]
  BY <1>1, PermuteNothing
<1>3. [k \in DOMAIN <<a>> |-> NumEl(<<a>>[k]) * NumEl(<<b>>[k])] = <<N>>
  OBVIOUS
<1>4. Interleaved(<<a>>, <<b>>) = Dims(1, Len(s))
  BY <1>1, OneInterleaved
<1>5. ToAssembly(T, <<a>>, <<b>>) = Reshape(P, <<N>>)
  BY <1>3, <1>4 DEF ToAssembly
<1> HIDE DEF P, N, s
<1>6. Reshape(P, <<N>>) = [sizes |-> <<N>>, at |-> [i \in Indices(<<N>>) |-> P.at[IndexAt(Position(i, <<N>>), P.sizes)]]]
  BY DEF Reshape, Tensor
<1>7. p < N
  BY DEF N
<1>8. <<p>> \in Indices(<<N>>)
  <2>1. p \in 0 .. N - 1
    BY <1>1, <1>7
  <2> QED
    BY <1>1, <2>1, VectorIndices
<1>9. Position(<<p>>, <<N>>) = p
  BY <1>1, PositionOne
<1>10. IsIndex(IndexAt(p, s), s)
  BY <1>1, IndexAtIs
<1> QED
  BY <1>2, <1>5, <1>6, <1>8, <1>9, <1>10 DEF s

\* from_assembly of a variable: back from the row major order
LEMMA FromAssemblyOne ==
  ASSUME NEW a \in Sizes, NEW b \in Sizes, NEW T, T.sizes = <<NumEl(a) * NumEl(b)>>,
         NEW j, IsIndex(j, a \o b)
  PROVE  FromAssembly(T, <<a>>, <<b>>).at[j] = T.at[<<Position(j, a \o b)>>]
<1> DEFINE s == a \o b
           N == NumEl(a) * NumEl(b)
           p == Dims(1, Len(s))
           inv == [d \in DOMAIN p |-> CHOOSE k \in DOMAIN p : p[k] = d]
           R == Reshape(T, s)
<1>1. s \in Sizes /\ Len(s) = Len(a) + Len(b) /\ N \in Nat \ {0} /\ NumEl(s) = N /\ Len(s) \in Nat /\ s \in Seq(Nat)
  BY ElementSizes, SizesAre
<1>2. Interleaved(<<a>>, <<b>>) = p
  BY <1>1, OneInterleaved
<1>3. Flatten(<<a>>) = a /\ Flatten(<<b>>) = b
  BY SizesAre, FlattenOne
<1>4. inv = p
  BY <1>1, InverseOfDims
<1>5. DOMAIN p = 1 .. Len(s) /\ \A k \in 1 .. Len(s) : p[k] = k
  <2> HIDE DEF p, s
  <2>1. DOMAIN p = 1 .. Len(s) /\ \A k \in 1 .. Len(s) : p[k] = 1 + k - 1
    BY <1>1, DimsAre DEF p
  <2> QED
    BY <2>1
<1>6. Select(s, p) = s
  BY <1>1, <1>5, SelectAll
<1>7. FromAssembly(T, <<a>>, <<b>>) = Permute(R, p)
  <2> DEFINE r == Interleaved(<<a>>, <<b>>)
             Back(q) == [d \in DOMAIN q |-> CHOOSE k \in DOMAIN q : q[k] = d]
  <2>1. FromAssembly(T, <<a>>, <<b>>) = Permute(Reshape(T, Select(Flatten(<<a>>) \o Flatten(<<b>>), r)), Back(r))
    BY DEF FromAssembly
  <2>2. r = p
    BY <1>2
  <2>3. Flatten(<<a>>) \o Flatten(<<b>>) = s
    BY <1>3
  <2>4. Back(p) = p
    BY <1>4
  <2> HIDE DEF r, s, p, Back
  <2>5. Reshape(T, Select(Flatten(<<a>>) \o Flatten(<<b>>), r)) = Reshape(T, s)
    BY <1>6, <2>2, <2>3
  <2> QED
    BY <2>1, <2>2, <2>4, <2>5
<1> HIDE DEF s, N, p, inv
<1>8. R = [sizes |-> s, at |-> [i \in Indices(s) |-> T.at[IndexAt(Position(i, s), T.sizes)]]]
  BY DEF Reshape, Tensor
<1> HIDE DEF R
<1>9. R.sizes = s
  BY <1>8
<1>10. IsIndex(j, s)
  BY DEF s
<1>11. Permute(R, p).at[j] = R.at[j]
  BY <1>1, <1>9, <1>10, PermuteNothing DEF p
<1>12. j \in Indices(s)
  BY <1>1, <1>10, IndicesAre
<1>13. Position(j, s) \in Nat /\ Position(j, s) < N
  BY <1>1, <1>10, IndexAtPosition
<1>14. IndexAt(Position(j, s), <<N>>) = <<Position(j, s)>>
  BY <1>1, <1>13, Vector
<1>15. T.sizes = <<N>>
  BY DEF N
<1>16. R.at[j] = T.at[<<Position(j, s)>>]
  BY <1>8, <1>12, <1>14, <1>15
<1> QED
  BY <1>7, <1>11, <1>16 DEF s

-----------------------------------------------------------------------------
(* The guess *)

\* Size and Offset with the case as a parameter, for what an earlier state has computed
SizeFor(c, v) == NumEl(c.intmd[v]) * NumEl(c.base[v])

OffsetFor(c, axis, k) == FoldLeft(LAMBDA n, v : n + SizeFor(c, v), 0, SubSeq(axis, 1, k - 1))

\* The guess of an unknown in one of the cases: its part of the solution
PartFor(c, x) ==
  LET axis == Axis(Unknown)
      solution == Tensor(<<OffsetFor(c, axis, Len(axis) + 1)>>, LAMBDA i : {i[1]})
      o == OffsetFor(c, axis, CHOOSE k \in DOMAIN axis : axis[k] = x)
  IN  Tensor(<<SizeFor(c, x)>>, LAMBDA i : solution.at[<<o + i[1]>>])

GuessFor(c, x) == FromAssembly(PartFor(c, x), <<c.intmd[x]>>, <<c.base[x]>>)

\* Shapes are those of a case, and unknowns that have a guess have their part.
GInv ==
  /\ case \in Cases
  /\ \A x \in Unknown : guess[x] # Undef => guess[x] = GuessFor(case, x)

\* The size of a variable and the offsets of an axis in the case at hand
LEMMA SizeIs == \A v : Size(v) = SizeFor(case, v)
BY DEF Size, SizeFor

\* The offsets likewise
LEMMA OffsetIsFor == \A axis, k : Offset(axis, k) = OffsetFor(case, axis, k)
BY DEF Offset, OffsetFor, Size, SizeFor

\* The axis of the unknowns has each of them once.
LEMMA UnknownAxis ==
  /\ Unknown \in SUBSET Inputs
  /\ Enumerates(Axis(Unknown), Unknown)
  /\ Range(Axis(Unknown)) = Unknown
<1>1. Unknown \in SUBSET Inputs
  BY DEF Unknown
<1>2. Enumerates(Axis(Unknown), Unknown)
  BY <1>1, AxisEnumerates
<1> DEFINE axis == Axis(Unknown)
<1> HIDE DEF axis
<1>3. axis \in Seq(Unknown) /\ DOMAIN axis = 1 .. Len(axis) /\ \A v \in Unknown : \E i \in 1 .. Len(axis) : axis[i] = v
  BY <1>2, LenProperties DEF Enumerates, axis
<1>4. Range(axis) = Unknown
  <2>1. \A k \in 1 .. Len(axis) : axis[k] \in Unknown
    BY <1>3, LenProperties
  <2> QED
    BY <1>3, <2>1 DEF Range
<1> QED
  BY <1>1, <1>2, <1>4 DEF axis

\* No guess has been set before the first one.
LEMMA GInitial == Init => GInv
BY DEF Init, GInv

\* What an unknown gets of the solution vector is its part.
LEMMA SplitIs ==
  ASSUME NEW x \in Unknown
  PROVE  LET axis == Axis(Unknown)
             solution == Tensor(<<Offset(axis, Len(axis) + 1)>>, LAMBDA i : {i[1]})
         IN  SplitVector(axis, solution)[x] = PartFor(case, x)
<1> DEFINE axis == Axis(Unknown)
           N == Offset(axis, Len(axis) + 1)
           sol == Tensor(<<N>>, LAMBDA i : {i[1]})
           at(v) == Offset(axis, CHOOSE k \in DOMAIN axis : axis[k] = v)
           Part(n, s, o) == Tensor(<<n>>, LAMBDA i : s.at[<<o + i[1]>>])
           Sol(n) == Tensor(<<n>>, LAMBDA i : {i[1]})
<1>1. Range(axis) = Unknown
  BY UnknownAxis
<1>2. SplitVector(axis, sol) = [v \in Range(axis) |-> Part(Size(v), sol, at(v))]
  BY DEF SplitVector
<1>3. SplitVector(axis, sol)[x] = Part(Size(x), sol, at(x))
  <2> HIDE DEF axis, Part, sol, at
  <2> QED
    BY <1>1, <1>2
<1>4. PartFor(case, x) =
        Part(SizeFor(case, x), Sol(OffsetFor(case, axis, Len(axis) + 1)),
             OffsetFor(case, axis, CHOOSE k \in DOMAIN axis : axis[k] = x))
  BY DEF PartFor
<1>5. Size(x) = SizeFor(case, x)
  BY SizeIs
<1>6. sol = Sol(N)
  OBVIOUS
<1> DEFINE kx == CHOOSE k \in DOMAIN axis : axis[k] = x
<1>7. at(x) = Offset(axis, kx)
  OBVIOUS
<1> HIDE DEF axis, Part, Sol, sol, at, kx
<1>8. Offset(axis, kx) = OffsetFor(case, axis, kx) /\ N = OffsetFor(case, axis, Len(axis) + 1)
  BY OffsetIsFor
<1>9. PartFor(case, x) = Part(SizeFor(case, x), Sol(OffsetFor(case, axis, Len(axis) + 1)), OffsetFor(case, axis, kx))
  BY <1>4 DEF kx
<1> HIDE DEF N
<1>10. SplitVector(axis, sol)[x] = PartFor(case, x)
  BY <1>3, <1>5, <1>6, <1>7, <1>8, <1>9
<1> QED
  BY <1>10 DEF axis, sol, N

\* set_guess gives each unknown its part, and nothing else touches guesses or shapes.
LEMMA GStep == GInv /\ [Next]_vars => GInv'
<1>1. SUFFICES ASSUME GInv, [Next]_vars PROVE GInv'
  OBVIOUS
<1>2. CASE case' = case /\ guess' = guess
  BY <1>1, <1>2 DEF GInv
<1>3. CASE SetGuess
  <2>1. case' = case
    BY <1>3 DEF SetGuess
  <2> DEFINE axis == Axis(Unknown)
             sol == Tensor(<<Offset(axis, Len(axis) + 1)>>, LAMBDA i : {i[1]})
             split == SplitVector(axis, sol)
  <2>2. guess' = [x \in Unknown |-> FromAssembly(split[x], <<case.intmd[x]>>, <<case.base[x]>>)]
    BY <1>3 DEF SetGuess
  <2>3. \A x \in Unknown : split[x] = PartFor(case, x)
    BY SplitIs
  <2> HIDE DEF split, sol, axis
  <2>4. ASSUME NEW x \in Unknown PROVE guess'[x] = GuessFor(case, x)
    BY <2>2, <2>3 DEF GuessFor
  <2> QED
    BY <1>1, <2>1, <2>4 DEF GInv
<1>4. CASE UNCHANGED vars
  BY <1>2, <1>4 DEF vars
<1>5. ASSUME NEW d \in Derivs, NEW form \in Forms, Differentiate(d, form) PROVE case' = case /\ guess' = guess
  BY <1>5 DEF Differentiate
<1>6. ASSUME NEW d \in Derivs, PassStack(d) PROVE case' = case /\ guess' = guess
  BY <1>6 DEF PassStack
<1>7. ASSUME NEW xs \in {Inputs, Unknown}, Assemble(xs) PROVE case' = case /\ guess' = guess
  BY <1>7 DEF Assemble
<1>8. SetDerivatives => case' = case /\ guess' = guess
  BY DEF SetDerivatives
<1>9. Clear => case' = case /\ guess' = guess
  BY DEF Clear
<1> QED
  BY <1>1, <1>2, <1>3, <1>4, <1>5, <1>6, <1>7, <1>8, <1>9 DEF Next

\* The shapes of a variable, from AssemblyAssumption
LEMMA ShapesAre ==
  ASSUME NEW v \in Inputs, case \in Cases
  PROVE  /\ case.intmd[v] \in Sizes /\ case.base[v] \in Sizes
         /\ Size(v) \in Nat \ {0}
<1>1. case.intmd[v] \in Sizes /\ case.base[v] \in Sizes
  BY AssemblyAssumption DEF Sizes
<1> QED
  BY <1>1, ElementSizes DEF Size

\* An index, cut in two and put together
LEMMA Halves ==
  ASSUME NEW i \in Seq(Nat), NEW m \in Nat, m <= Len(i)
  PROVE  SubSeq(i, 1, m) \o SubSeq(i, m + 1, Len(i)) = i
<1> DEFINE n == Len(i)
           s == SubSeq(i, 1, m)
           t == SubSeq(i, m + 1, n)
           w == s \o t
<1>1. n \in Nat /\ \A k \in 1 .. n : i[k] \in Nat
  BY LenProperties
<1> HIDE DEF n
<1>2. s \in Seq(Nat) /\ Len(s) = m /\ \A k \in 1 .. m : s[k] = i[k]
  <2>1. 1 \in Int /\ m \in Int /\ \A x \in 1 .. m : i[x] \in Nat
    BY <1>1 DEF n
  <2>2. /\ s \in Seq(Nat) /\ Len(s) = IF 1 <= m THEN m - 1 + 1 ELSE 0
        /\ \A x \in 1 .. m - 1 + 1 : s[x] = i[1 + x - 1]
    BY <2>1, SubSeqProperties
  <2>3. m - 1 + 1 = m /\ (~(1 <= m) => m = 0) /\ \A x \in 1 .. m : 1 + x - 1 = x
    OBVIOUS
  <2> HIDE DEF s
  <2> QED
    BY <2>2, <2>3
<1>3. t \in Seq(Nat) /\ Len(t) = n - m /\ \A k \in 1 .. n - m : t[k] = i[m + k]
  <2>1. m + 1 \in Int /\ n \in Int /\ \A x \in m + 1 .. n : i[x] \in Nat
    BY <1>1
  <2>2. /\ t \in Seq(Nat) /\ Len(t) = IF m + 1 <= n THEN n - (m + 1) + 1 ELSE 0
        /\ \A x \in 1 .. n - (m + 1) + 1 : t[x] = i[(m + 1) + x - 1]
    BY <2>1, SubSeqProperties
  <2>3. n - (m + 1) + 1 = n - m /\ (~(m + 1 <= n) => n - m = 0) /\ \A x \in 1 .. n - m : (m + 1) + x - 1 = m + x
    BY <1>1 DEF n
  <2> HIDE DEF t
  <2> QED
    BY <2>2, <2>3
<1> HIDE DEF s, t
<1>4. /\ w \in Seq(Nat) /\ Len(w) = m + (n - m)
      /\ \A k \in 1 .. m : w[k] = s[k]
      /\ \A k \in 1 .. n - m : w[m + k] = t[k]
  <2>1. /\ s \o t \in Seq(Nat) /\ Len(s \o t) = Len(s) + Len(t)
        /\ \A k \in 1 .. Len(s) : (s \o t)[k] = s[k]
        /\ \A k \in 1 .. Len(t) : (s \o t)[Len(s) + k] = t[k]
    <3>1. s \in Seq(Nat) /\ t \in Seq(Nat)
      BY <1>2, <1>3
    <3> QED
      BY <3>1, ConcatIs
  <2> QED
    BY <1>2, <1>3, <2>1
<1> HIDE DEF w
<1>5. ASSUME NEW k \in 1 .. n PROVE w[k] = i[k]
  <2>1. CASE k <= m
    <3>1. k \in 1 .. m
      BY <2>1
    <3> QED
      BY <1>2, <1>4, <3>1
  <2>2. CASE ~(k <= m)
    <3>1. k - m \in 1 .. n - m /\ m + (k - m) = k
      BY <1>1, <2>2
    <3>2. w[m + (k - m)] = t[k - m] /\ t[k - m] = i[m + (k - m)]
      BY <1>3, <1>4, <3>1
    <3> QED
      BY <3>1, <3>2
  <2> QED
    BY <2>1, <2>2
<1>6. Len(w) = n /\ n = Len(i)
  BY <1>1, <1>4 DEF n
<1>7. w = i
  BY <1>4, <1>5, <1>6, SeqEqual
<1> QED
  BY <1>7 DEF w, s, t, n

\* The elements of variable v as a tensor
ElementsOf(v) ==
  Tensor(case.intmd[v] \o case.base[v], LAMBDA i :
    [var |-> v, intmd |-> SubSeq(i, 1, Len(case.intmd[v])),
     base |-> SubSeq(i, Len(case.intmd[v]) + 1, Len(i))])

\* What is at position p of variable v in assembly format
LEMMA ElementAt ==
  ASSUME NEW v \in Inputs, case \in Cases, NEW p \in Nat, p < Size(v)
  PROVE  LET e == ToAssembly(ElementsOf(v), <<case.intmd[v]>>, <<case.base[v]>>).at[<<p>>]
         IN  e.var = v /\ e.intmd \o e.base = IndexAt(p, case.intmd[v] \o case.base[v])
<1> DEFINE a == case.intmd[v]
           b == case.base[v]
           s == a \o b
           j == IndexAt(p, s)
           T == ElementsOf(v)
           e == ToAssembly(T, <<a>>, <<b>>).at[<<p>>]
<1>1. a \in Sizes /\ b \in Sizes
  BY ShapesAre
<1>2. s \in Sizes /\ Len(s) = Len(a) + Len(b) /\ Len(a) \in Nat /\ Len(b) \in Nat /\ s \in Seq(Nat)
  BY <1>1, ElementSizes, SizesAre
<1>3. p < NumEl(a) * NumEl(b)
  BY DEF Size
<1>4. T = [sizes |-> s, at |-> [i \in Indices(s) |->
             [var |-> v, intmd |-> SubSeq(i, 1, Len(a)), base |-> SubSeq(i, Len(a) + 1, Len(i))]]]
  BY DEF ElementsOf, Tensor
<1> HIDE DEF T, s
<1>5. T.sizes = s
  BY <1>4
<1>6. e = T.at[j]
  <2> HIDE DEF a, b, j
  <2>1. T.sizes = a \o b
    BY <1>5 DEF s
  <2>2. ToAssembly(T, <<a>>, <<b>>).at[<<p>>] = T.at[IndexAt(p, a \o b)]
    BY <1>1, <1>3, <2>1, ToAssemblyOne
  <2> QED
    BY <2>2 DEF j, s
<1>7. IsIndex(j, s)
  BY <1>2, IndexAtIs
<1>8. j \in Indices(s)
  BY <1>2, <1>7, IndicesAre
<1> HIDE DEF j, e, a, b
<1>9. e = [var |-> v, intmd |-> SubSeq(j, 1, Len(a)), base |-> SubSeq(j, Len(a) + 1, Len(j))]
  BY <1>4, <1>6, <1>8
<1>10. SubSeq(j, 1, Len(a)) \o SubSeq(j, Len(a) + 1, Len(j)) = j
  <2>1. j \in Seq(Nat) /\ Len(j) = Len(s)
    BY <1>7 DEF IsIndex
  <2>2. Len(a) <= Len(j)
    BY <1>2, <2>1
  <2> QED
    BY <1>2, <2>1, <2>2, Halves
<1>11. e.var = v /\ e.intmd = SubSeq(j, 1, Len(a)) /\ e.base = SubSeq(j, Len(a) + 1, Len(j))
  BY <1>9
<1>12. e.var = v /\ e.intmd \o e.base = j
  BY <1>10, <1>11
<1> QED
  BY <1>12 DEF e, j, T, s, a, b

\* Position p of unknown x is entry q of the vector of the unknowns.
IsEntry(q, x, p) ==
  LET axis == Axis(Unknown)
      N == Offset(axis, Len(axis) + 1)
  IN  /\ q \in Nat /\ N \in Nat /\ q < N
      /\ \E k \in 1 .. Len(axis) : axis[k] = x /\ q = Offset(axis, k) + p

\* The guess of an element is what the solution has at its offset and position.
LEMMA GuessAt ==
  ASSUME NEW x \in Unknown, case \in Cases, NEW p \in Nat, p < Size(x), NEW q, IsEntry(q, x, p)
  PROVE  GuessFor(case, x).at[IndexAt(p, case.intmd[x] \o case.base[x])] = {q}
<1> DEFINE axis == Axis(Unknown)
           a == case.intmd[x]
           b == case.base[x]
           s == a \o b
           j == IndexAt(p, s)
           N == Offset(axis, Len(axis) + 1)
           P == PartFor(case, x)
           n == Size(x)
<1>0. PICK k \in 1 .. Len(axis) : axis[k] = x /\ q = Offset(axis, k) + p
  BY DEF IsEntry
<1> DEFINE o == Offset(axis, k)
<1>1. x \in Inputs
  BY UnknownAxis
<1>2. a \in Sizes /\ b \in Sizes /\ n \in Nat \ {0} /\ n = NumEl(a) * NumEl(b)
  BY <1>1, ShapesAre DEF Size
<1>3. s \in Sizes /\ NumEl(s) = n
  BY <1>2, ElementSizes
<1>4. IsIndex(j, s) /\ Position(j, s) = p
  BY <1>2, <1>3, IndexAtIs, PositionIndexAt
<1>5. (CHOOSE l \in DOMAIN axis : axis[l] = x) = k
  <2>1. Enumerates(axis, Unknown)
    BY UnknownAxis
  <2> HIDE DEF axis
  <2>2. DOMAIN axis = 1 .. Len(axis) /\ \A i, l \in 1 .. Len(axis) : axis[i] = axis[l] => i = l
    BY <2>1, LenProperties DEF Enumerates
  <2>3. k \in DOMAIN axis /\ axis[k] = x
    BY <1>0, <2>2
  <2> QED
    BY <2>2, <2>3
<1> DEFINE Sol(m) == Tensor(<<m>>, LAMBDA i : {i[1]})
           Part(m, S, c) == Tensor(<<m>>, LAMBDA i : S.at[<<c + i[1]>>])
<1>6. P = Part(SizeFor(case, x), Sol(OffsetFor(case, axis, Len(axis) + 1)),
             OffsetFor(case, axis, CHOOSE l \in DOMAIN axis : axis[l] = x))
  BY DEF PartFor
<1>7. Sol(N) = [sizes |-> <<N>>, at |-> [i \in Indices(<<N>>) |-> {i[1]}]]
  BY DEF Tensor
<1>8. Part(n, Sol(N), o) = [sizes |-> <<n>>, at |-> [i \in Indices(<<n>>) |-> Sol(N).at[<<o + i[1]>>]]]
  BY DEF Tensor
<1>9. P = Part(n, Sol(N), o)
  <2> HIDE DEF Sol, Part, axis
  <2>1. n = SizeFor(case, x) /\ N = OffsetFor(case, axis, Len(axis) + 1) /\ o = OffsetFor(case, axis, k)
    BY SizeIs, OffsetIsFor
  <2> QED
    BY <1>5, <1>6, <2>1
<1>10. q \in Nat /\ q < N /\ N \in Nat /\ q = o + p
  BY <1>0 DEF IsEntry
<1>11. p < n
  OBVIOUS
<1>12. GuessFor(case, x) = FromAssembly(P, <<a>>, <<b>>)
  BY DEF GuessFor
<1> HIDE DEF Sol, Part, P, n, N, o
<1>13. <<q>> \in Indices(<<N>>)
  <2>1. q \in 0 .. N - 1
    BY <1>10
  <2> QED
    BY <1>10, <2>1, VectorIndices
<1>14. <<p>> \in Indices(<<n>>)
  <2>1. p \in 0 .. n - 1
    BY <1>2, <1>11
  <2> QED
    BY <1>2, <2>1, VectorIndices
<1>15. Sol(N).at[<<q>>] = {q}
  BY <1>7, <1>13
<1>16. P.at[<<p>>] = Sol(N).at[<<o + p>>]
  BY <1>8, <1>9, <1>14
<1>17. P.sizes = <<n>>
  BY <1>8, <1>9
<1>18. FromAssembly(P, <<a>>, <<b>>).at[j] = P.at[<<Position(j, s)>>]
  <2> HIDE DEF a, b, j
  <2>1. P.sizes = <<NumEl(a) * NumEl(b)>> /\ IsIndex(j, a \o b)
    BY <1>2, <1>4, <1>17
  <2> QED
    BY <1>2, <2>1, FromAssemblyOne
<1> QED
  BY <1>4, <1>10, <1>12, <1>15, <1>16, <1>18

\* What is at each entry of the assembled vector of the unknowns
LEMMA ElementVectorIs ==
  ASSUME case \in Cases
  PROVE  LET V == ElementVector(Axis(Unknown))
         IN  \A i \in DOMAIN V.at :
               \E x \in Unknown : \E p \in 0 .. Size(x) - 1 :
                 /\ IsEntry(i[1], x, p)
                 /\ V.at[i] = ToAssembly(ElementsOf(x), <<case.intmd[x]>>, <<case.base[x]>>).at[<<p>>]
<1> DEFINE axis == Axis(Unknown)
           V == ElementVector(axis)
           slots == Slots(axis)
           N == Len(slots)
           Entries(v) == ToAssembly(ElementsOf(v), <<case.intmd[v]>>, <<case.base[v]>>)
           vals == [v \in Range(axis) |-> Entries(v)]
<1>1. V = AssembleVector(axis, vals)
  BY DEF ElementVector, ElementsOf
<1>2. AssembleVector(axis, vals) =
        [sizes |-> <<N>>, at |-> [i \in Indices(<<N>>) |-> vals[slots[i[1] + 1].var].at[<<slots[i[1] + 1].at>>]]]
  BY DEF AssembleVector, Tensor
<1>3. Range(axis) = Unknown /\ axis \in Seq(Unknown)
  BY UnknownAxis DEF Enumerates
<1>4. \A v \in Unknown : Size(v) \in Nat
  BY UnknownAxis, ShapesAre
<1>5. \A v \in Unknown : vals[v] = Entries(v)
  BY <1>3
<1> HIDE DEF vals, Entries, axis
<1>6. /\ N \in Nat /\ N = Offset(axis, Len(axis) + 1)
      /\ \A k \in 1 .. Len(axis) : Offset(axis, k) \in Nat
      /\ \A q \in 1 .. N : \E k \in 1 .. Len(axis) : \E p \in 0 .. Size(axis[k]) - 1 :
           q = Offset(axis, k) + p + 1 /\ slots[q] = [var |-> axis[k], at |-> p]
  BY <1>3, <1>4, SlotsAre
<1> HIDE DEF slots, N, V
<1>7. DOMAIN V.at = Indices(<<N>>)
  BY <1>1, <1>2
<1>8. ASSUME NEW i \in DOMAIN V.at
      PROVE  \E x \in Unknown : \E p \in 0 .. Size(x) - 1 : IsEntry(i[1], x, p) /\ V.at[i] = Entries(x).at[<<p>>]
  <2>1. PICK q \in 0 .. N - 1 : i = <<q>>
    BY <1>6, <1>7, <1>8, VectorIndices
  <2>2. i[1] = q /\ q + 1 \in 1 .. N /\ q \in Nat /\ q < N
    BY <1>6, <2>1
  <2>3. PICK k \in 1 .. Len(axis) : \E p \in 0 .. Size(axis[k]) - 1 :
          q + 1 = Offset(axis, k) + p + 1 /\ slots[q + 1] = [var |-> axis[k], at |-> p]
    BY <1>6, <2>2
  <2>4. PICK p \in 0 .. Size(axis[k]) - 1 : q + 1 = Offset(axis, k) + p + 1 /\ slots[q + 1] = [var |-> axis[k], at |-> p]
    BY <2>3
  <2>5. V.at[i] = vals[slots[q + 1].var].at[<<slots[q + 1].at>>]
    BY <1>1, <1>2, <1>7, <2>2
  <2>6. slots[q + 1].var = axis[k] /\ slots[q + 1].at = p /\ axis[k] \in Unknown
    BY <1>3, <2>4, LenProperties
  <2>7. V.at[i] = Entries(axis[k]).at[<<p>>]
    BY <1>5, <2>5, <2>6
  <2>8. q = Offset(axis, k) + p
    <3>1. axis[k] \in Unknown /\ Size(axis[k]) \in Nat /\ Offset(axis, k) \in Nat /\ p \in Nat
      BY <1>4, <1>6, <2>6
    <3> QED
      BY <2>2, <2>4, <3>1
  <2>9. IsEntry(q, axis[k], p)
    BY <1>6, <2>2, <2>8 DEF IsEntry, axis
  <2> QED
    BY <2>2, <2>6, <2>7, <2>9
<1> QED
  BY <1>8 DEF V, axis, Entries

\* The part of each unknown is what the columns are for.
LEMMA GInvGuess == GInv => GuessInColumns
<1> SUFFICES ASSUME GInv PROVE GuessInColumns
  OBVIOUS
<1> DEFINE V == ElementVector(Axis(Unknown))
<1>1. case \in Cases /\ \A x \in Unknown : guess[x] # Undef => guess[x] = GuessFor(case, x)
  BY DEF GInv
<1>2. ASSUME NEW i \in DOMAIN V.at, guess[V.at[i].var] # Undef
      PROVE  guess[V.at[i].var].at[V.at[i].intmd \o V.at[i].base] = {i[1]}
  <2> DEFINE q == i[1]
             e == V.at[i]
  <2>1. PICK x \in Unknown : \E p \in 0 .. Size(x) - 1 :
          /\ IsEntry(q, x, p)
          /\ e = ToAssembly(ElementsOf(x), <<case.intmd[x]>>, <<case.base[x]>>).at[<<p>>]
    BY <1>1, <1>2, ElementVectorIs
  <2>2. PICK p \in 0 .. Size(x) - 1 :
          /\ IsEntry(q, x, p)
          /\ e = ToAssembly(ElementsOf(x), <<case.intmd[x]>>, <<case.base[x]>>).at[<<p>>]
    BY <2>1
  <2> HIDE DEF V
  <2>3. x \in Inputs /\ Size(x) \in Nat
    BY <1>1, UnknownAxis, ShapesAre
  <2>4. p \in Nat /\ p < Size(x)
    BY <2>3
  <2>5. e.var = x /\ e.intmd \o e.base = IndexAt(p, case.intmd[x] \o case.base[x])
    BY <1>1, <2>2, <2>3, <2>4, ElementAt
  <2>6. GuessFor(case, x).at[IndexAt(p, case.intmd[x] \o case.base[x])] = {q}
    <3> HIDE DEF q
    <3> QED
      BY <1>1, <2>2, <2>4, GuessAt
  <2>7. guess[x] = GuessFor(case, x)
    BY <1>1, <1>2, <2>5
  <2> QED
    BY <2>5, <2>6, <2>7
<1> QED
  BY <1>2 DEF GuessInColumns

\* set_guess gives every element of an unknown the entry of the solution vector that
\* its column of the Jacobian is for, whatever the names and shapes are.
THEOREM GuessOfItsColumn == Spec => []GuessInColumns
<1>1. Spec => []GInv
  BY GInitial, GStep, PTL DEF Spec
<1> QED
  BY <1>1, GInvGuess, PTL

=============================================================================
