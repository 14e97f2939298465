----------------------- MODULE ModelConstructionProofs -----------------------
(***************************************************************************)
(* Theorems about ModelConstruction, for any input files, any order of     *)
(* requests and clearings, and an allocator that may use the memory of     *)
(* destroyed objects again.                                                *)
(***************************************************************************)
EXTENDS ModelConstruction, TLAPS, FiniteSetTheorems, SequenceTheorems, WellFoundedInduction

-----------------------------------------------------------------------------
(* Sequences *)

Sequence(s) == s \in Seq(Range(s))

LEMMA IsSequence ==
  ASSUME NEW S, NEW s \in Seq(S)
  PROVE  Sequence(s) /\ Range(s) \subseteq S
  BY SeqOfRange, RangeOfSeq DEF Sequence

LEMMA SequenceIs ==
  ASSUME NEW s, Sequence(s)
  PROVE  /\ Len(s) \in Nat /\ DOMAIN s = 1 .. Len(s)
         /\ s # <<>> <=> Len(s) # 0
         /\ Range(s) = {s[i] : i \in 1 .. Len(s)}
  <1>1. Len(s) \in Nat /\ DOMAIN s = 1 .. Len(s)
    BY LenProperties DEF Sequence
  <1>2. s # <<>> <=> Len(s) # 0
    BY EmptySeq DEF Sequence
  <1> QED
    BY <1>1, <1>2 DEF Range

LEMMA EmptyIs == Sequence(<<>>) /\ Len(<<>>) = 0 /\ DOMAIN <<>> = {} /\ Range(<<>>) = {}
  <1>1. Sequence(<<>>)
    BY EmptySeq, IsSequence
  <1>2. Len(<<>>) = 0
    BY EmptySeq
  <1> QED
    BY <1>1, <1>2, SequenceIs

LEMMA AppendIs ==
  ASSUME NEW s, Sequence(s), NEW e
  PROVE  /\ Sequence(Append(s, e)) /\ Append(s, e) # <<>>
         /\ Len(Append(s, e)) = Len(s) + 1
         /\ DOMAIN Append(s, e) = DOMAIN s \cup {Len(s) + 1}
         /\ Len(s) + 1 \notin DOMAIN s
         /\ \A i \in DOMAIN s : Append(s, e)[i] = s[i]
         /\ Append(s, e)[Len(s) + 1] = e
         /\ Range(Append(s, e)) = Range(s) \cup {e}
  <1> DEFINE S == Range(s) \cup {e}
             t == Append(s, e)
  <1>1. s \in Seq(S)
    BY SeqMonotonic DEF Sequence
  <1>2. /\ t \in Seq(S) /\ t # <<>> /\ Len(t) = Len(s) + 1
        /\ \A i \in 1 .. Len(s) : t[i] = s[i]
        /\ t[Len(s) + 1] = e
    BY <1>1, AppendProperties
  <1>3. Sequence(t) /\ Len(s) \in Nat /\ DOMAIN s = 1 .. Len(s) /\ DOMAIN t = 1 .. Len(t)
    BY <1>2, IsSequence, SequenceIs
  <1>4. 1 .. Len(s) + 1 = 1 .. Len(s) \cup {Len(s) + 1} /\ Len(s) + 1 \notin 1 .. Len(s)
    BY <1>3
  <1> HIDE DEF t
  <1>5. DOMAIN t = DOMAIN s \cup {Len(s) + 1}
    BY <1>2, <1>3, <1>4
  <1>6. Range(t) = {t[i] : i \in DOMAIN s} \cup {e}
    BY <1>2, <1>5 DEF Range
  <1>7. {t[i] : i \in DOMAIN s} = Range(s)
    BY <1>2, <1>3 DEF Range
  <1> QED
    BY <1>2, <1>3, <1>4, <1>5, <1>6, <1>7 DEF t

LEMMA TailIs ==
  ASSUME NEW s, Sequence(s), s # <<>>
  PROVE  /\ Sequence(Tail(s)) /\ Head(s) \in Range(s)
         /\ Range(s) = {Head(s)} \cup Range(Tail(s))
  <1>1. /\ Len(s) \in Nat /\ Len(s) # 0 /\ DOMAIN s = 1 .. Len(s)
        /\ Range(s) = {s[i] : i \in 1 .. Len(s)}
    BY SequenceIs
  <1>2. /\ Head(s) \in Range(s) /\ Tail(s) \in Seq(Range(s))
        /\ Len(Tail(s)) = Len(s) - 1
        /\ \A i \in 1 .. Len(Tail(s)) : Tail(s)[i] = s[i + 1]
    BY HeadTailProperties DEF Sequence
  <1>3. Head(s) = s[1]
    OBVIOUS
  <1>4. Sequence(Tail(s)) /\ Range(Tail(s)) \subseteq Range(s)
    BY <1>2, IsSequence
  <1>5. Range(Tail(s)) = {Tail(s)[i] : i \in 1 .. Len(Tail(s))}
    BY <1>4, SequenceIs
  <1>6. ASSUME NEW i \in 1 .. Len(s), i # 1 PROVE s[i] \in Range(Tail(s))
    <2>1. i - 1 \in 1 .. Len(Tail(s)) /\ (i - 1) + 1 = i
      BY <1>1, <1>2, <1>6
    <2>2. Tail(s)[i - 1] = s[i]
      BY <1>2, <2>1
    <2> QED
      BY <1>5, <2>1, <2>2
  <1> QED
    BY <1>1, <1>2, <1>3, <1>4, <1>6

LEMMA FrontIs ==
  ASSUME NEW s, Sequence(s), s # <<>>
  PROVE  /\ Sequence(Front(s))
         /\ DOMAIN Front(s) = DOMAIN s \ {Len(s)} /\ Len(s) \in DOMAIN s
         /\ \A i \in DOMAIN Front(s) : Front(s)[i] = s[i]
         /\ Front(s) = <<>> <=> Len(s) = 1
         /\ Front(s) # <<>> => 1 \in DOMAIN Front(s)
  <1>1. Len(s) \in Nat /\ Len(s) # 0 /\ DOMAIN s = 1 .. Len(s)
    BY SequenceIs
  <1>2. /\ Front(s) \in Seq(Range(s))
        /\ Len(Front(s)) = Len(s) - 1
        /\ \A i \in 1 .. Len(s) - 1 : Front(s)[i] = s[i]
    BY <1>1, SubSeqProperties DEF Front, Sequence
  <1>3. Sequence(Front(s))
    BY <1>2, IsSequence
  <1>4. DOMAIN Front(s) = 1 .. Len(s) - 1 /\ (Front(s) # <<>> <=> Len(s) - 1 # 0)
    BY <1>2, <1>3, SequenceIs
  <1>5. /\ 1 .. Len(s) - 1 = 1 .. Len(s) \ {Len(s)}
        /\ Len(s) - 1 # 0 => 1 \in 1 .. Len(s) - 1
        /\ Len(s) \in 1 .. Len(s)
    BY <1>1
  <1> QED
    BY <1>1, <1>2, <1>3, <1>4, <1>5

LEMMA UpdateIs ==
  ASSUME NEW s, Sequence(s), NEW i \in DOMAIN s, NEW e
  PROVE  /\ Sequence([s EXCEPT ![i] = e]) /\ DOMAIN [s EXCEPT ![i] = e] = DOMAIN s
         /\ Len([s EXCEPT ![i] = e]) = Len(s)
  <1> DEFINE S == Range(s) \cup {e}
  <1>1. s \in Seq(S) /\ i \in 1 .. Len(s)
    BY SeqMonotonic, SequenceIs DEF Sequence
  <1>2. [s EXCEPT ![i] = e] \in Seq(S) /\ Len([s EXCEPT ![i] = e]) = Len(s)
    BY <1>1, ExceptSeq
  <1> QED
    BY <1>2, IsSequence

LEMMA ConcatIs ==
  ASSUME NEW s, Sequence(s), NEW t, Sequence(t)
  PROVE  Sequence(s \o t) /\ Range(s \o t) = Range(s) \cup Range(t)
  <1> DEFINE S == Range(s) \cup Range(t)
  <1>1. s \in Seq(S) /\ t \in Seq(S)
    BY SeqMonotonic DEF Sequence
  <1>2. s \o t \in Seq(S)
    BY <1>1, ConcatProperties
  <1> HIDE DEF S
  <1>3. Range(s \o t) = Range(s) \cup Range(t)
    BY <1>1, RangeConcatenation
  <1> QED
    BY <1>2, <1>3, IsSequence

\* The sequence of the elements of a finite set
LEMMA SetToSeqIs ==
  ASSUME NEW S, IsFiniteSet(S)
  PROVE  Sequence(SetToSeq(S)) /\ Range(SetToSeq(S)) = S
  <1> DEFINE N == Cardinality(S)
             f == SetToSeq(S)
  <1>1. N \in Nat /\ ExistsBijection(1 .. N, S)
    BY FS_CardinalityType
  <1>2. PICK g \in Bijection(1 .. N, S) : TRUE
    BY <1>1 DEF ExistsBijection
  <1>3. g \in [1 .. N -> S] /\ IsInjective(g)
    BY <1>2 DEF Bijection, Injection, IsInjective
  <1>4. f \in [1 .. N -> S] /\ IsInjective(f)
    BY <1>3 DEF SetToSeq
  <1> HIDE DEF f
  <1>5. f \in Injection(1 .. N, S)
    BY <1>4 DEF Injection, IsInjective
  <1>6. IsFiniteSet(1 .. N) /\ Cardinality(1 .. N) = N
    BY <1>1, FS_Interval
  <1>7. f \in Surjection(1 .. N, S)
    BY <1>5, <1>6, FS_Injection
  <1>8. Range(f) = S
    BY <1>4, <1>7 DEF Surjection, Range
  <1>9. f \in Seq(S)
    BY <1>1, <1>4, SeqDef
  <1> QED
    BY <1>8, <1>9, IsSequence DEF f

\* Induction up to a number
LEMMA UpTo ==
  ASSUME NEW S, NEW L \in Nat, 0 \in S, \A k \in 0 .. L - 1 : k \in S => k + 1 \in S
  PROVE  \A k \in 0 .. L : k \in S
<1> DEFINE R == OpToRel(<, Nat)
           Bad == {k \in 0 .. L : k \notin S}
<1>1. IsWellFoundedOn(R, Nat)
  BY NatLessThanWellFounded
<1>2. SUFFICES ASSUME Bad # {} PROVE FALSE
  OBVIOUS
<1>3. PICK k \in Bad : \A l \in Bad : ~(<<l, k>> \in R)
  <2>1. Bad \subseteq Nat
    OBVIOUS
  <2> HIDE DEF Bad, R
  <2> QED
    BY <1>1, <1>2, <2>1, WFMin
<1>4. k \in 0 .. L /\ k \notin S /\ k # 0
  OBVIOUS
<1>5. k - 1 \in 0 .. L - 1 /\ k - 1 \in 0 .. L /\ (k - 1) + 1 = k
  BY <1>4
<1>7. k - 1 \in Bad
  BY <1>4, <1>5
<1>6. <<k - 1, k>> \in R
  <2>1. k - 1 \in Nat /\ k \in Nat /\ k - 1 < k
    BY <1>4, <1>5
  <2> QED
    BY <2>1 DEF OpToRel
<1> QED
  BY <1>3, <1>6, <1>7

LEMMA NatInductive ==
  ASSUME NEW S, 0 \in S, \A k \in Nat : k \in S => k + 1 \in S
  PROVE  \A k \in Nat : k \in S
<1> TAKE k \in Nat
<1>1. \A l \in 0 .. k - 1 : l \in S => l + 1 \in S
  OBVIOUS
<1>2. \A l \in 0 .. k : l \in S
  BY <1>1, UpTo
<1> QED
  BY <1>2

\* A non-empty set of numbers has its minimum.
LEMMA MinIs ==
  ASSUME NEW S \in SUBSET Nat, S # {}
  PROVE  Min(S) \in S
<1> DEFINE R == OpToRel(<, Nat)
<1>1. IsWellFoundedOn(R, Nat)
  BY NatLessThanWellFounded
<1>2. ASSUME NEW l \in Nat, NEW k \in Nat, <<l, k>> \notin R
      PROVE  k <= l
  <2>1. ~(l < k)
    BY <1>2 DEF OpToRel
  <2> QED
    BY <2>1
<1> HIDE DEF R
<1>3. \E k \in S : \A l \in S : ~(<<l, k>> \in R)
  BY <1>1, WFMin
<1>4. \E k \in S : \A l \in S : k <= l
  BY <1>2, <1>3
<1> QED
  BY <1>4 DEF Min

-----------------------------------------------------------------------------
(* Functions that are repeated *)

\* f has the first n + 1 of the values that repeating g gives from a.
Iterates(f, g, a, n) == f[0] = a /\ \A k \in 0 .. n - 1 : f[k + 1] = g[f[k]]

LEMMA IteratesAgree ==
  ASSUME NEW n \in Nat, NEW g, NEW a, NEW f, Iterates(f, g, a, n), NEW h, Iterates(h, g, a, n)
  PROVE  \A k \in 0 .. n : f[k] = h[k]
<1> DEFINE S == {k \in 0 .. n : f[k] = h[k]}
<1>1. 0 \in S
  BY DEF Iterates
<1>2. ASSUME NEW k \in 0 .. n - 1, k \in S PROVE k + 1 \in S
  <2>1. k + 1 \in 0 .. n
    OBVIOUS
  <2>2. f[k + 1] = g[f[k]] /\ h[k + 1] = g[h[k]] /\ f[k] = h[k]
    BY <1>2 DEF Iterates
  <2> QED
    BY <2>1, <2>2
<1> HIDE DEF S
<1>3. \A k \in 0 .. n : k \in S
  BY <1>1, <1>2, UpTo
<1> QED
  BY <1>3 DEF S

LEMMA IteratesTo ==
  ASSUME NEW n \in Nat, NEW D, NEW a \in D, NEW g \in [D -> D]
  PROVE  \E f \in [Nat -> D] : Iterates(f, g, a, n)
<1> DEFINE S == {k \in Nat : \E f \in [Nat -> D] : Iterates(f, g, a, k)}
<1>1. 0 \in S
  <2>1. [k \in Nat |-> a] \in [Nat -> D] /\ Iterates([k \in Nat |-> a], g, a, 0)
    BY DEF Iterates
  <2> QED
    BY <2>1
<1>2. ASSUME NEW k \in Nat, k \in S PROVE k + 1 \in S
  <2>1. PICK f \in [Nat -> D] : Iterates(f, g, a, k)
    BY <1>2
  <2> DEFINE h == [f EXCEPT ![k + 1] = g[f[k]]]
  <2>2. k + 1 \in Nat /\ k + 1 # 0 /\ g[f[k]] \in D
    OBVIOUS
  <2>3. h \in [Nat -> D] /\ h[k + 1] = g[f[k]] /\ \A l \in Nat : l # k + 1 => h[l] = f[l]
    BY <2>2
  <2>4. h[0] = a
    BY <2>1, <2>2, <2>3 DEF Iterates
  <2>5. ASSUME NEW l \in 0 .. (k + 1) - 1 PROVE h[l + 1] = g[h[l]]
    <3>1. l \in Nat /\ l + 1 \in Nat /\ l # k + 1 /\ (l = k \/ (l \in 0 .. k - 1 /\ l + 1 # k + 1))
      BY <2>5
    <3> QED
      BY <2>1, <2>3, <3>1 DEF Iterates
  <2> QED
    BY <2>2, <2>3, <2>4, <2>5 DEF Iterates
<1> HIDE DEF S
<1>3. \A k \in Nat : k \in S
  BY <1>1, <1>2, NatInductive
<1>4. n \in S
  BY <1>3
<1> QED
  BY <1>4 DEF S

\* All of them
LEMMA IteratesExist ==
  ASSUME NEW D, NEW a \in D, NEW g \in [D -> D]
  PROVE  \E f \in [Nat -> D] : f[0] = a /\ \A k \in Nat : f[k + 1] = g[f[k]]
<1> DEFINE F(n) == CHOOSE f \in [Nat -> D] : Iterates(f, g, a, n)
           h == [n \in Nat |-> F(n)[n]]
<1>1. ASSUME NEW n \in Nat PROVE F(n) \in [Nat -> D] /\ Iterates(F(n), g, a, n)
  BY IteratesTo
<1> HIDE DEF F
<1>2. h \in [Nat -> D]
  BY <1>1
<1>3. h[0] = a
  BY <1>1 DEF Iterates
<1>4. ASSUME NEW k \in Nat PROVE h[k + 1] = g[h[k]]
  <2>1. k + 1 \in Nat /\ k \in 0 .. k /\ k \in 0 .. (k + 1) - 1
    OBVIOUS
  <2>2. F(k + 1)[k + 1] = g[F(k + 1)[k]]
    <3>1. Iterates(F(k + 1), g, a, k + 1)
      BY <1>1, <2>1
    <3> QED
      BY <2>1, <3>1 DEF Iterates
  <2>3. Iterates(F(k + 1), g, a, k)
    <3>1. Iterates(F(k + 1), g, a, k + 1)
      BY <1>1, <2>1
    <3>2. \A l \in 0 .. k - 1 : l \in 0 .. (k + 1) - 1
      OBVIOUS
    <3> QED
      BY <3>1, <3>2 DEF Iterates
  <2>4. Iterates(F(k), g, a, k)
    BY <1>1
  <2>5. F(k + 1)[k] = F(k)[k]
    BY <2>1, <2>3, <2>4, IteratesAgree
  <2> QED
    BY <2>1, <2>2, <2>5
<1> QED
  BY <1>2, <1>3, <1>4

\* One reference is followed.
Next1(r, y) == IF y \in DOMAIN r THEN r[y] ELSE y

LEMMA FollowingIs ==
  ASSUME NEW r, NEW x
  PROVE  /\ Following(r, x)[0] = x
         /\ \A n \in Nat : Following(r, x)[n + 1] = Next1(r, Following(r, x)[n])
<1> DEFINE D == {x} \cup DOMAIN r \cup Range(r)
           g == [y \in D |-> Next1(r, y)]
           Def(f) == f = [n \in Nat |-> IF n = 0 THEN x ELSE Next1(r, f[n - 1])]
           F == CHOOSE f : Def(f)
<1>1. g \in [D -> D]
  BY DEF Range, Next1
<1>2. PICK f \in [Nat -> D] : f[0] = x /\ \A k \in Nat : f[k + 1] = g[f[k]]
  <2>1. x \in D
    OBVIOUS
  <2> HIDE DEF D, g
  <2> QED
    BY <1>1, <2>1, IteratesExist
<1>3. ASSUME NEW n \in Nat PROVE f[n] = IF n = 0 THEN x ELSE Next1(r, f[n - 1])
  <2>1. CASE n = 0
    BY <1>2, <2>1
  <2>2. CASE n # 0
    <3>1. n - 1 \in Nat /\ (n - 1) + 1 = n
      BY <2>2
    <3>2. f[n] = g[f[n - 1]] /\ f[n - 1] \in D
      BY <1>2, <3>1
    <3> QED
      BY <2>2, <3>2
  <2> QED
    BY <2>1, <2>2
<1>4. Def(f)
  <2>1. f = [n \in Nat |-> f[n]]
    OBVIOUS
  <2> HIDE DEF D, g
  <2> QED
    BY <1>3, <2>1
<1>5. Def(F)
  <2> HIDE DEF Def
  <2> QED
    BY <1>4
<1>6. Following(r, x) = F
  BY DEF Following, Next1
<1> HIDE DEF F
<1>7. F[0] = x
  BY <1>5
<1>8. ASSUME NEW n \in Nat PROVE F[n + 1] = Next1(r, F[n])
  <2>1. n + 1 \in Nat /\ n + 1 # 0 /\ (n + 1) - 1 = n
    OBVIOUS
  <2>2. F[n + 1] = IF n + 1 = 0 THEN x ELSE Next1(r, F[(n + 1) - 1])
    BY <1>5, <2>1
  <2> QED
    BY <2>1, <2>2
<1> QED
  BY <1>6, <1>7, <1>8

\* The children of the objects of a set
Grown(children, S) == S \cup UNION {children[k] : k \in S}

LEMMA WithinIs ==
  ASSUME NEW children, NEW o \in DOMAIN children,
         \A k \in DOMAIN children : children[k] \subseteq DOMAIN children
  PROVE  /\ Within(children, o) \in [Nat -> SUBSET DOMAIN children]
         /\ Within(children, o)[0] = {o}
         /\ \A n \in Nat : Within(children, o)[n + 1] = Grown(children, Within(children, o)[n])
<1> DEFINE D == SUBSET DOMAIN children
           g == [S \in D |-> Grown(children, S)]
           Def(f) == f = [n \in Nat |-> IF n = 0 THEN {o} ELSE Grown(children, f[n - 1])]
           F == CHOOSE f : Def(f)
<1>1. g \in [D -> D]
  BY DEF Grown
<1>2. PICK f \in [Nat -> D] : f[0] = {o} /\ \A k \in Nat : f[k + 1] = g[f[k]]
  <2>1. {o} \in D
    OBVIOUS
  <2> HIDE DEF D, g
  <2> QED
    BY <1>1, <2>1, IteratesExist
<1>3. ASSUME NEW n \in Nat PROVE f[n] = IF n = 0 THEN {o} ELSE Grown(children, f[n - 1])
  <2>1. CASE n = 0
    BY <1>2, <2>1
  <2>2. CASE n # 0
    <3>1. n - 1 \in Nat /\ (n - 1) + 1 = n
      BY <2>2
    <3>2. f[n] = g[f[n - 1]] /\ f[n - 1] \in D
      BY <1>2, <3>1
    <3> HIDE DEF D
    <3> QED
      BY <2>2, <3>2
  <2> QED
    BY <2>1, <2>2
<1>4. Def(f)
  <2>1. f = [n \in Nat |-> f[n]]
    OBVIOUS
  <2> HIDE DEF D, g
  <2> QED
    BY <1>3, <2>1
<1>5. Def(F)
  <2> HIDE DEF Def
  <2> QED
    BY <1>4
<1>6. Within(children, o) = F
  BY DEF Within, Grown
<1> HIDE DEF F
<1>7. F[0] = {o}
  BY <1>5
<1>8. ASSUME NEW n \in Nat PROVE F[n + 1] = Grown(children, F[n])
  <2>1. n + 1 \in Nat /\ n + 1 # 0 /\ (n + 1) - 1 = n
    OBVIOUS
  <2>2. F[n + 1] = IF n + 1 = 0 THEN {o} ELSE Grown(children, F[(n + 1) - 1])
    BY <1>5, <2>1
  <2> QED
    BY <2>1, <2>2
<1>9. \A n \in Nat : F[n] = f[n]
  <2> DEFINE S == {n \in Nat : F[n] = f[n]}
  <2>1. 0 \in S
    BY <1>2, <1>7
  <2>2. ASSUME NEW n \in Nat, n \in S PROVE n + 1 \in S
    <3>1. F[n] = f[n] /\ f[n] \in D
      BY <2>2
    <3>2. f[n + 1] = Grown(children, f[n])
      BY <1>2, <3>1
    <3> QED
      BY <1>8, <3>1, <3>2
  <2> HIDE DEF S
  <2>3. \A n \in Nat : n \in S
    BY <2>1, <2>2, NatInductive
  <2> QED
    BY <2>3 DEF S
<1>10. F \in [Nat -> D]
  <2>1. \A n \in Nat : F[n] \in D
    BY <1>9
  <2>2. F = [n \in Nat |-> F[n]]
    BY <1>5
  <2> QED
    BY <2>1, <2>2
<1> QED
  BY <1>6, <1>7, <1>8, <1>10

-----------------------------------------------------------------------------
(* What is reached, and how fast *)

\* Growing sets of a finite set that stay once they do not grow do not grow after as
\* many steps as it has elements.
LEMMA ChainStops ==
  ASSUME NEW D, IsFiniteSet(D), NEW f \in [Nat -> SUBSET D],
         \A n \in Nat : f[n] \subseteq f[n + 1],
         \A n \in Nat : f[n + 1] = f[n] => f[(n + 1) + 1] = f[n + 1]
  PROVE  f[Cardinality(D) + 1] = f[Cardinality(D)]
<1> DEFINE Card(n) == Cardinality(f[n])
           S == {n \in Nat : Card(n) >= n \/ f[n + 1] = f[n]}
           N == Cardinality(D)
<1>1. ASSUME NEW n \in Nat PROVE IsFiniteSet(f[n]) /\ Card(n) \in Nat
  <2>1. IsFiniteSet(f[n])
    BY FS_Subset
  <2> QED
    BY <2>1, FS_CardinalityType
<1>2. 0 \in S
  BY <1>1
<1>3. ASSUME NEW n \in Nat, n \in S PROVE n + 1 \in S
  <2>1. CASE f[n + 1] = f[n]
    BY <2>1
  <2>2. CASE f[n + 1] # f[n] /\ Card(n) >= n
    <3>1. f[n] \in SUBSET f[n + 1]
      OBVIOUS
    <3>2. IsFiniteSet(f[n + 1]) /\ Card(n + 1) \in Nat
      BY <1>1
    <3>3. Card(n) <= Card(n + 1) /\ Card(n) # Card(n + 1)
      BY <2>2, <3>1, <3>2, FS_Subset
    <3>4. Card(n) \in Nat
      BY <1>1
    <3>5. \A k, l \in Nat : k >= n /\ k <= l /\ k # l => l >= n + 1
      OBVIOUS
    <3> HIDE DEF Card
    <3>6. Card(n + 1) >= n + 1
      BY <2>2, <3>2, <3>3, <3>4, <3>5
    <3> QED
      BY <3>6
  <2> QED
    BY <1>3, <2>1, <2>2
<1> HIDE DEF S
<1>4. N \in Nat
  BY FS_CardinalityType
<1>5. N \in S
  <2>1. \A n \in Nat : n \in S
    BY <1>2, <1>3, NatInductive
  <2> QED
    BY <1>4, <2>1
<1>6. CASE f[N + 1] = f[N]
  BY <1>6
<1>7. CASE Card(N) >= N
  <2>1. f[N] \in SUBSET D /\ f[N + 1] \in SUBSET D /\ f[N] \subseteq f[N + 1]
    BY <1>4
  <2>2. Card(N) <= N /\ (Card(N) = N => f[N] = D)
    <3> HIDE DEF N
    <3>1. Card(N) <= Cardinality(D) /\ (Card(N) = Cardinality(D) => f[N] = D)
      BY <2>1, FS_Subset
    <3> QED
      BY <3>1 DEF N
  <2>3. Card(N) = N
    <3> HIDE DEF Card, N
    <3> QED
      BY <1>1, <1>4, <1>7, <2>2
  <2> QED
    BY <2>1, <2>2, <2>3
<1> QED
  BY <1>5, <1>6, <1>7 DEF S

LEMMA ClosureIs ==
  ASSUME NEW children, IsFiniteSet(DOMAIN children), NEW o \in DOMAIN children,
         \A k \in DOMAIN children : children[k] \subseteq DOMAIN children
  PROVE  /\ o \in Closure(children, o) /\ Closure(children, o) \subseteq DOMAIN children
         /\ \A k \in Closure(children, o) : children[k] \subseteq Closure(children, o)
         /\ \A S : o \in S /\ (\A k \in S \cap DOMAIN children : children[k] \subseteq S)
                     => Closure(children, o) \subseteq S
<1> DEFINE D == DOMAIN children
           f == Within(children, o)
           N == Cardinality(D)
<1>1. /\ f \in [Nat -> SUBSET D] /\ f[0] = {o}
      /\ \A n \in Nat : f[n + 1] = Grown(children, f[n])
  BY WithinIs
<1>2. N \in Nat /\ Closure(children, o) = f[N]
  BY FS_CardinalityType DEF Closure
<1> HIDE DEF f
<1>3. \A n \in Nat : f[n] \subseteq f[n + 1]
  BY <1>1 DEF Grown
<1>4. \A n \in Nat : f[n + 1] = f[n] => f[(n + 1) + 1] = f[n + 1]
  <2>1. ASSUME NEW n \in Nat, f[n + 1] = f[n] PROVE f[(n + 1) + 1] = f[n + 1]
    <3>1. n + 1 \in Nat
      OBVIOUS
    <3>2. f[(n + 1) + 1] = Grown(children, f[n + 1]) /\ f[n + 1] = Grown(children, f[n])
      BY <1>1, <3>1
    <3> QED
      BY <2>1, <3>2
  <2> QED
    BY <2>1
<1>5. f[N + 1] = f[N]
  <2> HIDE DEF D, N
  <2>1. IsFiniteSet(D)
    BY DEF D
  <2> QED
    BY <1>1, <1>3, <1>4, <2>1, ChainStops DEF N
<1>6. \A k \in f[N] : children[k] \subseteq f[N]
  <2>1. f[N] = Grown(children, f[N])
    BY <1>1, <1>2, <1>5
  <2> QED
    BY <2>1 DEF Grown
<1>7. o \in f[N]
  <2> DEFINE S == {n \in Nat : o \in f[n]}
  <2>1. 0 \in S
    BY <1>1
  <2>2. \A n \in Nat : n \in S => n + 1 \in S
    BY <1>3
  <2> HIDE DEF S
  <2>3. \A n \in Nat : n \in S
    BY <2>1, <2>2, NatInductive
  <2> QED
    BY <1>2, <2>3 DEF S
<1>8. ASSUME NEW T, o \in T, \A k \in T \cap D : children[k] \subseteq T
      PROVE  f[N] \subseteq T
  <2> DEFINE S == {n \in Nat : f[n] \subseteq T}
  <2>1. 0 \in S
    BY <1>1, <1>8
  <2>2. ASSUME NEW n \in Nat, n \in S PROVE n + 1 \in S
    <3>1. f[n] \subseteq T \cap D
      BY <1>1, <2>2
    <3>2. f[n + 1] = f[n] \cup UNION {children[k] : k \in f[n]}
      BY <1>1 DEF Grown
    <3>3. UNION {children[k] : k \in f[n]} \subseteq T
      BY <1>8, <3>1
    <3> QED
      BY <3>1, <3>2, <3>3
  <2> HIDE DEF S
  <2>3. \A n \in Nat : n \in S
    BY <2>1, <2>2, NatInductive
  <2> QED
    BY <1>2, <2>3 DEF S
<1>9. f[N] \subseteq D
  BY <1>1, <1>2
<1> QED
  BY <1>2, <1>6, <1>7, <1>8, <1>9

\* Children that differ outside of a closed set reach the same from inside.
LEMMA ClosureAgrees ==
  ASSUME NEW c, IsFiniteSet(DOMAIN c), \A k \in DOMAIN c : c[k] \subseteq DOMAIN c,
         NEW d, IsFiniteSet(DOMAIN d), \A k \in DOMAIN d : d[k] \subseteq DOMAIN d,
         NEW S \in SUBSET (DOMAIN c \cap DOMAIN d), \A k \in S : c[k] = d[k] /\ c[k] \subseteq S,
         NEW o \in S
  PROVE  Closure(c, o) = Closure(d, o)
<1>1. /\ o \in Closure(c, o) /\ Closure(c, o) \subseteq S
      /\ \A k \in Closure(c, o) : c[k] \subseteq Closure(c, o)
  BY ClosureIs
<1>2. /\ o \in Closure(d, o) /\ Closure(d, o) \subseteq S
      /\ \A k \in Closure(d, o) : d[k] \subseteq Closure(d, o)
  BY ClosureIs
<1>3. Closure(d, o) \subseteq Closure(c, o)
  <2>1. \A k \in Closure(c, o) \cap DOMAIN d : d[k] \subseteq Closure(c, o)
    BY <1>1
  <2> QED
    BY <1>1, <2>1, ClosureIs
<1>4. Closure(c, o) \subseteq Closure(d, o)
  <2>1. \A k \in Closure(d, o) \cap DOMAIN c : c[k] \subseteq Closure(d, o)
    BY <1>2
  <2> QED
    BY <1>2, <2>1, ClosureIs
<1> QED
  BY <1>3, <1>4

-----------------------------------------------------------------------------
(* References *)

\* The variable at the end of the references
Root(r, x) == Following(r, x)[Cardinality(DOMAIN r)]

\* No references in a circle
Rooted(r) == \A S \in SUBSET DOMAIN r : S # {} => \E x \in S : r[x] \notin S

\* The first reference can be followed first.
LEMMA FollowingFrom ==
  ASSUME NEW r, NEW x, NEW n \in Nat
  PROVE  Following(r, x)[n + 1] = Following(r, Next1(r, x))[n]
<1> DEFINE f == Following(r, x)
           g == Following(r, Next1(r, x))
           S == {k \in Nat : f[k + 1] = g[k]}
<1>1. f[0] = x /\ \A k \in Nat : f[k + 1] = Next1(r, f[k])
  BY FollowingIs
<1>2. g[0] = Next1(r, x) /\ \A k \in Nat : g[k + 1] = Next1(r, g[k])
  BY FollowingIs
<1> HIDE DEF f, g
<1>3. 0 \in S
  BY <1>1, <1>2
<1>4. ASSUME NEW k \in Nat, k \in S PROVE k + 1 \in S
  <2>1. k + 1 \in Nat
    OBVIOUS
  <2>2. f[(k + 1) + 1] = Next1(r, f[k + 1]) /\ g[k + 1] = Next1(r, g[k]) /\ f[k + 1] = g[k]
    BY <1>1, <1>2, <1>4, <2>1
  <2> QED
    BY <2>1, <2>2
<1> HIDE DEF S
<1>5. \A k \in Nat : k \in S
  BY <1>3, <1>4, NatInductive
<1> QED
  BY <1>5 DEF S, f, g

LEMMA FollowingOutside ==
  ASSUME NEW r, NEW x, NEW n \in Nat, x \notin DOMAIN r
  PROVE  Following(r, x)[n] = x
<1> DEFINE f == Following(r, x)
           S == {k \in Nat : f[k] = x}
<1>1. f[0] = x /\ \A k \in Nat : f[k + 1] = Next1(r, f[k])
  BY FollowingIs
<1> HIDE DEF f
<1>2. 0 \in S
  BY <1>1
<1>3. ASSUME NEW k \in Nat, k \in S PROVE k + 1 \in S
  BY <1>1, <1>3 DEF Next1
<1> HIDE DEF S
<1>4. \A k \in Nat : k \in S
  BY <1>2, <1>3, NatInductive
<1> QED
  BY <1>4 DEF S, f

\* All references of a circle-free table have been followed after as many steps as it
\* has entries.
LEMMA RootIs ==
  ASSUME NEW r, IsFiniteSet(DOMAIN r), Rooted(r)
  PROVE  /\ \A x : Root(r, x) \notin DOMAIN r
         /\ \A x : x \notin DOMAIN r => Root(r, x) = x
         /\ \A x \in DOMAIN r : Root(r, x) = Root(r, r[x])
<1> DEFINE D == DOMAIN r
           N == Cardinality(D)
           T == [n \in Nat |-> {x \in D : Following(r, x)[n] \notin D}]
<1>1. N \in Nat
  BY FS_CardinalityType
<1>2. T \in [Nat -> SUBSET D]
  OBVIOUS
<1>3. ASSUME NEW n \in Nat PROVE T[n] \subseteq T[n + 1]
  <2>1. ASSUME NEW x \in T[n] PROVE x \in T[n + 1]
    <3>1. x \in D /\ Following(r, x)[n] \notin D
      BY <2>1
    <3>2. Following(r, x)[n + 1] = Following(r, x)[n]
      BY <3>1, FollowingIs DEF Next1
    <3> QED
      BY <3>1, <3>2
  <2> QED
    BY <2>1
<1>4. ASSUME NEW n \in Nat, T[n + 1] = T[n] PROVE T[n] = D
  <2> DEFINE S == D \ T[n]
  <2>1. ASSUME NEW x \in S PROVE r[x] \in S
    <3>1. x \in D /\ x \notin T[n + 1]
      BY <1>2, <1>4
    <3>2. n + 1 \in Nat /\ Following(r, x)[n + 1] \in D
      BY <3>1
    <3>3. Following(r, x)[n + 1] = Following(r, r[x])[n]
      BY <3>1, FollowingFrom DEF Next1
    <3>4. Following(r, r[x])[n] \in D
      BY <3>2, <3>3
    <3>5. r[x] \in D
      BY <3>4, FollowingOutside
    <3> QED
      BY <3>4, <3>5
  <2>2. S \in SUBSET D
    OBVIOUS
  <2>3. S = {}
    <3> HIDE DEF S
    <3> QED
      BY <2>1, <2>2 DEF Rooted
  <2> QED
    BY <1>2, <2>3
<1>5. \A n \in Nat : T[n + 1] = T[n] => T[(n + 1) + 1] = T[n + 1]
  <2>1. ASSUME NEW n \in Nat, T[n + 1] = T[n] PROVE T[(n + 1) + 1] = T[n + 1]
    <3>1. n + 1 \in Nat /\ (n + 1) + 1 \in Nat
      OBVIOUS
    <3>2. T[n + 1] = D
      BY <1>4, <2>1
    <3> HIDE DEF T
    <3>3. T[n + 1] \subseteq T[(n + 1) + 1] /\ T[(n + 1) + 1] \in SUBSET D
      BY <1>2, <1>3, <3>1
    <3> QED
      BY <3>2, <3>3
  <2> HIDE DEF T
  <2> QED
    BY <2>1
<1>6. T[N] = D
  <2>1. T[N + 1] = T[N]
    <3> HIDE DEF T, D, N
    <3>1. IsFiniteSet(D)
      BY DEF D
    <3> QED
      BY <1>2, <1>3, <1>5, <3>1, ChainStops DEF N
  <2> HIDE DEF T, N
  <2> QED
    BY <1>1, <1>4, <2>1
<1>7. \A x \in D : Following(r, x)[N] \notin D
  BY <1>1, <1>6
<1>8. ASSUME NEW x, x \notin D PROVE Root(r, x) = x
  BY <1>1, <1>8, FollowingOutside DEF Root
<1>9. ASSUME NEW x PROVE Root(r, x) \notin D
  <2>1. CASE x \in D
    BY <1>7, <2>1 DEF Root
  <2>2. CASE x \notin D
    BY <1>8, <2>2
  <2> QED
    BY <2>1, <2>2
<1>10. ASSUME NEW x \in D PROVE Root(r, x) = Root(r, r[x])
  <2>1. Following(r, x)[N + 1] = Following(r, r[x])[N]
    <3> HIDE DEF N
    <3> QED
      BY <1>1, FollowingFrom DEF Next1
  <2>2. Following(r, x)[N + 1] = Following(r, x)[N]
    <3>1. Following(r, x)[N] \notin D
      BY <1>7
    <3> HIDE DEF N
    <3> QED
      BY <1>1, <3>1, FollowingIs DEF Next1
  <2> QED
    BY <2>1, <2>2 DEF Root
<1> QED
  BY <1>8, <1>9, <1>10

\* A set that is closed under references has the ends of those that begin in it.
LEMMA RootWithin ==
  ASSUME NEW r, IsFiniteSet(DOMAIN r), NEW X, \A x \in DOMAIN r : x \in X => r[x] \in X,
         NEW x \in X
  PROVE  Root(r, x) \in X
<1> DEFINE f == Following(r, x)
           S == {k \in Nat : f[k] \in X}
<1>1. f[0] = x /\ \A k \in Nat : f[k + 1] = Next1(r, f[k])
  BY FollowingIs
<1> HIDE DEF f
<1>2. 0 \in S
  BY <1>1
<1>3. ASSUME NEW k \in Nat, k \in S PROVE k + 1 \in S
  BY <1>1, <1>3 DEF Next1
<1> HIDE DEF S
<1>4. \A k \in Nat : k \in S
  BY <1>2, <1>3, NatInductive
<1>5. Cardinality(DOMAIN r) \in Nat
  BY FS_CardinalityType
<1> QED
  BY <1>4, <1>5 DEF S, f, Root

\* A variable that is given a reference joins those of the other's end.
LEMMA ReferRoots ==
  ASSUME NEW r, IsFiniteSet(DOMAIN r), Rooted(r), NEW x, NEW y,
         x \in DOMAIN r => Root(r, x) = Root(r, y),
         Root(r, y) # x,
         NEW s, s = Put(r, x, Root(r, y))
  PROVE  /\ IsFiniteSet(DOMAIN s) /\ Rooted(s)
         /\ \A z : Root(s, z) = IF Root(r, z) = x THEN Root(r, y) ELSE Root(r, z)
<1> DEFINE t == Root(r, y)
           W(z) == IF Root(r, z) = x THEN t ELSE Root(r, z)
<1>1. /\ \A z : Root(r, z) \notin DOMAIN r
      /\ \A z : z \notin DOMAIN r => Root(r, z) = z
      /\ \A z \in DOMAIN r : Root(r, z) = Root(r, r[z])
  BY RootIs
<1>2. /\ DOMAIN s = DOMAIN r \cup {x} /\ s[x] = t
      /\ \A z \in DOMAIN r \ {x} : s[z] = r[z]
  BY DEF Put
<1>3. IsFiniteSet(DOMAIN s)
  BY <1>2, FS_AddElement
<1>4. t \notin DOMAIN s
  BY <1>1, <1>2
<1>5. ASSUME NEW S \in SUBSET DOMAIN s, S # {} PROVE \E z \in S : s[z] \notin S
  <2>1. CASE x \in S
    BY <1>2, <1>4, <2>1
  <2>2. CASE x \notin S
    <3>1. S \in SUBSET DOMAIN r
      BY <1>2, <2>2
    <3>2. PICK z \in S : r[z] \notin S
      BY <1>5, <3>1 DEF Rooted
    <3> QED
      BY <1>2, <2>2, <3>1, <3>2
  <2> QED
    BY <2>1, <2>2
<1>6. Rooted(s)
  BY <1>5 DEF Rooted
<1>7. /\ \A z : Root(s, z) \notin DOMAIN s
      /\ \A z : z \notin DOMAIN s => Root(s, z) = z
      /\ \A z \in DOMAIN s : Root(s, z) = Root(s, s[z])
  BY <1>3, <1>6, RootIs
<1> HIDE DEF t
<1>8. ASSUME NEW z, z \notin DOMAIN s PROVE W(z) = z
  BY <1>1, <1>2, <1>8
<1>9. ASSUME NEW z \in DOMAIN s PROVE W(z) = W(s[z])
  <2>1. CASE z = x
    <3>1. W(s[x]) = t
      BY <1>2, <1>4, <1>8
    <3>2. CASE x \in DOMAIN r
      <4>1. Root(r, x) = t
        BY <3>2 DEF t
      <4> QED
        BY <2>1, <3>1, <4>1
    <3>3. CASE x \notin DOMAIN r
      BY <1>1, <2>1, <3>1, <3>3
    <3> QED
      BY <3>2, <3>3
  <2>2. CASE z # x
    <3>1. z \in DOMAIN r /\ s[z] = r[z]
      BY <1>2, <2>2
    <3>2. Root(r, z) = Root(r, s[z])
      BY <1>1, <3>1
    <3> QED
      BY <3>2
  <2> QED
    BY <2>1, <2>2
<1> HIDE DEF W
<1>10. \A z : Root(s, z) = W(z)
  <2> DEFINE Bad == {z \in DOMAIN s : Root(s, z) # W(z)}
  <2>1. Bad = {}
    <3>1. SUFFICES ASSUME Bad # {} PROVE FALSE
      OBVIOUS
    <3>2. PICK z \in Bad : s[z] \notin Bad
      <4>1. Bad \in SUBSET DOMAIN s
        OBVIOUS
      <4> HIDE DEF Bad
      <4> QED
        BY <1>5, <3>1, <4>1
    <3>3. Root(s, s[z]) = W(s[z])
      BY <1>7, <1>8, <3>2
    <3> QED
      BY <1>7, <1>9, <3>2, <3>3
  <2> QED
    BY <1>7, <1>8, <2>1
<1> QED
  BY <1>3, <1>6, <1>10 DEF W, t

LEMMA IntervalGrows ==
  ASSUME NEW l \in Nat
  PROVE  1 .. l + 1 = (1 .. l) \cup {l + 1}
  OBVIOUS

\* The sequences of a sequence, one behind the other: it has what they have.
LEMMA FlattenIs ==
  ASSUME NEW ss, Sequence(ss), \A i \in DOMAIN ss : Sequence(ss[i])
  PROVE  /\ Sequence(FlattenSeq(ss))
         /\ Range(FlattenSeq(ss)) = UNION {Range(ss[i]) : i \in DOMAIN ss}
<1> DEFINE L == Len(ss)
           S == UNION {Range(ss[i]) : i \in DOMAIN ss}
           D == Nat \X Seq(S)
           Last1(k, t) == IF k + 2 \in 1 .. L THEN t \o ss[k + 2] ELSE t
           g == [d \in D |-> <<d[1] + 1, Last1(d[1], d[2])>>]
           a == <<0, ss[1]>>
           Def(f) == f = [i \in 1 .. L |-> IF i = 1 THEN ss[i] ELSE f[i - 1] \o ss[i]]
           F == CHOOSE f : Def(f)
<1>1. L \in Nat /\ DOMAIN ss = 1 .. L /\ (ss # <<>> <=> L # 0)
  BY SequenceIs
<1>2. CASE L = 0
  <2>1. FlattenSeq(ss) = <<>> /\ DOMAIN ss = {}
    BY <1>1, <1>2 DEF FlattenSeq
  <2> QED
    BY <2>1, EmptyIs
<1>3. CASE L # 0
  <2>1. \A i \in 1 .. L : ss[i] \in Seq(S)
    <3>1. ASSUME NEW i \in 1 .. L PROVE ss[i] \in Seq(S)
      <4>1. Range(ss[i]) \subseteq S /\ ss[i] \in Seq(Range(ss[i]))
        BY <1>1 DEF Sequence
      <4> HIDE DEF S
      <4> QED
        BY <4>1, SeqMonotonic
    <3> HIDE DEF S
    <3> QED
      BY <3>1
  <2> HIDE DEF S
  <2>2. 1 \in 1 .. L /\ a \in D
    BY <1>1, <1>3, <2>1
  <2>3. ASSUME NEW d \in D PROVE g[d] \in D
    <3>1. d[1] \in Nat /\ d[2] \in Seq(S)
      OBVIOUS
    <3>2. Last1(d[1], d[2]) \in Seq(S)
      BY <2>1, <3>1, ConcatProperties
    <3> HIDE DEF Last1
    <3>3. d[1] + 1 \in Nat
      BY <3>1
    <3> QED
      BY <3>2, <3>3
  <2>4. g \in [D -> D]
    <3>1. g = [d \in D |-> g[d]]
      OBVIOUS
    <3> HIDE DEF D, g
    <3> QED
      BY <2>3, <3>1
  <2>5. PICK h \in [Nat -> D] : h[0] = a /\ \A k \in Nat : h[k + 1] = g[h[k]]
    <3> HIDE DEF D, g, a, Last1, Def, F, L
    <3>1. a \in D
      BY <2>2
    <3>2. g \in [D -> D]
      BY <2>4
    <3> QED
      BY <3>1, <3>2, IteratesExist
  <2>6. \A k \in Nat : h[k][1] = k
    <3> DEFINE T == {k \in Nat : h[k][1] = k}
    <3>1. 0 \in T
      BY <2>5
    <3>2. ASSUME NEW k \in Nat, k \in T PROVE k + 1 \in T
      <4>1. h[k] \in D /\ h[k][1] = k
        BY <3>2
      <4>2. h[k + 1] = <<h[k][1] + 1, Last1(h[k][1], h[k][2])>>
        BY <2>5, <4>1
      <4> QED
        BY <4>1, <4>2
    <3> HIDE DEF T
    <3>3. \A k \in Nat : k \in T
      BY <3>1, <3>2, NatInductive
    <3> QED
      BY <3>3 DEF T
  <2> DEFINE f == [i \in 1 .. L |-> h[i - 1][2]]
  <2>7. ASSUME NEW i \in 1 .. L PROVE f[i] = IF i = 1 THEN ss[i] ELSE f[i - 1] \o ss[i]
    <3>1. CASE i = 1
      <4>1. f[1] = h[0][2]
        BY <2>2
      <4>2. h[0][2] = ss[1]
        BY <2>5
      <4> QED
        BY <3>1, <4>1, <4>2
    <3>2. CASE i # 1
      <4>0. \A l \in Nat : \A j \in 1 .. l : j # 1 =>
              j - 1 \in 1 .. l /\ j - 2 \in Nat /\ (j - 2) + 1 = j - 1 /\ (j - 1) - 1 = j - 2
        OBVIOUS
      <4>1. i - 1 \in 1 .. L /\ i - 2 \in Nat /\ (i - 2) + 1 = i - 1 /\ (i - 1) - 1 = i - 2
        <5> HIDE DEF L
        <5> QED
          BY <1>1, <3>2, <4>0
      <4>2. h[i - 2] \in D /\ h[i - 2][1] = i - 2
        BY <2>6, <4>1
      <4>3. h[(i - 2) + 1] = <<h[i - 2][1] + 1, Last1(h[i - 2][1], h[i - 2][2])>>
        BY <2>5, <4>1, <4>2
      <4>4. Last1(i - 2, h[i - 2][2]) = h[i - 2][2] \o ss[i]
        <5>1. (i - 2) + 2 = i
          BY <4>1
        <5> QED
          BY <5>1
      <4>5. h[i - 1][2] = h[i - 2][2] \o ss[i]
        <5>1. h[i - 1] = <<h[i - 2][1] + 1, Last1(h[i - 2][1], h[i - 2][2])>>
          BY <4>1, <4>3
        <5> HIDE DEF Last1, L
        <5>2. h[i - 1][2] = Last1(h[i - 2][1], h[i - 2][2])
          BY <5>1
        <5> QED
          BY <4>2, <4>4, <5>2
      <4> QED
        BY <3>2, <4>1, <4>5
    <3> QED
      BY <3>1, <3>2
  <2>8. Def(f)
    <3>1. f = [i \in 1 .. L |-> f[i]]
      OBVIOUS
    <3> HIDE DEF f
    <3> QED
      BY <2>7, <3>1
  <2>9. Def(F)
    <3> HIDE DEF Def, f
    <3> QED
      BY <2>8
  <2>10. FlattenSeq(ss) = F[L]
    BY <1>3 DEF FlattenSeq
  <2> HIDE DEF F, f
  <2> DEFINE U(k) == UNION {Range(ss[i]) : i \in 1 .. k}
             T == {k \in 0 .. L - 1 : F[k + 1] \in Seq(S) /\ Range(F[k + 1]) = U(k + 1)}
  <2>11. 0 \in T
    <3>1. F[1] = ss[1]
      BY <2>2, <2>9
    <3>2. U(1) = Range(ss[1])
      <4>1. 1 .. 1 = {1}
        OBVIOUS
      <4>2. UNION {Range(ss[i]) : i \in {1}} = Range(ss[1])
        OBVIOUS
      <4> QED
        BY <4>1, <4>2
    <3>3. F[1] \in Seq(S) /\ Range(F[1]) = U(1)
      <4> HIDE DEF U
      <4> QED
        BY <2>1, <2>2, <3>1, <3>2
    <3>4. 0 \in 0 .. L - 1
      BY <1>1, <1>3
    <3>5. 0 + 1 = 1
      OBVIOUS
    <3> HIDE DEF U
    <3> QED
      BY <3>3, <3>4, <3>5
  <2>12. ASSUME NEW k \in 0 .. (L - 1) - 1, k \in T PROVE k + 1 \in T
    <3>1. k + 2 \in 1 .. L /\ k + 2 # 1 /\ (k + 2) - 1 = k + 1 /\ (k + 1) + 1 = k + 2
          /\ k + 1 \in 0 .. L - 1
      BY <1>1
    <3>2. F[k + 2] = F[k + 1] \o ss[k + 2]
      BY <2>9, <3>1
    <3>3. F[k + 1] \in Seq(S) /\ Range(F[k + 1]) = U(k + 1) /\ ss[k + 2] \in Seq(S)
      BY <2>1, <2>12, <3>1
    <3>4. F[k + 2] \in Seq(S) /\ Range(F[k + 2]) = U(k + 1) \cup Range(ss[k + 2])
      <4>1. \A s, t : s \in Seq(S) /\ t \in Seq(S) =>
              s \o t \in Seq(S) /\ Range(s \o t) = Range(s) \cup Range(t)
        BY ConcatProperties, RangeConcatenation
      <4> HIDE DEF U, T, L
      <4> QED
        BY <3>2, <3>3, <4>1
    <3>5. U(k + 2) = U(k + 1) \cup Range(ss[k + 2])
      <4>1. k + 1 \in Nat
        OBVIOUS
      <4>2. 1 .. k + 2 = (1 .. k + 1) \cup {k + 2}
        <5> HIDE DEF U, T, L
        <5> QED
          BY <3>1, <4>1, IntervalGrows
      <4> QED
        BY <4>2
    <3> HIDE DEF U
    <3> QED
      BY <3>1, <3>4, <3>5
  <2> HIDE DEF T, U
  <2>13. \A k \in 0 .. L - 1 : k \in T
    <3>1. L - 1 \in Nat
      BY <1>1, <1>3
    <3> QED
      BY <2>11, <2>12, <3>1, UpTo
  <2>14. L - 1 \in 0 .. L - 1 /\ (L - 1) + 1 = L
    BY <1>1, <1>3
  <2>15. F[L] \in Seq(S) /\ Range(F[L]) = U(L)
    BY <2>13, <2>14 DEF T
  <2> QED
    BY <1>1, <2>10, <2>15, IsSequence DEF U, S
<1> QED
  BY <1>2, <1>3

-----------------------------------------------------------------------------
(* The inductive invariant *)

\* A constructor of the object has begun.
Stacked(o) == \E i \in DOMAIN stack : stack[i].object = o

\* An object that is complete
Done(o) == o \in DOMAIN objects /\ objects[o].alive /\ ~Stacked(o)

IsHost(o) == objects[o].host = NoHost

\* Where the host of an object lies or has lain, which is all that tells whether an object
\* is found for a model: equal for two objects of one model, and the other way round only
\* for hosts that are alive.
Place(o) == objects[Host(o)].address

\* A model that is complete lies there.
Housed(o) == \E h \in DOMAIN objects : Done(h) /\ IsHost(h) /\ objects[h].address = Place(o)

Children(o) == Range(objects[o].submodels) \cup ProvidersOf(objects[o].nonlinear)

Fields == {"name", "kind", "address", "host", "alive", "in", "out", "submodels", "parameters",
           "nonlinear", "named", "outLinks", "inLinks"}

ObjectOK(o) ==
  /\ DOMAIN objects[o] = Fields
  /\ objects[o].address \in DOMAIN objects
  /\ ~IsHost(o) => objects[o].host \in DOMAIN objects /\ IsHost(objects[o].host)
  /\ IsFiniteSet(objects[o].in) /\ IsFiniteSet(objects[o].out)
  /\ Sequence(objects[o].submodels)

ObjectsInv ==
  /\ Sequence(objects)
  /\ \A o \in DOMAIN objects : ObjectOK(o)
  /\ \A a, b \in DOMAIN objects :
       objects[a].alive /\ objects[b].alive /\ objects[a].address = objects[b].address => a = b

ChildrenInv ==
  \A o \in DOMAIN objects : \A k \in Children(o) \cup ProvidersOf(objects[o].named) :
     Done(k) /\ ~IsHost(k) /\ Place(k) = Place(o)

FrameFields == {"object", "models", "parameters"}

NamesInv == \A o \in DOMAIN objects : objects[o].name \in DOMAIN file

StackInv ==
  /\ Sequence(stack)
  /\ \A i \in DOMAIN stack :
       /\ DOMAIN stack[i] = FrameFields
       /\ stack[i].object \in DOMAIN objects /\ objects[stack[i].object].alive
       /\ objects[stack[i].object].host = IF i = 1 THEN NoHost ELSE stack[1].object
       /\ \A j \in DOMAIN stack : stack[i].object = stack[j].object => i = j

GotInv ==
  /\ got # None => /\ Done(got)
                   /\ IF stack = <<>> THEN IsHost(got)
                      ELSE ~IsHost(got) /\ Place(got) = objects[stack[1].object].address
  /\ links # <<>> => stack = <<>> /\ got # None

CacheInv == Sequence(cache) /\ \A c \in DOMAIN cache : Done(cache[c])

ModelsInv ==
  /\ Sequence(models)
  /\ \A i \in DOMAIN models : Done(models[i]) /\ IsHost(models[i]) /\ models[i] # got
  /\ \A i, j \in DOMAIN models : models[i] = models[j] => i = j

StoreInv ==
  /\ \A o \in DOMAIN objects : \A p \in DOMAIN objects[o].parameters :
       LET slot == objects[o].parameters[p]
       IN  /\ slot = <<Host(o), ParameterName(o, p)>>
           /\ slot \in DOMAIN store /\ store[slot] = <<objects[o].name, p>>
  /\ \A slot \in DOMAIN store : \E o \in DOMAIN objects : \E p \in DOMAIN objects[o].parameters :
       slot = objects[o].parameters[p]

RefsInv ==
  /\ IsFiniteSet(DOMAIN refs)
  /\ Rooted(refs)
  /\ \A x \in DOMAIN refs : x[1] \in DOMAIN objects /\ Housed(x[1])
  /\ \A m \in DOMAIN objects : Done(m) /\ IsHost(m) =>
       \A x \in DOMAIN refs : x[1] \in Parts(m) => refs[x][1] \in Parts(m)

Inside(q, o) == q[1][1] \in Parts(o) /\ q[2][1] \in Parts(o)

LinksOf(o) ==
  /\ \A q \in Range(objects[o].inLinks) \cup Range(objects[o].outLinks) : Inside(q, o)
  /\ \A k \in Range(objects[o].submodels) :
       /\ InputLinks(o, objects[o].kind, Range(objects[o].submodels), k) \subseteq Range(objects[o].inLinks)
       /\ Range(objects[k].inLinks) \subseteq Range(objects[o].inLinks)

IsLinked(q) == Referred(q[1]) = Referred(q[2])

LinksInv ==
  /\ \A o \in DOMAIN objects : Sequence(objects[o].inLinks) /\ Sequence(objects[o].outLinks)
  /\ \A o \in DOMAIN objects : Done(o) => LinksOf(o)
  /\ Sequence(links)
  /\ \A q \in Range(links) : Inside(q, got)
  /\ got # None /\ stack = <<>> => \A q \in Range(objects[got].inLinks) : q \in Range(links) \/ IsLinked(q)
  /\ \A m \in Range(models) : \A q \in Range(objects[m].inLinks) : IsLinked(q)

CInv ==
  /\ file \in Files
  /\ NamesInv /\ ObjectsInv /\ ChildrenInv /\ StackInv /\ GotInv /\ CacheInv /\ ModelsInv
  /\ StoreInv /\ RefsInv /\ LinksInv

-----------------------------------------------------------------------------
(* Objects, their hosts and what they are made of *)

LEMMA ObjectsAre ==
  ASSUME ObjectsInv
  PROVE  /\ Len(objects) \in Nat /\ DOMAIN objects = 1 .. Len(objects)
         /\ IsFiniteSet(DOMAIN objects) /\ None \notin DOMAIN objects /\ NoHost \notin DOMAIN objects
  <1>1. Len(objects) \in Nat /\ DOMAIN objects = 1 .. Len(objects)
    BY SequenceIs DEF ObjectsInv
  <1>2. IsFiniteSet(1 .. Len(objects))
    BY <1>1, FS_Interval
  <1> QED
    BY <1>1, <1>2 DEF None, NoHost

LEMMA HostIs ==
  ASSUME ObjectsInv, NEW o \in DOMAIN objects
  PROVE  /\ Host(o) = IF IsHost(o) THEN o ELSE objects[o].host
         /\ Host(o) \in DOMAIN objects /\ IsHost(Host(o)) /\ Host(o) # NoHost
         /\ Host(Host(o)) = Host(o)
  <1>1. ObjectOK(o)
    BY DEF ObjectsInv
  <1>2. Host(o) = IF IsHost(o) THEN o ELSE objects[o].host
    BY DEF Host, IsHost
  <1>3. Host(o) \in DOMAIN objects /\ IsHost(Host(o))
    BY <1>1, <1>2 DEF ObjectOK
  <1>4. Host(o) # NoHost
    BY <1>3, ObjectsAre
  <1>5. Host(Host(o)) = Host(o)
    BY <1>3 DEF Host, IsHost
  <1> QED
    BY <1>2, <1>3, <1>4, <1>5

\* Two hosts that are alive do not lie at the same place.
LEMMA HostsDiffer ==
  ASSUME ObjectsInv, NEW a \in DOMAIN objects, NEW b \in DOMAIN objects,
         objects[a].alive, objects[b].alive, IsHost(a), IsHost(b), Place(a) = Place(b)
  PROVE  a = b
  <1>1. Host(a) = a /\ Host(b) = b
    BY HostIs
  <1>2. objects[a].address = objects[b].address
    BY <1>1 DEF Place
  <1> QED
    BY <1>2 DEF ObjectsInv

\* The host of a child lies where that of its parent does.
LEMMA ChildIs ==
  ASSUME ObjectsInv, ChildrenInv, NEW o \in DOMAIN objects,
         NEW k \in Children(o) \cup ProvidersOf(objects[o].named)
  PROVE  k \in DOMAIN objects /\ Done(k) /\ Place(k) = Place(o) /\ ~IsHost(k)
  <1>1. Done(k) /\ ~IsHost(k) /\ Place(k) = Place(o)
    BY DEF ChildrenInv
  <1> QED
    BY <1>1 DEF Done

LEMMA PartsAre ==
  ASSUME ObjectsInv, ChildrenInv, NEW o \in DOMAIN objects
  PROVE  /\ o \in Parts(o) /\ Parts(o) \subseteq DOMAIN objects
         /\ \A k \in Parts(o) : Range(objects[k].submodels) \subseteq Parts(o)
         /\ \A S : o \in S /\ (\A k \in S \cap DOMAIN objects : Range(objects[k].submodels) \subseteq S)
                     => Parts(o) \subseteq S
         /\ \A k \in Parts(o) : Place(k) = Place(o) /\ (k = o \/ (Done(k) /\ ~IsHost(k)))
  <1> DEFINE c == [k \in DOMAIN objects |-> Range(objects[k].submodels)]
  <1>1. DOMAIN c = DOMAIN objects /\ IsFiniteSet(DOMAIN c)
    BY ObjectsAre
  <1>2. ASSUME NEW k \in DOMAIN c, NEW j \in c[k]
        PROVE  j \in DOMAIN c /\ Place(j) = Place(k) /\ Done(j) /\ ~IsHost(j)
    BY <1>2, ChildIs DEF Children
  <1>3. Parts(o) = Closure(c, o)
    BY DEF Parts
  <1>4. \A k \in DOMAIN c : c[k] = Range(objects[k].submodels)
    OBVIOUS
  <1> HIDE DEF c
  <1>5. /\ o \in Closure(c, o) /\ Closure(c, o) \subseteq DOMAIN c
        /\ \A k \in Closure(c, o) : c[k] \subseteq Closure(c, o)
        /\ \A S : o \in S /\ (\A k \in S \cap DOMAIN c : c[k] \subseteq S) => Closure(c, o) \subseteq S
    BY <1>1, <1>2, ClosureIs
  <1> DEFINE S == {k \in DOMAIN c : Place(k) = Place(o) /\ (k = o \/ (Done(k) /\ ~IsHost(k)))}
  <1>6. o \in S /\ \A k \in S \cap DOMAIN c : c[k] \subseteq S
    <2>1. ASSUME NEW k \in S, NEW j \in c[k] PROVE j \in S
      <3>1. k \in DOMAIN c /\ Place(k) = Place(o)
        OBVIOUS
      <3>2. j \in DOMAIN c /\ Place(j) = Place(k) /\ Done(j) /\ ~IsHost(j)
        BY <1>2, <3>1
      <3> QED
        BY <3>1, <3>2
    <2>2. o \in S
      BY <1>1
    <2> QED
      BY <2>1, <2>2
  <1>7. Closure(c, o) \subseteq S
    <2> HIDE DEF S
    <2> QED
      BY <1>5, <1>6
  <1> QED
    BY <1>1, <1>3, <1>4, <1>5, <1>7

LEMMA ReachAre ==
  ASSUME ObjectsInv, ChildrenInv, NEW o \in DOMAIN objects
  PROVE  Reach(o) \subseteq DOMAIN objects /\ \A k \in Reach(o) : Place(k) = Place(o)
  <1> DEFINE c == [k \in DOMAIN objects |->
                     Range(objects[k].submodels) \cup ProvidersOf(objects[k].nonlinear)]
  <1>1. DOMAIN c = DOMAIN objects /\ IsFiniteSet(DOMAIN c)
    BY ObjectsAre
  <1>2. ASSUME NEW k \in DOMAIN c, NEW j \in c[k]
        PROVE  j \in DOMAIN c /\ Place(j) = Place(k)
    BY <1>2, ChildIs DEF Children
  <1>3. Reach(o) = Closure(c, o)
    BY DEF Reach
  <1> HIDE DEF c
  <1>5. /\ o \in Closure(c, o) /\ Closure(c, o) \subseteq DOMAIN c
        /\ \A S : o \in S /\ (\A k \in S \cap DOMAIN c : c[k] \subseteq S) => Closure(c, o) \subseteq S
    BY <1>1, <1>2, ClosureIs
  <1> DEFINE S == {k \in DOMAIN c : Place(k) = Place(o)}
  <1>6. o \in S /\ \A k \in S \cap DOMAIN c : c[k] \subseteq S
    BY <1>1, <1>2
  <1>7. Closure(c, o) \subseteq S
    <2> HIDE DEF S
    <2> QED
      BY <1>5, <1>6
  <1> QED
    BY <1>1, <1>3, <1>5, <1>7

\* The same of the next state
ObjectsKnown ==
  /\ Len(objects) \in Nat /\ DOMAIN objects = 1 .. Len(objects)
  /\ IsFiniteSet(DOMAIN objects) /\ None \notin DOMAIN objects /\ NoHost \notin DOMAIN objects
  /\ \A o \in DOMAIN objects :
       /\ Host(o) = IF IsHost(o) THEN o ELSE objects[o].host
       /\ Host(o) \in DOMAIN objects /\ IsHost(Host(o)) /\ Host(o) # NoHost
       /\ Host(Host(o)) = Host(o)

ChildrenKnown ==
  \A o \in DOMAIN objects : \A k \in Children(o) \cup ProvidersOf(objects[o].named) :
    k \in DOMAIN objects /\ Done(k) /\ Place(k) = Place(o) /\ ~IsHost(k)

PartsKnown ==
  \A o \in DOMAIN objects :
    /\ o \in Parts(o) /\ Parts(o) \subseteq DOMAIN objects
    /\ \A k \in Parts(o) : Range(objects[k].submodels) \subseteq Parts(o)
    /\ \A S : o \in S /\ (\A k \in S \cap DOMAIN objects : Range(objects[k].submodels) \subseteq S)
                => Parts(o) \subseteq S
    /\ \A k \in Parts(o) : Place(k) = Place(o) /\ (k = o \/ (Done(k) /\ ~IsHost(k)))

LEMMA ObjectsFacts == ObjectsInv => ObjectsKnown
  BY ObjectsAre, HostIs DEF ObjectsKnown

LEMMA ObjectsFactsNext == ObjectsInv' => ObjectsKnown'
  BY ObjectsFacts, PTL

LEMMA ChildrenFacts == ObjectsInv /\ ChildrenInv => ChildrenKnown
  BY ChildIs DEF ChildrenKnown

LEMMA ChildrenFactsNext == ObjectsInv' /\ ChildrenInv' => ChildrenKnown'
  BY ChildrenFacts, PTL

LEMMA PartsFacts == ObjectsInv /\ ChildrenInv => PartsKnown
  BY PartsAre DEF PartsKnown

LEMMA PartsFactsNext == ObjectsInv' /\ ChildrenInv' => PartsKnown'
  BY PartsFacts, PTL

-----------------------------------------------------------------------------
(* What every step leaves as it is *)

\* Objects keep their place and their host, and those that are complete all they have.
Stable ==
  /\ DOMAIN objects \subseteq DOMAIN objects'
  /\ \A o \in DOMAIN objects : /\ objects'[o].host = objects[o].host /\ objects'[o].name = objects[o].name
                                /\ objects'[o].address = objects[o].address
  /\ \A o \in DOMAIN objects : Done(o) => Done(o)' /\ objects'[o] = objects[o]

LEMMA HostKept ==
  ASSUME ObjectsInv, ObjectsInv', Stable, NEW o \in DOMAIN objects
  PROVE  o \in DOMAIN objects' /\ Host(o)' = Host(o) /\ Place(o)' = Place(o) /\ (IsHost(o)' <=> IsHost(o))
  <1>1. o \in DOMAIN objects' /\ objects'[o].host = objects[o].host
    BY DEF Stable
  <1>2. Host(o)' = Host(o) /\ Host(o) \in DOMAIN objects
    BY <1>1, HostIs DEF Host
  <1>3. Place(o)' = Place(o)
    BY <1>2 DEF Place, Stable
  <1> QED
    BY <1>1, <1>2, <1>3 DEF IsHost

\* A model that is complete stays where it is.
LEMMA HousedKept ==
  ASSUME ObjectsInv, ObjectsInv', Stable, NEW o \in DOMAIN objects, Housed(o)
  PROVE  Housed(o)'
  <1>1. PICK h \in DOMAIN objects : Done(h) /\ IsHost(h) /\ objects[h].address = Place(o)
    BY DEF Housed
  <1>2. h \in DOMAIN objects' /\ Done(h)' /\ objects'[h].address = objects[h].address
    BY <1>1 DEF Stable
  <1>3. IsHost(h)' /\ Place(o)' = Place(o)
    BY <1>1, HostKept
  <1> QED
    BY <1>1, <1>2, <1>3 DEF Housed

LEMMA PartsKept ==
  ASSUME ObjectsInv, ChildrenInv, ObjectsInv', ChildrenInv', Stable, NEW o, Done(o)
  PROVE  Parts(o)' = Parts(o)
  <1> DEFINE c == [k \in DOMAIN objects |-> Range(objects[k].submodels)]
             d == [k \in DOMAIN objects' |-> Range(objects'[k].submodels)]
             S == {k \in DOMAIN objects : Done(k)}
  <1>1. IsFiniteSet(DOMAIN c) /\ IsFiniteSet(DOMAIN d)
    BY ObjectsFacts, ObjectsFactsNext DEF ObjectsKnown
  <1>2. ASSUME NEW k \in DOMAIN c PROVE c[k] \subseteq DOMAIN c /\ c[k] \subseteq S
    BY ChildrenFacts DEF ChildrenKnown, Children
  <1>3. ASSUME NEW k \in DOMAIN d PROVE d[k] \subseteq DOMAIN d
    BY ChildrenFactsNext DEF ChildrenKnown, Children
  <1>4. S \in SUBSET (DOMAIN c \cap DOMAIN d) /\ \A k \in S : c[k] = d[k]
    BY DEF Stable
  <1>5. o \in S
    BY DEF Done
  <1> HIDE DEF S
  <1>6. Parts(o) = Closure(c, o) /\ Parts(o)' = Closure(d, o)
    BY DEF Parts
  <1> HIDE DEF c, d
  <1>7. \A k \in S : c[k] = d[k] /\ c[k] \subseteq S
    BY <1>2, <1>4
  <1>8. Closure(c, o) = Closure(d, o)
    BY <1>1, <1>2, <1>3, <1>4, <1>5, <1>7, ClosureAgrees
  <1> QED
    BY <1>6, <1>8

\* The links of a complete object are those of complete objects.
LEMMA InputLinksKept ==
  ASSUME Stable, NEW subs, \A j \in subs : Done(j), NEW k \in subs, NEW o, NEW kind,
         subs \subseteq DOMAIN objects
  PROVE  InputLinks(o, kind, subs, k)' = InputLinks(o, kind, subs, k)
  <1>1. \A j \in subs : objects'[j] = objects[j]
    BY DEF Stable
  <1>2. ASSUME NEW v PROVE Providers(subs, k, v)' = Providers(subs, k, v)
    BY <1>1 DEF Providers
  <1>3. ASSUME NEW v PROVE Source(o, kind, subs, k, v)' = Source(o, kind, subs, k, v)
    <2>1. PICK P : P = Providers(subs, k, v)
      OBVIOUS
    <2>2. Providers(subs, k, v)' = P
      BY <1>2, <2>1
    <2> QED
      BY <2>1, <2>2 DEF Source, Inbound
  <1>4. objects'[k].in = objects[k].in
    BY <1>1
  <1> QED
    BY <1>3, <1>4 DEF InputLinks

LEMMA LinksOfKept ==
  ASSUME ObjectsInv, ChildrenInv, ObjectsInv', ChildrenInv', Stable, NEW o, Done(o), LinksOf(o)
  PROVE  LinksOf(o)'
  <1>1. o \in DOMAIN objects /\ objects'[o] = objects[o]
    BY DEF Stable, Done
  <1> DEFINE subs == Range(objects[o].submodels)
             q1 == objects[o].kind
  <1>2. \A k \in subs : k \in DOMAIN objects /\ Done(k)
    BY <1>1, ChildrenFacts DEF ChildrenKnown, Children
  <1>3. Parts(o)' = Parts(o)
    BY PartsKept
  <1>4. ASSUME NEW q \in Range(objects[o].inLinks) \cup Range(objects[o].outLinks) PROVE Inside(q, o)'
    <2>1. Inside(q, o)
      BY DEF LinksOf
    <2> QED
      BY <1>3, <2>1 DEF Inside
  <1>5. ASSUME NEW k \in subs
        PROVE  /\ InputLinks(o, q1, subs, k)' = InputLinks(o, q1, subs, k)
               /\ objects'[k] = objects[k]
    <2>1. objects'[k] = objects[k]
      BY <1>2 DEF Stable
    <2>2. PICK S, kind : S = subs /\ kind = q1
      OBVIOUS
    <2>3. InputLinks(o, kind, S, k)' = InputLinks(o, kind, S, k)
      <3> HIDE DEF subs, q1
      <3> QED
        BY <1>2, <2>2, InputLinksKept
    <2>4. subs' = subs /\ q1' = q1
      BY <1>1
    <2> QED
      BY <2>1, <2>2, <2>3, <2>4
  <1>6. ASSUME NEW k \in subs
        PROVE  /\ InputLinks(o, q1, subs, k)' \subseteq Range(objects[o].inLinks)
               /\ Range(objects'[k].inLinks) \subseteq Range(objects[o].inLinks)
    BY <1>5 DEF LinksOf
  <1> QED
    BY <1>1, <1>4, <1>6 DEF LinksOf

\* A step that makes no link and completes no object
Quiet ==
  /\ Stable
  /\ \A o \in DOMAIN objects' : o \in DOMAIN objects \/ objects'[o].name \in DOMAIN file
  /\ \A o \in DOMAIN objects' : Done(o)' => o \in DOMAIN objects /\ Done(o)
  /\ \A o \in DOMAIN objects' :
       IF o \in DOMAIN objects
       THEN objects'[o].inLinks = objects[o].inLinks /\ objects'[o].outLinks = objects[o].outLinks
       ELSE objects'[o].inLinks = <<>> /\ objects'[o].outLinks = <<>>
  /\ cache' \in {cache, <<>>} /\ models' = models /\ refs' = refs /\ links' = <<>>
  /\ got' # None => stack' # <<>>

LEMMA QuietModels ==
  ASSUME ObjectsInv, ModelsInv, CacheInv, ObjectsInv', StackInv', GotInv', Quiet
  PROVE  CacheInv' /\ ModelsInv'
  <1>1. Stable
    BY DEF Quiet
  <1>2. CacheInv'
    <2>1. CASE cache' = cache
      BY <1>1, <2>1 DEF CacheInv, Stable, Done, Sequence
    <2>2. CASE cache' = <<>>
      BY <2>2, EmptyIs DEF CacheInv
    <2> QED
      BY <2>1, <2>2 DEF Quiet
  <1>3. ASSUME NEW m, m \in Range(models)
        PROVE  Done(m)' /\ IsHost(m)' /\ m # got'
    <2>1. Done(m) /\ IsHost(m) /\ m \in DOMAIN objects
      BY <1>3 DEF ModelsInv, Done, Range
    <2>2. Done(m)'
      BY <1>1, <2>1 DEF Stable
    <2>3. IsHost(m)' /\ m \in DOMAIN objects'
      BY <1>1, <2>1, HostKept
    <2>4. ASSUME got' = m PROVE FALSE
      <3>1. got' # None
        BY <2>3, <2>4, ObjectsFactsNext DEF ObjectsKnown
      <3>2. stack' # <<>> /\ ~IsHost(got)'
        BY <3>1 DEF Quiet, GotInv
      <3> QED
        BY <2>3, <2>4, <3>2 DEF IsHost
    <2> QED
      BY <2>2, <2>3, <2>4
  <1>4. models' = models
    BY DEF Quiet
  <1>5. \A i \in DOMAIN models : Done(models[i])' /\ IsHost(models[i])' /\ models[i] # got'
    BY <1>3, <1>4 DEF Range
  <1> QED
    BY <1>2, <1>4, <1>5 DEF ModelsInv, Sequence

LEMMA QuietRefs ==
  ASSUME ObjectsInv, ChildrenInv, RefsInv, ObjectsInv', ChildrenInv', Quiet
  PROVE  RefsInv'
  <1>1. Stable /\ refs' = refs
    BY DEF Quiet
  <1>2. ASSUME NEW x \in DOMAIN refs
        PROVE  x[1] \in DOMAIN objects' /\ Housed(x[1])'
    <2>1. PICK o : o = x[1]
      OBVIOUS
    <2>2. o \in DOMAIN objects /\ Housed(o)
      BY <2>1 DEF RefsInv
    <2>3. Housed(o)' /\ o \in DOMAIN objects'
      BY <1>1, <2>2, HousedKept, HostKept
    <2> QED
      BY <2>1, <2>3 DEF Housed, Place, Host, Done, Stacked, IsHost
  <1>3. ASSUME NEW m \in DOMAIN objects', Done(m)', IsHost(m)', NEW x \in DOMAIN refs, x[1] \in Parts(m)'
        PROVE  refs[x][1] \in Parts(m)'
    <2>1. m \in DOMAIN objects /\ Done(m)
      BY <1>3 DEF Quiet
    <2>2. IsHost(m)
      BY <1>1, <1>3, <2>1, HostKept
    <2>3. Parts(m)' = Parts(m)
      BY <1>1, <2>1, PartsKept
    <2> QED
      BY <1>3, <2>1, <2>2, <2>3 DEF RefsInv
  <1> QED
    BY <1>1, <1>2, <1>3 DEF RefsInv

LEMMA QuietLinks ==
  ASSUME ObjectsInv, ChildrenInv, ModelsInv, LinksInv, ObjectsInv', ChildrenInv', Quiet
  PROVE  LinksInv'
  <1>1. Stable /\ refs' = refs /\ models' = models /\ links' = <<>>
    BY DEF Quiet
  <1>2. ASSUME NEW o \in DOMAIN objects' PROVE Sequence(objects'[o].inLinks) /\ Sequence(objects'[o].outLinks)
    BY EmptyIs DEF Quiet, LinksInv
  <1>3. ASSUME NEW o \in DOMAIN objects', Done(o)' PROVE LinksOf(o)'
    <2>1. o \in DOMAIN objects /\ Done(o)
      BY <1>3 DEF Quiet
    <2> QED
      BY <1>1, <2>1, LinksOfKept DEF LinksInv
  <1>4. Sequence(links') /\ Range(links') = {}
    BY <1>1, EmptyIs
  <1>5. ~(got' # None /\ stack' = <<>>)
    BY DEF Quiet
  <1>6. ASSUME NEW m \in Range(models), NEW q \in Range(objects'[m].inLinks) PROVE IsLinked(q)'
    <2>1. Done(m) /\ objects'[m] = objects[m]
      BY <1>1 DEF ModelsInv, Range, Stable, Done
    <2>2. IsLinked(q)
      BY <2>1 DEF LinksInv
    <2> QED
      BY <1>1, <2>2 DEF IsLinked, Referred
  <1> QED
    BY <1>1, <1>2, <1>3, <1>4, <1>5, <1>6 DEF LinksInv

LEMMA StoreKept ==
  ASSUME ObjectsInv, ObjectsInv', StoreInv, Stable, store' = store,
         \A o \in DOMAIN objects' :
           IF o \in DOMAIN objects THEN objects'[o].parameters = objects[o].parameters
           ELSE DOMAIN objects'[o].parameters = {}
  PROVE  StoreInv'
  <1>1. ASSUME NEW o \in DOMAIN objects, NEW p
        PROVE  /\ o \in DOMAIN objects' /\ objects'[o].name = objects[o].name
               /\ Host(o)' = Host(o) /\ Place(o)' = Place(o)
               /\ ParameterName(o, p)' = ParameterName(o, p)
    <2>1. o \in DOMAIN objects' /\ Host(o)' = Host(o) /\ Place(o)' = Place(o)
      BY HostKept
    <2>2. objects'[o].name = objects[o].name
      BY DEF Stable
    <2> QED
      BY <2>1, <2>2 DEF ParameterName
  <1>2. ASSUME NEW o \in DOMAIN objects', NEW p \in DOMAIN objects'[o].parameters
        PROVE  /\ objects'[o].parameters[p] = <<Host(o)', ParameterName(o, p)'>>
               /\ objects'[o].parameters[p] \in DOMAIN store
               /\ store[objects'[o].parameters[p]] = <<objects'[o].name, p>>
    <2>1. o \in DOMAIN objects /\ objects'[o].parameters = objects[o].parameters
      OBVIOUS
    <2>2. /\ objects[o].parameters[p] = <<Host(o), ParameterName(o, p)>>
          /\ objects[o].parameters[p] \in DOMAIN store
          /\ store[objects[o].parameters[p]] = <<objects[o].name, p>>
      BY <2>1 DEF StoreInv
    <2> QED
      BY <1>1, <2>1, <2>2
  <1>3. ASSUME NEW slot \in DOMAIN store
        PROVE  \E o \in DOMAIN objects' : \E p \in DOMAIN objects'[o].parameters :
                 slot = objects'[o].parameters[p]
    <2>1. PICK o \in DOMAIN objects : \E p \in DOMAIN objects[o].parameters :
                 slot = objects[o].parameters[p]
      BY DEF StoreInv
    <2>2. o \in DOMAIN objects' /\ objects'[o].parameters = objects[o].parameters
      BY DEF Stable
    <2> QED
      BY <2>1, <2>2
  <1> QED
    BY <1>2, <1>3 DEF StoreInv

\* What a constructor, or a step of one, has to keep
StepInv == ObjectsInv /\ ChildrenInv /\ StackInv /\ GotInv /\ StoreInv

LEMMA QuietKeeps ==
  ASSUME CInv, StepInv', Quiet, file' = file
  PROVE  CInv'
  <1>1. NamesInv'
    BY DEF CInv, NamesInv, Quiet, Stable
  <1> QED
    BY <1>1, QuietModels, QuietRefs, QuietLinks DEF CInv, StepInv

\* An object is begun: it is on top of the stack, and has the host of those below.
LEMMA CreateKeeps ==
  ASSUME CInv, got = None, NEW name \in DOMAIN file, NEW host,
         host = IF stack = <<>> THEN NoHost ELSE stack[1].object,
         Create(name, host), models' = models
  PROVE  StepInv' /\ Quiet
  <1>a. PICK address \in Addresses : objects' = Append(objects, New(name, host, address))
    BY DEF Create
  <1>b. PICK n, new, frame :
           /\ n = Len(objects) + 1 /\ new = New(name, host, address)
           /\ frame = [object |-> n, models |-> file[name].models, parameters |-> file[name].parameters]
    OBVIOUS
  <1>0. /\ ObjectsInv /\ ChildrenInv /\ StackInv /\ GotInv /\ StoreInv /\ LinksInv /\ file \in Files
        /\ ObjectsKnown
    BY ObjectsFacts DEF CInv
  <1>1. /\ DOMAIN new = Fields /\ new.name = name /\ new.address = address /\ new.host = host /\ new.alive = TRUE
        /\ IsFiniteSet(new.in) /\ IsFiniteSet(new.out)
        /\ new.submodels = <<>> /\ new.parameters = <<>>
        /\ new.nonlinear = {} /\ new.named = {} /\ new.inLinks = <<>> /\ new.outLinks = <<>>
    <2>2. IsFiniteSet(file[name].in) /\ IsFiniteSet({})
      BY <1>0, FS_EmptySet, FilesAssumption
    <2> QED
      BY <1>b, <2>2 DEF New, Fields
  <1>2. /\ objects' = Append(objects, new) /\ stack' = Append(stack, frame)
        /\ cache' = cache /\ store' = store /\ refs' = refs /\ got' = None /\ links' = links
    BY <1>a, <1>b DEF Create
  <1>3. /\ Sequence(objects') /\ DOMAIN objects' = DOMAIN objects \cup {n} /\ n \notin DOMAIN objects
        /\ \A o \in DOMAIN objects : objects'[o] = objects[o]
        /\ objects'[n] = new
    BY <1>b, <1>0, <1>2, AppendIs DEF ObjectsInv
  <1>4. /\ Sequence(stack') /\ stack' # <<>> /\ Len(stack) + 1 \notin DOMAIN stack
        /\ DOMAIN stack' = DOMAIN stack \cup {Len(stack) + 1}
        /\ \A i \in DOMAIN stack : stack'[i] = stack[i]
        /\ stack'[Len(stack) + 1] = frame
    BY <1>0, <1>2, AppendIs DEF StackInv
  <1>5. frame.object = n /\ DOMAIN frame = FrameFields
    BY <1>b DEF FrameFields
  <1>6. /\ Len(stack) \in Nat /\ DOMAIN stack = 1 .. Len(stack)
        /\ stack # <<>> => 1 \in DOMAIN stack /\ Len(stack) + 1 # 1
        /\ stack = <<>> => Len(stack) + 1 = 1
    BY <1>0, SequenceIs DEF StackInv
  <1>7. host = NoHost \/ (host \in DOMAIN objects /\ objects[host].host = NoHost)
    BY <1>0, <1>6 DEF StackInv
  <1>8. \A i \in DOMAIN stack : stack[i].object \in DOMAIN objects
    BY <1>0 DEF StackInv
  <1>c. /\ address \in DOMAIN objects \cup {n}
        /\ \A o \in DOMAIN objects : objects[o].alive => objects[o].address # address
    <2>1. \A o \in DOMAIN objects : objects[o].address \in DOMAIN objects
      BY <1>0 DEF ObjectsInv, ObjectOK
    <2> QED
      BY <1>b, <1>3, <2>1 DEF Addresses
  <1>9. ObjectsInv'
    <2>1. ASSUME NEW o \in DOMAIN objects PROVE ObjectOK(o)'
      <3>1. ObjectOK(o)
        BY <1>0 DEF ObjectsInv
      <3> QED
        BY <1>3, <3>1 DEF ObjectOK, IsHost
    <2>2. ObjectOK(n)'
      BY <1>1, <1>3, <1>7, <1>c, EmptyIs DEF ObjectOK, IsHost
    <2>3. ASSUME NEW a \in DOMAIN objects', NEW b \in DOMAIN objects',
                 objects'[a].alive, objects'[b].alive, objects'[a].address = objects'[b].address
          PROVE  a = b
      BY <1>0, <1>1, <1>3, <1>c, <2>3 DEF ObjectsInv
    <2> QED
      BY <1>3, <2>1, <2>2, <2>3 DEF ObjectsInv
  <1>10. \A o : Stacked(o)' <=> (Stacked(o) \/ o = n)
    BY <1>4, <1>5 DEF Stacked
  <1>11. \A o \in DOMAIN objects : Done(o)' <=> Done(o)
    <2>1. \A o \in DOMAIN objects : Stacked(o)' <=> Stacked(o)
      BY <1>3, <1>10
    <2> QED
      BY <1>3, <2>1 DEF Done
  <1>12. ~Done(n)'
    BY <1>10 DEF Done
  <1>13. Stable
    BY <1>3, <1>11 DEF Stable
  <1>14. ChildrenInv'
    <2>1. ASSUME NEW o \in DOMAIN objects, NEW k \in Children(o)' \cup ProvidersOf(objects'[o].named)
          PROVE  Done(k)' /\ ~IsHost(k)' /\ Place(k)' = Place(o)'
      <3>1. k \in Children(o) \cup ProvidersOf(objects[o].named)
        BY <1>3, <2>1 DEF Children
      <3>2. Done(k) /\ ~IsHost(k) /\ Place(k) = Place(o) /\ k \in DOMAIN objects
        BY <1>0, <3>1 DEF ChildrenInv, Done
      <3>3. Place(o)' = Place(o) /\ Place(k)' = Place(k) /\ (IsHost(k)' <=> IsHost(k))
        BY <1>0, <1>9, <1>13, <3>2, HostKept
      <3> QED
        BY <1>11, <3>2, <3>3
    <2>2. Children(n)' \cup ProvidersOf(objects'[n].named) = {}
      BY <1>1, <1>3, EmptyIs DEF Children, ProvidersOf
    <2> QED
      BY <1>3, <2>1, <2>2 DEF ChildrenInv
  <1>15. StackInv'
    <2>1. ASSUME NEW i \in DOMAIN stack
          PROVE  /\ DOMAIN stack'[i] = FrameFields
                 /\ stack'[i].object \in DOMAIN objects' /\ objects'[stack'[i].object].alive
                 /\ objects'[stack'[i].object].host = IF i = 1 THEN NoHost ELSE stack'[1].object
                 /\ \A j \in DOMAIN stack' : stack'[i].object = stack'[j].object => i = j
      <3>1. /\ DOMAIN stack[i] = FrameFields
            /\ stack[i].object \in DOMAIN objects /\ objects[stack[i].object].alive
            /\ objects[stack[i].object].host = IF i = 1 THEN NoHost ELSE stack[1].object
            /\ \A j \in DOMAIN stack : stack[i].object = stack[j].object => i = j
        BY <1>0 DEF StackInv
      <3>2. 1 \in DOMAIN stack
        BY <1>6
      <3> QED
        BY <1>3, <1>4, <1>5, <3>1, <3>2
    <2>2. LET i == Len(stack) + 1
          IN  /\ DOMAIN stack'[i] = FrameFields
              /\ stack'[i].object \in DOMAIN objects' /\ objects'[stack'[i].object].alive
              /\ objects'[stack'[i].object].host = IF i = 1 THEN NoHost ELSE stack'[1].object
              /\ \A j \in DOMAIN stack' : stack'[i].object = stack'[j].object => i = j
      BY <1>1, <1>3, <1>4, <1>5, <1>6, <1>8
    <2> QED
      BY <1>4, <2>1, <2>2 DEF StackInv
  <1>16. links = <<>>
    BY <1>0 DEF GotInv
  <1>17. GotInv'
    BY <1>2, <1>16 DEF GotInv
  <1>18. StoreInv'
    BY <1>0, <1>1, <1>2, <1>3, <1>9, <1>13, EmptyIs, StoreKept
  <1>19. Quiet
    BY <1>1, <1>2, <1>3, <1>11, <1>12, <1>13, <1>16 DEF Quiet
  <1> QED
    BY <1>9, <1>14, <1>15, <1>17, <1>18, <1>19 DEF StepInv

\* An exception: the objects of the stack are not complete, and the request is over.
LEMMA ThrowKeeps ==
  ASSUME CInv, Throw, models' = models
  PROVE  StepInv' /\ Quiet
  <1>0. /\ ObjectsInv /\ ChildrenInv /\ StackInv /\ GotInv /\ StoreInv /\ LinksInv
        /\ ObjectsKnown
    BY ObjectsFacts DEF CInv
  <1>1. /\ objects' = [o \in DOMAIN objects |->
                         IF Stacked(o) THEN [objects[o] EXCEPT !.alive = FALSE] ELSE objects[o]]
        /\ stack' = <<>> /\ got' = None /\ links' = <<>>
        /\ cache' = cache /\ store' = store /\ refs' = refs
    BY DEF Throw, Stacked
  <1>2. /\ DOMAIN objects' = DOMAIN objects
        /\ \A o \in DOMAIN objects : ~Stacked(o) => objects'[o] = objects[o]
    BY <1>1
  <1>3. ASSUME NEW o \in DOMAIN objects
        PROVE  /\ DOMAIN objects'[o] = Fields
               /\ \A f \in Fields : f # "alive" => objects'[o][f] = objects[o][f]
               /\ Stacked(o) => ~objects'[o].alive
    <2>1. DOMAIN objects[o] = Fields /\ "alive" \in Fields
      BY <1>0 DEF ObjectsInv, ObjectOK, Fields
    <2>2. objects'[o] = IF Stacked(o) THEN [objects[o] EXCEPT !.alive = FALSE] ELSE objects[o]
      BY <1>1
    <2> QED
      BY <2>1, <2>2
  <1>4. ASSUME NEW o \in DOMAIN objects
        PROVE  /\ objects'[o].name = objects[o].name /\ objects'[o].address = objects[o].address
               /\ objects'[o].host = objects[o].host /\ objects'[o].in = objects[o].in
               /\ objects'[o].out = objects[o].out /\ objects'[o].submodels = objects[o].submodels
               /\ objects'[o].parameters = objects[o].parameters
               /\ objects'[o].nonlinear = objects[o].nonlinear /\ objects'[o].named = objects[o].named
               /\ objects'[o].inLinks = objects[o].inLinks /\ objects'[o].outLinks = objects[o].outLinks
    BY <1>3 DEF Fields
  <1>5. \A o : ~Stacked(o)'
    BY <1>1, EmptyIs DEF Stacked
  <1>6. \A o \in DOMAIN objects : Done(o)' <=> Done(o)
    BY <1>2, <1>3, <1>5 DEF Done
  <1>7. ObjectsInv'
    <2>1. Sequence(objects')
      <3>1. objects' \in Seq({objects'[o] : o \in DOMAIN objects})
        <4>1. objects' = [o \in 1 .. Len(objects) |-> objects'[o]]
          BY <1>0, <1>1 DEF ObjectsKnown
        <4>2. \A o \in 1 .. Len(objects) : objects'[o] \in {objects'[a] : a \in DOMAIN objects}
          BY <1>0 DEF ObjectsKnown
        <4>3. Len(objects) \in Nat
          BY <1>0 DEF ObjectsKnown
        <4> QED
          BY <4>1, <4>2, <4>3, SeqDef
      <3> QED
        BY <3>1, IsSequence
    <2>2. ASSUME NEW o \in DOMAIN objects PROVE ObjectOK(o)'
      <3>1. ObjectOK(o)
        BY <1>0 DEF ObjectsInv
      <3> QED
        BY <1>2, <1>3, <1>4, <3>1 DEF ObjectOK, IsHost
    <2>3. \A o \in DOMAIN objects : objects'[o].alive => objects[o].alive
      BY <1>2, <1>3
    <2>4. ASSUME NEW a \in DOMAIN objects, NEW b \in DOMAIN objects,
                 objects'[a].alive, objects'[b].alive, objects'[a].address = objects'[b].address
          PROVE  a = b
      BY <1>0, <1>4, <2>3, <2>4 DEF ObjectsInv
    <2> QED
      BY <1>2, <2>1, <2>2, <2>4 DEF ObjectsInv
  <1>8. Stable
    BY <1>2, <1>4, <1>6 DEF Stable, Done
  <1>9. ASSUME NEW o \in DOMAIN objects PROVE Place(o)' = Place(o) /\ (IsHost(o)' <=> IsHost(o))
    BY <1>0, <1>7, <1>8, HostKept
  <1>10. ChildrenInv'
    <2>1. ASSUME NEW o \in DOMAIN objects, NEW k \in Children(o)' \cup ProvidersOf(objects'[o].named)
          PROVE  Done(k)' /\ ~IsHost(k)' /\ Place(k)' = Place(o)'
      <3>1. k \in Children(o) \cup ProvidersOf(objects[o].named)
        BY <1>4, <2>1 DEF Children
      <3>2. Done(k) /\ ~IsHost(k) /\ Place(k) = Place(o) /\ k \in DOMAIN objects
        BY <1>0, <3>1 DEF ChildrenInv, Done
      <3> QED
        BY <1>6, <1>9, <3>2
    <2> QED
      BY <1>2, <2>1 DEF ChildrenInv
  <1>11. StackInv' /\ GotInv'
    BY <1>1, EmptyIs DEF StackInv, GotInv
  <1>12. StoreInv'
    BY <1>0, <1>1, <1>2, <1>4, <1>7, <1>8, StoreKept
  <1>13. Quiet
    BY <1>1, <1>2, <1>4, <1>6, <1>8 DEF Quiet
  <1> QED
    BY <1>7, <1>10, <1>11, <1>12, <1>13 DEF StepInv

\* A step of the constructor on top of the stack changes what its object has.
LEMMA WorkKeeps ==
  ASSUME CInv, stack # <<>>, NEW t, t = Top.object, NEW new, NEW frame,
         objects' = [objects EXCEPT ![t] = new],
         DOMAIN new = Fields,
         new.name = objects[t].name, new.address = objects[t].address, new.host = objects[t].host,
         new.alive = objects[t].alive, new.out = objects[t].out, new.named = objects[t].named,
         new.inLinks = objects[t].inLinks, new.outLinks = objects[t].outLinks,
         IsFiniteSet(new.in), Sequence(new.submodels),
         \A k \in Range(new.submodels) \cup ProvidersOf(new.nonlinear) :
           Done(k) /\ ~IsHost(k) /\ Place(k) = Place(t),
         stack' = [stack EXCEPT ![Len(stack)] = frame], frame.object = t, DOMAIN frame = FrameFields,
         cache' = cache, refs' = refs, models' = models, links' = links, got' = None
  PROVE  ObjectsInv' /\ ChildrenInv' /\ StackInv' /\ GotInv' /\ Stable /\ Quiet
  <1>0. /\ ObjectsInv /\ ChildrenInv /\ StackInv /\ GotInv
    BY DEF CInv
  <1>1. links = <<>>
    BY <1>0 DEF GotInv
  <1>2. Len(stack) \in DOMAIN stack /\ 1 \in DOMAIN stack
    BY <1>0, SequenceIs DEF StackInv
  <1>3. t = stack[Len(stack)].object /\ t \in DOMAIN objects /\ Stacked(t)
    BY <1>0, <1>2 DEF Top, StackInv, Stacked
  <1>4. /\ DOMAIN objects' = DOMAIN objects /\ objects'[t] = new
        /\ \A o \in DOMAIN objects : o # t => objects'[o] = objects[o]
        /\ Sequence(objects')
    BY <1>0, <1>3, UpdateIs DEF ObjectsInv
  <1>5. /\ DOMAIN stack' = DOMAIN stack /\ stack'[Len(stack)] = frame /\ Sequence(stack')
        /\ \A i \in DOMAIN stack : i # Len(stack) => stack'[i] = stack[i]
    BY <1>0, <1>2, UpdateIs DEF StackInv
  <1>6. \A i \in DOMAIN stack : stack'[i].object = stack[i].object
    BY <1>3, <1>5
  <1>7. \A o : Stacked(o)' <=> Stacked(o)
    BY <1>5, <1>6 DEF Stacked
  <1>8. /\ \A o \in DOMAIN objects : objects'[o].name = objects[o].name
             /\ objects'[o].host = objects[o].host /\ objects'[o].address = objects[o].address
             /\ objects'[o].alive = objects[o].alive
             /\ objects'[o].inLinks = objects[o].inLinks /\ objects'[o].outLinks = objects[o].outLinks
    BY <1>4
  <1>9. \A o \in DOMAIN objects : Done(o)' <=> Done(o)
    BY <1>4, <1>7, <1>8 DEF Done
  <1>11. ObjectsInv'
    <2>1. ASSUME NEW o \in DOMAIN objects PROVE ObjectOK(o)'
      <3>1. ObjectOK(o) /\ ObjectOK(t)
        BY <1>0, <1>3 DEF ObjectsInv
      <3>2. CASE o = t
        BY <1>4, <1>8, <3>1, <3>2 DEF ObjectOK, IsHost
      <3>3. CASE o # t
        BY <1>4, <1>8, <3>1, <3>3 DEF ObjectOK, IsHost
      <3> QED
        BY <3>2, <3>3
    <2>2. ASSUME NEW a \in DOMAIN objects, NEW b \in DOMAIN objects,
                 objects'[a].alive, objects'[b].alive, objects'[a].address = objects'[b].address
          PROVE  a = b
      BY <1>0, <1>8, <2>2 DEF ObjectsInv
    <2> QED
      BY <1>4, <2>1, <2>2 DEF ObjectsInv
  <1>12. Stable
    BY <1>3, <1>4, <1>8, <1>9 DEF Stable, Done
  <1>10. ASSUME NEW o \in DOMAIN objects PROVE Place(o)' = Place(o) /\ (IsHost(o)' <=> IsHost(o))
    BY <1>0, <1>11, <1>12, HostKept
  <1>13. ChildrenInv'
    <2>1. ASSUME NEW o \in DOMAIN objects, NEW k \in Children(o)' \cup ProvidersOf(objects'[o].named)
          PROVE  Done(k)' /\ ~IsHost(k)' /\ Place(k)' = Place(o)'
      <3>1. Done(k) /\ ~IsHost(k) /\ Place(k) = Place(o)
        <4>1. CASE o = t
          <5>1. k \in Range(new.submodels) \cup ProvidersOf(new.nonlinear)
                \/ k \in ProvidersOf(objects[t].named)
            BY <1>4, <2>1, <4>1 DEF Children
          <5> QED
            BY <1>0, <1>3, <4>1, <5>1 DEF ChildrenInv
        <4>2. CASE o # t
          BY <1>0, <1>4, <2>1, <4>2 DEF ChildrenInv, Children
        <4> QED
          BY <4>1, <4>2
      <3>2. k \in DOMAIN objects
        BY <3>1 DEF Done
      <3> QED
        BY <1>9, <1>10, <3>1, <3>2
    <2> QED
      BY <1>4, <2>1 DEF ChildrenInv
  <1>14. StackInv'
    <2>1. ASSUME NEW i \in DOMAIN stack
          PROVE  /\ DOMAIN stack'[i] = FrameFields
                 /\ stack'[i].object \in DOMAIN objects' /\ objects'[stack'[i].object].alive
                 /\ objects'[stack'[i].object].host = IF i = 1 THEN NoHost ELSE stack'[1].object
                 /\ \A j \in DOMAIN stack' : stack'[i].object = stack'[j].object => i = j
      <3>1. /\ DOMAIN stack[i] = FrameFields
            /\ stack[i].object \in DOMAIN objects /\ objects[stack[i].object].alive
            /\ objects[stack[i].object].host = IF i = 1 THEN NoHost ELSE stack[1].object
            /\ \A j \in DOMAIN stack : stack[i].object = stack[j].object => i = j
        BY <1>0 DEF StackInv
      <3>2. DOMAIN stack'[i] = FrameFields
        BY <1>5, <3>1
      <3> QED
        BY <1>2, <1>4, <1>5, <1>6, <1>8, <3>1, <3>2
    <2> QED
      BY <1>5, <2>1 DEF StackInv
  <1>15. GotInv'
    BY <1>1 DEF GotInv
  <1>16. Quiet
    BY <1>1, <1>4, <1>8, <1>9, <1>12 DEF Quiet
  <1> QED
    BY <1>11, <1>12, <1>13, <1>14, <1>15, <1>16

\* The object on top of the stack, whose host is at its bottom
LEMMA TopIs ==
  ASSUME CInv, stack # <<>>, NEW t, t = Top.object
  PROVE  /\ Len(stack) \in DOMAIN stack /\ 1 \in DOMAIN stack /\ Top = stack[Len(stack)]
         /\ DOMAIN Top = FrameFields
         /\ t \in DOMAIN objects /\ objects[t].alive /\ Stacked(t) /\ ObjectOK(t)
         /\ Host(t) = stack[1].object /\ Place(t) = objects[stack[1].object].address
         /\ links = <<>>
  <1>0. ObjectsInv /\ StackInv /\ GotInv /\ ObjectsKnown
    BY ObjectsFacts DEF CInv
  <1>1. Len(stack) \in DOMAIN stack /\ 1 \in DOMAIN stack
    BY <1>0, SequenceIs DEF StackInv
  <1>2. Top = stack[Len(stack)]
    BY DEF Top
  <1>3. /\ DOMAIN Top = FrameFields
        /\ t \in DOMAIN objects /\ objects[t].alive
        /\ objects[t].host = IF Len(stack) = 1 THEN NoHost ELSE stack[1].object
        /\ stack[1].object \in DOMAIN objects /\ objects[stack[1].object].alive
    BY <1>0, <1>1, <1>2 DEF StackInv
  <1>4. Host(t) = stack[1].object
    <2>1. Host(t) = IF IsHost(t) THEN t ELSE objects[t].host
      BY <1>0, <1>3 DEF ObjectsKnown
    <2>2. stack[1].object # NoHost
      BY <1>0, <1>3 DEF ObjectsKnown
    <2>3. CASE Len(stack) = 1
      BY <1>2, <1>3, <2>1, <2>3 DEF IsHost
    <2>4. CASE Len(stack) # 1
      BY <1>3, <2>1, <2>2, <2>4 DEF IsHost
    <2> QED
      BY <2>3, <2>4
  <1>5. Place(t) = objects[stack[1].object].address
    BY <1>4 DEF Place
  <1>6. Stacked(t) /\ ObjectOK(t) /\ links = <<>>
    BY <1>0, <1>1, <1>2, <1>3 DEF Stacked, ObjectsInv, GotInv
  <1> QED
    BY <1>1, <1>2, <1>3, <1>4, <1>5, <1>6

LEMMA NamesDiffer ==
  ASSUME NEW p, NEW q, NEW a
  PROVE  <<p>> # <<a, q>>
  <1>1. Len(<<p>>) = 1 /\ Len(<<a, q>>) = 2
    OBVIOUS
  <1> QED
    BY <1>1

\* A parameter in the store of its host tells who declared it.
LEMMA SlotIs ==
  ASSUME ObjectsInv, NEW o \in DOMAIN objects, NEW p, NEW k \in DOMAIN objects, NEW q,
         <<Host(o), ParameterName(o, p)>> = <<Host(k), ParameterName(k, q)>>
  PROVE  <<objects[o].name, p>> = <<objects[k].name, q>>
  <1>2. Host(o) = Host(k) /\ ParameterName(o, p) = ParameterName(k, q)
    OBVIOUS
  <1>3. CASE Host(o) = o
    <2>1. ParameterName(o, p) = <<p>>
      BY <1>3 DEF ParameterName
    <2>2. Host(k) = k
      BY <1>2, <2>1, NamesDiffer DEF ParameterName
    <2>3. ParameterName(k, q) = <<q>>
      BY <2>2 DEF ParameterName
    <2>4. \A a, b : <<a>> = <<b>> => a = b
      OBVIOUS
    <2> QED
      BY <1>2, <1>3, <2>1, <2>2, <2>3, <2>4
  <1>4. CASE Host(o) # o
    <2>1. ParameterName(o, p) = <<objects[o].name, p>>
      BY <1>4 DEF ParameterName
    <2>2. Host(k) # k
      BY <1>2, <2>1, NamesDiffer DEF ParameterName
    <2>3. ParameterName(k, q) = <<objects[k].name, q>>
      BY <2>2 DEF ParameterName
    <2> QED
      BY <1>2, <2>1, <2>3
  <1> QED
    BY <1>3, <1>4

\* A parameter that is a value enters the store of the host, or is there already.
LEMMA DeclareKeeps ==
  ASSUME CInv, stack # <<>>, got = None, NEW p, NEW t, t = Top.object, DeclareValue(t, p),
         models' = models
  PROVE  StepInv' /\ Quiet
  <1>0. ObjectsInv /\ StoreInv
    BY DEF CInv
  <1>1. /\ Len(stack) \in DOMAIN stack /\ Top = stack[Len(stack)] /\ DOMAIN Top = FrameFields
        /\ t \in DOMAIN objects /\ ObjectOK(t)
    BY TopIs
  <1>2. PICK slot, new, frame :
          /\ slot = <<Host(t), ParameterName(t, p)>>
          /\ new = [objects[t] EXCEPT !.parameters = Put(@, p, slot)]
          /\ frame = [Top EXCEPT !.parameters = Tail(@)]
    OBVIOUS
  <1>3. /\ store' = IF slot \in DOMAIN store THEN store ELSE Put(store, slot, <<objects[t].name, p>>)
        /\ objects' = [objects EXCEPT ![t] = new]
        /\ stack' = [stack EXCEPT ![Len(stack)] = frame]
        /\ cache' = cache /\ refs' = refs /\ got' = None /\ links' = links
    BY <1>1, <1>2 DEF DeclareValue, Declared
  <1>4. /\ DOMAIN new = Fields /\ new.parameters = Put(objects[t].parameters, p, slot)
        /\ \A f \in Fields : f # "parameters" => new[f] = objects[t][f]
    BY <1>1, <1>2 DEF ObjectOK, Fields
  <1>5. frame.object = t /\ DOMAIN frame = FrameFields
    BY <1>1, <1>2 DEF FrameFields
  <1>6. ObjectsInv' /\ ChildrenInv' /\ StackInv' /\ GotInv' /\ Stable /\ Quiet
    <2>1. /\ new.name = objects[t].name /\ new.address = objects[t].address /\ new.host = objects[t].host
          /\ new.alive = objects[t].alive /\ new.out = objects[t].out /\ new.named = objects[t].named
          /\ new.inLinks = objects[t].inLinks /\ new.outLinks = objects[t].outLinks
          /\ new.in = objects[t].in /\ new.submodels = objects[t].submodels
          /\ new.nonlinear = objects[t].nonlinear
      BY <1>4 DEF Fields
    <2>2. \A k \in Range(new.submodels) \cup ProvidersOf(new.nonlinear) :
            Done(k) /\ ~IsHost(k) /\ Place(k) = Place(t)
      BY <1>1, <2>1 DEF CInv, ChildrenInv, Children
    <2>3. IsFiniteSet(new.in) /\ Sequence(new.submodels)
      BY <1>1, <2>1 DEF ObjectOK
    <2> QED
      BY <1>3, <1>4, <1>5, <2>1, <2>2, <2>3, WorkKeeps
  <1>7. /\ DOMAIN objects' = DOMAIN objects
        /\ \A o \in DOMAIN objects : o # t => objects'[o].parameters = objects[o].parameters
        /\ objects'[t].parameters = Put(objects[t].parameters, p, slot)
    BY <1>1, <1>3, <1>4
  <1>8. ASSUME NEW o \in DOMAIN objects, NEW q
        PROVE  /\ objects'[o].name = objects[o].name /\ Host(o)' = Host(o)
               /\ ParameterName(o, q)' = ParameterName(o, q)
    <2>1. objects'[o].name = objects[o].name /\ Host(o)' = Host(o)
      BY <1>0, <1>6, HostKept DEF Stable
    <2> QED
      BY <2>1 DEF ParameterName
  <1>9. \A s \in DOMAIN store : s \in DOMAIN store' /\ store'[s] = store[s]
    BY <1>3 DEF Put
  <1>10. slot \in DOMAIN store' /\ store'[slot] = <<objects[t].name, p>>
    <2>1. CASE slot \in DOMAIN store
      <3>1. PICK o \in DOMAIN objects : \E q \in DOMAIN objects[o].parameters : slot = objects[o].parameters[q]
        BY <1>0, <2>1 DEF StoreInv
      <3>2. PICK q \in DOMAIN objects[o].parameters : slot = objects[o].parameters[q]
        BY <3>1
      <3>3. slot = <<Host(o), ParameterName(o, q)>> /\ store[slot] = <<objects[o].name, q>>
        BY <1>0, <3>2 DEF StoreInv
      <3>4. <<objects[o].name, q>> = <<objects[t].name, p>>
        BY <1>0, <1>1, <1>2, <3>3, SlotIs
      <3> QED
        BY <1>3, <2>1, <3>3, <3>4
    <2>2. CASE slot \notin DOMAIN store
      BY <1>3, <2>2 DEF Put
    <2> QED
      BY <2>1, <2>2
  <1>11. ASSUME NEW o \in DOMAIN objects, NEW q \in DOMAIN objects[o].parameters
         PROVE  /\ q \in DOMAIN objects'[o].parameters
                /\ objects'[o].parameters[q] = objects[o].parameters[q]
    <2>1. CASE o = t /\ q = p
      <3>1. objects[t].parameters[p] = slot
        BY <1>0, <1>2, <2>1 DEF StoreInv
      <3> QED
        BY <1>7, <2>1, <3>1 DEF Put
    <2>2. CASE o = t /\ q # p
      BY <1>7, <2>2 DEF Put
    <2>3. CASE o # t
      BY <1>7, <2>3
    <2> QED
      BY <2>1, <2>2, <2>3
  <1>12. p \in DOMAIN objects'[t].parameters /\ objects'[t].parameters[p] = slot
    BY <1>7 DEF Put
  <1>13. ASSUME NEW o \in DOMAIN objects, NEW q \in DOMAIN objects'[o].parameters
         PROVE  /\ objects'[o].parameters[q] = <<Host(o)', ParameterName(o, q)'>>
                /\ objects'[o].parameters[q] \in DOMAIN store'
                /\ store'[objects'[o].parameters[q]] = <<objects'[o].name, q>>
    <2>1. CASE o = t /\ q = p
      BY <1>2, <1>8, <1>10, <1>12, <2>1
    <2>2. CASE ~(o = t /\ q = p)
      <3>1. q \in DOMAIN objects[o].parameters
        BY <1>7, <2>2 DEF Put
      <3>2. /\ objects[o].parameters[q] = <<Host(o), ParameterName(o, q)>>
            /\ objects[o].parameters[q] \in DOMAIN store
            /\ store[objects[o].parameters[q]] = <<objects[o].name, q>>
        BY <1>0, <3>1 DEF StoreInv
      <3> QED
        BY <1>8, <1>9, <1>11, <3>1, <3>2
    <2> QED
      BY <2>1, <2>2
  <1>14. ASSUME NEW s \in DOMAIN store'
         PROVE  \E o \in DOMAIN objects' : \E q \in DOMAIN objects'[o].parameters : s = objects'[o].parameters[q]
    <2>1. CASE s = slot
      BY <1>1, <1>7, <1>12, <2>1
    <2>2. CASE s # slot
      <3>1. s \in DOMAIN store
        BY <1>3, <2>2 DEF Put
      <3>2. PICK o \in DOMAIN objects : \E q \in DOMAIN objects[o].parameters : s = objects[o].parameters[q]
        BY <1>0, <3>1 DEF StoreInv
      <3> QED
        BY <1>7, <1>11, <3>2
    <2> QED
      BY <2>1, <2>2
  <1>15. StoreInv'
    BY <1>7, <1>13, <1>14 DEF StoreInv
  <1> QED
    BY <1>6, <1>15 DEF StepInv

\* The host of a model that has been made or found lies where that of the object that asked
\* for it does.
LEMMA GotIs ==
  ASSUME CInv, stack # <<>>, got # None, NEW t, t = Top.object
  PROVE  got \in DOMAIN objects /\ Done(got) /\ ~IsHost(got) /\ Place(got) = Place(t) /\ ObjectOK(got)
  <1>1. Done(got) /\ ~IsHost(got) /\ Place(got) = objects[stack[1].object].address
    BY DEF CInv, GotInv
  <1>2. Place(t) = objects[stack[1].object].address
    BY TopIs
  <1>3. got \in DOMAIN objects /\ ObjectOK(got)
    BY <1>1 DEF Done, CInv, ObjectsInv
  <1> QED
    BY <1>1, <1>2, <1>3

LEMMA RegisteredKeeps ==
  ASSUME CInv, ModelRegistered
  PROVE  StepInv' /\ Quiet
  <1>1. PICK t, in : /\ t = Top.object
                     /\ in = IF objects[t].kind = "composed" THEN {} ELSE objects[got].in
    OBVIOUS
  <1>2. stack # <<>> /\ got # None /\ models' = models
    BY DEF ModelRegistered
  <1>3. CASE Throw
    BY <1>2, <1>3, ThrowKeeps
  <1>4. CASE ~Throw
    <2>1. /\ objects' = [objects EXCEPT ![t].submodels = Append(@, got), ![t].in = @ \cup in]
          /\ stack' = [stack EXCEPT ![Len(stack)].models = Tail(@)]
          /\ got' = None /\ cache' = cache /\ store' = store /\ refs' = refs /\ links' = links
      BY <1>1, <1>4 DEF ModelRegistered
    <2>2. /\ Len(stack) \in DOMAIN stack /\ Top = stack[Len(stack)] /\ DOMAIN Top = FrameFields
          /\ t \in DOMAIN objects /\ ObjectOK(t)
      BY <1>1, <1>2, TopIs
    <2>3. got \in DOMAIN objects /\ Done(got) /\ ~IsHost(got) /\ Place(got) = Place(t) /\ ObjectOK(got)
      BY <1>1, <1>2, GotIs
    <2>4. PICK new, frame :
            /\ new = [objects[t] EXCEPT !.submodels = Append(@, got), !.in = @ \cup in]
            /\ frame = [Top EXCEPT !.models = Tail(@)]
      OBVIOUS
    <2>5. objects' = [objects EXCEPT ![t] = new] /\ stack' = [stack EXCEPT ![Len(stack)] = frame]
      BY <2>1, <2>2, <2>4
    <2>6. /\ DOMAIN new = Fields /\ new.submodels = Append(objects[t].submodels, got)
          /\ new.in = objects[t].in \cup in
          /\ \A f \in Fields : f # "submodels" /\ f # "in" => new[f] = objects[t][f]
      BY <2>2, <2>4 DEF ObjectOK, Fields
    <2>7. frame.object = t /\ DOMAIN frame = FrameFields
      BY <1>1, <2>2, <2>4 DEF FrameFields
    <2>8. /\ new.name = objects[t].name /\ new.address = objects[t].address /\ new.host = objects[t].host
          /\ new.alive = objects[t].alive /\ new.out = objects[t].out /\ new.named = objects[t].named
          /\ new.inLinks = objects[t].inLinks /\ new.outLinks = objects[t].outLinks
          /\ new.nonlinear = objects[t].nonlinear /\ new.parameters = objects[t].parameters
      BY <2>6 DEF Fields
    <2>9. Sequence(new.submodels) /\ Range(new.submodels) = Range(objects[t].submodels) \cup {got}
      BY <2>2, <2>6, AppendIs DEF ObjectOK
    <2>10. IsFiniteSet(new.in)
      <3>1. IsFiniteSet(in)
        BY <1>1, <2>3, FS_EmptySet DEF ObjectOK
      <3> QED
        <4>1. IsFiniteSet(objects[t].in)
          BY <2>2 DEF ObjectOK
        <4>2. IsFiniteSet(objects[t].in \cup in)
          BY <3>1, <4>1, FS_Union
        <4> QED
          BY <2>6, <4>2
    <2>11. \A k \in Range(new.submodels) \cup ProvidersOf(new.nonlinear) :
             Done(k) /\ ~IsHost(k) /\ Place(k) = Place(t)
      BY <2>2, <2>3, <2>8, <2>9 DEF CInv, ChildrenInv, Children
    <2>12. ObjectsInv' /\ ChildrenInv' /\ StackInv' /\ GotInv' /\ Stable /\ Quiet
      BY <1>1, <1>2, <2>1, <2>5, <2>6, <2>7, <2>8, <2>9, <2>10, <2>11, WorkKeeps
    <2>13. StoreInv'
      <3>1. \A o \in DOMAIN objects' : o \in DOMAIN objects /\ objects'[o].parameters = objects[o].parameters
        BY <2>2, <2>5, <2>8
      <3> QED
        BY <2>1, <2>12, <3>1, StoreKept DEF CInv
    <2> QED
      BY <2>12, <2>13 DEF StepInv
  <1> QED
    BY <1>3, <1>4

LEMMA ProvidedKeeps ==
  ASSUME CInv, ParameterProvided
  PROVE  StepInv' /\ Quiet
  <1>1. PICK t, name, var :
          /\ t = Top.object /\ name = <<Head(Top.parameters)[1]>>
          /\ var = CHOOSE v \in objects[got].out : TRUE
    OBVIOUS
  <1>2. stack # <<>> /\ got # None /\ models' = models
    BY DEF ParameterProvided
  <1>3. CASE Throw
    BY <1>2, <1>3, ThrowKeeps
  <1>4. CASE ~Throw
    <2>0. PICK more : more = [name |-> name, provider |-> got, var |-> var]
      OBVIOUS
    <2>1. /\ objects' = [objects EXCEPT ![t].in = @ \cup {var}, ![t].nonlinear = @ \cup {more}]
          /\ stack' = [stack EXCEPT ![Len(stack)].parameters = Tail(@)]
          /\ got' = None /\ cache' = cache /\ store' = store /\ refs' = refs /\ links' = links
      BY <1>1, <1>4, <2>0 DEF ParameterProvided, Declared
    <2>2. /\ Len(stack) \in DOMAIN stack /\ Top = stack[Len(stack)] /\ DOMAIN Top = FrameFields
          /\ t \in DOMAIN objects /\ ObjectOK(t)
      BY <1>1, <1>2, TopIs
    <2>3. got \in DOMAIN objects /\ Done(got) /\ ~IsHost(got) /\ Place(got) = Place(t)
      BY <1>1, <1>2, GotIs
    <2>4. PICK new, frame :
            /\ new = [objects[t] EXCEPT !.in = @ \cup {var}, !.nonlinear = @ \cup {more}]
            /\ frame = [Top EXCEPT !.parameters = Tail(@)]
      OBVIOUS
    <2>5. objects' = [objects EXCEPT ![t] = new] /\ stack' = [stack EXCEPT ![Len(stack)] = frame]
      BY <2>1, <2>2, <2>4
    <2>6. /\ DOMAIN new = Fields /\ new.nonlinear = objects[t].nonlinear \cup {more}
          /\ new.in = objects[t].in \cup {var}
          /\ \A f \in Fields : f # "nonlinear" /\ f # "in" => new[f] = objects[t][f]
      BY <2>2, <2>4 DEF ObjectOK, Fields
    <2>7. frame.object = t /\ DOMAIN frame = FrameFields
      BY <1>1, <2>2, <2>4 DEF FrameFields
    <2>8. /\ new.name = objects[t].name /\ new.address = objects[t].address /\ new.host = objects[t].host
          /\ new.alive = objects[t].alive /\ new.out = objects[t].out /\ new.named = objects[t].named
          /\ new.inLinks = objects[t].inLinks /\ new.outLinks = objects[t].outLinks
          /\ new.submodels = objects[t].submodels /\ new.parameters = objects[t].parameters
      BY <2>6 DEF Fields
    <2>9. ProvidersOf(new.nonlinear) = ProvidersOf(objects[t].nonlinear) \cup {got}
      BY <2>0, <2>6 DEF ProvidersOf
    <2>10. IsFiniteSet(new.in) /\ Sequence(new.submodels)
      <3>1. IsFiniteSet(objects[t].in) /\ Sequence(objects[t].submodels)
        BY <2>2 DEF ObjectOK
      <3>2. IsFiniteSet(objects[t].in \cup {var})
        BY <3>1, FS_AddElement
      <3> QED
        BY <2>6, <2>8, <3>1, <3>2
    <2>11. \A k \in Range(new.submodels) \cup ProvidersOf(new.nonlinear) :
             Done(k) /\ ~IsHost(k) /\ Place(k) = Place(t)
      BY <2>2, <2>3, <2>8, <2>9 DEF CInv, ChildrenInv, Children
    <2>12. ObjectsInv' /\ ChildrenInv' /\ StackInv' /\ GotInv' /\ Stable /\ Quiet
      BY <1>1, <1>2, <2>1, <2>5, <2>6, <2>7, <2>8, <2>10, <2>11, WorkKeeps
    <2>13. StoreInv'
      <3>1. \A o \in DOMAIN objects' : o \in DOMAIN objects /\ objects'[o].parameters = objects[o].parameters
        BY <2>2, <2>5, <2>8
      <3> QED
        BY <2>1, <2>12, <3>1, StoreKept DEF CInv
    <2> QED
      BY <2>12, <2>13 DEF StepInv
  <1> QED
    BY <1>3, <1>4

\* A step that leaves the objects, the stack and the parameters as they are
LEMMA IdleKeeps ==
  ASSUME CInv, objects' = objects, stack' = stack, store' = store
  PROVE  /\ ObjectsInv' /\ ChildrenInv' /\ StackInv' /\ StoreInv' /\ Stable
         /\ \A o : (Stacked(o)' <=> Stacked(o)) /\ (Done(o)' <=> Done(o))
  <1>1. \A o : (Stacked(o)' <=> Stacked(o)) /\ (Done(o)' <=> Done(o))
    BY DEF Stacked, Done
  <1>2. ObjectsInv'
    BY DEF CInv, ObjectsInv, ObjectOK, IsHost
  <1>3. ASSUME NEW o PROVE /\ Place(o)' = Place(o) /\ (IsHost(o)' <=> IsHost(o))
                           /\ Children(o)' = Children(o)
    BY DEF Place, Host, IsHost, Children
  <1>4. ChildrenInv'
    BY <1>1, <1>3 DEF CInv, ChildrenInv
  <1>5. StackInv' /\ Stable
    BY <1>1 DEF CInv, StackInv, Stable
  <1>6. StoreInv'
    BY <1>2, <1>5, StoreKept DEF CInv
  <1> QED
    BY <1>1, <1>2, <1>4, <1>5, <1>6

\* A model in the cache is the answer.
LEMMA FoundKeeps ==
  ASSUME CInv, stack # <<>>, NEW t, t = Top.object, NEW name, NEW found,
         found = {c \in DOMAIN cache : /\ objects[cache[c]].name = name
                                       /\ Compatible(objects[cache[c]], Host(t))},
         found # {}, got' = cache[Min(found)], models' = models,
         UNCHANGED <<objects, cache, store, refs, stack, links>>
  PROVE  StepInv' /\ Quiet
  <1>1. ObjectsInv' /\ ChildrenInv' /\ StackInv' /\ StoreInv' /\ Stable
        /\ \A o : (Stacked(o)' <=> Stacked(o)) /\ (Done(o)' <=> Done(o))
    BY IdleKeeps
  <1>2. found \in SUBSET Nat
    BY SequenceIs DEF CInv, CacheInv
  <1>3. Min(found) \in found
    BY <1>2, MinIs
  <1>4. PICK k : k = got'
    OBVIOUS
  <1>5. Host(t) = stack[1].object /\ links = <<>>
    BY TopIs
  <1>6. GotInv'
    <2>1. Done(k) /\ k \in DOMAIN objects /\ objects[k].host # NoHost
          /\ objects[objects[k].host].address = objects[Host(t)].address
      BY <1>3, <1>4 DEF CInv, CacheInv, Compatible, Done
    <2>2. ~IsHost(k) /\ Place(k) = objects[stack[1].object].address
      BY <1>5, <2>1 DEF IsHost, Place, Host
    <2>3. Place(got)' = Place(k) /\ (IsHost(got)' <=> IsHost(k)) /\ Done(got)'
      BY <1>1, <1>4, <2>1 DEF Place, Host, IsHost, Done, Stacked
    <2> QED
      BY <1>5, <2>2, <2>3 DEF GotInv
  <1>7. Quiet
    BY <1>1, <1>5 DEF Quiet
  <1> QED
    BY <1>1, <1>6, <1>7 DEF StepInv

LEMMA ClearKeeps ==
  ASSUME CInv, Clear
  PROVE  StepInv' /\ Quiet
  <1>1. ObjectsInv' /\ ChildrenInv' /\ StackInv' /\ StoreInv' /\ Stable
        /\ \A o : (Stacked(o)' <=> Stacked(o)) /\ (Done(o)' <=> Done(o))
    BY IdleKeeps DEF Clear
  <1>2. links = <<>>
    BY DEF CInv, GotInv, Clear
  <1>3. GotInv'
    BY <1>2 DEF Clear, GotInv
  <1>4. Quiet
    BY <1>1, <1>2 DEF Quiet, Clear
  <1> QED
    BY <1>1, <1>3, <1>4 DEF StepInv

-----------------------------------------------------------------------------
(* The end of a constructor *)

LEMMA ImageFinite ==
  ASSUME NEW f, IsFiniteSet(DOMAIN f)
  PROVE  IsFiniteSet({f[x] : x \in DOMAIN f})
  <1> DEFINE T == {f[x] : x \in DOMAIN f}
             g == [x \in DOMAIN f |-> f[x]]
  <1>1. g \in Surjection(DOMAIN f, T)
    BY DEF Surjection
  <1> HIDE DEF g
  <1> QED
    BY <1>1, FS_Surjection

LEMMA LinksFinite ==
  ASSUME NEW k, IsFiniteSet(objects[k].in), IsFiniteSet(objects[k].out), NEW o, NEW kind, NEW subs
  PROVE  IsFiniteSet(InputLinks(o, kind, subs, k)) /\ IsFiniteSet(OutputLinks(o, kind, subs, k))
  <1>1. IsFiniteSet(InputLinks(o, kind, subs, k))
    <2> DEFINE f == [v \in objects[k].in |-> <<<<k, "in", v>>, Source(o, kind, subs, k, v)>>]
    <2>1. IsFiniteSet({f[v] : v \in DOMAIN f})
      <3>1. DOMAIN f = objects[k].in
        OBVIOUS
      <3> HIDE DEF f
      <3> QED
        BY <3>1, ImageFinite
    <2> QED
      BY <2>1 DEF InputLinks
  <1>2. IsFiniteSet(OutputLinks(o, kind, subs, k))
    <2> DEFINE V == {v \in objects[k].out : kind = "composed" /\ Outbound(subs, k, v)}
               f == [v \in V |-> <<<<o, "out", v>>, <<k, "out", v>>>>]
    <2>1. IsFiniteSet(V)
      BY FS_Subset
    <2>2. {f[v] : v \in V} = OutputLinks(o, kind, subs, k)
      BY DEF OutputLinks
    <2>3. IsFiniteSet({f[v] : v \in DOMAIN f})
      <3>1. DOMAIN f = V
        OBVIOUS
      <3> HIDE DEF f, V
      <3> QED
        BY <2>1, <3>1, ImageFinite
    <2> QED
      BY <2>2, <2>3
  <1> QED
    BY <1>1, <1>2

LEMMA ImplicitFinite ==
  ASSUME NEW o, NEW kind, NEW out, IsFiniteSet(out)
  PROVE  IsFiniteSet(ImplicitLinks(o, kind, out))
  <1> DEFINE V == {v \in out : kind = "implicit"}
             f == [v \in V |-> <<<<o, "out", v>>, <<o, "in", v>>>>]
  <1>1. IsFiniteSet(V)
    BY FS_Subset
  <1>2. {f[v] : v \in V} = ImplicitLinks(o, kind, out)
    BY DEF ImplicitLinks
  <1>3. IsFiniteSet({f[v] : v \in DOMAIN f})
    <2>1. DOMAIN f = V
      OBVIOUS
    <2> HIDE DEF f, V
    <2> QED
      BY <1>1, <2>1, ImageFinite
  <1> QED
    BY <1>2, <1>3

\* A sequence made of one for each submodel
LEMMA FlattenOf ==
  ASSUME NEW subs, Sequence(subs), NEW part, \A k \in Range(subs) : Sequence(part[k])
  PROVE  /\ Sequence(FlattenSeq([i \in DOMAIN subs |-> part[subs[i]]]))
         /\ Range(FlattenSeq([i \in DOMAIN subs |-> part[subs[i]]])) = UNION {Range(part[k]) : k \in Range(subs)}
  <1> DEFINE ss == [i \in DOMAIN subs |-> part[subs[i]]]
  <1>1. Len(subs) \in Nat /\ DOMAIN subs = 1 .. Len(subs)
    BY SequenceIs
  <1>2. \A i \in DOMAIN ss : Sequence(ss[i])
    BY DEF Range
  <1>3. Sequence(ss)
    <2>1. ss \in Seq({ss[i] : i \in DOMAIN ss})
      <3>1. ss = [i \in 1 .. Len(subs) |-> ss[i]]
        BY <1>1
      <3>2. \A i \in 1 .. Len(subs) : ss[i] \in {ss[j] : j \in DOMAIN ss}
        BY <1>1
      <3> QED
        BY <1>1, <3>1, <3>2, SeqDef
    <2> QED
      BY <2>1, IsSequence
  <1>4. UNION {Range(ss[i]) : i \in DOMAIN ss} = UNION {Range(part[k]) : k \in Range(subs)}
    BY DEF Range
  <1>5. Sequence(FlattenSeq(ss)) /\ Range(FlattenSeq(ss)) = UNION {Range(ss[i]) : i \in DOMAIN ss}
    <2> HIDE DEF ss
    <2> QED
      BY <1>2, <1>3, FlattenIs
  <1> QED
    BY <1>4, <1>5

\* The object at the end of its constructor, and what it will have linked
CompletedAs(o, object, subs, in, out, nonlinear, named) ==
  LET kind == objects[o].kind
  IN  /\ DOMAIN object = Fields
      /\ object.name = objects[o].name /\ object.kind = kind
      /\ object.address = objects[o].address /\ object.host = objects[o].host
      /\ object.alive = objects[o].alive /\ object.parameters = objects[o].parameters
      /\ object.submodels = subs /\ object.in = in /\ object.out = out
      /\ object.nonlinear = nonlinear /\ object.named = named
      /\ Sequence(object.inLinks) /\ Sequence(object.outLinks)
      /\ Range(object.inLinks) =
           UNION {InputLinks(o, kind, Range(subs), k) \cup Range(objects[k].inLinks) : k \in Range(subs)}
      /\ Range(object.outLinks) =
           (UNION {OutputLinks(o, kind, Range(subs), k) \cup Range(objects[k].outLinks) : k \in Range(subs)})
             \cup ImplicitLinks(o, kind, out)

LEMMA CompletedIs ==
  ASSUME NEW o, DOMAIN objects[o] = Fields, NEW subs, Sequence(subs), NEW in, NEW out, IsFiniteSet(out),
         NEW nonlinear, NEW named,
         \A k \in Range(subs) : /\ IsFiniteSet(objects[k].in) /\ IsFiniteSet(objects[k].out)
                                /\ Sequence(objects[k].inLinks) /\ Sequence(objects[k].outLinks)
  PROVE  CompletedAs(o, Completed(o, subs, in, out, nonlinear, named), subs, in, out, nonlinear, named)
  <1> DEFINE kind == objects[o].kind
             S == Range(subs)
             inputs == [k \in S |-> SetToSeq(InputLinks(o, kind, S, k)) \o objects[k].inLinks]
             outputs == [k \in S |-> SetToSeq(OutputLinks(o, kind, S, k)) \o objects[k].outLinks]
             own == SetToSeq(ImplicitLinks(o, kind, out))
             ins == FlattenSeq([i \in DOMAIN subs |-> inputs[subs[i]]])
             outs == FlattenSeq([i \in DOMAIN subs |-> outputs[subs[i]]])
  <1>1. ASSUME NEW k \in S
        PROVE  /\ Sequence(inputs[k]) /\ Range(inputs[k]) = InputLinks(o, kind, S, k) \cup Range(objects[k].inLinks)
               /\ Sequence(outputs[k]) /\ Range(outputs[k]) = OutputLinks(o, kind, S, k) \cup Range(objects[k].outLinks)
    <2>1. IsFiniteSet(InputLinks(o, kind, S, k)) /\ IsFiniteSet(OutputLinks(o, kind, S, k))
      <3> HIDE DEF kind
      <3> QED
        BY LinksFinite
    <2>2. Sequence(objects[k].inLinks) /\ Sequence(objects[k].outLinks)
      OBVIOUS
    <2>3. inputs[k] = SetToSeq(InputLinks(o, kind, S, k)) \o objects[k].inLinks
          /\ outputs[k] = SetToSeq(OutputLinks(o, kind, S, k)) \o objects[k].outLinks
      OBVIOUS
    <2> HIDE DEF kind, S, inputs, outputs
    <2> QED
      BY <2>1, <2>2, <2>3, SetToSeqIs, ConcatIs
  <1>2. Sequence(ins) /\ Range(ins) = UNION {Range(inputs[k]) : k \in S}
    <2> HIDE DEF inputs
    <2> QED
      BY <1>1, FlattenOf
  <1>3. Sequence(outs) /\ Range(outs) = UNION {Range(outputs[k]) : k \in S}
    <2> HIDE DEF outputs
    <2> QED
      BY <1>1, FlattenOf
  <1>4. Sequence(own) /\ Range(own) = ImplicitLinks(o, kind, out)
    <2>1. IsFiniteSet(ImplicitLinks(o, kind, out))
      <3> HIDE DEF kind
      <3> QED
        BY ImplicitFinite
    <2> QED
      BY <2>1, SetToSeqIs
  <1>5. Sequence(outs \o own) /\ Range(outs \o own) = Range(outs) \cup Range(own)
    <2> HIDE DEF outs, own
    <2> QED
      BY <1>3, <1>4, ConcatIs
  <1>6. Range(ins) = UNION {InputLinks(o, kind, S, k) \cup Range(objects[k].inLinks) : k \in S}
    <2> HIDE DEF ins, inputs
    <2> QED
      BY <1>1, <1>2
  <1>7. Range(outs \o own) = (UNION {OutputLinks(o, kind, S, k) \cup Range(objects[k].outLinks) : k \in S})
                               \cup ImplicitLinks(o, kind, out)
    <2> HIDE DEF outs, own, outputs
    <2>1. UNION {Range(outputs[k]) : k \in S}
            = UNION {OutputLinks(o, kind, S, k) \cup Range(objects[k].outLinks) : k \in S}
      BY <1>1
    <2>2. Range(outs \o own) = (UNION {Range(outputs[k]) : k \in S}) \cup Range(own)
      BY <1>3, <1>5
    <2>3. Range(outs \o own) = (UNION {Range(outputs[k]) : k \in S}) \cup ImplicitLinks(o, kind, out)
      BY <1>4, <2>2
    <2> QED
      BY <2>1, <2>3
  <1>8. Completed(o, subs, in, out, nonlinear, named) =
          [objects[o] EXCEPT !.submodels = subs, !.in = in, !.out = out, !.nonlinear = nonlinear, !.named = named,
                             !.outLinks = outs \o own, !.inLinks = ins]
    <2>1. \A i \in DOMAIN subs : subs[i] \in S
      BY DEF Range
    <2>2. /\ [i \in DOMAIN subs |-> inputs[subs[i]]]
                = [i \in DOMAIN subs |-> SetToSeq(InputLinks(o, kind, S, subs[i])) \o objects[subs[i]].inLinks]
          /\ [i \in DOMAIN subs |-> outputs[subs[i]]]
                = [i \in DOMAIN subs |-> SetToSeq(OutputLinks(o, kind, S, subs[i])) \o objects[subs[i]].outLinks]
      BY <2>1
    <2> HIDE DEF inputs, outputs
    <2> QED
      BY <2>2 DEF Completed
  <1> HIDE DEF ins, outs, own
  <1>9. PICK a, b : a = ins /\ b = outs \o own
    OBVIOUS
  <1>10. PICK object : /\ object = Completed(o, subs, in, out, nonlinear, named)
                       /\ object = [objects[o] EXCEPT !.submodels = subs, !.in = in, !.out = out,
                                                      !.nonlinear = nonlinear, !.named = named,
                                                      !.outLinks = b, !.inLinks = a]
    BY <1>8, <1>9
  <1>11. /\ DOMAIN object = Fields
         /\ object.submodels = subs /\ object.in = in /\ object.out = out
         /\ object.nonlinear = nonlinear /\ object.named = named
         /\ object.outLinks = b /\ object.inLinks = a
         /\ object.name = objects[o].name /\ object.kind = kind
         /\ object.address = objects[o].address /\ object.host = objects[o].host
         /\ object.alive = objects[o].alive /\ object.parameters = objects[o].parameters
    BY <1>10 DEF Fields
  <1>12. /\ Sequence(a) /\ Range(a) = UNION {InputLinks(o, kind, S, k) \cup Range(objects[k].inLinks) : k \in S}
         /\ Sequence(b)
         /\ Range(b) = (UNION {OutputLinks(o, kind, S, k) \cup Range(objects[k].outLinks) : k \in S})
                         \cup ImplicitLinks(o, kind, out)
    <2> HIDE DEF S, kind
    <2> QED
      BY <1>2, <1>5, <1>6, <1>7, <1>9
  <1>13. CompletedAs(o, object, subs, in, out, nonlinear, named)
    BY <1>11, <1>12 DEF CompletedAs
  <1> QED
    BY <1>10, <1>13

\* What Complete is given
Completing(o, object, subs, in, out, nonlinear, named) ==
  /\ stack # <<>> /\ got = None /\ o = Top.object
  /\ CompletedAs(o, object, subs, in, out, nonlinear, named)
  /\ Sequence(subs) /\ IsFiniteSet(in) /\ IsFiniteSet(out)
  /\ \A k \in Range(subs) \cup ProvidersOf(nonlinear) \cup ProvidersOf(named) :
       Done(k) /\ ~IsHost(k) /\ Place(k) = Place(o)
  /\ Complete(o, object) /\ models' = models

\* The object is complete, and no other changes.
LEMMA CompleteStep ==
  ASSUME CInv, NEW o, NEW object, NEW subs, NEW in, NEW out, NEW nonlinear, NEW named,
         Completing(o, object, subs, in, out, nonlinear, named)
  PROVE  /\ StepInv' /\ CacheInv' /\ Stable
         /\ o \in DOMAIN objects /\ ~Done(o) /\ Done(o)' /\ objects'[o] = object
         /\ DOMAIN objects' = DOMAIN objects
         /\ \A x \in DOMAIN objects : x # o => objects'[x] = objects[x] /\ (Done(x)' <=> Done(x))
         /\ \A x \in DOMAIN objects : /\ Host(x)' = Host(x) /\ Place(x)' = Place(x)
                                   /\ (IsHost(x)' <=> IsHost(x))
         /\ stack' = <<>> <=> IsHost(o)
  <1>0. /\ ObjectsInv /\ ChildrenInv /\ StackInv /\ GotInv /\ StoreInv /\ CacheInv /\ ObjectsKnown
    BY ObjectsFacts DEF CInv
  <1>1. /\ Len(stack) \in DOMAIN stack /\ 1 \in DOMAIN stack /\ Top = stack[Len(stack)]
        /\ o \in DOMAIN objects /\ Stacked(o) /\ ObjectOK(o)
        /\ Host(o) = stack[1].object /\ stack # <<>> /\ o = stack[Len(stack)].object
    BY TopIs DEF Completing
  <1>2. /\ objects' = [objects EXCEPT ![o] = object] /\ cache' = Append(cache, o)
        /\ stack' = Front(stack) /\ got' = o
        /\ links' = IF Host(o) = o THEN object.outLinks \o object.inLinks ELSE <<>>
        /\ store' = store /\ refs' = refs /\ models' = models
    BY DEF Completing, Complete
  <1>3. /\ DOMAIN object = Fields /\ object.name = objects[o].name
        /\ object.address = objects[o].address /\ object.host = objects[o].host
        /\ object.alive = objects[o].alive /\ object.parameters = objects[o].parameters
        /\ object.submodels = subs /\ object.in = in /\ object.out = out
        /\ object.nonlinear = nonlinear /\ object.named = named
    BY DEF Completing, CompletedAs
  <1>4. /\ DOMAIN objects' = DOMAIN objects /\ objects'[o] = object /\ Sequence(objects')
        /\ \A x \in DOMAIN objects : x # o => objects'[x] = objects[x]
    BY <1>0, <1>1, <1>2, UpdateIs DEF ObjectsInv
  <1>5. \A x \in DOMAIN objects :
          /\ objects'[x].name = objects[x].name /\ objects'[x].address = objects[x].address
          /\ objects'[x].host = objects[x].host /\ objects'[x].alive = objects[x].alive
          /\ objects'[x].parameters = objects[x].parameters
    BY <1>3, <1>4
  <1>6. /\ Sequence(stack') /\ DOMAIN stack' = DOMAIN stack \ {Len(stack)}
        /\ \A i \in DOMAIN stack' : stack'[i] = stack[i]
        /\ stack' = <<>> <=> Len(stack) = 1
        /\ stack' # <<>> => 1 \in DOMAIN stack'
    BY <1>0, <1>1, <1>2, FrontIs DEF StackInv
  <1>7. \A i, j \in DOMAIN stack : stack[i].object = stack[j].object => i = j
    BY <1>0 DEF StackInv
  <1>8. \A x : Stacked(x)' <=> (Stacked(x) /\ x # o)
    BY <1>1, <1>6, <1>7 DEF Stacked
  <1>9. objects[o].alive
    BY <1>0, <1>1 DEF StackInv
  <1>10. Done(o)' /\ ~Done(o)
    BY <1>1, <1>4, <1>5, <1>8, <1>9 DEF Done
  <1>11. \A x \in DOMAIN objects : x # o => (Done(x)' <=> Done(x))
    BY <1>4, <1>8 DEF Done
  <1>13. ObjectsInv'
    <2>1. ASSUME NEW x \in DOMAIN objects PROVE ObjectOK(x)'
      <3>1. ObjectOK(x)
        BY <1>0 DEF ObjectsInv
      <3>2. CASE x = o
        <4>1. IsFiniteSet(in) /\ IsFiniteSet(out) /\ Sequence(subs)
          BY DEF Completing
        <4>2. /\ DOMAIN objects'[o] = Fields /\ objects'[o].in = in /\ objects'[o].out = out
              /\ objects'[o].submodels = subs
          BY <1>3, <1>4
        <4> QED
          BY <1>1, <1>4, <1>5, <3>2, <4>1, <4>2 DEF ObjectOK, IsHost
      <3>3. CASE x # o
        BY <1>4, <1>5, <3>1, <3>3 DEF ObjectOK, IsHost
      <3> QED
        BY <3>2, <3>3
    <2>2. ASSUME NEW a \in DOMAIN objects, NEW b \in DOMAIN objects,
                 objects'[a].alive, objects'[b].alive, objects'[a].address = objects'[b].address
          PROVE  a = b
      BY <1>0, <1>5, <2>2 DEF ObjectsInv
    <2> QED
      BY <1>4, <2>1, <2>2 DEF ObjectsInv
  <1>14. Stable
    BY <1>4, <1>5, <1>10, <1>11 DEF Stable
  <1>12. ASSUME NEW x \in DOMAIN objects
         PROVE  Host(x)' = Host(x) /\ Place(x)' = Place(x) /\ (IsHost(x)' <=> IsHost(x))
    BY <1>0, <1>13, <1>14, HostKept
  <1>15. ChildrenInv'
    <2>1. ASSUME NEW x \in DOMAIN objects, NEW k \in Children(x)' \cup ProvidersOf(objects'[x].named)
          PROVE  Done(k)' /\ ~IsHost(k)' /\ Place(k)' = Place(x)'
      <3>1. Done(k) /\ ~IsHost(k) /\ Place(k) = Place(x)
        <4>1. CASE x = o
          BY <1>3, <1>4, <2>1, <4>1 DEF Children, Completing
        <4>2. CASE x # o
          BY <1>0, <1>4, <2>1, <4>2 DEF ChildrenInv, Children
        <4> QED
          BY <4>1, <4>2
      <3>2. k \in DOMAIN objects /\ k # o
        BY <1>10, <3>1 DEF Done
      <3> QED
        BY <1>11, <1>12, <3>1, <3>2
    <2> QED
      BY <1>4, <2>1 DEF ChildrenInv
  <1>16. StackInv'
    <2>1. ASSUME NEW i \in DOMAIN stack'
          PROVE  /\ DOMAIN stack'[i] = FrameFields
                 /\ stack'[i].object \in DOMAIN objects' /\ objects'[stack'[i].object].alive
                 /\ objects'[stack'[i].object].host = IF i = 1 THEN NoHost ELSE stack'[1].object
                 /\ \A j \in DOMAIN stack' : stack'[i].object = stack'[j].object => i = j
      <3>1. /\ DOMAIN stack[i] = FrameFields
            /\ stack[i].object \in DOMAIN objects /\ objects[stack[i].object].alive
            /\ objects[stack[i].object].host = IF i = 1 THEN NoHost ELSE stack[1].object
        BY <1>0, <1>6 DEF StackInv
      <3>2. 1 \in DOMAIN stack'
        BY <1>6, EmptyIs
      <3>3. stack'[i] = stack[i] /\ stack'[1] = stack[1]
        BY <1>6, <3>2
      <3>4. \A j \in DOMAIN stack' : stack'[i].object = stack'[j].object => i = j
        BY <1>6, <1>7
      <3> QED
        BY <1>4, <1>5, <3>1, <3>3, <3>4
    <2> QED
      BY <1>6, <2>1 DEF StackInv
  <1>17. stack' = <<>> <=> IsHost(o)
    <2>1. objects[o].host = IF Len(stack) = 1 THEN NoHost ELSE stack[1].object
      BY <1>0, <1>1 DEF StackInv
    <2>2. stack[1].object # NoHost
      BY <1>0, <1>1 DEF StackInv, ObjectsKnown
    <2> QED
      BY <1>6, <2>1, <2>2 DEF IsHost
  <1>18. GotInv'
    <2>1. Place(o)' = objects[stack[1].object].address /\ (IsHost(o)' <=> stack' = <<>>)
      BY <1>1, <1>12, <1>17 DEF Place
    <2>2. stack' # <<>> => objects'[stack'[1].object].address = objects[stack[1].object].address
      <3>1. stack[1].object \in DOMAIN objects
        BY <1>0, <1>1 DEF StackInv
      <3> QED
        BY <1>5, <1>6, <3>1
    <2>3. o # None
      BY <1>0, <1>1 DEF ObjectsKnown
    <2>4. links' # <<>> => stack' = <<>>
      <3>1. ASSUME links' # <<>> PROVE IsHost(o)
        <4>1. Host(o) = o
          BY <1>2, <3>1
        <4> QED
          BY <1>0, <1>1, <4>1 DEF ObjectsKnown
      <3> QED
        BY <1>17, <3>1
    <2> QED
      <3>1. Done(got)' /\ Place(got)' = Place(o)' /\ (IsHost(got)' <=> IsHost(o)')
        BY <1>2, <1>10 DEF Done, Stacked, Place, Host, IsHost
      <3> QED
        BY <1>2, <2>1, <2>2, <2>3, <2>4, <3>1 DEF GotInv
  <1>19. StoreInv'
    BY <1>0, <1>2, <1>4, <1>5, <1>13, <1>14, StoreKept
  <1>20. CacheInv'
    <2>1. /\ Sequence(cache') /\ DOMAIN cache' = DOMAIN cache \cup {Len(cache) + 1}
          /\ \A c \in DOMAIN cache : cache'[c] = cache[c]
          /\ cache'[Len(cache) + 1] = o
      BY <1>0, <1>2, AppendIs DEF CacheInv
    <2>2. ASSUME NEW c \in DOMAIN cache' PROVE Done(cache[c])'
      <3>1. CASE c = Len(cache) + 1
        BY <1>10, <2>1, <3>1
      <3>2. CASE c # Len(cache) + 1
        <4>1. PICK x : x = cache[c]
          OBVIOUS
        <4>2. cache'[c] = x /\ Done(x) /\ x \in DOMAIN objects
          BY <1>0, <2>1, <3>2, <4>1 DEF CacheInv, Done
        <4>3. Done(x)'
          BY <1>14, <4>2 DEF Stable
        <4> QED
          BY <4>2, <4>3 DEF Done, Stacked
      <3> QED
        BY <3>1, <3>2
    <2> QED
      BY <2>1, <2>2 DEF CacheInv
  <1> QED
    BY <1>1, <1>4, <1>10, <1>11, <1>12, <1>13, <1>14, <1>15, <1>16, <1>17, <1>18, <1>19, <1>20 DEF StepInv

LEMMA CompleteParts ==
  ASSUME CInv, NEW o, NEW object, NEW subs, NEW in, NEW out, NEW nonlinear, NEW named,
         Completing(o, object, subs, in, out, nonlinear, named)
  PROVE  /\ \A x : Done(x) => Parts(x)' = Parts(x)
         /\ o \in Parts(o)'
         /\ \A k \in Range(subs) : Parts(k) \subseteq Parts(o)' /\ k \in Parts(o)'
         /\ \A k \in Parts(o)' : k \in DOMAIN objects /\ Place(k) = Place(o)
  <1>0. /\ ObjectsInv /\ ChildrenInv /\ ObjectsInv' /\ ChildrenInv' /\ Stable
        /\ DOMAIN objects' = DOMAIN objects /\ o \in DOMAIN objects /\ objects'[o] = object
        /\ \A x \in DOMAIN objects : Place(x)' = Place(x)
    BY CompleteStep DEF CInv, StepInv
  <1>1. ASSUME NEW x, Done(x) PROVE Parts(x)' = Parts(x)
    BY <1>0, <1>1, PartsKept
  <1>2. /\ o \in Parts(o)' /\ Parts(o)' \subseteq DOMAIN objects
        /\ \A k \in Parts(o)' : Range(objects'[k].submodels) \subseteq Parts(o)'
        /\ \A k \in Parts(o)' : Place(k)' = Place(o)'
    BY <1>0, PartsFactsNext DEF PartsKnown
  <1>3. Range(subs) \subseteq Parts(o)'
    BY <1>0, <1>2 DEF Completing, CompletedAs
  <1>4. ASSUME NEW k \in Range(subs) PROVE Parts(k) \subseteq Parts(o)'
    <2>1. Done(k) /\ k \in DOMAIN objects'
      BY <1>0 DEF Completing, Done
    <2>2. Parts(k)' \subseteq Parts(o)'
      BY <1>0, <1>2, <1>3, <2>1, PartsFactsNext DEF PartsKnown
    <2> QED
      BY <1>1, <2>1, <2>2
  <1>5. ASSUME NEW k \in Parts(o)' PROVE k \in DOMAIN objects /\ Place(k) = Place(o)
    BY <1>0, <1>2
  <1> QED
    BY <1>1, <1>2, <1>3, <1>4, <1>5

\* What its setup, or that of its host, will link are variables of what it is made of.
LEMMA CompleteLinks ==
  ASSUME CInv, NEW o, NEW object, NEW subs, NEW in, NEW out, NEW nonlinear, NEW named,
         Completing(o, object, subs, in, out, nonlinear, named)
  PROVE  LinksOf(o)'
  <1>0. /\ Stable /\ ~Done(o) /\ objects'[o] = object
        /\ \A x \in DOMAIN objects : x # o => objects'[x] = objects[x]
    BY CompleteStep
  <1>1. PICK kind, S, P : kind = objects[o].kind /\ S = Range(subs) /\ P = Parts(o)'
    OBVIOUS
  <1>2. /\ object.submodels = subs /\ object.kind = kind
        /\ Range(object.inLinks) = UNION {InputLinks(o, kind, S, k) \cup Range(objects[k].inLinks) : k \in S}
        /\ Range(object.outLinks) =
             (UNION {OutputLinks(o, kind, S, k) \cup Range(objects[k].outLinks) : k \in S})
               \cup ImplicitLinks(o, kind, out)
    BY <1>1 DEF Completing, CompletedAs
  <1>3. o \in P /\ \A k \in S : Parts(k) \subseteq P /\ k \in P
    BY <1>1, CompleteParts
  <1>4. ASSUME NEW k \in S
        PROVE  Done(k) /\ k \in DOMAIN objects /\ k # o /\ LinksOf(k)
    BY <1>0, <1>1 DEF Completing, Done, CInv, LinksInv
  <1>5. ASSUME NEW q, q \in Range(object.inLinks) \cup Range(object.outLinks)
        PROVE  q[1][1] \in P /\ q[2][1] \in P
    <2>1. CASE \E k \in S : q \in Range(objects[k].inLinks) \cup Range(objects[k].outLinks)
      BY <1>3, <1>4, <2>1 DEF LinksOf, Inside
    <2>2. CASE \E k \in S : q \in InputLinks(o, kind, S, k)
      <3>1. PICK k \in S : q \in InputLinks(o, kind, S, k)
        BY <2>2
      <3>2. PICK v : q = <<<<k, "in", v>>, Source(o, kind, S, k, v)>>
        BY <3>1 DEF InputLinks
      <3>3. Source(o, kind, S, k, v)[1] \in S \cup {o}
        <4>1. CASE kind = "composed" /\ ~Inbound(S, k, v)
          <5>1. Providers(S, k, v) # {} /\ Providers(S, k, v) \subseteq S
            BY <4>1 DEF Inbound, Providers
          <5>2. (CHOOSE j \in Providers(S, k, v) : TRUE) \in S
            BY <5>1
          <5> QED
            BY <4>1, <5>2 DEF Source
        <4>2. CASE ~(kind = "composed" /\ ~Inbound(S, k, v))
          BY <4>2 DEF Source
        <4> QED
          BY <4>1, <4>2
      <3> QED
        BY <1>3, <3>2, <3>3
    <2>3. CASE \E k \in S : q \in OutputLinks(o, kind, S, k)
      BY <1>3, <2>3 DEF OutputLinks
    <2>4. CASE q \in ImplicitLinks(o, kind, out)
      BY <1>3, <2>4 DEF ImplicitLinks
    <2> QED
      BY <1>2, <1>5, <2>1, <2>2, <2>3, <2>4
  <1>6. ASSUME NEW k \in S
        PROVE  /\ InputLinks(o, kind, S, k)' \subseteq Range(object.inLinks)
               /\ Range(objects'[k].inLinks) \subseteq Range(object.inLinks)
    <2>1. InputLinks(o, kind, S, k)' = InputLinks(o, kind, S, k)
      BY <1>0, <1>4, InputLinksKept
    <2>2. objects'[k] = objects[k]
      BY <1>0, <1>4
    <2> QED
      BY <1>2, <2>1, <2>2
  <1>7. S = Range(objects'[o].submodels) /\ kind = objects'[o].kind
    BY <1>0, <1>1, <1>2
  <1> QED
    BY <1>0, <1>1, <1>5, <1>6, <1>7 DEF LinksOf, Inside

LEMMA CompleteKeeps ==
  ASSUME CInv, NEW o, NEW object, NEW subs, NEW in, NEW out, NEW nonlinear, NEW named,
         Completing(o, object, subs, in, out, nonlinear, named), file' = file
  PROVE  CInv'
  <1>0. /\ StepInv' /\ CacheInv' /\ Stable
        /\ o \in DOMAIN objects /\ ~Done(o) /\ Done(o)' /\ objects'[o] = object
        /\ DOMAIN objects' = DOMAIN objects
        /\ \A x \in DOMAIN objects : x # o => objects'[x] = objects[x] /\ (Done(x)' <=> Done(x))
        /\ \A x \in DOMAIN objects : Place(x)' = Place(x) /\ (IsHost(x)' <=> IsHost(x))
        /\ stack' = <<>> <=> IsHost(o)
    BY CompleteStep
  <1>1. /\ \A x : Done(x) => Parts(x)' = Parts(x)
        /\ \A k \in Parts(o)' : k \in DOMAIN objects /\ Place(k) = Place(o)
    BY CompleteParts
  <1>2. LinksOf(o)'
    BY CompleteLinks
  <1>3. /\ ObjectsInv /\ ChildrenInv /\ GotInv /\ ModelsInv /\ RefsInv /\ LinksInv /\ file \in Files
        /\ ObjectsInv' /\ ChildrenInv' /\ ObjectsKnown
    BY <1>0, ObjectsFacts DEF CInv, StepInv
  <1>4. /\ got' = o /\ store' = store /\ refs' = refs /\ models' = models
        /\ links' = IF Host(o) = o THEN object.outLinks \o object.inLinks ELSE <<>>
        /\ Sequence(object.inLinks) /\ Sequence(object.outLinks)
    BY DEF Completing, CompletedAs, Complete
  <1>5. ASSUME NEW m \in Range(models)
        PROVE  m \in DOMAIN objects /\ m # o /\ Done(m) /\ IsHost(m) /\ Done(m)' /\ IsHost(m)'
    <2>1. m \in DOMAIN objects /\ Done(m) /\ IsHost(m)
      BY <1>3 DEF ModelsInv, Range, Done
    <2> QED
      BY <1>0, <1>3, <2>1, HostKept DEF Stable
  <1>6. ModelsInv'
    BY <1>3, <1>4, <1>5 DEF ModelsInv, Range, Done, Stacked, IsHost
  <1>7. RefsInv'
    <2>1. ASSUME NEW x \in DOMAIN refs
          PROVE  /\ x[1] \in DOMAIN objects' /\ Housed(x[1])'
                 /\ \E h \in DOMAIN objects : Done(h) /\ IsHost(h) /\ Place(h) = Place(x[1])
      <3>1. PICK k : k = x[1]
        OBVIOUS
      <3>2. k \in DOMAIN objects /\ Housed(k)
        BY <1>3, <3>1 DEF RefsInv
      <3>3. k \in DOMAIN objects' /\ Housed(k)'
        BY <1>0, <1>3, <3>2, HousedKept
      <3>4. PICK h \in DOMAIN objects : Done(h) /\ IsHost(h) /\ objects[h].address = Place(k)
        BY <3>2 DEF Housed
      <3>5. Place(h) = Place(k)
        BY <1>3, <3>4 DEF Place, ObjectsKnown
      <3> QED
        BY <3>1, <3>3, <3>4, <3>5 DEF Housed, Done, Stacked, IsHost, Place, Host
    <2>2. ASSUME NEW m \in DOMAIN objects', Done(m)', IsHost(m)', NEW x \in DOMAIN refs, x[1] \in Parts(m)'
          PROVE  refs[x][1] \in Parts(m)'
      <3>1. CASE m = o
        <4>1. IsHost(o)
          BY <1>0, <1>3, <2>2, <3>1, HostKept
        <4>2. PICK h \in DOMAIN objects : Done(h) /\ IsHost(h) /\ Place(h) = Place(x[1])
          BY <2>1
        <4>3. Place(h) = Place(o)
          <5>1. PICK k : k = x[1]
            OBVIOUS
          <5>2. Place(k) = Place(o) /\ Place(h) = Place(k)
            BY <1>1, <2>2, <3>1, <4>2, <5>1
          <5> QED
            BY <5>2
        <4>4. objects[o].alive /\ objects[h].alive
          BY <4>2, TopIs DEF Completing, Done
        <4>5. h = o
          BY <1>0, <1>3, <4>1, <4>2, <4>3, <4>4, HostsDiffer
        <4> QED
          BY <1>0, <4>2, <4>5
      <3>2. CASE m # o
        <4>1. m \in DOMAIN objects /\ Done(m) /\ IsHost(m)
          BY <1>0, <1>3, <2>2, <3>2, HostKept
        <4>2. Parts(m)' = Parts(m)
          BY <1>1, <4>1
        <4> QED
          BY <1>3, <2>2, <4>1, <4>2 DEF RefsInv
      <3> QED
        BY <3>1, <3>2
    <2> QED
      BY <1>3, <1>4, <2>1, <2>2 DEF RefsInv
  <1>8. /\ Sequence(links') /\ Range(links') \subseteq Range(object.inLinks) \cup Range(object.outLinks)
        /\ stack' = <<>> => Range(object.inLinks) \subseteq Range(links')
    <2>1. CASE Host(o) = o
      BY <1>4, <2>1, ConcatIs
    <2>2. CASE Host(o) # o
      <3>1. stack' # <<>>
        BY <1>0, <1>3, <2>2 DEF ObjectsKnown
      <3> QED
        BY <1>4, <2>2, <3>1, EmptyIs
    <2> QED
      BY <2>1, <2>2
  <1>9. LinksInv'
    <2>1. ASSUME NEW x \in DOMAIN objects' PROVE Sequence(objects'[x].inLinks) /\ Sequence(objects'[x].outLinks)
      BY <1>0, <1>3, <1>4 DEF LinksInv
    <2>2. ASSUME NEW x \in DOMAIN objects', Done(x)' PROVE LinksOf(x)'
      <3>1. CASE x = o
        BY <1>2, <3>1
      <3>2. CASE x # o
        <4>1. Done(x) /\ LinksOf(x)
          BY <1>0, <1>3, <2>2, <3>2 DEF LinksInv
        <4> QED
          BY <1>0, <1>3, <4>1, LinksOfKept
      <3> QED
        BY <3>1, <3>2
    <2>3. ASSUME NEW q \in Range(links') PROVE q[1][1] \in Parts(o)' /\ q[2][1] \in Parts(o)'
      BY <1>0, <1>2, <1>8 DEF LinksOf, Inside
    <2>4. ASSUME NEW m \in Range(models), NEW q \in Range(objects'[m].inLinks) PROVE IsLinked(q)'
      <3>1. IsLinked(q)
        BY <1>0, <1>3, <1>5 DEF LinksInv
      <3> QED
        BY <1>4, <3>1 DEF IsLinked, Referred
    <2>5. stack' = <<>> => \A q \in Range(objects'[o].inLinks) : q \in Range(links')
      BY <1>0, <1>8
    <2>6. \A q \in Range(links') : Inside(q, got)'
      <3>1. Parts(got)' = Parts(o)'
        BY <1>4 DEF Parts
      <3> QED
        BY <2>3, <3>1 DEF Inside
    <2> QED
      BY <1>4, <1>8, <2>1, <2>2, <2>4, <2>5, <2>6 DEF LinksInv
  <1>10. NamesInv'
    BY <1>0 DEF CInv, NamesInv, Stable, Completing
  <1> QED
    BY <1>0, <1>3, <1>6, <1>7, <1>9, <1>10 DEF CInv, StepInv, Completing

LEMMA CompletingIs ==
  ASSUME CInv, stack # <<>>, got = None, NEW o, o = Top.object,
         NEW subs, NEW in, NEW out, NEW nonlinear, NEW named,
         Sequence(subs), IsFiniteSet(in), IsFiniteSet(out),
         \A k \in Range(subs) \cup ProvidersOf(nonlinear) \cup ProvidersOf(named) :
           Done(k) /\ ~IsHost(k) /\ Place(k) = Place(o),
         Complete(o, Completed(o, subs, in, out, nonlinear, named)),
         models' = models, file' = file
  PROVE  CInv'
  <1>1. PICK object : object = Completed(o, subs, in, out, nonlinear, named)
    OBVIOUS
  <1>2. o \in DOMAIN objects /\ DOMAIN objects[o] = Fields
    BY TopIs DEF ObjectOK
  <1>3. ASSUME NEW k \in Range(subs)
        PROVE  /\ IsFiniteSet(objects[k].in) /\ IsFiniteSet(objects[k].out)
               /\ Sequence(objects[k].inLinks) /\ Sequence(objects[k].outLinks)
    <2>1. k \in DOMAIN objects
      BY DEF Done
    <2> QED
      BY <2>1 DEF CInv, ObjectsInv, ObjectOK, LinksInv
  <1>4. CompletedAs(o, object, subs, in, out, nonlinear, named)
    BY <1>1, <1>2, <1>3, CompletedIs
  <1>5. Completing(o, object, subs, in, out, nonlinear, named)
    BY <1>1, <1>4 DEF Completing
  <1> QED
    BY <1>5, CompleteKeeps

\* What the children of a child provide has the same host.
LEMMA NamedOf ==
  ASSUME CInv, NEW o \in DOMAIN objects, NEW k \in Children(o), NEW j \in ProvidersOf(objects[k].named)
  PROVE  Done(j) /\ ~IsHost(j) /\ Place(j) = Place(o)
  <1>1. k \in DOMAIN objects /\ Place(k) = Place(o)
    BY ChildrenFacts DEF CInv, ChildrenKnown
  <1> QED
    BY <1>1 DEF CInv, ChildrenInv

LEMMA CompleteModelKeeps ==
  ASSUME CInv, stack # <<>>, got = None, NEW o, o = Top.object, CompleteModel(o),
         models' = models, file' = file
  PROVE  CInv'
  <1>1. o \in DOMAIN objects /\ ObjectOK(o) /\ ChildrenInv /\ file \in Files /\ objects[o].name \in DOMAIN file
    BY TopIs DEF CInv, NamesInv
  <1>2. PICK subs, own, out, named :
          /\ subs = objects[o].submodels /\ own = objects[o].nonlinear /\ out = file[objects[o].name].out
          /\ named = own \cup UNION {Prefixed(k) : k \in ProvidersOf(own) \cup Range(subs)}
    OBVIOUS
  <1>3. Complete(o, Completed(o, subs, objects[o].in, out, own, named))
    BY <1>2 DEF CompleteModel
  <1>4. Sequence(subs) /\ IsFiniteSet(objects[o].in) /\ IsFiniteSet(out)
    BY <1>1, <1>2, FilesAssumption DEF ObjectOK
  <1>5. ASSUME NEW k \in Range(subs) \cup ProvidersOf(own)
        PROVE  k \in Children(o) /\ Done(k) /\ ~IsHost(k) /\ Place(k) = Place(o)
    BY <1>1, <1>2 DEF Children, ChildrenInv
  <1>6. ASSUME NEW j \in ProvidersOf(named) PROVE Done(j) /\ ~IsHost(j) /\ Place(j) = Place(o)
    <2>1. PICK p \in named : j = p.provider
      BY DEF ProvidersOf
    <2>2. CASE p \in own
      BY <1>5, <2>1, <2>2 DEF ProvidersOf
    <2>3. CASE p \notin own
      <3>1. PICK k \in ProvidersOf(own) \cup Range(subs) : p \in Prefixed(k)
        BY <1>2, <2>3
      <3>2. j \in ProvidersOf(objects[k].named)
        BY <2>1, <3>1 DEF Prefixed, ProvidersOf
      <3> QED
        BY <1>1, <1>5, <3>2, NamedOf
    <2> QED
      BY <2>2, <2>3
  <1>7. \A k \in Range(subs) \cup ProvidersOf(own) \cup ProvidersOf(named) :
          Done(k) /\ ~IsHost(k) /\ Place(k) = Place(o)
    BY <1>5, <1>6
  <1>8. PICK in : in = objects[o].in
    OBVIOUS
  <1> QED
    BY <1>3, <1>4, <1>7, <1>8, CompletingIs

\* Whatever the order, what is sorted is of the submodels.
LEMMA SortedIs ==
  ASSUME NEW subs, Sequence(subs), IsFiniteSet(Range(subs)), NEW order \in Resolutions(Range(subs))
  PROVE  Sequence(Sorted(subs, order)) /\ Range(Sorted(subs, order)) \subseteq Range(subs)
  <1>1. Len(subs) \in Nat /\ DOMAIN subs = 1 .. Len(subs)
    BY SequenceIs
  <1>2. PICK n \in Nat : n = Cardinality(Range(subs))
    BY FS_CardinalityType
  <1>3. DOMAIN order = 1 .. n /\ \A k \in DOMAIN order : order[k] \in Range(subs)
    <2>1. order \in SetToSeqs(Range(subs))
      BY DEF Resolutions
    <2>2. order \in [1 .. n -> Range(subs)]
      BY <1>2, <2>1 DEF SetToSeqs
    <2> QED
      BY <2>2
  <1>4. ASSUME NEW k \in DOMAIN order
        PROVE  Sorted(subs, order)[k] \in Range(subs)
    <2> DEFINE J == {j \in DOMAIN subs : objects[subs[j]].name = objects[order[k]].name}
    <2>1. J \in SUBSET Nat /\ J # {}
      BY <1>1, <1>3 DEF Range
    <2>2. Min(J) \in J
      <3> HIDE DEF J
      <3> QED
        BY <2>1, MinIs
    <2>3. Sorted(subs, order)[k] = subs[Min(J)]
      BY DEF Sorted
    <2>4. Min(J) \in DOMAIN subs
      BY <2>2
    <2> HIDE DEF J
    <2> QED
      BY <2>3, <2>4 DEF Range
  <1>5. Sorted(subs, order) \in [1 .. n -> Range(subs)]
    <2>1. Sorted(subs, order) = [k \in 1 .. n |-> Sorted(subs, order)[k]]
      BY <1>3 DEF Sorted
    <2> QED
      BY <1>3, <1>4, <2>1
  <1>6. Sorted(subs, order) \in Seq(Range(subs))
    BY <1>3, <1>5, SeqDef
  <1> QED
    BY <1>6, IsSequence

LEMMA ComposeKeeps ==
  ASSUME CInv, stack # <<>>, got = None, NEW o, o = Top.object, Compose(o),
         models' = models, file' = file
  PROVE  CInv'
  <1>1. /\ o \in DOMAIN objects /\ ObjectOK(o) /\ ChildrenInv /\ ObjectsInv /\ ObjectsKnown
    BY TopIs, ObjectsFacts DEF CInv
  <1>2. CASE Throw
    BY <1>2, ThrowKeeps, QuietKeeps
  <1>3. CASE ~Throw
    <2>1. PICK given, all, in, out, nonlinear :
            /\ given = objects[o].submodels
            /\ all = IF file[objects[o].name].auto THEN WithProviders(given) ELSE given
            /\ in = OpenInputs(Range(all)) /\ out = OpenOutputs(Range(all))
            /\ nonlinear = UNION {Inherited(k, in) : k \in Range(given)}
      OBVIOUS
    <2>2. PICK order \in Resolutions(Range(all)) :
            Complete(o, Completed(o, Sorted(all, order), in, out, nonlinear, nonlinear))
      BY <1>3, <2>1 DEF Compose
    <2>3. ASSUME NEW k \in Range(given) PROVE k \in Children(o) /\ Done(k) /\ ~IsHost(k) /\ Place(k) = Place(o)
      BY <1>1, <2>1 DEF Children, ChildrenInv
    <2>4. Sequence(given)
      BY <1>1, <2>1 DEF ObjectOK
    <2>5. Sequence(all) /\ \A k \in Range(all) : Done(k) /\ ~IsHost(k) /\ Place(k) = Place(o)
      <3> DEFINE more == (UNION {ProvidersOf(objects[k].named) : k \in Range(given)}) \ Range(given)
      <3>1. ASSUME NEW j \in more PROVE Done(j) /\ ~IsHost(j) /\ Place(j) = Place(o)
        BY <1>1, <2>3, NamedOf
      <3>2. IsFiniteSet(more)
        <4>1. more \subseteq DOMAIN objects
          BY <3>1 DEF Done
        <4> HIDE DEF more
        <4> QED
          BY <1>1, <4>1, FS_Subset DEF ObjectsKnown
      <3>3. WithProviders(given) = given \o SetToSeq(more)
        BY DEF WithProviders
      <3> HIDE DEF more
      <3>4. Sequence(SetToSeq(more)) /\ Range(SetToSeq(more)) = more
        BY <3>2, SetToSeqIs
      <3>5. Sequence(given \o SetToSeq(more)) /\ Range(given \o SetToSeq(more)) = Range(given) \cup more
        BY <2>4, <3>4, ConcatIs
      <3> QED
        BY <2>1, <2>3, <2>4, <3>1, <3>3, <3>5
    <2>6. PICK subs : subs = Sorted(all, order)
      OBVIOUS
    <2>8. IsFiniteSet(Range(all))
      <3>1. Range(all) \subseteq DOMAIN objects
        BY <2>5 DEF Done
      <3> QED
        BY <1>1, <3>1, FS_Subset DEF ObjectsKnown
    <2>7. Sequence(subs) /\ Range(subs) \subseteq Range(all)
      BY <2>5, <2>6, <2>8, SortedIs
    <2>9. \A k \in Range(all) : IsFiniteSet(objects[k].in) /\ IsFiniteSet(objects[k].out)
      BY <1>1, <2>5 DEF ObjectsInv, ObjectOK, Done
    <2>10. IsFiniteSet(in)
      <3> DEFINE f == [k \in Range(all) |-> objects[k].in]
      <3>1. IsFiniteSet({f[k] : k \in DOMAIN f})
        <4>1. DOMAIN f = Range(all)
          OBVIOUS
        <4> HIDE DEF f
        <4> QED
          BY <2>8, <4>1, ImageFinite
      <3>2. {f[k] : k \in DOMAIN f} = {objects[k].in : k \in Range(all)}
        OBVIOUS
      <3>3. IsFiniteSet(UNION {objects[k].in : k \in Range(all)})
        BY <2>9, <3>1, <3>2, FS_UNION
      <3>4. in \subseteq UNION {objects[k].in : k \in Range(all)}
        BY <2>1 DEF OpenInputs
      <3> QED
        BY <3>3, <3>4, FS_Subset
    <2>11. IsFiniteSet(out)
      <3> DEFINE f == [k \in Range(all) |-> objects[k].out]
      <3>1. IsFiniteSet({f[k] : k \in DOMAIN f})
        <4>1. DOMAIN f = Range(all)
          OBVIOUS
        <4> HIDE DEF f
        <4> QED
          BY <2>8, <4>1, ImageFinite
      <3>2. {f[k] : k \in DOMAIN f} = {objects[k].out : k \in Range(all)}
        OBVIOUS
      <3>3. IsFiniteSet(UNION {objects[k].out : k \in Range(all)})
        BY <2>9, <3>1, <3>2, FS_UNION
      <3>4. out \subseteq UNION {objects[k].out : k \in Range(all)}
        BY <2>1 DEF OpenOutputs
      <3> QED
        BY <3>3, <3>4, FS_Subset
    <2>12. ASSUME NEW j \in ProvidersOf(nonlinear) PROVE Done(j) /\ ~IsHost(j) /\ Place(j) = Place(o)
      <3>0. PICK p \in nonlinear : j = p.provider
        BY DEF ProvidersOf
      <3>1. PICK k \in Range(given) : p \in Inherited(k, in)
        BY <2>1
      <3>2. j \in ProvidersOf(objects[k].named)
        BY <3>0, <3>1 DEF Inherited, ProvidersOf
      <3> QED
        BY <1>1, <2>3, <3>2, NamedOf
    <2>13. \A k \in Range(subs) \cup ProvidersOf(nonlinear) \cup ProvidersOf(nonlinear) :
             Done(k) /\ ~IsHost(k) /\ Place(k) = Place(o)
      BY <2>5, <2>7, <2>12
    <2> QED
      BY <2>2, <2>6, <2>7, <2>10, <2>11, <2>13, CompletingIs
  <1> QED
    BY <1>2, <1>3

LEMMA ConstructKeeps ==
  ASSUME CInv, Construct
  PROVE  CInv'
  <1>1. PICK o : o = Top.object
    OBVIOUS
  <1>2. stack # <<>> /\ got = None /\ models' = models /\ file' = file
    BY DEF Construct, Constructing
  <1>3. Compose(o) \/ CompleteModel(o)
    BY <1>1 DEF Construct
  <1> QED
    BY <1>1, <1>2, <1>3, ComposeKeeps, CompleteModelKeeps

-----------------------------------------------------------------------------
(* The links of a model, and its return *)

\* The variables of an object's parts refer to variables of its parts.
LEMMA RootInParts ==
  ASSUME CInv, NEW m \in DOMAIN objects, Done(m), IsHost(m), NEW y, y[1] \in Parts(m)
  PROVE  Root(refs, y)[1] \in Parts(m)
  <1> DEFINE X == {z \in DOMAIN refs \cup {refs[w] : w \in DOMAIN refs} \cup {y} : z[1] \in Parts(m)}
  <1>1. \A x \in DOMAIN refs : x[1] \in Parts(m) => refs[x][1] \in Parts(m)
    BY DEF CInv, RefsInv
  <1>2. y \in X /\ \A x \in DOMAIN refs : x \in X => refs[x] \in X
    BY <1>1
  <1>3. IsFiniteSet(DOMAIN refs)
    BY DEF CInv, RefsInv
  <1>4. Root(refs, y) \in X
    <2> HIDE DEF X
    <2> QED
      BY <1>2, <1>3, RootWithin
  <1> QED
    BY <1>4

LEMMA SetupKeeps ==
  ASSUME CInv, Setup
  PROVE  CInv'
  <1>1. PICK q, x, y : q = Head(links) /\ x = q[1] /\ y = q[2]
    OBVIOUS
  <1>2. links # <<>> /\ Refer(x, y) /\ models' = models /\ file' = file
    BY <1>1 DEF Setup
  <1>3. CASE Throw
    BY <1>2, <1>3, ThrowKeeps, QuietKeeps
  <1>4. CASE ~Throw
    <2>0. /\ ObjectsInv /\ ChildrenInv /\ GotInv /\ CacheInv /\ ModelsInv /\ RefsInv /\ LinksInv
          /\ file \in Files /\ NamesInv /\ ObjectsKnown /\ PartsKnown
      BY ObjectsFacts, PartsFacts DEF CInv
    <2>1. /\ ~(x \in DOMAIN refs /\ Root(refs, x) # Root(refs, y)) /\ Root(refs, y) # x
          /\ refs' = Put(refs, x, Root(refs, y)) /\ links' = Tail(links)
          /\ objects' = objects /\ cache' = cache /\ store' = store /\ stack' = stack /\ got' = got
      BY <1>2, <1>4 DEF Refer, Linked, Referred, Root
    <2>2. /\ stack = <<>> /\ got # None /\ Done(got) /\ got \in DOMAIN objects /\ IsHost(got)
          /\ Host(got) = got /\ Place(got) = objects[got].address
      BY <1>2, <2>0 DEF GotInv, Place, ObjectsKnown, Done
    <2>3. Sequence(links') /\ q \in Range(links) /\ Range(links) = {q} \cup Range(links')
      BY <1>1, <1>2, <2>0, <2>1, TailIs DEF LinksInv
    <2>4. x[1] \in Parts(got) /\ y[1] \in Parts(got)
      BY <1>1, <2>0, <2>3 DEF LinksInv, Inside
    <2>5. /\ IsFiniteSet(DOMAIN refs') /\ Rooted(refs')
          /\ \A z : Root(refs', z) = IF Root(refs, z) = x THEN Root(refs, y) ELSE Root(refs, z)
      BY <2>0, <2>1, ReferRoots DEF RefsInv
    <2>6. \A x1 : x1 \notin DOMAIN refs => Root(refs, x1) = x1
      BY <2>0, RootIs DEF RefsInv
    <2>7. ASSUME NEW p, Root(refs, p[1]) = Root(refs, p[2]) PROVE IsLinked(p)'
      <3>1. Root(refs', p[1]) = Root(refs', p[2])
        BY <2>5, <2>7
      <3> QED
        BY <3>1 DEF IsLinked, Referred, Root
    <2>8. IsLinked(q)'
      <3>1. Root(refs', x) = Root(refs, y) /\ Root(refs', y) = Root(refs, y)
        BY <2>1, <2>5, <2>6
      <3> QED
        BY <1>1, <3>1 DEF IsLinked, Referred, Root
    <2>9. /\ ObjectsInv' /\ ChildrenInv' /\ StackInv' /\ StoreInv' /\ Stable
          /\ \A o : (Stacked(o)' <=> Stacked(o)) /\ (Done(o)' <=> Done(o))
      BY <2>1, IdleKeeps
    <2>10. \A o : Parts(o)' = Parts(o) /\ Place(o)' = Place(o) /\ (IsHost(o)' <=> IsHost(o))
      BY <2>1 DEF Parts, Place, Host, IsHost
    <2>11. RefsInv'
      <3>1. DOMAIN refs' = DOMAIN refs \cup {x} /\ refs'[x] = Root(refs, y)
            /\ \A z \in DOMAIN refs : z # x => refs'[z] = refs[z]
        BY <2>1 DEF Put
      <3>2. x[1] \in DOMAIN objects /\ Place(x[1]) = Place(got) /\ Housed(x[1])
        BY <2>0, <2>2, <2>4 DEF PartsKnown, Housed
      <3>3. ASSUME NEW z \in DOMAIN refs' PROVE z[1] \in DOMAIN objects' /\ Housed(z[1])'
        <4>1. PICK k : k = z[1]
          OBVIOUS
        <4>2. k \in DOMAIN objects /\ Housed(k)
          BY <2>0, <3>1, <3>2, <4>1 DEF RefsInv
        <4>3. Housed(k)' /\ k \in DOMAIN objects'
          BY <2>0, <2>1, <2>9, <4>2, HousedKept
        <4> QED
          BY <4>1, <4>3 DEF Housed, Done, Stacked, IsHost, Place, Host
      <3>4. ASSUME NEW m \in DOMAIN objects', Done(m)', IsHost(m)', NEW z \in DOMAIN refs', z[1] \in Parts(m)'
            PROVE  refs'[z][1] \in Parts(m)'
        <4>1. m \in DOMAIN objects /\ Done(m) /\ IsHost(m) /\ z[1] \in Parts(m)
          BY <2>1, <2>9, <2>10, <3>4
        <4>2. CASE z = x
          <5>1. m = got
            <6>1. PICK k : k = x[1]
              OBVIOUS
            <6>2. Place(k) = Place(m) /\ Place(k) = Place(got)
              BY <2>0, <3>2, <4>1, <4>2, <6>1 DEF PartsKnown
            <6> QED
              BY <2>0, <2>2, <4>1, <6>2, HostsDiffer DEF Done
          <5>2. Root(refs, y)[1] \in Parts(got)
            BY <2>2, <2>4, RootInParts
          <5> QED
            BY <2>10, <3>1, <4>2, <5>1, <5>2
        <4>3. CASE z # x
          BY <2>0, <2>10, <3>1, <4>1, <4>3 DEF RefsInv
        <4> QED
          BY <4>2, <4>3
      <3> QED
        BY <2>5, <3>3, <3>4 DEF RefsInv
    <2>12. GotInv' /\ CacheInv' /\ ModelsInv' /\ NamesInv'
      <3>1. GotInv'
        BY <2>0, <2>1, <2>2, <2>9 DEF GotInv, IsHost, Done, Stacked
      <3>2. CacheInv' /\ ModelsInv'
        BY <1>2, <2>0, <2>1 DEF CacheInv, ModelsInv, Done, Stacked, IsHost
      <3>3. NamesInv'
        BY <1>2, <2>0, <2>1 DEF NamesInv
      <3> QED
        BY <3>1, <3>2, <3>3
    <2>13. LinksInv'
      <3>1. ASSUME NEW o \in DOMAIN objects', Done(o)' PROVE LinksOf(o)'
        <4>1. Done(o) /\ LinksOf(o)
          BY <2>0, <2>1, <2>9, <3>1 DEF LinksInv
        <4> QED
          BY <2>0, <2>9, <4>1, LinksOfKept
      <3>2. \A p : IsLinked(p) => IsLinked(p)'
        BY <2>7 DEF IsLinked, Referred, Root
      <3>3. \A p \in Range(links') : Inside(p, got)'
        BY <2>0, <2>1, <2>3, <2>10 DEF LinksInv, Inside, Parts
      <3>4. \A p \in Range(objects'[got].inLinks) : p \in Range(links') \/ IsLinked(p)'
        BY <2>0, <2>1, <2>2, <2>3, <2>8, <3>2 DEF LinksInv
      <3>5. \A m \in Range(models) : \A p \in Range(objects'[m].inLinks) : IsLinked(p)'
        BY <2>0, <2>1, <3>2 DEF LinksInv
      <3> QED
        BY <1>2, <2>0, <2>1, <2>3, <3>1, <3>3, <3>4, <3>5 DEF LinksInv
    <2> QED
      BY <1>2, <2>0, <2>9, <2>11, <2>12, <2>13 DEF CInv
  <1> QED
    BY <1>3, <1>4

LEMMA ReturnKeeps ==
  ASSUME CInv, ReturnModel
  PROVE  CInv'
  <1>0. /\ ObjectsInv /\ ChildrenInv /\ GotInv /\ CacheInv /\ ModelsInv /\ RefsInv /\ LinksInv
        /\ file \in Files /\ NamesInv /\ ObjectsKnown
    BY ObjectsFacts DEF CInv
  <1>1. /\ stack = <<>> /\ got # None /\ links = <<>> /\ models' = Append(models, got) /\ got' = None
        /\ file' = file /\ objects' = objects /\ cache' = cache /\ store' = store /\ refs' = refs
        /\ stack' = stack /\ links' = links
    BY DEF ReturnModel
  <1>2. PICK m : m = got
    OBVIOUS
  <1>3. Done(m) /\ IsHost(m) /\ m \in DOMAIN objects
    BY <1>0, <1>1, <1>2 DEF GotInv, IsHost, Done
  <1>4. /\ ObjectsInv' /\ ChildrenInv' /\ StackInv' /\ StoreInv' /\ Stable
        /\ \A o : (Stacked(o)' <=> Stacked(o)) /\ (Done(o)' <=> Done(o))
    BY <1>1, IdleKeeps
  <1>5. \A o : Parts(o)' = Parts(o) /\ Place(o)' = Place(o) /\ (IsHost(o)' <=> IsHost(o))
    BY <1>1 DEF Parts, Place, Host, IsHost
  <1>6. /\ Sequence(models') /\ Range(models') = Range(models) \cup {m}
        /\ DOMAIN models' = DOMAIN models \cup {Len(models) + 1} /\ Len(models) + 1 \notin DOMAIN models
        /\ \A i \in DOMAIN models : models'[i] = models[i]
        /\ models'[Len(models) + 1] = m
    BY <1>0, <1>1, <1>2, AppendIs DEF ModelsInv
  <1>7. ModelsInv'
    <2>1. ASSUME NEW i \in DOMAIN models' PROVE Done(models'[i]) /\ IsHost(models'[i]) /\ models'[i] # None
      <3>1. Done(models'[i]) /\ IsHost(models'[i])
        BY <1>0, <1>3, <1>6 DEF ModelsInv
      <3> QED
        BY <1>0, <3>1 DEF Done, ObjectsKnown
    <2>2. ASSUME NEW i \in DOMAIN models', NEW j \in DOMAIN models', models'[i] = models'[j] PROVE i = j
      BY <1>0, <1>2, <1>6, <2>2 DEF ModelsInv
    <2>3. \A i \in DOMAIN models' : Done(models[i])' /\ IsHost(models[i])' /\ models'[i] # got'
      BY <1>1, <2>1 DEF Done, Stacked, IsHost
    <2> QED
      BY <1>6, <2>2, <2>3 DEF ModelsInv
  <1>8. GotInv' /\ CacheInv' /\ NamesInv'
    BY <1>0, <1>1 DEF GotInv, CacheInv, NamesInv, Done, Stacked
  <1>9. RefsInv'
    <2>1. ASSUME NEW z \in DOMAIN refs PROVE z[1] \in DOMAIN objects /\ Housed(z[1])'
      BY <1>0, <1>1 DEF RefsInv, Housed, Done, Stacked, IsHost, Place, Host
    <2>2. ASSUME NEW k \in DOMAIN objects, Done(k)', IsHost(k)', NEW z \in DOMAIN refs, z[1] \in Parts(k)'
          PROVE  refs[z][1] \in Parts(k)'
      BY <1>0, <1>4, <1>5, <2>2 DEF RefsInv
    <2> QED
      BY <1>0, <1>1, <2>1, <2>2 DEF RefsInv
  <1>10. LinksInv'
    <2>1. ASSUME NEW o \in DOMAIN objects', Done(o)' PROVE LinksOf(o)'
      <3>1. Done(o) /\ LinksOf(o)
        BY <1>0, <1>1, <1>4, <2>1 DEF LinksInv
      <3> QED
        BY <1>0, <1>4, <3>1, LinksOfKept
    <2>2. \A p : IsLinked(p)' <=> IsLinked(p)
      BY <1>1 DEF IsLinked, Referred
    <2>3. \A q \in Range(objects[m].inLinks) : IsLinked(q)
      BY <1>0, <1>1, <1>2, EmptyIs DEF LinksInv
    <2>4. \A k \in Range(models') : \A q \in Range(objects'[k].inLinks) : IsLinked(q)'
      BY <1>0, <1>1, <1>6, <2>2, <2>3 DEF LinksInv
    <2>5. Sequence(links') /\ Range(links') = {}
      BY <1>1, EmptyIs
    <2> QED
      BY <1>0, <1>1, <2>1, <2>4, <2>5 DEF LinksInv
  <1> QED
    BY <1>0, <1>1, <1>4, <1>7, <1>8, <1>9, <1>10 DEF CInv

-----------------------------------------------------------------------------
(* Every step *)

LEMMA CreateNamedKeeps ==
  ASSUME CInv, stack # <<>>, got = None, NEW name, NEW t, t = Top.object,
         CreateNamed(name, Host(t)), models' = models, file' = file
  PROVE  CInv'
  <1>1. PICK host : host = Host(t)
    OBVIOUS
  <1>2. host = stack[1].object
    BY <1>1, TopIs
  <1>3. CASE name \in DOMAIN file
    <2>1. Create(name, host)
      BY <1>1, <1>3 DEF CreateNamed
    <2>2. host = IF stack = <<>> THEN NoHost ELSE stack[1].object
      BY <1>2
    <2> QED
      BY <1>3, <2>1, <2>2, CreateKeeps, QuietKeeps
  <1>4. CASE name \notin DOMAIN file
    BY <1>4, ThrowKeeps, QuietKeeps DEF CreateNamed
  <1> QED
    BY <1>3, <1>4

LEMMA GetModelKeeps ==
  ASSUME CInv, NEW name \in DOMAIN file, GetModel(name)
  PROVE  CInv'
  <1>1. PICK host : host = NoHost
    OBVIOUS
  <1>2. stack = <<>> /\ got = None /\ Create(name, host) /\ models' = models /\ file' = file
    BY <1>1 DEF GetModel
  <1>3. host = IF stack = <<>> THEN NoHost ELSE stack[1].object
    BY <1>1, <1>2
  <1> QED
    BY <1>2, <1>3, CreateKeeps, QuietKeeps

LEMMA RegisterKeeps ==
  ASSUME CInv, RegisterModel
  PROVE  CInv'
  <1>1. PICK t, name : t = Top.object /\ name = Head(Top.models)
    OBVIOUS
  <1>2. stack # <<>> /\ got = None /\ models' = models /\ file' = file
    BY DEF RegisterModel, Constructing
  <1>3. Throw \/ CreateNamed(name, Host(t))
    BY <1>1 DEF RegisterModel
  <1> QED
    BY <1>1, <1>2, <1>3, ThrowKeeps, QuietKeeps, CreateNamedKeeps

LEMMA DeclareParameterKeeps ==
  ASSUME CInv, DeclareParameter
  PROVE  CInv'
  <1>1. PICK t, p, name : t = Top.object /\ p = Head(Top.parameters)[1] /\ name = Head(Top.parameters)[2]
    OBVIOUS
  <1>2. stack # <<>> /\ got = None /\ models' = models /\ file' = file
    BY DEF DeclareParameter, Constructing
  <1>3. DeclareValue(t, p) \/ ResolveName(t, name)
    BY <1>1 DEF DeclareParameter
  <1>4. CASE DeclareValue(t, p)
    BY <1>1, <1>2, <1>4, DeclareKeeps, QuietKeeps
  <1>5. CASE ResolveName(t, name)
    <2>1. PICK found : found = {c \in DOMAIN cache : /\ objects[cache[c]].name = name
                                                     /\ Compatible(objects[cache[c]], Host(t))}
      OBVIOUS
    <2>2. CASE found = {}
      <3>1. CreateNamed(name, Host(t))
        BY <1>5, <2>1, <2>2 DEF ResolveName
      <3> QED
        BY <1>1, <1>2, <3>1, CreateNamedKeeps
    <2>3. CASE found # {}
      <3>1. got' = cache[Min(found)] /\ UNCHANGED <<objects, cache, store, refs, stack, links>>
        BY <1>5, <2>1, <2>3 DEF ResolveName
      <3>2. StepInv' /\ Quiet
        BY <1>1, <1>2, <2>1, <2>3, <3>1, FoundKeeps
      <3> QED
        BY <1>2, <3>2, QuietKeeps
    <2> QED
      BY <2>2, <2>3
  <1> QED
    BY <1>3, <1>4, <1>5

LEMMA StutterKeeps ==
  ASSUME CInv, UNCHANGED vars
  PROVE  CInv'
  <1>0. /\ ObjectsInv /\ ChildrenInv /\ GotInv /\ CacheInv /\ ModelsInv /\ RefsInv /\ LinksInv
        /\ file \in Files /\ NamesInv
    BY DEF CInv
  <1>1. /\ models' = models /\ got' = got
        /\ file' = file /\ objects' = objects /\ cache' = cache /\ store' = store /\ refs' = refs
        /\ stack' = stack /\ links' = links
    BY DEF vars
  <1>2. /\ ObjectsInv' /\ ChildrenInv' /\ StackInv' /\ StoreInv' /\ Stable
        /\ \A o : (Stacked(o)' <=> Stacked(o)) /\ (Done(o)' <=> Done(o))
    BY <1>1, IdleKeeps
  <1>3. \A o : Parts(o)' = Parts(o) /\ Place(o)' = Place(o) /\ (IsHost(o)' <=> IsHost(o))
    BY <1>1 DEF Parts, Place, Host, IsHost
  <1>4. GotInv' /\ CacheInv' /\ NamesInv' /\ ModelsInv'
    BY <1>0, <1>1 DEF GotInv, Place, Host, CacheInv, NamesInv, ModelsInv, Done, Stacked, IsHost
  <1>5. RefsInv'
    <2>1. ASSUME NEW z \in DOMAIN refs PROVE z[1] \in DOMAIN objects /\ Housed(z[1])'
      BY <1>0, <1>1 DEF RefsInv, Housed, Done, Stacked, IsHost, Place, Host
    <2>2. ASSUME NEW k \in DOMAIN objects, Done(k)', IsHost(k)', NEW z \in DOMAIN refs, z[1] \in Parts(k)'
          PROVE  refs[z][1] \in Parts(k)'
      BY <1>0, <1>2, <1>3, <2>2 DEF RefsInv
    <2> QED
      BY <1>0, <1>1, <2>1, <2>2 DEF RefsInv
  <1>6. LinksInv'
    <2>1. ASSUME NEW o \in DOMAIN objects', Done(o)' PROVE LinksOf(o)'
      <3>1. Done(o) /\ LinksOf(o)
        BY <1>0, <1>1, <1>2, <2>1 DEF LinksInv
      <3> QED
        BY <1>0, <1>2, <3>1, LinksOfKept
    <2>2. \A p : IsLinked(p)' <=> IsLinked(p)
      BY <1>1 DEF IsLinked, Referred
    <2>3. \A q \in Range(links) : Inside(q, got)'
      BY <1>0, <1>1, <1>3 DEF LinksInv, Inside, Parts
    <2> QED
      BY <1>0, <1>1, <2>1, <2>2, <2>3 DEF LinksInv
  <1> QED
    BY <1>0, <1>1, <1>2, <1>4, <1>5, <1>6 DEF CInv

LEMMA InitHolds == Init => CInv
  <1> SUFFICES ASSUME Init PROVE CInv
    OBVIOUS
  <1>1. /\ file \in Files /\ objects = <<>> /\ cache = <<>> /\ store = <<>> /\ refs = <<>>
        /\ models = <<>> /\ stack = <<>> /\ got = None /\ links = <<>>
    BY DEF Init
  <1>2. ObjectsInv /\ ChildrenInv /\ NamesInv /\ StackInv /\ CacheInv /\ GotInv
    BY <1>1, EmptyIs DEF ObjectsInv, ChildrenInv, NamesInv, StackInv, CacheInv, GotInv
  <1>3. ModelsInv /\ StoreInv
    BY <1>1, EmptyIs DEF ModelsInv, StoreInv
  <1>4. RefsInv
    BY <1>1, EmptyIs, FS_EmptySet DEF RefsInv, Rooted
  <1>5. LinksInv
    BY <1>1, EmptyIs DEF LinksInv
  <1> QED
    BY <1>1, <1>2, <1>3, <1>4, <1>5 DEF CInv

LEMMA StepKeeps ==
  ASSUME CInv, [Next]_vars
  PROVE  CInv'
  <1>1. CASE \E name \in DOMAIN file : GetModel(name)
    BY <1>1, GetModelKeeps
  <1>2. CASE RegisterModel
    BY <1>2, RegisterKeeps
  <1>3. CASE ModelRegistered
    BY <1>3, RegisteredKeeps, QuietKeeps DEF ModelRegistered
  <1>4. CASE DeclareParameter
    BY <1>4, DeclareParameterKeeps
  <1>5. CASE ParameterProvided
    BY <1>5, ProvidedKeeps, QuietKeeps DEF ParameterProvided
  <1>6. CASE Construct
    BY <1>6, ConstructKeeps
  <1>7. CASE Setup
    BY <1>7, SetupKeeps
  <1>8. CASE ReturnModel
    BY <1>8, ReturnKeeps
  <1>9. CASE Clear
    BY <1>9, ClearKeeps, QuietKeeps DEF Clear
  <1>10. CASE Ended
    BY <1>10, StutterKeeps DEF Ended
  <1>11. CASE UNCHANGED vars
    BY <1>11, StutterKeeps
  <1> QED
    BY <1>1, <1>2, <1>3, <1>4, <1>5, <1>6, <1>7, <1>8, <1>9, <1>10, <1>11 DEF Next

-----------------------------------------------------------------------------
(* Theorems *)

\* The invariant of the factory, whatever the files say and wherever objects lie: objects
\* know their host, the host of what an object is made of lies, or has lain, where its own
\* does, the store of a host tells who declared what is in it, references end, and those of
\* a model stay within it.
THEOREM ConstructionInvariance ==
  Spec => []CInv
  <1>1. Init => CInv
    BY InitHolds
  <1>2. CInv /\ [Next]_vars => CInv'
    BY StepKeeps
  <1> QED
    BY <1>1, <1>2, PTL DEF Spec

\* Two models that the caller has got are hosts that are alive, so that they lie apart, and
\* what a model uses has a host where the model lies: they share no object.
THEOREM ModelsSeparate ==
  Spec => []ModelsAreSeparate
  <1>1. CInv => ModelsAreSeparate
    <2> SUFFICES ASSUME CInv, NEW i \in DOMAIN models, NEW j \in DOMAIN models, i # j
                 PROVE  Reach(models[i]) \cap Reach(models[j]) = {}
      BY DEF ModelsAreSeparate
    <2>1. PICK a, b : a = models[i] /\ b = models[j]
      OBVIOUS
    <2>2. /\ a \in DOMAIN objects /\ b \in DOMAIN objects /\ a # b
          /\ IsHost(a) /\ IsHost(b) /\ objects[a].alive /\ objects[b].alive
      BY <2>1 DEF CInv, ModelsInv, Done
    <2>3. /\ \A k \in Reach(a) : Place(k) = Place(a)
          /\ \A k \in Reach(b) : Place(k) = Place(b)
      BY <2>2, ReachAre DEF CInv
    <2>4. Place(a) # Place(b)
      BY <2>2, HostsDiffer DEF CInv
    <2> QED
      BY <2>1, <2>3, <2>4
  <1> QED
    BY <1>1, ConstructionInvariance, PTL

\* A parameter that an object of a model has declared is in the store of that model, where
\* no other object's value has taken its place.  The exception is an object whose host was
\* destroyed by an exception and lay where the model lies now.
THEOREM ParametersAreInHost ==
  Spec => []ParametersInHost
  <1>1. CInv => ParametersInHost
    <2> SUFFICES ASSUME CInv, NEW i \in DOMAIN models, NEW o \in Reach(models[i])
                 PROVE  LET parameters == objects[o].parameters
                        IN  IF LeftOver(o) THEN objects[Host(o)].address = objects[models[i]].address
                            ELSE \A p \in DOMAIN parameters :
                                   /\ parameters[p][1] = models[i]
                                   /\ parameters[p] \in DOMAIN store
                                   /\ store[parameters[p]] = <<objects[o].name, p>>
      BY DEF ParametersInHost
    <2>1. PICK m : m = models[i]
      OBVIOUS
    <2>2. m \in DOMAIN objects /\ IsHost(m) /\ objects[m].alive
      BY <2>1 DEF CInv, ModelsInv, Done
    <2>3. Host(m) = m /\ Place(m) = objects[m].address
      BY <2>2, ObjectsFacts DEF ObjectsKnown, CInv, Place
    <2>4. o \in DOMAIN objects /\ objects[Host(o)].address = objects[m].address
      BY <2>1, <2>2, <2>3, ReachAre DEF CInv, Place
    <2>5. ASSUME ~LeftOver(o) PROVE Host(o) = m
      <3>1. Host(o) \in DOMAIN objects /\ objects[Host(o)].alive
        BY <2>4, <2>5, ObjectsFacts DEF LeftOver, ObjectsKnown, CInv
      <3> QED
        BY <2>2, <2>4, <3>1 DEF CInv, ObjectsInv
    <2>6. ASSUME NEW p \in DOMAIN objects[o].parameters
          PROVE  /\ objects[o].parameters[p] = <<Host(o), ParameterName(o, p)>>
                 /\ objects[o].parameters[p] \in DOMAIN store
                 /\ store[objects[o].parameters[p]] = <<objects[o].name, p>>
      BY <2>4 DEF CInv, StoreInv
    <2> QED
      BY <2>1, <2>4, <2>5, <2>6
  <1> QED
    BY <1>1, ConstructionInvariance, PTL

\* The input of a submodel, at any depth of a model that the caller has got, is the output
\* of the submodel beside it that provides it, or the input of the model around it, and
\* what both stand for in the end is a variable of the model.
THEOREM InputsAreLinked ==
  Spec => []InputsLinked
  <1>1. CInv => InputsLinked
    <2> SUFFICES ASSUME CInv, NEW i \in DOMAIN models, NEW o \in Parts(models[i]),
                        NEW k \in Range(objects[o].submodels), NEW v \in objects[k].in
                 PROVE  LET beside == {j \in Range(objects[o].submodels) \ {k} : v \in objects[j].out}
                            source == IF objects[o].kind = "composed" /\ beside # {}
                                      THEN <<CHOOSE j \in beside : TRUE, "out", v>> ELSE <<o, "in", v>>
                            owner == Referred(<<k, "in", v>>)
                        IN  owner = Referred(source) /\ owner[1] \in Parts(models[i])
      BY DEF InputsLinked
    <2>1. PICK m : m = models[i]
      OBVIOUS
    <2>2. m \in DOMAIN objects /\ Done(m) /\ IsHost(m) /\ m \in Range(models)
      BY <2>1 DEF CInv, ModelsInv, Done, Range
    <2>3. PartsKnown /\ ChildrenKnown /\ LinksInv
      BY PartsFacts, ChildrenFacts DEF CInv
    <2> DEFINE S == {x \in DOMAIN objects : Done(x) /\ Range(objects[x].inLinks) \subseteq Range(objects[m].inLinks)}
    <2>4. Parts(m) \subseteq S
      <3>1. ASSUME NEW x \in S, NEW y \in Range(objects[x].submodels) PROVE y \in S
        <4>1. y \in DOMAIN objects /\ Done(y)
          BY <2>3 DEF ChildrenKnown, Children
        <4>2. Range(objects[y].inLinks) \subseteq Range(objects[x].inLinks)
          BY <2>3 DEF LinksInv, LinksOf
        <4> QED
          BY <4>1, <4>2
      <3>2. m \in S
        BY <2>2
      <3> HIDE DEF S
      <3> QED
        BY <2>2, <2>3, <3>1, <3>2 DEF PartsKnown
    <2>5. o \in DOMAIN objects /\ Done(o) /\ Range(objects[o].inLinks) \subseteq Range(objects[m].inLinks)
      BY <2>1, <2>4
    <2>6. PICK kind, subs : kind = objects[o].kind /\ subs = Range(objects[o].submodels)
      OBVIOUS
    <2>7. <<<<k, "in", v>>, Source(o, kind, subs, k, v)>> \in Range(objects[m].inLinks)
      <3>1. <<<<k, "in", v>>, Source(o, kind, subs, k, v)>> \in InputLinks(o, kind, subs, k)
        BY DEF InputLinks
      <3>2. InputLinks(o, kind, subs, k) \subseteq Range(objects[o].inLinks)
        BY <2>3, <2>5, <2>6 DEF LinksInv, LinksOf
      <3> QED
        BY <2>5, <3>1, <3>2
    <2>8. Referred(<<k, "in", v>>) = Referred(Source(o, kind, subs, k, v))
      BY <2>2, <2>3, <2>7 DEF LinksInv, IsLinked
    <2>9. Referred(<<k, "in", v>>)[1] \in Parts(m)
      <3>1. k \in Parts(m)
        BY <2>1, <2>2, <2>3 DEF PartsKnown
      <3>2. PICK x : x = <<k, "in", v>>
        OBVIOUS
      <3>3. Root(refs, x)[1] \in Parts(m)
        BY <2>2, <3>1, <3>2, RootInParts
      <3> QED
        BY <3>2, <3>3 DEF Referred, Root
    <2>10. Source(o, kind, subs, k, v) =
             IF objects[o].kind = "composed" /\ {j \in Range(objects[o].submodels) \ {k} : v \in objects[j].out} # {}
             THEN <<CHOOSE j \in {j \in Range(objects[o].submodels) \ {k} : v \in objects[j].out} : TRUE, "out", v>>
             ELSE <<o, "in", v>>
      BY <2>6 DEF Source, Inbound, Providers
    <2> QED
      BY <2>1, <2>8, <2>9, <2>10
  <1> QED
    BY <1>1, ConstructionInvariance, PTL

=============================================================================
