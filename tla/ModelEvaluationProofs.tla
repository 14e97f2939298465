------------------------ MODULE ModelEvaluationProofs ------------------------
(***************************************************************************)
(* Theorems about ModelEvaluation, for any inputs, shapes, parameters and  *)
(* sequence of calls: evaluations see the arguments of their call, whether *)
(* the model is traced or not.                                             *)
(***************************************************************************)
EXTENDS ModelEvaluation, FiniteSetTheorems, WellFoundedInduction, TLAPS

-----------------------------------------------------------------------------
(* The inductive invariant *)

ETypeOK ==
  /\ kind \in Kinds /\ jit \in BOOLEAN /\ solving \in BOOLEAN /\ system \in BOOLEAN
  /\ pc \in {"idle", "system", "ready", "forwarded"}
  /\ calls \in 0 .. MaxCalls /\ guesses \in 0 .. MaxGuesses
  /\ op \in SUBSET (0 .. 2)
  /\ input \in [Inputs -> Value \cup {Undef}]
  /\ pc # "idle" => input \in [Inputs -> Value]
  /\ parameter \in Params
  /\ sparsity \in [BOOLEAN -> [1 .. 2 -> {Undef} \cup SUBSET Args]]

\* Between two calls nothing is left of the first; what is left of a call that
\* has thrown is inputs.
AtRest ==
  pc = "idle" =>
    /\ ~solving /\ guesses = 0
    /\ ~dirty => \A x \in Inputs : input[x] = Undef

\* Second derivatives are asked for outside of a solve, and not of every model.
SecondOrder == 2 \in op => ~solving /\ kind # "AD"

MustPass(x) == x \in given \/ (guesses > 0 /\ x \in Unknowns) \/ ~dirty

\* During a call the inputs are those of the call.
InputsOfCall == pc # "idle" => \A x \in Inputs : MustPass(x) => Passed(x, input[x])

\* The derivatives by unknowns, or by all inputs
DependentFirst(nl) == {a \in First : \A k \in DOMAIN a : ~nl \/ a[k] \in Unknowns}

\* The sparsity that is cached first is the only one there can be.
SparsityFixed ==
  /\ \A nl \in BOOLEAN : sparsity[nl][1] \in {Undef, DependentFirst(nl)}
  /\ kind # "AD2" => sparsity[FALSE][2] \in {Undef, Second}

\* A graph was traced with the schema it is kept under, and lays its results out
\* in the sparsity that is cached.
TracedAgrees ==
  \A t \in traced :
    /\ t.schema = t.key.schema /\ t.key.nl \in BOOLEAN
    /\ 1 \in t.key.op =>
         /\ t.sparsity[1] = DependentFirst(t.key.nl)
         /\ sparsity[t.key.nl][1] = DependentFirst(t.key.nl)
    /\ 2 \in t.key.op /\ kind # "AD2" => t.sparsity[2] = Second /\ sparsity[FALSE][2] = Second

Once == [of |-> Arguments, times |-> 1]

\* What an evaluation leaves is computed from the arguments it was given.
Evaluated ==
  pc = "forwarded" =>
    /\ 0 \in op => output = Arguments
    /\ 1 \in op => \A a \in First : Dependent(a) => derivs[a] = Once
    /\ 2 \in op /\ kind # "AD2" => \A a \in Second : derivs[a] = Once

EInv ==
  ETypeOK /\ AtRest /\ SecondOrder /\ InputsOfCall /\ SparsityFixed /\ TracedAgrees /\ Evaluated

-----------------------------------------------------------------------------
(* Dimensions of a guess *)

\* A finite set of numbers has its maximum: a smallest subset without one would have
\* one when an element is taken out.
LEMMA MaxOfFinite ==
  ASSUME NEW S \in SUBSET Nat, S # {}, IsFiniteSet(S)
  PROVE  Max(S) \in S
<1> DEFINE NoMax == {Q \in SUBSET S : Q # {} /\ ~ \E x \in Q : \A y \in Q : x >= y}
           R == StrictSubsetOrdering(S)
<1>1. NoMax = {}
  <2> SUFFICES ASSUME NoMax # {} PROVE FALSE
    OBVIOUS
  <2>1. NoMax \subseteq FiniteSubsetsOf(S) /\ IsWellFoundedOn(R, FiniteSubsetsOf(S))
    BY FS_FiniteSubsetsOfFinite, FS_StrictSubsetOrderingWellFounded
  <2>2. PICK Q \in NoMax : \A P \in NoMax : ~(<<P, Q>> \in R)
    <3> HIDE DEF NoMax, R
    <3> QED
      BY <2>1, WFMin
  <2>3. PICK x \in Q : TRUE
    BY <2>2
  <2>4. Q \ {x} \notin NoMax
    BY <2>2, <2>3 DEF StrictSubsetOrdering
  <2>5. CASE Q \ {x} = {}
    BY <2>2, <2>3, <2>5
  <2>6. CASE Q \ {x} # {}
    <3>1. PICK z \in Q \ {x} : \A y \in Q \ {x} : z >= y
      BY <2>2, <2>4, <2>6
    <3>2. x \in Nat /\ z \in Nat /\ Q \subseteq Nat
      BY <2>2, <2>3, <3>1
    <3>3. (\A y \in Q : z >= y) \/ (\A y \in Q : x >= y)
      BY <3>1, <3>2
    <3> QED
      BY <2>2, <2>3, <3>1, <3>3
  <2> QED
    BY <2>5, <2>6
<1>2. \E x \in S : \A y \in S : x >= y
  BY <1>1
<1> QED
  BY <1>2 DEF Max

LEMMA GuessDimType ==
  ASSUME ETypeOK, pc # "idle", Unknowns # {}
  PROVE  GuessDim \in Dims
<1> USE EvaluationAssumption
<1> DEFINE dim == [x \in Inputs |-> input[x].dim]
           U == {input[x].dim : x \in Unknowns}
           A == {input[x].dim : x \in Inputs}
           P == {parameter.dim}
<1>1. input \in [Inputs -> Value] /\ parameter \in Params
  BY DEF ETypeOK
<1>2. U \subseteq Dims /\ A \subseteq Dims /\ P \subseteq Dims /\ U # {}
  BY <1>1 DEF Value, Params
<1>3. IsFiniteSet(Unknowns) /\ IsFiniteSet(P)
  BY FS_Subset, FS_Singleton
<1>4. IsFiniteSet(A)
  <2>1. A = {dim[x] : x \in Inputs}
    OBVIOUS
  <2>2. dim \in [Inputs -> Dims]
    BY <1>1 DEF Value
  <2>3. dim \in Surjection(Inputs, A)
    BY <2>1, <2>2 DEF Surjection
  <2> HIDE DEF dim, A
  <2> QED
    BY <2>3, FS_Surjection
<1>5. IsFiniteSet(U)
  <2>1. U \subseteq A
    OBVIOUS
  <2> HIDE DEF U, A
  <2> QED
    BY <2>1, <1>4, FS_Subset
<1> HIDE DEF U, A, P
<1>6. IsFiniteSet(U \cup {}) /\ IsFiniteSet(U \cup (A \cup P))
  BY <1>3, <1>4, <1>5, FS_Union, FS_EmptySet
<1>7. GuessDim = Max(U \cup (IF guesses = 0 THEN {} ELSE A \cup P))
  BY DEF GuessDim, U, A, P
<1>8. \A S : S \subseteq Dims /\ S # {} /\ IsFiniteSet(S) => Max(S) \in Dims
  BY MaxOfFinite
<1>9. CASE guesses = 0
  BY <1>2, <1>6, <1>7, <1>8, <1>9
<1>10. CASE guesses # 0
  BY <1>2, <1>6, <1>7, <1>8, <1>10
<1> QED
  BY <1>9, <1>10

-----------------------------------------------------------------------------
(* What forward() assigns and caches *)

\* Computed values are defined.
LEMMA ComputedDefined ==
  ASSUME ETypeOK, pc # "idle"
  PROVE  Arguments # Undef /\ Once # Undef
<1>1. Arguments \in Computed
  BY DEF ETypeOK, Arguments, Computed
<1>2. Once \in [of: Computed, times: Nat]
  BY <1>1 DEF Once
<1> QED
  BY <1>1, <1>2, EvaluationAssumption

LEMMA Orders ==
  /\ \A a \in First : Len(a) = 1
  /\ \A a \in Second : Len(a) = 2
  /\ \A a \in Args : (Len(a) = 1 <=> a \in First) /\ (Len(a) = 2 <=> a \in Second)
<1>1. \A a \in First : Len(a) = 1
  BY DEF First
<1>2. \A a \in Second : Len(a) = 2
  BY DEF Second
<1> QED
  BY <1>1, <1>2 DEF Args

LEMMA DependentIs == {a \in First : Dependent(a)} = DependentFirst(solving)
BY DEF DependentFirst, Dependent, IsDependent

\* Every derivative that is asked for is assigned, once.
LEMMA DerivativesSet ==
  ASSUME EInv, pc # "idle"
  PROVE  /\ 1 \in op => \A a \in First : Dependent(a) => SetDerivs[a] = Once
         /\ 2 \in op /\ kind # "AD2" => \A a \in Second : SetDerivs[a] = Once
<1>1. kind \in {"explicit", "AD", "AD2", "composed"}
  BY EvaluationAssumption DEF EInv, ETypeOK
<1>2. ASSUME NEW a \in Args, a \in Assigned PROVE SetDerivs[a] = Once
  <2>1. kind = "composed" \/ ClearedDerivs[a] = Undef
    BY DEF ClearedDerivs, NoDerivs
  <2> QED
    BY <1>2, <2>1 DEF SetDerivs, Once
<1>3. ASSUME 1 \in op, NEW a \in First, Dependent(a) PROVE a \in Assigned /\ a \in Args
  BY <1>1, <1>3, Orders DEF Assigned, Args
<1>4. ASSUME 2 \in op, kind # "AD2", NEW a \in Second PROVE a \in Assigned /\ a \in Args
  BY <1>1, <1>4, Orders DEF Assigned, Args, EInv, SecondOrder
<1> QED
  BY <1>2, <1>3, <1>4

\* The sparsity that an evaluation caches is the one that any other would.
LEMMA SparsityCached ==
  ASSUME EInv, pc # "idle"
  PROVE  /\ CachedSparsity \in [BOOLEAN -> [1 .. 2 -> {Undef} \cup SUBSET Args]]
         /\ \A nl \in BOOLEAN, n \in 1 .. 2 : sparsity[nl][n] # Undef => CachedSparsity[nl][n] = sparsity[nl][n]
         /\ \A nl \in BOOLEAN : CachedSparsity[nl][1] \in {Undef, DependentFirst(nl)}
         /\ kind # "AD2" => CachedSparsity[FALSE][2] \in {Undef, Second}
         /\ 1 \in op => CachedSparsity[solving][1] = DependentFirst(solving)
         /\ 2 \in op /\ kind # "AD2" => CachedSparsity[FALSE][2] = Second
<1> DEFINE Has1(n) == {a \in Args : Len(a) = n /\ SetDerivs[a] # Undef /\ (n = 1 => Dependent(a))}
           new == [n \in 1 .. 2 |-> IF n \in op /\ sparsity[solving][n] = Undef THEN Has1(n)
                                    ELSE sparsity[solving][n]]
<1>1. sparsity \in [BOOLEAN -> [1 .. 2 -> {Undef} \cup SUBSET Args]] /\ solving \in BOOLEAN
  BY DEF EInv, ETypeOK
<1>2. CachedSparsity = [sparsity EXCEPT ![solving] = new]
  BY DEF CachedSparsity
<1>3. 1 \in op => Has1(1) = DependentFirst(solving)
  BY Orders, DerivativesSet, ComputedDefined, DependentIs DEF EInv, Args
<1>4. 2 \in op /\ kind # "AD2" => Has1(2) = Second
  BY Orders, DerivativesSet, ComputedDefined DEF EInv, Args
<1>5. \A n \in 1 .. 2 : Has1(n) \in SUBSET Args
  OBVIOUS
<1>6. /\ CachedSparsity[solving] = new
      /\ \A nl \in BOOLEAN : nl # solving => CachedSparsity[nl] = sparsity[nl]
  BY <1>1, <1>2
<1>7. \A n \in 1 .. 2 : new[n] = IF n \in op /\ sparsity[solving][n] = Undef THEN Has1(n)
                                 ELSE sparsity[solving][n]
  OBVIOUS
<1>8. new \in [1 .. 2 -> {Undef} \cup SUBSET Args]
  BY <1>1, <1>5
<1>9. CachedSparsity \in [BOOLEAN -> [1 .. 2 -> {Undef} \cup SUBSET Args]]
  BY <1>1, <1>2, <1>8
<1>10. SparsityFixed /\ (2 \in op => ~solving)
  BY DEF EInv, SecondOrder
<1> HIDE DEF new, Has1
<1>11. new[1] \in {Undef, DependentFirst(solving)}
  BY <1>1, <1>3, <1>7, <1>10 DEF SparsityFixed
<1>12. 1 \in op => new[1] = DependentFirst(solving)
  BY <1>1, <1>3, <1>7, <1>10 DEF SparsityFixed
<1>13. ASSUME kind # "AD2", solving = FALSE
       PROVE  new[2] \in {Undef, Second} /\ (2 \in op => new[2] = Second)
  <2>1. sparsity[solving][2] \in {Undef, Second}
    BY <1>10, <1>13 DEF SparsityFixed
  <2>2. new[2] = IF 2 \in op /\ sparsity[solving][2] = Undef THEN Has1(2) ELSE sparsity[solving][2]
    BY <1>7
  <2>3. 2 \in op => Has1(2) = Second
    BY <1>4, <1>13
  <2> QED
    BY <2>1, <2>2, <2>3
<1>14. \A nl \in BOOLEAN, n \in 1 .. 2 :
         sparsity[nl][n] # Undef => CachedSparsity[nl][n] = sparsity[nl][n]
  <2> SUFFICES ASSUME NEW nl \in BOOLEAN, NEW n \in 1 .. 2, sparsity[nl][n] # Undef
               PROVE  CachedSparsity[nl][n] = sparsity[nl][n]
    OBVIOUS
  <2>1. CASE nl = solving
    BY <2>1, <1>6, <1>7
  <2>2. CASE nl # solving
    BY <2>2, <1>6
  <2> QED
    BY <2>1, <2>2
<1>15. \A nl \in BOOLEAN : CachedSparsity[nl][1] \in {Undef, DependentFirst(nl)}
  BY <1>1, <1>6, <1>10, <1>11 DEF SparsityFixed
<1>16. kind # "AD2" => CachedSparsity[FALSE][2] \in {Undef, Second}
                        /\ (2 \in op => CachedSparsity[FALSE][2] = Second)
  <2>1. CASE solving = FALSE
    BY <2>1, <1>6, <1>13
  <2>2. CASE solving # FALSE
    BY <2>2, <1>1, <1>6, <1>10 DEF SparsityFixed
  <2> QED
    BY <2>1, <2>2
<1> QED
  BY <1>6, <1>9, <1>12, <1>14, <1>15, <1>16

-----------------------------------------------------------------------------
(* Every step keeps the invariant *)

LEMMA InitEvaluation == Init => EInv
<1> SUFFICES ASSUME Init PROVE EInv
  OBVIOUS
<1> USE EvaluationAssumption
<1>1. ETypeOK
  <2>1. sparsity \in [BOOLEAN -> [1 .. 2 -> {Undef} \cup SUBSET Args]]
    BY DEF Init
  <2>2. QED
    <3>1. kind \in Kinds /\ jit \in BOOLEAN /\ parameter \in Params
      BY DEF Init, Params
    <3>2. input \in [Inputs -> Value \cup {Undef}] /\ calls \in 0 .. MaxCalls /\ guesses \in 0 .. MaxGuesses
      BY DEF Init
    <3> QED
      BY <2>1, <3>1, <3>2 DEF Init, ETypeOK
<1>2. SparsityFixed
  BY DEF Init, SparsityFixed
<1>3. AtRest /\ SecondOrder /\ InputsOfCall /\ TracedAgrees /\ Evaluated
  BY DEF Init, AtRest, SecondOrder, InputsOfCall, TracedAgrees, Evaluated
<1> QED
  BY <1>1, <1>2, <1>3 DEF EInv

\* Steps that leave the caches alone
LEMMA CachesKept ==
  ASSUME EInv, UNCHANGED <<kind, sparsity, traced>>
  PROVE  SparsityFixed' /\ TracedAgrees'
BY DEF EInv, SparsityFixed, TracedAgrees

LEMMA SetParameterKeeps == EInv /\ (\E d \in Dims : SetParameter(d)) => EInv'
<1> SUFFICES ASSUME EInv, NEW d \in Dims, SetParameter(d) PROVE EInv'
  OBVIOUS
<1> USE EvaluationAssumption
<1>1. /\ pc = "idle" /\ parameter.set < MaxSets
      /\ parameter' = [set |-> parameter.set + 1, dim |-> d]
      /\ UNCHANGED <<kind, jit, pc, calls, request, given, system, guesses, op, solving, dirty,
                     input, intmd, output, derivs, layout, sparsity, traced>>
  BY DEF SetParameter, callVars, store, caches
<1>2. parameter' \in Params
  BY <1>1 DEF EInv, ETypeOK, Params
<1>3. ETypeOK'
  BY <1>1, <1>2 DEF EInv, ETypeOK
<1>4. AtRest' /\ SecondOrder' /\ InputsOfCall' /\ Evaluated'
  BY <1>1 DEF EInv, AtRest, SecondOrder, InputsOfCall, Evaluated
<1> QED
  BY <1>1, <1>3, <1>4, CachesKept DEF EInv

\* A call passes its inputs; what it does not pass is zero, unless a call that has
\* thrown left something there.
LEMMA BeginKeeps ==
  ASSUME EInv, NEW r \in Requests, NEW g \in SUBSET Inputs, NEW d \in Dims, NEW s \in Shapes,
         Begin(r, g, d, s)
  PROVE  EInv'
<1> USE EvaluationAssumption
<1>1. /\ pc = "idle" /\ calls < MaxCalls /\ calls' = calls + 1
      /\ 2 \in r => kind # "AD"
      /\ input' = [x \in Inputs |-> IF x \in g THEN New(d) ELSE ZeroUndefined(x)]
      /\ given' = g
      /\ UNCHANGED <<kind, jit, guesses, solving, dirty, parameter, output, derivs, layout, sparsity, traced>>
  BY DEF Begin, Assigning, caches
<1>2. /\ pc' \in {"ready", "system"} /\ op' \in {r, {}} /\ system' \in BOOLEAN
  BY DEF Begin
<1>3. ETypeOK /\ ~solving /\ guesses = 0 /\ (~dirty => \A x \in Inputs : input[x] = Undef)
  BY <1>1 DEF EInv, AtRest
<1>4. New(d) \in Value /\ Zero \in Value
  BY <1>1, <1>3 DEF New, Value, Zero, ETypeOK
<1>5. \A x \in Inputs : input[x] \in Value \cup {Undef} /\ ZeroUndefined(x) \in Value
  BY <1>3, <1>4 DEF ETypeOK, ZeroUndefined
<1>6. input' \in [Inputs -> Value] /\ input' \in [Inputs -> Value \cup {Undef}]
  BY <1>1, <1>4, <1>5
<1>7. ETypeOK'
  BY <1>1, <1>2, <1>3, <1>6 DEF ETypeOK
<1>8. AtRest' /\ SecondOrder' /\ Evaluated'
  BY <1>1, <1>2, <1>3 DEF AtRest, SecondOrder, Evaluated
<1>9. InputsOfCall'
  <2> SUFFICES ASSUME NEW x \in Inputs, x \in g \/ ~dirty
               PROVE  Passed(x, input[x])'
    BY <1>1, <1>3 DEF InputsOfCall, MustPass
  <2>1. CASE x \in g
    <3>1. input'[x].call = calls' /\ input'[x].guess = 0
      BY <2>1, <1>1 DEF New
    <3> QED
      BY <2>1, <3>1, <1>1, <1>3 DEF Passed
  <2>2. CASE x \notin g
    <3>1. input'[x] = Zero
      BY <2>2, <1>1, <1>3 DEF ZeroUndefined
    <3> QED
      BY <2>2, <3>1, <1>1, <1>3 DEF Passed, Zero
  <2> QED
    BY <2>1, <2>2
<1> QED
  BY <1>1, <1>7, <1>8, <1>9, CachesKept DEF EInv

LEMMA AssignThrowKeeps ==
  ASSUME EInv, NEW r \in Requests, NEW g \in SUBSET Inputs, NEW d \in Dims, NEW s \in Shapes,
         AssignThrow(g, d, s)
  PROVE  EInv'
<1> USE EvaluationAssumption
<1>1. /\ pc = "idle" /\ pc' = "idle" /\ calls < MaxCalls /\ calls' = calls + 1 /\ dirty'
      /\ input' = [x \in Inputs |-> IF x \in g THEN New(d) ELSE input[x]]
      /\ UNCHANGED <<kind, jit, system, guesses, op, solving, parameter, output, derivs, layout, sparsity,
                     traced>>
  BY DEF AssignThrow, Assigning, caches
<1>2. New(d) \in Value
  BY <1>1 DEF EInv, ETypeOK, New, Value
<1>3. input' \in [Inputs -> Value \cup {Undef}]
  BY <1>1, <1>2 DEF EInv, ETypeOK
<1>4. ETypeOK'
  BY <1>1, <1>3 DEF EInv, ETypeOK
<1>5. AtRest' /\ SecondOrder' /\ InputsOfCall' /\ Evaluated'
  BY <1>1 DEF EInv, AtRest, SecondOrder, InputsOfCall, Evaluated
<1> QED
  BY <1>1, <1>4, <1>5, CachesKept DEF EInv

\* The guess takes the place of the unknowns, and of nothing else.
LEMMA SetGuessInputs ==
  ASSUME EInv, pc # "idle", SetGuess, UNCHANGED <<calls, given, dirty>>
  PROVE  /\ input' \in [Inputs -> Value] /\ guesses' \in 1 .. MaxGuesses
         /\ \A x \in Inputs : MustPass(x)' => Passed(x, input[x])'
<1> USE EvaluationAssumption
<1>1. /\ guesses < MaxGuesses /\ guesses' = guesses + 1
      /\ input' = [x \in Inputs |-> IF x \in Unknowns
                                    THEN [call |-> calls, guess |-> guesses + 1, dim |-> GuessDim]
                                    ELSE input[x]]
  BY DEF SetGuess
<1>2. ETypeOK /\ input \in [Inputs -> Value] /\ guesses \in 0 .. MaxGuesses /\ calls \in 0 .. MaxCalls
  BY DEF EInv, ETypeOK
<1>3. ASSUME NEW x \in Inputs, x \in Unknowns
      PROVE  [call |-> calls, guess |-> guesses + 1, dim |-> GuessDim] \in Value
  BY <1>1, <1>2, <1>3, GuessDimType DEF Value
<1>4. input' \in [Inputs -> Value]
  BY <1>1, <1>2, <1>3
<1>5. ASSUME NEW x \in Inputs, MustPass(x)' PROVE Passed(x, input[x])'
  <2>1. CASE x \in Unknowns
    <3>1. input'[x].call = calls /\ input'[x].guess = guesses + 1
      BY <1>1, <2>1
    <3> QED
      BY <1>1, <1>2, <2>1, <3>1 DEF Passed
  <2>2. CASE x \notin Unknowns
    <3>1. input'[x] = input[x] /\ MustPass(x)
      BY <1>1, <1>5, <2>2 DEF MustPass
    <3>2. Passed(x, input[x])
      BY <3>1 DEF EInv, InputsOfCall
    <3> QED
      BY <2>2, <3>1, <3>2 DEF Passed
  <2> QED
    BY <2>1, <2>2
<1> QED
  BY <1>1, <1>2, <1>4, <1>5

LEMMA GuessKeeps == EInv /\ (InitScaling \/ Residual) => EInv'
<1> SUFFICES ASSUME EInv, InitScaling \/ Residual PROVE EInv'
  OBVIOUS
<1>1. /\ pc # "idle" /\ pc' = "ready" /\ SetGuess /\ op' \in {{0}, {1}} /\ solving' \in BOOLEAN
      /\ UNCHANGED <<kind, jit, calls, given, system, dirty, parameter, sparsity, traced>>
  BY DEF InitScaling, Residual, Assemble, Between, callVars
<1>2. /\ input' \in [Inputs -> Value] /\ guesses' \in 1 .. MaxGuesses
      /\ \A x \in Inputs : MustPass(x)' => Passed(x, input[x])'
  BY <1>1, SetGuessInputs
<1>3. ETypeOK'
  BY <1>1, <1>2 DEF EInv, ETypeOK
<1>4. AtRest' /\ SecondOrder' /\ InputsOfCall' /\ Evaluated'
  BY <1>1, <1>2 DEF AtRest, SecondOrder, InputsOfCall, Evaluated
<1> QED
  BY <1>1, <1>3, <1>4, CachesKept DEF EInv

LEMMA JacobianKeeps == EInv /\ (Jacobian \/ Differentiate) => EInv'
<1> SUFFICES ASSUME EInv, Jacobian \/ Differentiate PROVE EInv'
  OBVIOUS
<1>1. /\ pc # "idle" /\ pc' = "ready" /\ op' = {1} /\ solving' \in BOOLEAN /\ system' \in BOOLEAN
      /\ UNCHANGED <<kind, jit, calls, given, guesses, dirty, input, parameter, sparsity, traced>>
  BY DEF Jacobian, Differentiate, Assemble, Between, callVars, store, caches, EInv, ETypeOK
<1>2. ETypeOK'
  BY <1>1 DEF EInv, ETypeOK
<1>3. InputsOfCall'
  BY <1>1 DEF EInv, InputsOfCall, MustPass, Passed
<1>4. AtRest' /\ SecondOrder' /\ Evaluated'
  BY <1>1 DEF AtRest, SecondOrder, Evaluated
<1> QED
  BY <1>1, <1>2, <1>3, <1>4, CachesKept DEF EInv

\* What stays during an evaluation
LEMMA DuringCall ==
  ASSUME EInv, pc = "ready", pc' \in {"ready", "forwarded"},
         UNCHANGED <<kind, jit, calls, given, system, guesses, op, solving, dirty, input, parameter>>,
         sparsity' \in [BOOLEAN -> [1 .. 2 -> {Undef} \cup SUBSET Args]]
  PROVE  ETypeOK' /\ AtRest' /\ SecondOrder' /\ InputsOfCall'
<1>1. ETypeOK'
  BY DEF EInv, ETypeOK
<1>2. InputsOfCall'
  BY DEF EInv, InputsOfCall, MustPass, Passed
<1>3. AtRest' /\ SecondOrder'
  BY DEF EInv, AtRest, SecondOrder
<1> QED
  BY <1>1, <1>2, <1>3

\* forward() fills in the caches without changing what they have.
LEMMA CachesFilled ==
  ASSUME EInv, pc = "ready", SetValue, UNCHANGED <<kind, solving, op>>
  PROVE  /\ SparsityFixed'
         /\ \A t \in traced :
              /\ t.schema = t.key.schema /\ t.key.nl \in BOOLEAN
              /\ 1 \in t.key.op =>
                   /\ t.sparsity[1] = DependentFirst(t.key.nl)
                   /\ sparsity'[t.key.nl][1] = DependentFirst(t.key.nl)
              /\ 2 \in t.key.op /\ kind # "AD2" => t.sparsity[2] = Second /\ sparsity'[FALSE][2] = Second
<1>1. sparsity' = CachedSparsity
  BY DEF SetValue
<1>2. SparsityFixed'
  BY <1>1, SparsityCached DEF SparsityFixed
<1>3. TracedAgrees
  BY DEF EInv
<1>4. ASSUME NEW nl \in BOOLEAN, sparsity[nl][1] = DependentFirst(nl)
      PROVE  sparsity'[nl][1] = DependentFirst(nl)
  <2>1. CachedSparsity[nl][1] \in {Undef, DependentFirst(nl)}
    BY SparsityCached
  <2>2. sparsity[nl][1] # Undef => CachedSparsity[nl][1] = sparsity[nl][1]
    BY SparsityCached
  <2> QED
    BY <1>1, <1>4, <2>1, <2>2
<1>5. ASSUME kind # "AD2", sparsity[FALSE][2] = Second
      PROVE  sparsity'[FALSE][2] = Second
  <2>1. CachedSparsity[FALSE][2] \in {Undef, Second}
    BY <1>5, SparsityCached
  <2>2. \A nl \in BOOLEAN, n \in 1 .. 2 : sparsity[nl][n] # Undef => CachedSparsity[nl][n] = sparsity[nl][n]
    BY SparsityCached
  <2> QED
    <3>1. \A nl \in BOOLEAN : sparsity[nl][2] # Undef => CachedSparsity[nl][2] = sparsity[nl][2]
      BY <2>2
    <3>2. sparsity[FALSE][2] # Undef => CachedSparsity[FALSE][2] = sparsity[FALSE][2]
      BY <3>1
    <3> QED
      BY <1>1, <1>5, <2>1, <3>2
<1> QED
  BY <1>2, <1>3, <1>4, <1>5 DEF TracedAgrees

LEMMA ForwardKeeps == EInv /\ Forward => EInv'
<1> SUFFICES ASSUME EInv, Forward PROVE EInv'
  OBVIOUS
<1>1. /\ pc = "ready" /\ pc' = "forwarded" /\ SetValue
      /\ UNCHANGED <<kind, jit, calls, given, system, guesses, op, solving, dirty, input, parameter, traced>>
  BY DEF Forward, callVars
<1>2. output' = Arguments /\ derivs' = SetDerivs /\ sparsity' = CachedSparsity
  BY <1>1 DEF SetValue
<1>3. ETypeOK' /\ AtRest' /\ SecondOrder' /\ InputsOfCall'
  BY <1>1, <1>2, SparsityCached, DuringCall
<1>4. SparsityFixed' /\ TracedAgrees'
  BY <1>1, CachesFilled DEF TracedAgrees
<1>5. Evaluated'
  <2>1. Arguments' = Arguments /\ Once' = Once /\ \A a : Dependent(a)' = Dependent(a)
    BY <1>1 DEF Arguments, Once, Dependent, IsDependent
  <2> QED
    BY <1>1, <1>2, <2>1, DerivativesSet DEF Evaluated
<1> QED
  BY <1>3, <1>4, <1>5 DEF EInv

LEMMA TraceKeeps == EInv /\ Trace => EInv'
<1> SUFFICES ASSUME EInv, Trace PROVE EInv'
  OBVIOUS
<1> DEFINE new == [key |-> Key, schema |-> Schema, par |-> parameter, sparsity |-> CachedSparsity[solving]]
<1>1. /\ pc = "ready" /\ pc' = "ready" /\ SetValue /\ traced' = traced \cup {new}
      /\ UNCHANGED <<kind, jit, calls, given, system, guesses, op, solving, dirty, input, parameter>>
  BY DEF Trace, callVars
<1>2. sparsity' = CachedSparsity
  BY <1>1 DEF SetValue
<1>3. ETypeOK' /\ AtRest' /\ SecondOrder' /\ InputsOfCall'
  BY <1>1, <1>2, SparsityCached, DuringCall
<1>4. Evaluated'
  BY <1>1 DEF Evaluated
<1>5. /\ new.schema = new.key.schema /\ new.key.nl = solving /\ new.key.op = op
      /\ new.sparsity = CachedSparsity[solving]
  BY DEF Key
<1>6. solving \in BOOLEAN /\ (2 \in op => solving = FALSE)
  BY DEF EInv, ETypeOK, SecondOrder
<1> HIDE DEF new
<1>7. /\ 1 \in op => new.sparsity[1] = DependentFirst(solving) /\ sparsity'[solving][1] = DependentFirst(solving)
      /\ 2 \in op /\ kind # "AD2" => new.sparsity[2] = Second /\ sparsity'[FALSE][2] = Second
  BY <1>1, <1>2, <1>5, <1>6, SparsityCached
<1>8. TracedAgrees'
  <2> SUFFICES ASSUME NEW t \in traced \cup {new}
               PROVE  /\ t.schema = t.key.schema /\ t.key.nl \in BOOLEAN
                      /\ 1 \in t.key.op =>
                           /\ t.sparsity[1] = DependentFirst(t.key.nl)
                           /\ sparsity'[t.key.nl][1] = DependentFirst(t.key.nl)
                      /\ 2 \in t.key.op /\ kind # "AD2" =>
                           t.sparsity[2] = Second /\ sparsity'[FALSE][2] = Second
    BY <1>1 DEF TracedAgrees
  <2>1. CASE t \in traced
    BY <2>1, <1>1, CachesFilled
  <2>2. CASE t = new
    BY <2>2, <1>5, <1>6, <1>7
  <2> QED
    BY <2>1, <2>2
<1> QED
  BY <1>1, <1>3, <1>4, <1>8, CachesFilled DEF EInv

\* A graph that is found gives what forward() would.
LEMMA RunTracedKeeps == ASSUME EInv, NEW t \in traced, RunTraced(t) PROVE EInv'
<1>1. /\ pc = "ready" /\ pc' = "forwarded" /\ t \in Hits
      /\ output' = IF 0 \in op THEN Run(t) ELSE output
      /\ derivs' = IF op \cap {1, 2} # {} THEN StackDerivs(t) ELSE derivs
      /\ UNCHANGED <<kind, jit, calls, given, system, guesses, op, solving, dirty, input, parameter, sparsity,
                     traced>>
  BY DEF RunTraced, callVars, caches
<1>2. ETypeOK' /\ AtRest' /\ SecondOrder' /\ InputsOfCall'
  <2>1. sparsity \in [BOOLEAN -> [1 .. 2 -> {Undef} \cup SUBSET Args]]
    BY DEF EInv, ETypeOK
  <2> QED
    BY <1>1, <2>1, DuringCall
<1>3. t.key.schema = Schema /\ t.key.op = op /\ t.key.nl = solving /\ t.schema = Schema
  <2>1. t.key = Key /\ t.schema = t.key.schema
    BY <1>1 DEF Hits, EInv, TracedAgrees
  <2>2. Key.schema = Schema /\ Key.op = op /\ Key.nl = solving
    BY DEF Key
  <2> QED
    BY <2>1, <2>2
<1>4. Run(t) = Arguments
  BY <1>3 DEF Run
<1>5. ASSUME 1 \in op, NEW a \in First, Dependent(a) PROVE StackDerivs(t)[a] = Once
  <2>1. /\ t.sparsity[1] = DependentFirst(solving) /\ sparsity[solving][1] = DependentFirst(solving)
    BY <1>3, <1>5 DEF EInv, TracedAgrees
  <2>2. a \in DependentFirst(solving) /\ a \in Args /\ Len(a) = 1
    BY <1>5, DependentIs, Orders DEF Args
  <2> QED
    BY <1>4, <1>5, <2>1, <2>2 DEF StackDerivs, Once
<1>6. ASSUME 2 \in op, kind # "AD2", NEW a \in Second PROVE StackDerivs(t)[a] = Once
  <2>1. solving = FALSE
    BY <1>6 DEF EInv, ETypeOK, SecondOrder
  <2>2. t.sparsity[2] = Second /\ sparsity[solving][2] = Second
    BY <1>3, <1>6, <2>1 DEF EInv, TracedAgrees
  <2>3. a \in Args /\ Len(a) = 2
    BY Orders DEF Args
  <2> QED
    BY <1>4, <1>6, <2>2, <2>3 DEF StackDerivs, Once
<1>7. Evaluated'
  <2>1. Arguments' = Arguments /\ Once' = Once /\ \A a : Dependent(a)' = Dependent(a)
    BY <1>1 DEF Arguments, Once, Dependent, IsDependent
  <2> QED
    BY <1>1, <1>4, <1>5, <1>6, <2>1 DEF Evaluated
<1> QED
  BY <1>1, <1>2, <1>7, CachesKept DEF EInv

\* A call that ends, or is left by an exception, leaves the flag as it found it.
LEMMA LeaveKeeps == EInv /\ (Throw \/ Return) => EInv'
<1> SUFFICES ASSUME EInv, Throw \/ Return PROVE EInv'
  OBVIOUS
<1> USE EvaluationAssumption
<1>1. /\ pc' = "idle" /\ guesses' = 0 /\ op' = {} /\ solving' = FALSE /\ system' = FALSE
      /\ UNCHANGED <<kind, jit, calls, parameter, sparsity, traced>>
  BY DEF Throw, Return, Leave, caches
<1>2. input' = input \/ input' = [x \in Inputs |-> Undef]
  BY DEF Throw, Return
<1>3. dirty' \/ input' = [x \in Inputs |-> Undef]
  BY DEF Throw, Return
<1>4. ETypeOK'
  <2>1. input' \in [Inputs -> Value \cup {Undef}]
    BY <1>2 DEF EInv, ETypeOK
  <2>2. guesses' \in 0 .. MaxGuesses
    BY <1>1
  <2> QED
    BY <1>1, <2>1, <2>2 DEF EInv, ETypeOK
<1>5. AtRest' /\ SecondOrder' /\ InputsOfCall' /\ Evaluated'
  BY <1>1, <1>3 DEF AtRest, SecondOrder, InputsOfCall, Evaluated
<1> QED
  BY <1>1, <1>4, <1>5, CachesKept DEF EInv

\* Whatever calls are made of a model, an evaluation has the arguments of its call,
\* and what earlier calls have cached agrees with what this one would cache.
THEOREM EvaluationInvariance == Spec => []EInv
<1>1. EInv /\ UNCHANGED vars => EInv'
  <2> SUFFICES ASSUME EInv, UNCHANGED vars PROVE EInv'
    OBVIOUS
  <2>1. UNCHANGED <<kind, jit, pc, calls, request, given, system, guesses, op, solving, dirty, input,
                    intmd, output, derivs, parameter, layout, sparsity, traced>>
    BY DEF vars, callVars, store, caches
  <2>2. Arguments' = Arguments /\ Once' = Once /\ \A a : Dependent(a)' = Dependent(a)
    BY <2>1 DEF Arguments, Once, Dependent, IsDependent
  <2>3. Evaluated'
    BY <2>1, <2>2 DEF EInv, Evaluated
  <2>4. ETypeOK' /\ AtRest' /\ SecondOrder' /\ InputsOfCall'
    BY <2>1 DEF EInv, ETypeOK, AtRest, SecondOrder, InputsOfCall, MustPass, Passed
  <2> QED
    BY <2>1, <2>3, <2>4, CachesKept DEF EInv
<1>2. EInv /\ [Next]_vars => EInv'
  BY <1>1, SetParameterKeeps, BeginKeeps, AssignThrowKeeps, GuessKeeps, JacobianKeeps, ForwardKeeps,
     TraceKeeps, RunTracedKeeps, LeaveKeeps DEF Next, Evaluate, Ended
<1> QED
  BY <1>2, InitEvaluation, PTL DEF Spec

-----------------------------------------------------------------------------
(* What callers see *)

LEMMA ArgumentsOfCall ==
  ASSUME EInv, pc # "idle"
  PROVE  OfCall(Arguments)
BY ComputedDefined DEF EInv, InputsOfCall, MustPass, OfCall, Arguments

\* Values are those of the arguments of the call, traced or not, whatever calls came before.
THEOREM EvaluatesArguments == Spec => []ValuesOfArguments
<1>1. EInv => ValuesOfArguments
  BY ArgumentsOfCall DEF EInv, Evaluated, ValuesOfArguments
<1> QED
  BY <1>1, EvaluationInvariance, PTL

\* First derivatives are there, once, at the arguments of the call.
THEOREM DifferentiatesAtArguments == Spec => []DerivativesOfArguments
<1>1. EInv => DerivativesOfArguments
  <2> SUFFICES ASSUME EInv, pc = "forwarded", 1 \in op, NEW a \in First, Dependent(a)
               PROVE  derivs[a] # Undef /\ derivs[a].times = 1 /\ OfCall(derivs[a].of)
    BY DEF DerivativesOfArguments
  <2>1. derivs[a] = Once
    BY DEF EInv, Evaluated
  <2> QED
    BY <2>1, ArgumentsOfCall, ComputedDefined DEF EInv, Once
<1> QED
  BY <1>1, EvaluationInvariance, PTL

\* So are second derivatives, unless the model leaves them to automatic differentiation.
THEOREM DifferentiatesTwice ==
  ASSUME "AD2" \notin Kinds
  PROVE  Spec => []SecondDerivativesOfArguments
<1>1. EInv => SecondDerivativesOfArguments
  <2> SUFFICES ASSUME EInv, pc = "forwarded", 2 \in op, NEW a \in Second
               PROVE  derivs[a] # Undef /\ derivs[a].times = 1 /\ OfCall(derivs[a].of)
    BY DEF SecondDerivativesOfArguments
  <2>1. kind # "AD2"
    BY DEF EInv, ETypeOK
  <2>2. derivs[a] = Once
    BY <2>1 DEF EInv, Evaluated
  <2> QED
    BY <2>2, ArgumentsOfCall, ComputedDefined DEF EInv, Once
<1> QED
  BY <1>1, EvaluationInvariance, PTL

=============================================================================
