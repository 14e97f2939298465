------------------------ MODULE ImplicitUpdateProofs ------------------------
(***************************************************************************)
(* Theorems about ImplicitUpdate, for any batch, any residual norms and    *)
(* any of the update rules.                                                *)
(***************************************************************************)
EXTENDS ImplicitUpdate, TLAPS

\* The invariant holds before the first call.
LEMMA InitInvariant == Init => IInv
  <1> SUFFICES ASSUME Init PROVE IInv
    OBVIOUS
  <1> USE NewtonAssumption, MaxCallsAssumption
  <1>1. PICK p \in Iterate : SolverInit(p) /\ solution = p /\ ift = p
    BY DEF Init
  <1>2. TypeOK
    <2>1. SolverTypeOK
      <3>1. 0 \in 0 .. MaxIts + 1 /\ 0 \in 0 .. MaxLineIts + 1
        OBVIOUS
      <3>2. [b \in Batch |-> Radius0] \in [Batch -> Nat]
        OBVIOUS
      <3> QED
        BY <1>1, <3>1, <3>2 DEF SolverInit, SolverTypeOK
    <2>2. want \in [out : BOOLEAN, dout : BOOLEAN]
      BY DEF Init
    <2>3. /\ ipc \in {"idle", "solve", "output", "derive", "returned", "threw"}
          /\ calls \in 0 .. MaxCalls
      BY DEF Init
    <2>4. solving \in BOOLEAN /\ outer \in BOOLEAN
      BY DEF Init
    <2>5. solution \in Iterate /\ ift \in Iterate
      BY <1>1
    <2> QED
      BY <2>1, <2>2, <2>3, <2>4, <2>5 DEF TypeOK
  <1>3. SolverPlaces /\ UpdatePlaces /\ FlagRestored
    BY <1>1 DEF Init, SolverInit, SolverPlaces, UpdatePlaces, FlagRestored
  <1>4. NumbersKept
    BY <1>1 DEF Init, SolverInit, NumbersKept
  <1> QED
    BY <1>2, <1>3, <1>4 DEF IInv

\* The actions of the solver outside the trust region update
LEMMA LoopInvariant ==
  ASSUME IInv, ipc = "solve", UNCHANGED updateVars,
         \/ ConvergedAtOnce \/ Prepare \/ MaxIter \/ Accept \/ Check
         \/ \E p \in Iterate : Direction(p) \/ Finish(p)
  PROVE  IInv'
  <1> USE NewtonAssumption DEF updateVars
  <1>1. TypeOK /\ SolverPlaces /\ UpdatePlaces /\ FlagRestored /\ NumbersKept
    BY DEF IInv
  <1>2. FlagRestored'
    BY <1>1 DEF FlagRestored
  <1>3. CASE ConvergedAtOnce
    <2>1. TypeOK'
      BY <1>1, <1>3 DEF TypeOK, SolverTypeOK, ConvergedAtOnce
    <2>2. SolverPlaces' /\ UpdatePlaces'
      BY <1>1, <1>3 DEF SolverPlaces, UpdatePlaces, ConvergedAtOnce, Converged
    <2>3. NumbersKept'
      BY <1>1, <1>3 DEF NumbersKept, ConvergedAtOnce
    <2> QED
      BY <1>2, <2>1, <2>2, <2>3 DEF IInv
  <1>4. CASE Prepare
    <2>1. TypeOK'
      BY <1>1, <1>4 DEF TypeOK, SolverTypeOK, Prepare
    <2>2. SolverPlaces' /\ UpdatePlaces'
      BY <1>1, <1>4 DEF SolverPlaces, UpdatePlaces, Prepare, Converged
    <2>3. NumbersKept'
      BY <1>1, <1>4 DEF NumbersKept, Prepare
    <2> QED
      BY <1>2, <2>1, <2>2, <2>3 DEF IInv
  <1>5. CASE MaxIter
    <2>1. TypeOK'
      BY <1>1, <1>5 DEF TypeOK, SolverTypeOK, MaxIter
    <2>2. SolverPlaces' /\ UpdatePlaces'
      BY <1>1, <1>5 DEF SolverPlaces, UpdatePlaces, MaxIter, Converged
    <2>3. NumbersKept'
      BY <1>1, <1>5 DEF NumbersKept, MaxIter
    <2> QED
      BY <1>2, <2>1, <2>2, <2>3 DEF IInv
  <1>6. CASE Accept
    <2>1. TypeOK'
      BY <1>1, <1>6 DEF TypeOK, SolverTypeOK, Accept, EvaluateAt
    <2>2. SolverPlaces' /\ UpdatePlaces'
      BY <1>1, <1>6 DEF SolverPlaces, UpdatePlaces, Accept, EvaluateAt, Converged
    <2>3. NumbersKept'
      BY <1>1, <1>6 DEF NumbersKept, Accept, EvaluateAt
    <2> QED
      BY <1>2, <2>1, <2>2, <2>3 DEF IInv
  <1>7. CASE Check
    <2>1. TypeOK'
      <3>1. i' \in 0 .. MaxIts + 1
        BY <1>1, <1>7 DEF TypeOK, SolverTypeOK, SolverPlaces, Check
      <3> QED
        BY <1>1, <1>7, <3>1 DEF TypeOK, SolverTypeOK, Check
    <2>2. SolverPlaces' /\ UpdatePlaces'
      BY <1>1, <1>7 DEF SolverPlaces, UpdatePlaces, Check, Converged
    <2>3. NumbersKept'
      BY <1>1, <1>7 DEF NumbersKept, Check
    <2> QED
      BY <1>2, <2>1, <2>2, <2>3 DEF IInv
  <1>8. ASSUME NEW p \in Iterate, Direction(p)
        PROVE  IInv'
    <2>1. TypeOK'
      BY <1>1, <1>8 DEF TypeOK, SolverTypeOK, Direction
    <2>2. SolverPlaces' /\ UpdatePlaces'
      <3>1. method \in Methods
        BY <1>1 DEF TypeOK, SolverTypeOK
      <3> QED
        BY <1>1, <1>8, <3>1 DEF SolverPlaces, UpdatePlaces, Direction, Converged, Methods
    <2>3. NumbersKept'
      BY <1>1, <1>8 DEF NumbersKept, Direction
    <2> QED
      BY <1>2, <2>1, <2>2, <2>3 DEF IInv
  <1>9. ASSUME NEW p \in Iterate, Finish(p)
        PROVE  IInv'
    <2>1. TypeOK'
      BY <1>1, <1>9 DEF TypeOK, SolverTypeOK, Finish
    <2>2. SolverPlaces' /\ UpdatePlaces'
      BY <1>1, <1>9 DEF SolverPlaces, UpdatePlaces, Finish, Converged
    <2>3. NumbersKept'
      BY <1>1, <1>9 DEF NumbersKept, Finish
    <2> QED
      BY <1>2, <2>1, <2>2, <2>3 DEF IInv
  <1> QED
    BY <1>3, <1>4, <1>5, <1>6, <1>7, <1>8, <1>9


\* A line search moves the guess and its own trial iterate only.
LEMMA SearchInvariant ==
  ASSUME IInv, ipc = "solve", UNCHANGED updateVars,
         \/ \E S \in SUBSET Batch, p \in Iterate : Backtrack(S, p)
         \/ SearchExhausted
  PROVE  IInv'
  <1> USE NewtonAssumption DEF updateVars
  <1>1. TypeOK /\ SolverPlaces /\ UpdatePlaces /\ FlagRestored /\ NumbersKept
    BY DEF IInv
  <1>2. FlagRestored'
    BY <1>1 DEF FlagRestored
  <1>3. spc = "search" => method # "TRUST_REGION"
    BY <1>1 DEF SolverPlaces
  <1>4. ASSUME NEW S \in SUBSET Batch, NEW p \in Iterate, Backtrack(S, p)
        PROVE  IInv'
    <2>1. xp' \in Iterate
      BY <1>1, <1>4 DEF TypeOK, SolverTypeOK, Backtrack, Iterate
    <2>2. TypeOK'
      BY <1>1, <1>4, <2>1 DEF TypeOK, SolverTypeOK, Backtrack
    <2>3. SolverPlaces' /\ UpdatePlaces'
      BY <1>1, <1>4 DEF SolverPlaces, UpdatePlaces, Backtrack, Converged
    <2>4. NumbersKept'
      BY <1>1, <1>3, <1>4 DEF NumbersKept, Backtrack
    <2> QED
      BY <1>2, <2>2, <2>3, <2>4 DEF IInv
  <1>5. CASE SearchExhausted
    <2>1. TypeOK'
      BY <1>1, <1>5 DEF TypeOK, SolverTypeOK, SearchExhausted
    <2>2. SolverPlaces' /\ UpdatePlaces'
      BY <1>1, <1>5 DEF SolverPlaces, UpdatePlaces, SearchExhausted, Converged
    <2>3. NumbersKept'
      BY <1>1, <1>3, <1>5 DEF NumbersKept, SearchExhausted
    <2> QED
      BY <1>2, <2>1, <2>2, <2>3 DEF IInv
  <1> QED
    BY <1>4, <1>5

\* A trust region step keeps the elements it does not accept, and accepts none whose
\* residual is not a number.
LEMMA TrustInvariant ==
  ASSUME IInv, ipc = "solve", UNCHANGED updateVars,
         \/ TrustTrial
         \/ \E quality \in [Batch -> Quality] : TrustUpdate(quality)
  PROVE  IInv'
  <1> USE NewtonAssumption DEF updateVars
  <1>1. TypeOK /\ SolverPlaces /\ UpdatePlaces /\ FlagRestored /\ NumbersKept
    BY DEF IInv
  <1>2. FlagRestored'
    BY <1>1 DEF FlagRestored
  <1>3. CASE TrustTrial
    <2>1. TypeOK'
      BY <1>1, <1>3 DEF TypeOK, SolverTypeOK, TrustTrial
    <2>2. SolverPlaces' /\ UpdatePlaces'
      BY <1>1, <1>3 DEF SolverPlaces, UpdatePlaces, TrustTrial, Converged
    <2>3. NumbersKept'
      BY <1>1, <1>3 DEF NumbersKept, TrustTrial
    <2> QED
      BY <1>2, <2>1, <2>2, <2>3 DEF IInv
  <1>4. ASSUME NEW quality \in [Batch -> Quality], TrustUpdate(quality)
        PROVE  IInv'
    <2>1. x \in Iterate /\ xp \in Iterate /\ radius \in [Batch -> Nat]
      BY <1>1 DEF TypeOK, SolverTypeOK
    <2>2. xp' \in Iterate
      BY <1>4, <2>1 DEF TrustUpdate, Iterate
    <2>3. \A r \in Nat, q \in Quality : NextRadius(r, q) \in Nat
      BY DEF NextRadius, Quality
    <2>4. radius' \in [Batch -> Nat]
      BY <1>4, <2>1, <2>3 DEF TrustUpdate
    <2>5. TypeOK'
      BY <1>1, <1>4, <2>2, <2>4 DEF TypeOK, SolverTypeOK, TrustUpdate
    <2>6. SolverPlaces' /\ UpdatePlaces'
      BY <1>1, <1>4 DEF SolverPlaces, UpdatePlaces, TrustUpdate, Converged
    <2>7. NumbersKept'
      <3> SUFFICES ASSUME method = "TRUST_REGION", ~grad,
                          NEW b \in Batch, Norm[x0[b]] # NaN
                   PROVE  Norm[x[b]] # NaN /\ Norm[xp'[b]] # NaN
        BY <1>4 DEF NumbersKept, TrustUpdate
      <3>1. Norm[x[b]] # NaN
        BY <1>1 DEF NumbersKept
      <3>2. xp'[b] = IF Accepted(quality[b]) THEN xp[b] ELSE x[b]
        BY <1>4 DEF TrustUpdate
      <3>3. Rates(b, quality[b])
        BY <1>4 DEF TrustUpdate
      <3> QED
        BY <3>1, <3>2, <3>3 DEF Rates, Accepted
    <2> QED
      BY <1>2, <2>5, <2>6, <2>7 DEF IInv
  <1> QED
    BY <1>3, <1>4

\* set_value itself
LEMMA UpdateInvariant ==
  ASSUME IInv,
         \/ \E p \in Iterate, w \in [out : BOOLEAN, dout : BOOLEAN], o \in BOOLEAN :
              Call(p, w, o)
         \/ Throw \/ Solved \/ Output \/ Derive
  PROVE  IInv'
  <1> USE NewtonAssumption, MaxCallsAssumption
  <1>1. TypeOK /\ SolverPlaces /\ UpdatePlaces /\ FlagRestored /\ NumbersKept
    BY DEF IInv
  <1>2. ASSUME NEW p \in Iterate, NEW w \in [out : BOOLEAN, dout : BOOLEAN],
               NEW o \in BOOLEAN, Call(p, w, o)
        PROVE  IInv'
    <2>1. TypeOK'
      BY <1>1, <1>2 DEF TypeOK, SolverTypeOK, Call, SolveFrom, EvaluateAt
    <2>2. SolverPlaces' /\ UpdatePlaces'
      BY <1>1, <1>2 DEF SolverPlaces, UpdatePlaces, Call, SolveFrom, EvaluateAt
    <2>3. FlagRestored'
      BY <1>2 DEF FlagRestored, Call
    <2>4. NumbersKept'
      BY <1>2 DEF NumbersKept, Call, SolveFrom
    <2> QED
      BY <2>1, <2>2, <2>3, <2>4 DEF IInv
  <1>3. CASE Throw
    <2>1. TypeOK'
      BY <1>1, <1>3 DEF TypeOK, SolverTypeOK, Throw, Abandon
    <2>2. SolverPlaces' /\ UpdatePlaces'
      BY <1>3 DEF SolverPlaces, UpdatePlaces, Throw, Abandon
    <2>3. FlagRestored'
      BY <1>1, <1>3 DEF FlagRestored, Throw
    <2>4. NumbersKept'
      BY <1>3 DEF NumbersKept, Throw, Abandon
    <2> QED
      BY <2>1, <2>2, <2>3, <2>4 DEF IInv
  <1>4. CASE Solved
    <2>1. TypeOK'
      BY <1>1, <1>4 DEF TypeOK, SolverTypeOK, Solved, solverVars
    <2>2. SolverPlaces' /\ UpdatePlaces'
      BY <1>1, <1>4 DEF SolverPlaces, UpdatePlaces, Solved, solverVars, Converged
    <2>3. FlagRestored'
      <3>1. (solving' <=> outer') /\ ipc' # "solve"
        BY <1>4 DEF Solved
      <3> QED
        BY <3>1, Zenon DEF FlagRestored
    <2>4. NumbersKept'
      BY <1>1, <1>4 DEF NumbersKept, Solved, solverVars
    <2> QED
      BY <2>1, <2>2, <2>3, <2>4 DEF IInv
  <1>5. CASE Output
    <2>1. TypeOK'
      BY <1>1, <1>5 DEF TypeOK, SolverTypeOK, Output
    <2>2. SolverPlaces' /\ UpdatePlaces'
      BY <1>1, <1>5 DEF SolverPlaces, UpdatePlaces, Output, Converged
    <2>3. FlagRestored'
      BY <1>1, <1>5 DEF FlagRestored, Output
    <2>4. NumbersKept'
      BY <1>1, <1>5 DEF NumbersKept, Output
    <2> QED
      BY <2>1, <2>2, <2>3, <2>4 DEF IInv
  <1>6. CASE Derive
    <2>1. TypeOK'
      BY <1>1, <1>6 DEF TypeOK, SolverTypeOK, Derive, solverVars
    <2>2. SolverPlaces' /\ UpdatePlaces'
      BY <1>1, <1>6 DEF SolverPlaces, UpdatePlaces, Derive, solverVars, Converged
    <2>3. FlagRestored'
      BY <1>1, <1>6 DEF FlagRestored, Derive
    <2>4. NumbersKept'
      BY <1>1, <1>6 DEF NumbersKept, Derive, solverVars
    <2> QED
      BY <2>1, <2>2, <2>3, <2>4 DEF IInv
  <1> QED
    BY <1>2, <1>3, <1>4, <1>5, <1>6

\* Holds on every path of every evaluation: the guess, the iterate, the residual and the
\* Jacobian at hand belong together as the solver and set_value rely on, whatever the
\* residuals are.
THEOREM Invariance == Spec => []IInv
  <1>1. Init => IInv
    BY InitInvariant
  <1>2. IInv /\ [Next]_vars => IInv'
    <2> SUFFICES ASSUME IInv, [Next]_vars PROVE IInv'
      OBVIOUS
    <2>1. CASE Solve
      <3>1. ipc = "solve" /\ SolverStep /\ UNCHANGED updateVars
        BY <2>1 DEF Solve
      <3> QED
        BY <3>1, LoopInvariant, SearchInvariant, TrustInvariant DEF SolverStep
    <2>2. CASE UNCHANGED vars
      BY <2>2 DEF IInv, TypeOK, SolverTypeOK, SolverPlaces, UpdatePlaces, FlagRestored,
                  NumbersKept, Converged, vars, solverVars, updateVars
    <2> QED
      BY <2>1, <2>2, UpdateInvariant DEF Next, Ended
  <1> QED
    BY <1>1, <1>2, PTL DEF Spec

\* Every variable has its type, the iteration counters within their limits.
THEOREM TypeCorrect == Spec => []TypeOK
  <1>1. IInv => TypeOK
    BY DEF IInv
  <1> QED
    BY <1>1, Invariance, PTL

\* When set_value publishes, the input variables on the state subaxis hold a converged
\* state, as ImplicitUpdate's comment demands and nothing in it assigns.
THEOREM SolutionIsInGuess == Spec => []SolutionInGuess
  <1>1. IInv => SolutionInGuess
    BY DEF IInv, UpdatePlaces, SolutionInGuess, Converged
  <1> QED
    BY <1>1, Invariance, PTL

\* Every direction comes from the residual and the Jacobian of one iterate.
THEOREM SystemIsAtIterate == Spec => []SystemAtIterate
  <1>1. IInv => SystemAtIterate
    BY DEF IInv, SolverPlaces, SystemAtIterate
  <1> QED
    BY <1>1, Invariance, PTL

\* SolvingNonlinearSystem restores the flag however set_value is left.
THEOREM FlagIsRestored == Spec => []FlagRestored
  <1>1. IInv => FlagRestored
    BY DEF IInv
  <1> QED
    BY <1>1, Invariance, PTL

\* The implicit function theorem is applied at the state that is returned.
THEOREM DerivativesAreAtOutput == Spec => []DerivativesAtOutput
  <1>1. IInv => DerivativesAtOutput
    BY DEF IInv, UpdatePlaces, DerivativesAtOutput
  <1> QED
    BY <1>1, Invariance, PTL

\* A trust region solve never trades a residual for one that is not a number.
THEOREM TrustRegionKeeps == Spec => []TrustRegionKeepsNumbers
  <1>1. IInv => TrustRegionKeepsNumbers
    BY DEF IInv, NumbersKept, TrustRegionKeepsNumbers
  <1> QED
    BY <1>1, Invariance, PTL

\* The iterations of the solver never move what the caller sees.
LEMMA SolverStutters == SolverStep => UNCHANGED x0
  BY DEF SolverStep, ConvergedAtOnce, Prepare, MaxIter, Accept, Check, Direction, Finish,
         Backtrack, SearchExhausted, TrustTrial, TrustUpdate, EvaluateAt

\* set_value implements the map it promises: from a trial state to a converged one, or to
\* an exception.  (With an AD graph the converged state is the one that the extra Newton
\* step of final_update starts from.)
THEOREM Refinement == Spec => ImplementsImplicitMap
  <1>1. Init => Promise!Init
    <2> SUFFICES ASSUME Init PROVE Promise!Init
      OBVIOUS
    <2>1. ipc = "idle" /\ x0 \in Iterate
      BY DEF Init, SolverInit
    <2> QED
      BY <2>1 DEF Promise!Init, Promise!State, Iterate
  <1>2. IInv /\ [Next]_vars => [Promise!Next]_(Promise!vars)
    <2> SUFFICES ASSUME IInv, [Next]_vars
                 PROVE  Promise!Next \/ UNCHANGED Promise!vars
      OBVIOUS
    <2>1. ASSUME NEW p \in Iterate, NEW w, NEW o, Call(p, w, o)
          PROVE  Promise!Call(p)
      BY <2>1 DEF Call, SolveFrom, Promise!Call
    <2>2. CASE Solve
      BY <2>2, SolverStutters DEF Solve, updateVars, Promise!vars
    <2>3. CASE Throw
      <3>1. ipc \in {"solve", "derive"} /\ ipc' = "threw" /\ x0' = x0
        BY <2>3 DEF Throw, Abandon
      <3>2. Promise!Throw
        BY <3>1 DEF Promise!Throw
      <3> QED
        BY <3>2 DEF Promise!Next
    <2>4. CASE Solved
      BY <2>4 DEF Solved, solverVars, Promise!vars
    <2>5. CASE Output
      BY <2>5 DEF Output, Promise!vars
    <2>6. CASE Derive
      <3>1. Converged(checked, x0) /\ checked \in Iterate
        BY <2>6 DEF Derive, IInv, UpdatePlaces, TypeOK, SolverTypeOK, checked
      <3>2. checked' = checked
        BY <2>6 DEF Derive, solverVars, checked
      <3>3. Promise!Return(checked)
        BY <2>6, <3>1, <3>2 DEF Derive, solverVars, Converged, Promise!Return
      <3> QED
        BY <3>1, <3>3 DEF Promise!Next, Promise!State, Iterate
    <2>7. CASE UNCHANGED vars
      BY <2>7 DEF vars, solverVars, updateVars, Promise!vars, checked
    <2> QED
      BY <2>1, <2>2, <2>3, <2>4, <2>5, <2>6, <2>7
         DEF Next, Ended, Iterate, Promise!Next, Promise!State
  <1> QED
    BY <1>1, <1>2, Invariance, PTL DEF Spec, ImplementsImplicitMap, Promise!Spec

=============================================================================
