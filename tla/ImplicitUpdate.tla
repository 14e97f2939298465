--------------------------- MODULE ImplicitUpdate ---------------------------
(***************************************************************************)
(* ImplicitUpdate::set_value: solve the implicit model from the trial      *)
(* state, publish the solution and differentiate it with the implicit      *)
(* function theorem.  The outputs are the input variables on the state     *)
(* subaxis, i.e. the guess that the solver moves.                          *)
(***************************************************************************)
EXTENDS Newton

CONSTANT MaxCalls   \* bound on the evaluations

ASSUME MaxCallsAssumption == MaxCalls \in Nat

VARIABLES
  ipc,       \* where set_value is
  calls,     \* evaluations started
  want,      \* what is asked for: values, first derivatives
  solving,   \* currently_solving_nonlinear_system(), thread local
  outer,     \* SolvingNonlinearSystem::prev_bool
  solution,  \* NonlinearSolver::Result::solution
  ift        \* where the Jacobian of the implicit function theorem was taken

updateVars == <<ipc, calls, want, solving, outer, solution, ift>>
vars == <<solverVars, updateVars>>

Init ==
  /\ \E p \in Iterate : SolverInit(p) /\ solution = p /\ ift = p
  /\ ipc = "idle" /\ calls = 0
  /\ want = [out |-> FALSE, dout |-> FALSE]
  /\ solving = FALSE /\ outer = FALSE

\* The trial state p is assigned to the inputs, the scaling is prepared with it and
\* the solver starts from it.  The call may come from within another solve.
Call(p, w, o) ==
  /\ ipc \in {"idle", "returned", "threw"}
  /\ calls < MaxCalls
  /\ calls' = calls + 1
  /\ want' = w
  /\ outer' = o
  /\ solving' = TRUE
  /\ SolveFrom(p)
  /\ solution' = p /\ ift' = p
  /\ ipc' = "solve"

Solve == ipc = "solve" /\ SolverStep /\ UNCHANGED updateVars

\* Mutation of Throw: the flag is not restored when the stack unwinds.
ThrowSolving ==
  /\ \/ ipc = "solve" /\ spc # "done"
     \/ ipc = "derive" /\ want.dout
  /\ ipc' = "threw"
  /\ Abandon
  /\ UNCHANGED <<calls, want, solving, outer, solution, ift>>

\* "Nonlinear solve failed.", or an exception out of the model, the linear solver or
\* the factorisation; the guard restores the flag.
Throw ==
  /\ \/ ipc = "solve" /\ spc # "done"
     \/ ipc = "derive" /\ want.dout
  /\ ipc' = "threw"
  /\ solving' = outer
  /\ Abandon
  /\ UNCHANGED <<calls, want, outer, solution, ift>>

Solved ==
  /\ ipc = "solve"
  /\ spc = "done"
  /\ solution' = x
  /\ solving' = outer
  /\ ipc' = "output"
  /\ UNCHANGED <<solverVars, calls, want, outer, ift>>

\* Mutation of Output: AD is not looked at.
OutputUnassigned ==
  /\ ipc = "output"
  /\ ipc' = "derive"
  /\ UNCHANGED <<solverVars, calls, want, solving, outer, solution, ift>>

\* The outputs already hold the solution, unless AD has moved it on.
Output ==
  /\ ipc = "output"
  /\ guess' = IF want.out /\ grad THEN solution ELSE guess
  /\ ipc' = "derive"
  /\ UNCHANGED <<method, grad, spc, x, x0, R, J, i, xp, li, radius, calls, want,
                 solving, outer, solution, ift>>

\* The Jacobian is evaluated wherever the guess is.
Derive ==
  /\ ipc = "derive"
  /\ ift' = IF want.dout THEN guess ELSE ift
  /\ ipc' = "returned"
  /\ UNCHANGED <<solverVars, calls, want, solving, outer, solution>>

\* The caller makes no more calls.
Ended == ipc \in {"returned", "threw"} /\ calls = MaxCalls /\ UNCHANGED vars

Next ==
  \/ \E p \in Iterate, w \in [out : BOOLEAN, dout : BOOLEAN], o \in BOOLEAN : Call(p, w, o)
  \/ Solve \/ Throw \/ Solved \/ Output \/ Derive
  \/ Ended

Spec == Init /\ [][Next]_vars

\* The thread that runs the solve is scheduled; the caller need not call again.
FairSpec == Spec /\ WF_vars(Solve \/ Throw \/ Solved \/ Output \/ Derive)

-----------------------------------------------------------------------------
(* Properties *)

\* Every variable has its type.
TypeOK ==
  /\ SolverTypeOK
  /\ ipc \in {"idle", "solve", "output", "derive", "returned", "threw"}
  /\ calls \in 0 .. MaxCalls
  /\ want \in [out : BOOLEAN, dout : BOOLEAN]
  /\ solving \in BOOLEAN /\ outer \in BOOLEAN
  /\ solution \in Iterate /\ ift \in Iterate

\* "Once the nonlinear system has converged, the input variables on the state subaxis
\* _must_ contain the solution": nobody assigns it there, so it rests on the last
\* residual having been evaluated at the iterate that is returned, also after a
\* line search or a rejected step has moved the guess elsewhere.
SolutionInGuess ==
  ipc = "output" =>
    /\ \A b \in Batch : Meets(guess[b], x0[b])
    /\ ~grad => solution = guess

\* A direction is computed from the residual and the Jacobian of one and the same
\* iterate, although Jacobian() is not told where to evaluate.
SystemAtIterate ==
  spc \in {"search", "trust", "rate", "accept"} => R = x /\ J = x

\* The solving flag is on exactly during a solve; afterwards, on every path, it is
\* what it was before the call, nested or not.
FlagRestored ==
  calls > 0 => (solving <=> ipc = "solve" \/ outer)

\* "IFT requires the Jacobian evaluated at the solution": the derivatives belong to
\* the outputs they are returned with.
DerivativesAtOutput ==
  ipc = "returned" /\ want.dout =>
    /\ ift = guess
    /\ want.out => ift = solution

\* A trust region step never takes an element from a residual that is a number to
\* one that is not.
TrustRegionKeepsNumbers ==
  method = "TRUST_REGION" /\ ~grad =>
    \A b \in Batch : Norm[x0[b]] # NaN => Norm[x[b]] # NaN

\* Every call returns or throws, whatever the residuals.
CallEnds == ipc = "solve" ~> ipc \in {"returned", "threw"}

-----------------------------------------------------------------------------
(* The inductive invariant behind these properties *)

\* Within the loop's body an iteration is left, and the updates are the method's own;
\* where the residual and the Jacobian at hand belong, at each place of the solver.
SolverPlaces ==
  /\ spc \in {"search", "trust", "rate", "accept", "check"} => i < MaxIts
  /\ spc = "search" => method \in {"BACKTRACKING", "STRONG_WOLFE"}
  /\ spc \in {"trust", "rate"} => method = "TRUST_REGION"
  /\ spc \in {"first", "loop", "check"} => guess = x /\ R = x
  /\ spc \in {"search", "trust", "rate", "accept"} => R = x /\ J = x
  /\ ipc = "solve" /\ spc \in {"converged", "done"} => R = guess /\ Converged(guess, x0)
  /\ spc = "converged" \/ (spc = "done" /\ ~grad) => x = guess

\* What the outputs are once the solver is done
UpdatePlaces ==
  /\ ipc = "solve" => spc # "none"
  /\ ipc \in {"output", "derive", "returned"} => spc = "done"
  /\ ipc = "output" => Converged(guess, x0)
  /\ ipc \in {"output", "derive", "returned"} => Converged(R, x0)
  /\ ipc \in {"output", "derive", "returned"} /\ ~grad =>
       solution = guess /\ Converged(guess, x0)
  /\ ipc \in {"derive", "returned"} /\ want.out => solution = guess
  /\ ipc = "returned" /\ want.dout => ift = guess

\* A trust region trial that is not a number is not taken.
NumbersKept ==
  method = "TRUST_REGION" /\ ~grad =>
    \A b \in Batch : Norm[x0[b]] # NaN =>
      /\ Norm[x[b]] # NaN
      /\ spc = "accept" => Norm[xp[b]] # NaN

\* Holds initially and is preserved by every step.
IInv == TypeOK /\ SolverPlaces /\ UpdatePlaces /\ FlagRestored /\ NumbersKept

-----------------------------------------------------------------------------
(* Refinement *)

\* The state whose residual was found converged, which is the one returned without AD
checked == IF grad THEN R ELSE guess

Promise == INSTANCE ImplicitMap WITH
  Good <- Meets,
  phase <- CASE ipc \in {"solve", "output", "derive"} -> "called"
             [] OTHER -> ipc,
  from <- x0,
  to <- IF ipc = "returned" THEN checked ELSE x0

\* The iterations are invisible: a call ends with a converged state or an exception.
\* With an AD graph the state returned is one Newton step, which nobody checks, away
\* from the converged one.
ImplementsImplicitMap == Promise!Spec

=============================================================================
