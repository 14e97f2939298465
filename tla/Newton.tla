------------------------------- MODULE Newton -------------------------------
(***************************************************************************)
(* Newton::solve with its three update rules (Newton, NewtonWithLineSearch *)
(* and NewtonWithTrustRegion) on a NonlinearSystem.  A batch element's     *)
(* unknowns are a point of an abstract set, of which only the norm of the  *)
(* residual matters; a Newton direction may lead to any point.             *)
(*                                                                         *)
(* The system keeps the guess in its own input variables: residual(x)      *)
(* moves it to x, and Jacobian() without argument is taken wherever the    *)
(* guess was left.  The solver's iterate x is a separate copy.             *)
(***************************************************************************)
EXTENDS Integers

CONSTANTS
  Batch,       \* elements of the batch
  Points,      \* values the unknowns of an element may take
  Norm,        \* norm of the residual at a point, or NaN
  AbsTol,      \* atol
  RelTolInv,   \* 1 / rtol
  MaxIts,      \* miters
  MaxLineIts,  \* _linesearch_miter
  Radius0,     \* _delta_0, as a power of reduce_factor and expand_factor
  MaxRadius    \* _delta_max

\* Not a number, of which every comparison is false
NaN == -1

ASSUME NewtonAssumption ==
  /\ Norm \in [Points -> Nat \cup {NaN}]
  /\ AbsTol \in Nat /\ RelTolInv \in Nat \ {0}
  /\ MaxIts \in Nat /\ MaxLineIts \in Nat
  /\ Radius0 \in Nat /\ MaxRadius \in Nat

\* The update rules: Newton, the two line searches and the trust region
Methods == {"NEWTON", "BACKTRACKING", "STRONG_WOLFE", "TRUST_REGION"}

VARIABLES
  method,  \* the update rule of the solver, fixed
  grad,    \* whether the residual carries an AD graph, fixed
  spc,     \* where solve() is
  guess,   \* the system's input variables on the state subaxis
  x,       \* the iterate
  x0,      \* the initial iterate, whose norm is nR0
  R,       \* where the residual at hand was evaluated
  J,       \* where the Jacobian at hand was evaluated
  i,       \* the iteration counter of solve()
  xp,      \* the trial iterate of a line search or of a trust region step
  li,      \* the iteration counter of linesearch()
  radius   \* _delta

solverVars == <<method, grad, spc, guess, x, x0, R, J, i, xp, li, radius>>

Iterate == [Batch -> Points]

-----------------------------------------------------------------------------
(* Convergence *)

Less(m, n) == m # NaN /\ n # NaN /\ m < n

\* nR < atol or nR / nR0 < rtol, for one element; 0 / 0 is not a number.
Meets(p, p0) ==
  \/ Less(Norm[p], AbsTol)
  \/ Norm[p] # NaN /\ Less(Norm[p] * RelTolInv, Norm[p0])

\* Mutation of Converged: an element fails only if it compares above.
ConvergedUnlessAbove(r, r0) ==
  \A b \in Batch :
    ~ (Norm[r[b]] # NaN /\ Norm[r[b]] >= AbsTol /\ ~Meets(r[b], r0[b]))

\* Mutation of Converged: one converged element is enough.
SomeConverged(r, r0) == \E b \in Batch : Meets(r[b], r0[b])

\* converged(): the elements of the batch converge together.
Converged(r, r0) == \A b \in Batch : Meets(r[b], r0[b])

-----------------------------------------------------------------------------
(* Newton::solve *)

SolverInit(p) ==
  /\ method \in Methods /\ grad \in BOOLEAN
  /\ spc = "none"
  /\ guess = p /\ x = p /\ x0 = p /\ R = p /\ J = p /\ xp = p
  /\ i = 0 /\ li = 0
  /\ radius = [b \in Batch |-> Radius0]

\* residual(x): the guess moves to p and the residual is evaluated there.
EvaluateAt(p) == guess' = p /\ R' = p

\* solve(system, x0): the first residual.  The other locals have no value yet.
SolveFrom(p) ==
  /\ spc' = "first"
  /\ x' = p /\ x0' = p /\ J' = p /\ xp' = p
  /\ i' = 0 /\ li' = 0
  /\ EvaluateAt(p)
  /\ UNCHANGED <<method, grad, radius>>

\* An exception leaves solve(): its locals are gone, the guess stays where it is.
Abandon ==
  /\ spc' = "none"
  /\ x' = x0 /\ R' = x0 /\ J' = x0 /\ xp' = x0
  /\ i' = 0 /\ li' = 0
  /\ UNCHANGED <<method, grad, guess, x0, radius>>

\* The initial iterate has converged already.
ConvergedAtOnce ==
  /\ spc = "first"
  /\ Converged(R, x0)
  /\ spc' = "converged"
  /\ i' = 0
  /\ UNCHANGED <<method, grad, guess, x, x0, R, J, xp, li, radius>>

\* prepare() resets the trust radius, then the loop starts.
Prepare ==
  /\ spc = "first"
  /\ ~Converged(R, x0)
  /\ radius' = [b \in Batch |-> Radius0]
  /\ i' = 1
  /\ spc' = "loop"
  /\ UNCHANGED <<method, grad, guess, x, x0, R, J, xp, li>>

\* Mutation of Direction: the iterations are not counted against MaxIts.
DirectionUnbounded(p) ==
  /\ spc = "loop"
  /\ J' = guess
  /\ xp' = p
  /\ li' = 1
  /\ spc' = CASE method = "NEWTON" -> "accept"
              [] method = "TRUST_REGION" -> "trust"
              [] OTHER -> "search"
  /\ UNCHANGED <<method, grad, guess, x, x0, R, i, radius>>

\* The Jacobian is taken at the guess, and a direction is solved for: it leads from
\* x to p with a full step.
Direction(p) ==
  /\ spc = "loop"
  /\ i < MaxIts
  /\ J' = guess
  /\ xp' = p
  /\ li' = 1
  /\ spc' = CASE method = "NEWTON" -> "accept"
              [] method = "TRUST_REGION" -> "trust"
              [] OTHER -> "search"
  /\ UNCHANGED <<method, grad, guess, x, x0, R, i, radius>>

\* The loop is left without convergence: RetCode::MAXITER.
MaxIter ==
  /\ spc = "loop"
  /\ i >= MaxIts
  /\ spc' = "maxiter"
  /\ UNCHANGED <<method, grad, guess, x, x0, R, J, i, xp, li, radius>>

\* Mutation of Accept: the residual of the trial is reused.
AcceptReused ==
  /\ spc = "accept"
  /\ x' = xp
  /\ R' = guess
  /\ spc' = "check"
  /\ UNCHANGED <<method, grad, guess, x0, J, i, xp, li, radius>>

\* Newton::update takes the full step; the line search takes the one it settled on.
\* The residual is evaluated at the new iterate.
Accept ==
  /\ spc = "accept"
  /\ x' = xp
  /\ EvaluateAt(xp)
  /\ spc' = "check"
  /\ UNCHANGED <<method, grad, x0, J, i, xp, li, radius>>

\* Mutation of Check: the loop counter is not advanced.
CheckForever ==
  /\ spc = "check"
  /\ IF Converged(R, x0)
       THEN spc' = "converged" /\ UNCHANGED <<J, xp, li>>
       ELSE spc' = "loop" /\ J' = x0 /\ xp' = x0 /\ li' = 0
  /\ UNCHANGED <<method, grad, guess, x, x0, R, i, radius>>

Check ==
  /\ spc = "check"
  /\ IF Converged(R, x0)
       THEN spc' = "converged" /\ UNCHANGED <<i, J, xp, li>>
       ELSE /\ spc' = "loop" /\ i' = i + 1
            /\ J' = x0 /\ xp' = x0 /\ li' = 0   \* locals of the loop's body
  /\ UNCHANGED <<method, grad, guess, x, x0, R, radius>>

\* final_update: one more Newton step, from a new Jacobian, when AD needs the graph.
Finish(p) ==
  /\ spc = "converged"
  /\ IF grad THEN J' = guess /\ x' = p ELSE UNCHANGED <<J, x>>
  /\ spc' = "done"
  /\ UNCHANGED <<method, grad, guess, x0, R, i, xp, li, radius>>

-----------------------------------------------------------------------------
(* NewtonWithLineSearch::linesearch *)

\* The elements that may stop at the trial iterate.  STRONG_WOLFE asks for a
\* decrease.  BACKTRACKING compares with a bound that involves R0 . dx, of either
\* sign, so an increase may pass and a decrease may not.
MustStop(b) == Norm[xp[b]] # NaN /\ Norm[xp[b]] <= AbsTol

MayStop(b) ==
  \/ MustStop(b)
  \/ method = "BACKTRACKING" /\ Norm[xp[b]] # NaN /\ Norm[x[b]] # NaN
  \/ method = "STRONG_WOLFE" /\ Less(Norm[xp[b]], Norm[x[b]])

\* The residual at the trial iterate: every element stops, or those that do not are
\* cut back to p.
Backtrack(S, p) ==
  /\ spc = "search"
  /\ li < MaxLineIts
  /\ \A b \in S : MayStop(b)
  /\ \A b \in Batch \ S : ~MustStop(b)
  /\ guess' = xp
  /\ IF S = Batch
       THEN spc' = "accept" /\ xp' = xp /\ li' = li
       ELSE /\ spc' = "search"
            /\ xp' = [b \in Batch |-> IF b \in S THEN xp[b] ELSE p[b]]
            /\ li' = li + 1
  /\ UNCHANGED <<method, grad, x, x0, R, J, i, radius>>

\* The last cut is taken without a look at its residual.
SearchExhausted ==
  /\ spc = "search"
  /\ li >= MaxLineIts
  /\ spc' = "accept"
  /\ UNCHANGED <<method, grad, guess, x, x0, R, J, i, xp, li, radius>>

-----------------------------------------------------------------------------
(* NewtonWithTrustRegion::update *)

\* Classes of rho, the actual over the predicted reduction, against
\* accept_criteria < reduce_criteria < expand_criteria.  The prediction is
\* positive, or zero with a zero step: then rho is not a number.
Quality == {"reject", "poor", "fair", "good", "nan"}

Rates(b, q) ==
  IF Norm[xp[b]] = NaN \/ Norm[x[b]] = NaN
    THEN q = "nan"
    ELSE /\ q \in {"poor", "fair", "good"} => Norm[xp[b]] < Norm[x[b]]
         /\ q = "nan" => xp[b] = x[b]

Accepted(q) == q \in {"poor", "fair", "good"}

\* reduce_factor is two powers down, expand_factor one up; zero is the smallest
\* radius told apart.
NextRadius(r, q) ==
  CASE q \in {"reject", "poor"} -> IF r < 2 THEN 0 ELSE r - 2
    [] q = "good" -> IF r + 1 < MaxRadius THEN r + 1 ELSE MaxRadius
    [] OTHER -> r

\* The residual at the trial iterate
TrustTrial ==
  /\ spc = "trust"
  /\ guess' = xp
  /\ spc' = "rate"
  /\ UNCHANGED <<method, grad, x, x0, R, J, i, xp, li, radius>>

\* Mutation of TrustUpdate: a step is taken unless its rating is low.
TrustUpdateUnlessRejected(quality) ==
  /\ spc = "rate"
  /\ \A b \in Batch : Rates(b, quality[b])
  /\ radius' = [b \in Batch |-> NextRadius(radius[b], quality[b])]
  /\ xp' = [b \in Batch |-> IF quality[b] # "reject" THEN xp[b] ELSE x[b]]
  /\ spc' = "accept"
  /\ UNCHANGED <<method, grad, guess, x, x0, R, J, i, li>>

\* Rejected elements stay where they are.
TrustUpdate(quality) ==
  /\ spc = "rate"
  /\ \A b \in Batch : Rates(b, quality[b])
  /\ radius' = [b \in Batch |-> NextRadius(radius[b], quality[b])]
  /\ xp' = [b \in Batch |-> IF Accepted(quality[b]) THEN xp[b] ELSE x[b]]
  /\ spc' = "accept"
  /\ UNCHANGED <<method, grad, guess, x, x0, R, J, i, li>>

-----------------------------------------------------------------------------

SolverStep ==
  \/ ConvergedAtOnce \/ Prepare \/ MaxIter \/ Accept \/ Check
  \/ \E p \in Iterate : Direction(p) \/ Finish(p)
  \/ \E S \in SUBSET Batch, p \in Iterate : Backtrack(S, p)
  \/ SearchExhausted
  \/ TrustTrial
  \/ \E quality \in [Batch -> Quality] : TrustUpdate(quality)

SolverTypeOK ==
  /\ method \in Methods /\ grad \in BOOLEAN
  /\ spc \in {"none", "first", "loop", "search", "trust", "rate", "accept", "check",
              "converged", "done", "maxiter"}
  /\ guess \in Iterate /\ x \in Iterate /\ x0 \in Iterate
  /\ R \in Iterate /\ J \in Iterate /\ xp \in Iterate
  /\ i \in 0 .. MaxIts + 1 /\ li \in 0 .. MaxLineIts + 1
  /\ radius \in [Batch -> Nat]

=============================================================================
