--------------------------- MODULE ModelEvaluation ---------------------------
(***************************************************************************)
(* One model object evaluated again and again: the value/dvalue family of  *)
(* Model over its VariableStore, by itself (jit off) or through the graphs *)
(* that forward_maybe_jit traces and keeps by evaluation schema, and the   *)
(* calls that an implicit update makes of the system it solves.            *)
(* A tensor is the call, or the guess of a call, it comes from, with its   *)
(* number of dynamic dimensions; the output is the arguments it was        *)
(* computed from.                                                          *)
(***************************************************************************)
EXTENDS Naturals, Sequences, FiniteSetsExt

CONSTANTS
  Inputs,       \* names of the input variables
  Unknowns,     \* those on the state subaxis, the unknowns of a system
  Y,            \* the output variable
  Shapes,       \* intermediate shapes of the values that are passed
  Scalar,       \* the empty intermediate shape
  Undef,        \* a tensor that is not defined
  Dims,         \* numbers of dynamic dimensions
  Requests,     \* derivative orders of the calls: value is {0}, dvalue {1}
  Kinds,        \* how the model sets its derivatives
  JIT,          \* whether the model may be jitted
  MaxCalls,     \* bounds the calls of the model,
  MaxGuesses,   \* the guesses within one of them,
  MaxSets       \* and the changes of its parameter

\* The values of inputs, by the call and the guess they come from, those of the
\* parameter, and what outputs are computed from
Value == [call: 0 .. MaxCalls, guess: 0 .. MaxGuesses, dim: Dims]

Params == [set: 0 .. MaxSets, dim: Dims]

Computed == [in: [Inputs -> Value], par: Params]

\* "explicit": set_value assigns every derivative; "AD": request_AD for first
\* derivatives, "AD2": for second ones too; "composed": the outputs belong to a
\* submodel, and the chain rule sets their derivatives
ASSUME EvaluationAssumption ==
  /\ Unknowns \subseteq Inputs /\ Y \notin Inputs
  /\ IsFiniteSet(Inputs)
  /\ 0 \in Dims /\ Dims \subseteq Nat
  /\ Scalar \notin Shapes
  /\ Requests \subseteq (SUBSET (0 .. 2)) \ {{}}
  /\ Kinds \subseteq {"explicit", "AD", "AD2", "composed"}
  /\ JIT \subseteq BOOLEAN
  /\ MaxCalls \in Nat /\ MaxGuesses \in Nat /\ MaxSets \in Nat
  /\ Undef \notin Value \cup Computed \cup [of: Computed, times: Nat]

VARIABLES
  kind, jit,    \* of the model, which do not change
  pc,           \* "idle", "system" between evaluations of one, "ready", "forwarded"
  calls,
  request,      \* orders asked for by the call
  given,        \* inputs that the call has passed
  system,       \* whether the call is one of an implicit update
  guesses,
  op,           \* out, dout, d2out of the evaluation at hand, as orders
  solving,      \* currently_solving_nonlinear_system()
  dirty,        \* a call has thrown since the inputs were last cleared
  input,        \* values of the input variables
  parameter,
  intmd,        \* _cached_intmd_sizes of each variable
  layout,       \* intermediate shapes the input axis was set up with, or Undef
  output,       \* value of the output variable
  derivs,       \* _derivs and _sec_derivs of the output variable
  sparsity,     \* _deriv_sparsity and _secderiv_sparsity by solving flag
  traced        \* _traced_functions and _traced_functions_nl_sys

callVars == <<calls, request, given, system>>
store == <<input, intmd, output, derivs>>
caches == <<layout, sparsity, traced>>
vars == <<kind, jit, pc, callVars, guesses, op, solving, dirty, store, parameter, caches>>

-----------------------------------------------------------------------------
(* Values, arguments, derivatives *)

Zero == [call |-> 0, guess |-> 0, dim |-> 0]

\* A derivative is named by the inputs it is taken by
First == {<<x>> : x \in Inputs}
Second == {<<x, z>> : x, z \in Inputs}
Args == First \cup Second

NoDerivs == [a \in Args |-> Undef]

IsDependent(x) == ~solving \/ x \in Unknowns

Dependent(a) == \A k \in DOMAIN a : IsDependent(a[k])

\* What an evaluation is a function of
Arguments == [in |-> input, par |-> parameter]

\* The shapes of the inputs broadcast if at most one of them is not empty
Shaped == {intmd[x] : x \in Inputs} \ {Scalar}

Broadcast == IF Shaped = {} THEN Scalar ELSE CHOOSE s \in Shaped : TRUE

\* calculate_eval_schema
Schema == [dims |-> [x \in Inputs |-> input[x].dim],
           intmd |-> [x \in Inputs |-> intmd[x]], par |-> parameter.dim]

\* The function for these orders in the table for this flag and schema
Key == [nl |-> solving, op |-> op, schema |-> Schema]

Hits == {t \in traced : t.key = Key}

Misses == ~jit \/ Hits = {}

-----------------------------------------------------------------------------
(* forward *)

\* Mutation of ClearedDerivs: forward() leaves the derivatives.
ClearedDerivsNot == derivs

\* clear_output passes over an output that refers to a submodel's
ClearedDerivs == IF kind = "composed" THEN derivs ELSE NoDerivs

\* What set_value and extract_AD_derivatives assign.  The graph that second
\* derivatives by AD need is not created when first ones are asked for too.
Assigned ==
  CASE kind \in {"explicit", "composed"} ->
         (IF 1 \in op THEN First ELSE {}) \cup (IF 2 \in op THEN Second ELSE {})
    [] kind = "AD" ->
         IF 1 \in op THEN {a \in First : Dependent(a)} ELSE {}
    [] kind = "AD2" ->
         {a \in Args : Dependent(a) /\ IF Len(a) = 1 THEN op \cap {1, 2} # {} ELSE op \cap {1, 2} = {2}}

\* Derivatives add up, but those of the chain rule replace the ones before
SetDerivs ==
  [a \in Args |->
     IF a \notin Assigned THEN ClearedDerivs[a]
     ELSE [of |-> Arguments,
           times |-> IF kind = "composed" \/ ClearedDerivs[a] = Undef THEN 1
                     ELSE ClearedDerivs[a].times + 1]]

\* Mutation of CachedSparsity: one cache for both values of the flag.
CachedSparsityOnce ==
  [nl \in BOOLEAN |-> [n \in 1 .. 2 |->
     IF n \in op /\ sparsity[nl][n] = Undef
     THEN {a \in Args : Len(a) = n /\ SetDerivs[a] # Undef /\ (n = 1 => Dependent(a))}
     ELSE sparsity[nl][n]]]

\* cache_derivative_sparsity and cache_second_derivative_sparsity
CachedSparsity ==
  [sparsity EXCEPT ![solving] = [n \in 1 .. 2 |->
     IF n \in op /\ @[n] = Undef
     THEN {a \in Args : Len(a) = n /\ SetDerivs[a] # Undef /\ (n = 1 => Dependent(a))}
     ELSE @[n]]]

\* Assigning the output caches its intermediate sizes
OutputSizes == Broadcast

SetValue ==
  /\ Cardinality(Shaped) <= 1
  /\ output' = Arguments
  /\ intmd' = [intmd EXCEPT ![Y] = OutputSizes]
  /\ derivs' = SetDerivs
  /\ sparsity' = CachedSparsity

\* Mutation of Run: parameters are constants of the graph.
RunConstantParameters(t) ==
  IF t.schema = Schema THEN [in |-> input, par |-> t.par] ELSE Undef

\* A graph computes what the model does for arguments of the schema it was
\* traced with; the stack has the inputs and the parameters
Run(t) == IF t.schema = Schema THEN Arguments ELSE Undef

\* assign_output_stack: derivatives come in the order of the sparsity
StackDerivs(t) ==
  [a \in Args |->
     IF Len(a) \in op /\ a \in sparsity[solving][Len(a)]
     THEN IF t.sparsity[Len(a)] = sparsity[solving][Len(a)]
          THEN [of |-> Run(t), times |-> 1] ELSE Undef
     ELSE Undef]

-----------------------------------------------------------------------------
(* Actions *)

Init ==
  /\ kind \in Kinds /\ jit \in JIT
  /\ pc = "idle"
  /\ calls = 0 /\ request = {} /\ given = {} /\ system = FALSE
  /\ guesses = 0 /\ op = {} /\ solving = FALSE /\ dirty = FALSE
  /\ input = [x \in Inputs |-> Undef]
  /\ parameter = [set |-> 0, dim |-> 0]
  /\ intmd = [v \in Inputs \cup {Y} |-> Scalar]
  /\ layout = Undef
  /\ output = Undef
  /\ derivs = NoDerivs
  /\ sparsity = [nl \in BOOLEAN |-> [n \in 1 .. 2 |-> Undef]]
  /\ traced = {}

\* set_parameter; what it is before the first call is its initial value
SetParameter(d) ==
  /\ pc = "idle" /\ calls > 0 /\ parameter.set < MaxSets
  /\ parameter' = [set |-> parameter.set + 1, dim |-> d]
  /\ UNCHANGED <<kind, jit, pc, callVars, guesses, op, solving, dirty, store, caches>>

\* assign_input of the inputs g with values of d dynamic dimensions and shape s
Assigning(g, d, s) ==
  /\ intmd' = [v \in Inputs \cup {Y} |-> IF v \in g THEN s ELSE intmd[v]]
  /\ calls' = calls + 1

New(d) == [call |-> calls + 1, guess |-> 0, dim |-> d]

ZeroUndefined(x) == IF input[x] = Undef THEN Zero ELSE input[x]

\* forward_helper of a call of the value family, or of the implicit update that
\* solves the system
Begin(r, g, d, s) ==
  /\ pc = "idle" /\ calls < MaxCalls
  /\ 2 \in r => kind # "AD"
  /\ Assigning(g, d, s)
  /\ input' = [x \in Inputs |-> IF x \in g THEN New(d) ELSE ZeroUndefined(x)]
  /\ request' = r /\ given' = g
  /\ \/ pc' = "ready" /\ op' = r /\ system' = FALSE
     \/ 2 \notin r /\ pc' = "system" /\ op' = {} /\ system' = TRUE
  /\ UNCHANGED <<kind, jit, guesses, solving, dirty, parameter, output, derivs, caches>>

\* assign_input comes to a name that the model does not have
AssignThrow(g, d, s) ==
  /\ pc = "idle" /\ calls < MaxCalls /\ g # {}
  /\ Assigning(g, d, s)
  /\ input' = [x \in Inputs |-> IF x \in g THEN New(d) ELSE input[x]]
  /\ dirty' = TRUE
  /\ UNCHANGED <<kind, jit, pc, request, given, system, guesses, op, solving, parameter,
                 output, derivs, caches>>

Between == pc = "system" \/ (pc = "forwarded" /\ system)

\* The axis is set up once, with the shapes of its first use
Layout == IF layout = Undef THEN [x \in Unknowns |-> intmd[x]] ELSE layout

LayoutFits == Layout = [x \in Unknowns |-> intmd[x]]

\* The first guess comes from the unknowns, later ones have seen all arguments
GuessDim == Max({input[x].dim : x \in Unknowns}
                  \cup (IF guesses = 0 THEN {} ELSE {input[x].dim : x \in Inputs} \cup {parameter.dim}))

\* set_guess, which splits the guess over the unknowns by that layout
SetGuess ==
  /\ guesses < MaxGuesses /\ guesses' = guesses + 1
  /\ LayoutFits /\ layout' = Layout
  /\ input' = [x \in Inputs |-> IF x \in Unknowns
                                THEN [call |-> calls, guess |-> guesses + 1, dim |-> GuessDim]
                                ELSE input[x]]

\* forward_maybe_jit(o) within assemble
Assemble(o, flag) ==
  /\ op' = o /\ solving' = flag /\ pc' = "ready"
  /\ UNCHANGED <<kind, jit, callVars, dirty, intmd, output, derivs, parameter, sparsity, traced>>

\* init_scaling asks for the Jacobian before the solve, outside of the flag; a
\* system that does not scale, or has done so, goes on without it
InitScaling ==
  /\ pc = "system" /\ SetGuess
  /\ Assemble({1}, FALSE)

\* residual(x) of the solvers
Residual ==
  /\ Between /\ SetGuess
  /\ Assemble({0}, TRUE)

\* Jacobian() of the solvers, at the guess of the last residual
Jacobian ==
  /\ Between /\ solving /\ op = {0}
  /\ Assemble({1}, TRUE)
  /\ UNCHANGED <<input, guesses, layout>>

\* After the solve the implicit update asks for all derivatives at the solution
Differentiate ==
  /\ Between /\ solving /\ 1 \in request
  /\ solving' = FALSE /\ op' = {1} /\ system' = FALSE
  /\ pc' = "ready"
  /\ UNCHANGED <<kind, jit, calls, request, given, guesses, dirty, store, parameter, caches>>

\* forward_maybe_jit without JIT
Forward ==
  /\ pc = "ready" /\ ~jit
  /\ SetValue
  /\ pc' = "forwarded"
  /\ UNCHANGED <<kind, jit, callVars, guesses, op, solving, dirty, input, parameter, layout, traced>>

\* forward_maybe_jit with a schema it has not seen: traces forward, starts again
Trace ==
  /\ pc = "ready" /\ jit /\ Hits = {}
  /\ SetValue
  /\ traced' = traced \cup {[key |-> Key, schema |-> Schema, par |-> parameter,
                             sparsity |-> CachedSparsity[solving]]}
  /\ UNCHANGED <<kind, jit, pc, callVars, guesses, op, solving, dirty, input, parameter, layout>>

\* and with one that it has.  set() gives the output the sizes cached for it,
\* which fails unless they have as many entries; those of Shapes do.
RunTraced(t) ==
  /\ pc = "ready" /\ jit /\ t \in Hits
  /\ 0 \in op => ((intmd[Y] = Scalar) = (Broadcast = Scalar))
  /\ output' = IF 0 \in op THEN Run(t) ELSE output
  /\ derivs' = IF op \cap {1, 2} # {} THEN StackDerivs(t) ELSE derivs
  /\ pc' = "forwarded"
  /\ UNCHANGED <<kind, jit, callVars, guesses, op, solving, dirty, input, intmd, parameter, caches>>

\* The call is over, also by an exception: the flag is that of a scope
Leave ==
  /\ pc' = "idle"
  /\ request' = {} /\ given' = {} /\ system' = FALSE
  /\ guesses' = 0 /\ op' = {} /\ solving' = FALSE

\* An evaluation throws, at the latest when everything has been assigned, or the
\* solver does; inputs and outputs are left as they are
Throw ==
  /\ pc = "ready" \/ Between
  /\ Leave
  /\ dirty' = TRUE
  /\ IF pc = "ready" /\ Misses
     THEN output' = Arguments /\ derivs' = SetDerivs
     ELSE UNCHANGED <<output, derivs>>
  /\ UNCHANGED <<kind, jit, calls, input, intmd, parameter, caches>>

\* The results are collected; clear_input and clear_output
Return ==
  /\ \/ pc = "forwarded" /\ ~system
     \/ Between /\ solving /\ 1 \notin request
  /\ Leave
  /\ input' = [x \in Inputs |-> Undef]
  /\ output' = Undef
  /\ derivs' = ClearedDerivs
  /\ dirty' = FALSE
  /\ UNCHANGED <<kind, jit, calls, intmd, parameter, caches>>

Evaluate ==
  \/ InitScaling
  \/ Residual
  \/ Jacobian
  \/ Differentiate
  \/ Forward
  \/ Trace
  \/ \E t \in traced : RunTraced(t)
  \/ Return
  \/ pc = "system" /\ ~LayoutFits /\ Throw

\* The caller makes no more calls
Ended == pc = "idle" /\ calls = MaxCalls /\ UNCHANGED vars

Next ==
  \/ Ended
  \/ \E d \in Dims : SetParameter(d)
  \/ \E r \in Requests, g \in SUBSET Inputs, d \in Dims, s \in Shapes :
       Begin(r, g, d, s) \/ AssignThrow(g, d, s)
  \/ Evaluate
  \/ Throw

Spec == Init /\ [][Next]_vars

-----------------------------------------------------------------------------
(* Properties *)

\* What the call has asked for: the values it has passed, the last guess for
\* the unknowns of a system, and zero for what it has not passed
Passed(x, v) ==
  IF guesses > 0 /\ x \in Unknowns THEN v.call = calls /\ v.guess = guesses
  ELSE IF x \in given THEN v.call = calls /\ v.guess = 0
  ELSE v = Zero

\* Of these arguments; inputs that the call does not pass may be those of a call
\* that has thrown since the last one returned
OfCall(p) ==
  /\ p # Undef
  /\ p.par = parameter
  /\ \A x \in Inputs : (x \in given \/ (guesses > 0 /\ x \in Unknowns) \/ ~dirty) => Passed(x, p.in[x])

\* The output of an evaluation is that of the arguments of its call and of the
\* current parameter, through whatever graph it is computed and after any
\* other calls of the same object.
ValuesOfArguments == pc = "forwarded" /\ 0 \in op => OfCall(output)

\* The derivatives that were asked for are there, once, at the same arguments:
\* all of them outside of a solve, those by the unknowns within.
DerivativesOfArguments ==
  pc = "forwarded" /\ 1 \in op =>
    \A a \in First : Dependent(a) => derivs[a] # Undef /\ derivs[a].times = 1 /\ OfCall(derivs[a].of)

\* Second derivatives that are asked for are there, once, at the arguments of
\* the call, whatever else is asked for with them.
SecondDerivativesOfArguments ==
  pc = "forwarded" /\ 2 \in op =>
    \A a \in Second : derivs[a] # Undef /\ derivs[a].times = 1 /\ OfCall(derivs[a].of)

=============================================================================
