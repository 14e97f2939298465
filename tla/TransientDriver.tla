--------------------------- MODULE TransientDriver ---------------------------
(***************************************************************************)
(* TransientDriver::run: the recursive update of an initial value problem. *)
(* The driver keeps one map of inputs, _in, for all steps and all runs,    *)
(* and records the inputs and the outputs of every step.                   *)
(*                                                                         *)
(* A value is known by where it came from: the name of the quantity, the   *)
(* step and the run that computed it.  The model is a function of its      *)
(* inputs, or throws.                                                      *)
(***************************************************************************)
EXTENDS Integers

CONSTANTS
  Names,    \* state variables
  Forces,   \* driving forces, Time among them
  Time,     \* _time_name
  Steps,    \* _nsteps
  Setups,   \* models and options of the driver that are looked at
  MaxRuns   \* bound on the calls of run()

Axes == {"state", "old_state", "forces", "old_forces"}
Var(axis, n) == <<axis, n>>
Vars == {Var(a, n) : a \in {"state", "old_state"}, n \in Names}
          \cup {Var(a, f) : a \in {"forces", "old_forces"}, f \in Forces}

\* inputs and outputs of the model, prescribed forces, initial conditions, predictor,
\* inputs and outputs of the postprocessor (none: neither), and the variables that the
\* warm-up of LDISolidMechanicsDriver presets (none, or one)
Setup == [inputs : SUBSET Vars, outputs : SUBSET Names, driven : SUBSET (Forces \ {Time}),
          ics : SUBSET Names, predictor : {"PREVIOUS_STATE", "LINEAR_EXTRAPOLATION"},
          ppin : SUBSET Vars, ppout : SUBSET Vars, warm : SUBSET Names]

\* diagnose() of the model and of the drivers; a driving force the model does not take
\* makes the first evaluation throw, and is left out.
Diagnosed(s) ==
  /\ \A n \in Names : Var("old_state", n) \in s.inputs => n \in s.outputs
  /\ \A f \in s.driven : Var("forces", f) \in s.inputs
  /\ \A n \in s.warm : Var("state", n) \in s.inputs

ASSUME TransientAssumption ==
  /\ Time \in Forces
  /\ Steps \in Nat /\ MaxRuns \in Nat
  /\ Setups \subseteq {s \in Setup : Diagnosed(s)}

VARIABLES
  setup,      \* the driver's setup
  pc,         \* where run() is
  runs,       \* runs started
  step,       \* _step_count
  in,         \* _in
  resultIn,   \* _result_in
  resultOut   \* _result_out

vars == <<setup, pc, runs, step, in, resultIn, resultOut>>

-----------------------------------------------------------------------------
(* Values and maps of values *)

Undefined == <<"undefined">>
Initial(s, n) == IF n \in s.ics THEN <<"ic", n>> ELSE <<"zero", n>>
ForceAt(f, k) == <<"force", f, k>>
Output(n, k) == <<"model", n, k, runs>>
Derived(v, k) == <<"post", v, k, runs>>

\* s_n + (s_n - s_nm1) / (t_n - t_nm1) * (t - t_n)
Line(sn, snm1, t, tn, tnm1) == <<"line", sn, snm1, t, tn, tnm1>>

\* The map m with the entries of new put over it
Overlay(m, new) ==
  [v \in DOMAIN m \cup DOMAIN new |-> IF v \in DOMAIN new THEN new[v] ELSE m[v]]

Empty == [v \in {} |-> Undefined]

\* ValueMap::operator[]: what is not there is inserted undefined.
Entry(m, v) == IF v \in DOMAIN m THEN m[v] ELSE Undefined
Has(m, v, val) == v \in DOMAIN m /\ m[v] = val
Insert(m, v) == Overlay(m, [w \in {v} |-> Entry(m, v)])

Timed(s) == Var("forces", Time) \in s.inputs

-----------------------------------------------------------------------------

Init ==
  /\ setup \in Setups
  /\ pc = "idle" /\ runs = 0 /\ step = 0
  /\ in = Empty
  /\ resultIn = [k \in 0 .. Steps - 1 |-> Empty]
  /\ resultOut = [k \in 0 .. Steps - 1 |-> Empty]

\* run() may be called again, also after it threw: nothing is cleared.
Run ==
  /\ pc \in {"idle", "done", "threw"}
  /\ runs < MaxRuns
  /\ runs' = runs + 1
  /\ step' = 0
  /\ pc' = IF Steps = 0 THEN "done" ELSE "forces"
  /\ UNCHANGED <<setup, in, resultIn, resultOut>>

\* Mutation of AdvanceStep: only the state is moved to its old counterpart.
AdvanceStepStateOnly ==
  /\ pc = "advance"
  /\ in' = Overlay(in,
             [v \in {w \in setup.inputs : w[1] = "old_state"
                       /\ Var("state", w[2]) \in DOMAIN resultOut[step - 1]}
                |-> resultOut[step - 1][Var("state", v[2])]])
  /\ pc' = "forces"
  /\ UNCHANGED <<setup, runs, step, resultIn, resultOut>>

\* The state and the forces of the previous step become the old ones.
AdvanceStep ==
  /\ pc = "advance"
  /\ LET old(axis, now, m) == [v \in {w \in setup.inputs : w[1] = axis
                                        /\ Var(now, w[2]) \in DOMAIN m}
                                 |-> m[Var(now, v[2])]]
     IN in' = Overlay(Overlay(in, old("old_state", "state", resultOut[step - 1])),
                      old("old_forces", "forces", resultIn[step - 1]))
  /\ pc' = "forces"
  /\ UNCHANGED <<setup, runs, step, resultIn, resultOut>>

\* The time, if the model takes it, and the prescribed forces of this step
UpdateForces ==
  /\ pc = "forces"
  /\ in' = Overlay(in, [v \in {Var("forces", f) : f \in setup.driven \cup
                                  IF Timed(setup) THEN {Time} ELSE {}}
                          |-> ForceAt(v[2], step)])
  /\ pc' = IF step = 0 THEN "store" ELSE "predict"
  /\ UNCHANGED <<setup, runs, step, resultIn, resultOut>>

\* The implicit variables: state inputs that are outputs as well
Guessed == {v \in setup.inputs : v[1] = "state" /\ v[2] \in setup.outputs}

Extrapolates == setup.predictor = "LINEAR_EXTRAPOLATION" /\ step > 1 /\ Guessed # {}

\* D * (t - t_n) * scale for the warm-up variable, at the first step
WarmStart(m) ==
  IF step = 1
    THEN Overlay(m, [v \in {Var("state", n) : n \in setup.warm} |-> <<"warm", runs>>])
    ELSE m

NeedsTime == Extrapolates \/ (step = 1 /\ setup.warm # {})

\* Mutation of ApplyPredictor: the extrapolation takes one step too far back.
ApplyPredictorOffByOne ==
  LET out(k, v) == Entry(resultOut[k], v)
      t(m) == Entry(m, Var("forces", Time))
      far == IF step > 2 THEN step - 3 ELSE step - 2
  IN
  /\ pc = "predict"
  /\ NeedsTime => Timed(setup)
  /\ in' = WarmStart(Overlay(in, [v \in Guessed |->
             IF Extrapolates
               THEN Line(out(step - 1, v), out(far, v), t(in), t(resultIn[step - 1]),
                         t(resultIn[far]))
               ELSE out(step - 1, v)]))
  /\ pc' = "store"
  /\ UNCHANGED <<setup, runs, step, resultIn, resultOut>>

\* The initial guess, with the warm-up of LDISolidMechanicsDriver on top
ApplyPredictor ==
  LET out(k, v) == Entry(resultOut[k], v)
      t(m) == Entry(m, Var("forces", Time))
  IN
  /\ pc = "predict"
  /\ NeedsTime => Timed(setup)
  /\ in' = WarmStart(Overlay(in, [v \in Guessed |->
             IF Extrapolates
               THEN Line(out(step - 1, v), out(step - 2, v), t(in), t(resultIn[step - 1]),
                         t(resultIn[step - 2]))
               ELSE out(step - 1, v)]))
  /\ pc' = "store"
  /\ UNCHANGED <<setup, runs, step, resultIn, resultOut>>

\* Without a time among the inputs, the arithmetic throws on an undefined tensor, and the
\* entries that operator[] was asked for on the way stay behind: a build with assertions
\* throws at the first.
PredictorThrow ==
  /\ pc = "predict"
  /\ NeedsTime /\ ~Timed(setup)
  /\ in' = Insert(IF Extrapolates THEN in ELSE
                    Overlay(in, [v \in Guessed |-> Entry(resultOut[step - 1], v)]),
                  Var("forces", Time))
  /\ \E back \in {{}, {1}} \cup IF step > 1 THEN {{1, 2}} ELSE {} :
       resultIn' = [k \in DOMAIN resultIn |->
         IF step - k \in back THEN Insert(resultIn[k], Var("forces", Time)) ELSE resultIn[k]]
  /\ pc' = "threw"
  /\ UNCHANGED <<setup, runs, step, resultOut>>

\* Mutation of StoreInput: the inputs of the step are added to those recorded.
StoreInputLate ==
  /\ pc = "store"
  /\ resultIn' = [resultIn EXCEPT ![step] = Overlay(in, resultIn[step])]
  /\ pc' = IF step = 0 THEN "ic" ELSE "solve"
  /\ UNCHANGED <<setup, runs, step, in, resultOut>>

StoreInput ==
  /\ pc = "store"
  /\ resultIn' = [resultIn EXCEPT ![step] = in]
  /\ pc' = IF step = 0 THEN "ic" ELSE "solve"
  /\ UNCHANGED <<setup, runs, step, in, resultOut>>

\* Mutation of EndStep: the steps are counted from one.
EndStepOnePast ==
  /\ step' = step + 1
  /\ pc' = IF step = Steps THEN "done" ELSE "advance"

EndStep ==
  /\ step' = step + 1
  /\ pc' = IF step + 1 = Steps THEN "done" ELSE "advance"

\* Step 0 is not solved: its outputs are the initial conditions, and zeros where the
\* outputs of the model have none yet.
ApplyIC ==
  /\ pc = "ic"
  /\ resultOut' = [resultOut EXCEPT ![0] =
       Overlay([v \in {Var("state", n) : n \in setup.outputs} |-> <<"zero", v[2]>>],
               Overlay(resultOut[0], [v \in {Var("state", n) : n \in setup.ics} |-> <<"ic", v[2]>>]))]
  /\ EndStep
  /\ UNCHANGED <<setup, runs, in, resultIn>>

\* The model accepts the map: it knows every name, and every tensor is defined.
Accepts == DOMAIN in \subseteq setup.inputs /\ \A v \in DOMAIN in : in[v] # Undefined

SolveStep ==
  /\ pc = "solve"
  /\ Accepts
  /\ resultOut' = [resultOut EXCEPT ![step] =
                     [v \in {Var("state", n) : n \in setup.outputs} |-> Output(v[2], step)]]
  /\ pc' = "post"
  /\ UNCHANGED <<setup, runs, step, in, resultIn>>

\* The evaluation throws, by itself or because it does not accept the map; so does the
\* postprocessor, by itself or because an input of its own is no output of the model.
EvaluationThrow ==
  /\ pc \in {"solve", "post"}
  /\ pc' = "threw"
  /\ UNCHANGED <<setup, runs, step, in, resultIn, resultOut>>

\* The outputs of the postprocessor join, or replace, those of the model.
Postprocess ==
  /\ pc = "post"
  /\ setup.ppin \subseteq DOMAIN resultOut[step]
  /\ resultOut' = [resultOut EXCEPT ![step] =
                     Overlay(@, [v \in setup.ppout |-> Derived(v, step)])]
  /\ EndStep
  /\ UNCHANGED <<setup, runs, in, resultIn>>

Ended == pc \in {"done", "threw"} /\ runs = MaxRuns /\ UNCHANGED vars

Next ==
  \/ Run \/ AdvanceStep \/ UpdateForces \/ ApplyPredictor \/ PredictorThrow \/ StoreInput
  \/ ApplyIC \/ SolveStep \/ EvaluationThrow \/ Postprocess
  \/ Ended

Spec == Init /\ [][Next]_vars

-----------------------------------------------------------------------------
(* Properties *)

\* Every variable has its type; a run stays within its steps.
TypeOK ==
  /\ setup \in Setup /\ Diagnosed(setup)
  /\ pc \in {"idle", "advance", "forces", "predict", "store", "ic", "solve", "post", "done",
             "threw"}
  /\ runs \in 0 .. MaxRuns
  /\ step \in 0 .. Steps
  /\ pc \in {"advance", "forces", "predict", "store", "ic", "solve", "post"} => step < Steps
  /\ DOMAIN in \subseteq Vars
  /\ DOMAIN resultIn = 0 .. Steps - 1 /\ DOMAIN resultOut = 0 .. Steps - 1

\* What the state n is at the end of step k of this run
StateAt(n, k) ==
  IF k = 0 THEN Initial(setup, n)
  ELSE IF Var("state", n) \in setup.ppout THEN Derived(Var("state", n), k)
  ELSE Output(n, k)

Prescribed == setup.driven \cup IF Timed(setup) THEN {Time} ELSE {}

\* Every evaluation is the update the initial value problem asks for: the forces of
\* this step, and as old state and old forces those of the step before it in the same
\* run, whatever an earlier run, complete or not, has left in the map.
InitialValueProblem ==
  pc = "solve" =>
    /\ \A n \in Names :
         Var("old_state", n) \in setup.inputs =>
           Has(in, Var("old_state", n), StateAt(n, step - 1))
    /\ \A f \in Prescribed :
         /\ Has(in, Var("forces", f), ForceAt(f, step))
         /\ Var("old_forces", f) \in setup.inputs =>
              Has(in, Var("old_forces", f), ForceAt(f, step - 1))

\* "PREVIOUS_STATE, using the converged solution from the previous step ...;
\* LINEAR_EXTRAPOLATION, linearly extrapolates the converged solutions from the previous
\* two steps": adjacent steps of this run, and the times that belong to them.
PredictorUsesSolutions ==
  pc = "solve" =>
    \A n \in Names :
      Var("state", n) \in Guessed /\ ~(step = 1 /\ n \in setup.warm) =>
        Entry(in, Var("state", n)) =
          IF Extrapolates
            THEN Line(StateAt(n, step - 1), StateAt(n, step - 2), ForceAt(Time, step),
                      ForceAt(Time, step - 1), ForceAt(Time, step - 2))
            ELSE StateAt(n, step - 1)

\* What a finished run has recorded is a trajectory, the one of this run: the old
\* values among the inputs of a step are the recorded values of the step before it,
\* and the outputs of every step are those of this run.  It speaks of the steps that are
\* solved, from the first on: the inputs recorded for step 0 may hold old values that
\* an earlier run has left in the map.
RecordsTrajectory ==
  pc = "done" =>
    \A k \in 1 .. Steps - 1 :
      /\ \A v \in setup.inputs :
           /\ v[1] = "old_state" =>
                Entry(resultIn[k], v) = Entry(resultOut[k - 1], Var("state", v[2]))
           /\ v[1] = "old_forces" /\ v[2] \in Prescribed =>
                Entry(resultIn[k], v) = Entry(resultIn[k - 1], Var("forces", v[2]))
      /\ DOMAIN resultOut[k] = {Var("state", n) : n \in setup.outputs} \cup setup.ppout
      /\ \A v \in DOMAIN resultOut[k] :
           resultOut[k][v] = IF v \in setup.ppout THEN Derived(v, k) ELSE Output(v[2], k)

-----------------------------------------------------------------------------
(* The inductive invariant behind InitialValueProblem and PredictorUsesSolutions *)

Active == {"advance", "forces", "predict", "store", "ic", "solve", "post"}

\* The steps that are over have recorded their outputs and their forces.
PastRecorded ==
  /\ pc \in Active => \A k \in 0 .. step - 1 :
       /\ \A n \in setup.outputs : Has(resultOut[k], Var("state", n), StateAt(n, k))
       /\ \A f \in Prescribed : Has(resultIn[k], Var("forces", f), ForceAt(f, k))
  /\ pc \in {"ic", "solve", "post"} =>
       \A f \in Prescribed : Has(resultIn[step], Var("forces", f), ForceAt(f, step))
  /\ pc = "post" => resultOut[step] =
       [v \in {Var("state", n) : n \in setup.outputs} |-> Output(v[2], step)]

\* What an earlier run has left at step 0 is what this run would put there.
InitialKept ==
  Steps > 0 =>
    \A n \in Names : Var("state", n) \in DOMAIN resultOut[0] =>
      resultOut[0][Var("state", n)] = Initial(setup, n)

\* The map at the places of run() where it is current
MapCurrent ==
  /\ pc \in {"predict", "store", "solve"} =>
       \A f \in Prescribed : Has(in, Var("forces", f), ForceAt(f, step))
  /\ pc \in {"forces", "predict", "store", "solve"} /\ step > 0 =>
       /\ \A n \in Names : Var("old_state", n) \in setup.inputs =>
            Has(in, Var("old_state", n), StateAt(n, step - 1))
       /\ \A f \in Prescribed : Var("old_forces", f) \in setup.inputs =>
            Has(in, Var("old_forces", f), ForceAt(f, step - 1))

Places ==
  /\ pc \in {"advance", "predict", "solve", "post"} => step > 0
  /\ pc = "ic" => step = 0

\* Holds initially and is preserved by every step.
IInv == TypeOK /\ Places /\ PastRecorded /\ InitialKept /\ MapCurrent

=============================================================================
