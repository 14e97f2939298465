------------------------ MODULE TransientDriverProofs ------------------------
(***************************************************************************)
(* Theorems about TransientDriver, for any number of steps and of runs and *)
(* any model that passes the driver's diagnosis: the problem it solves,    *)
(* what it starts its solves from, and what it has recorded when it is     *)
(* over.                                                                   *)
(***************************************************************************)
EXTENDS TransientDriver, TLAPS

\* An overlay is defined where either map is.
LEMMA OverlayDomain ==
  ASSUME NEW m, NEW new
  PROVE  DOMAIN Overlay(m, new) = DOMAIN m \cup DOMAIN new
  BY DEF Overlay

\* It holds the new entries.
LEMMA OverlayNew ==
  ASSUME NEW m, NEW new, NEW v \in DOMAIN new
  PROVE  Has(Overlay(m, new), v, new[v])
  BY DEF Overlay, Has

\* It keeps the old ones where there is no new one.
LEMMA OverlayOld ==
  ASSUME NEW m, NEW new, NEW v, NEW val, v \notin DOMAIN new, Has(m, v, val)
  PROVE  Has(Overlay(m, new), v, val)
  BY DEF Overlay, Has

\* The invariant holds before the first run.
LEMMA InitInvariant == Init => IInv
  <1> SUFFICES ASSUME Init PROVE IInv
    OBVIOUS
  <1> USE TransientAssumption
  <1>1. TypeOK
    <2>1. setup \in Setup /\ Diagnosed(setup)
      BY DEF Init
    <2>2. DOMAIN in \subseteq Vars
      BY DEF Init, Empty
    <2> QED
      BY <2>1, <2>2 DEF Init, TypeOK
  <1>2. Places /\ PastRecorded /\ MapCurrent
    BY DEF Init, Places, PastRecorded, MapCurrent, Active
  <1>3. InitialKept
    BY DEF Init, InitialKept, Empty
  <1> QED
    BY <1>1, <1>2, <1>3 DEF IInv

\* The entries of a map that a step does not touch, and the state of the past
LEMMA StateKept ==
  ASSUME UNCHANGED <<setup, runs>>, NEW n, NEW k
  PROVE  StateAt(n, k)' = StateAt(n, k)
  BY DEF StateAt, Initial, Derived, Output

\* A run starts with nothing recorded for it.
LEMMA RunInvariant == IInv /\ Run => IInv'
  <1> SUFFICES ASSUME IInv, Run PROVE IInv'
    OBVIOUS
  <1> USE TransientAssumption
  <1>1. TypeOK'
    BY DEF IInv, TypeOK, Run
  <1>2. Places' /\ MapCurrent'
    BY DEF Run, Places, MapCurrent
  <1>3. PastRecorded'
    BY DEF Run, PastRecorded, Active
  <1>4. InitialKept'
    BY DEF IInv, Run, InitialKept, Initial
  <1> QED
    BY <1>1, <1>2, <1>3, <1>4 DEF IInv

\* The recorded values become the old ones.
LEMMA AdvanceInvariant == IInv /\ AdvanceStep => IInv'
  <1> SUFFICES ASSUME IInv, AdvanceStep PROVE IInv'
    OBVIOUS
  <1> USE TransientAssumption
  <1> DEFINE os == [v \in {w \in setup.inputs : w[1] = "old_state"
                             /\ Var("state", w[2]) \in DOMAIN resultOut[step - 1]}
                      |-> resultOut[step - 1][Var("state", v[2])]]
             of == [v \in {w \in setup.inputs : w[1] = "old_forces"
                             /\ Var("forces", w[2]) \in DOMAIN resultIn[step - 1]}
                      |-> resultIn[step - 1][Var("forces", v[2])]]
  <1>1. in' = Overlay(Overlay(in, os), of) /\ pc = "advance" /\ pc' = "forces"
    BY DEF AdvanceStep
  <1>2. UNCHANGED <<setup, runs, step, resultIn, resultOut>>
    BY DEF AdvanceStep
  <1>3. TypeOK /\ step > 0 /\ step \in Nat
    BY <1>1 DEF IInv, Places, TypeOK
  <1>4. TypeOK'
    <2>1. setup.inputs \subseteq Vars
      BY <1>3 DEF TypeOK, Setup
    <2>2. DOMAIN os \subseteq Vars /\ DOMAIN of \subseteq Vars
      BY <2>1
    <2>3. DOMAIN in' = DOMAIN in \cup DOMAIN os \cup DOMAIN of
      <3> HIDE DEF os, of
      <3>1. DOMAIN Overlay(in, os) = DOMAIN in \cup DOMAIN os
        BY OverlayDomain
      <3>2. DOMAIN in' = DOMAIN Overlay(in, os) \cup DOMAIN of
        BY <1>1, OverlayDomain
      <3> QED
        BY <3>1, <3>2
    <2>4. DOMAIN in' \subseteq Vars
      BY <1>3, <2>2, <2>3 DEF TypeOK
    <2> QED
      BY <1>1, <1>2, <1>3, <2>4 DEF TypeOK
  <1>5. Places' /\ InitialKept' /\ PastRecorded'
    BY <1>1, <1>2, StateKept DEF IInv, Places, InitialKept, Initial, PastRecorded, Active,
                                 Prescribed, Timed
  <1>6. MapCurrent'
    <2>1. ASSUME NEW n \in Names, Var("old_state", n) \in setup.inputs
          PROVE  Has(in', Var("old_state", n), StateAt(n, step - 1))
      <3>1. n \in setup.outputs
        BY <1>3, <2>1 DEF TypeOK, Diagnosed
      <3>2. Has(resultOut[step - 1], Var("state", n), StateAt(n, step - 1))
        BY <1>1, <1>3, <3>1 DEF IInv, PastRecorded, Active
      <3>3. Var("old_state", n)[1] = "old_state" /\ Var("old_state", n)[2] = n
        BY DEF Var
      <3>4. Var("old_state", n) \in DOMAIN os
        BY <2>1, <3>2, <3>3 DEF Has
      <3>5. os[Var("old_state", n)] = StateAt(n, step - 1)
        BY <3>2, <3>3, <3>4 DEF Has
      <3>6. Has(Overlay(in, os), Var("old_state", n), StateAt(n, step - 1))
        BY <3>4, <3>5, OverlayNew
      <3>7. Var("old_state", n) \notin DOMAIN of
        BY <3>3
      <3> HIDE DEF os, of
      <3> QED
        BY <1>1, <3>6, <3>7, OverlayOld
    <2>2. ASSUME NEW f \in Prescribed, Var("old_forces", f) \in setup.inputs
          PROVE  Has(in', Var("old_forces", f), ForceAt(f, step - 1))
      <3>1. Has(resultIn[step - 1], Var("forces", f), ForceAt(f, step - 1))
        BY <1>1, <1>3 DEF IInv, PastRecorded, Active
      <3>2. Var("old_forces", f)[1] = "old_forces" /\ Var("old_forces", f)[2] = f
        BY DEF Var
      <3>3. Var("old_forces", f) \in DOMAIN of
        BY <2>2, <3>1, <3>2 DEF Has
      <3>4. of[Var("old_forces", f)] = ForceAt(f, step - 1)
        BY <3>1, <3>2, <3>3 DEF Has
      <3> HIDE DEF os, of
      <3> QED
        BY <1>1, <3>3, <3>4, OverlayNew
    <2> QED
      BY <1>1, <1>2, <2>1, <2>2, StateKept DEF MapCurrent, Prescribed, Timed
  <1> QED
    BY <1>4, <1>5, <1>6 DEF IInv

\* The forces of the step are put over those of the last one, and over nothing else.
LEMMA ForcesInvariant == IInv /\ UpdateForces => IInv'
  <1> SUFFICES ASSUME IInv, UpdateForces PROVE IInv'
    OBVIOUS
  <1> USE TransientAssumption
  <1> DEFINE now == [v \in {Var("forces", f) : f \in Prescribed} |-> ForceAt(v[2], step)]
  <1>1. in' = Overlay(in, now) /\ pc = "forces" /\ pc' \in {"store", "predict"}
    BY DEF UpdateForces, Prescribed
  <1>2. /\ UNCHANGED <<setup, runs, step, resultIn, resultOut>>
        /\ pc' = "predict" => step # 0
    BY DEF UpdateForces
  <1>3. TypeOK /\ step \in Nat
    BY DEF IInv, TypeOK
  <1>4. TypeOK'
    <2>1. Prescribed \subseteq Forces
      BY <1>3 DEF Prescribed, TypeOK, Setup
    <2>2. DOMAIN now \subseteq Vars
      BY <2>1 DEF Vars
    <2>3. DOMAIN in' = DOMAIN in \cup DOMAIN now
      <3> HIDE DEF now
      <3> QED
        BY <1>1, OverlayDomain
    <2>4. DOMAIN in' \subseteq Vars
      BY <1>3, <2>2, <2>3 DEF TypeOK
    <2> QED
      BY <1>1, <1>2, <1>3, <2>4 DEF TypeOK
  <1>5. Places' /\ InitialKept' /\ PastRecorded'
    BY <1>1, <1>2, <1>3, StateKept DEF IInv, Places, InitialKept, Initial, PastRecorded, Active,
                                       Prescribed, Timed
  <1>6. ASSUME NEW f \in Prescribed
        PROVE  Has(in', Var("forces", f), ForceAt(f, step))
    <2>1. Var("forces", f) \in DOMAIN now /\ now[Var("forces", f)] = ForceAt(f, step)
      BY DEF Var
    <2> HIDE DEF now
    <2> QED
      BY <1>1, <2>1, OverlayNew
  <1>7. ASSUME NEW v, v[1] # "forces", NEW val, Has(in, v, val)
        PROVE  Has(in', v, val)
    <2>1. v \notin DOMAIN now
      BY <1>7 DEF Var
    <2> HIDE DEF now
    <2> QED
      BY <1>1, <1>7, <2>1, OverlayOld
  <1>8. \A n : Var("old_state", n)[1] # "forces" /\ Var("old_forces", n)[1] # "forces"
    BY DEF Var
  <1>9. MapCurrent'
    <2>1. \A f \in Prescribed' : Has(in', Var("forces", f), ForceAt(f, step'))
      BY <1>2, <1>6 DEF Prescribed, Timed
    <2>2. ASSUME step > 0, NEW n \in Names, Var("old_state", n) \in setup.inputs
          PROVE  Has(in', Var("old_state", n), StateAt(n, step - 1))
      <3>1. Has(in, Var("old_state", n), StateAt(n, step - 1))
        BY <1>1, <2>2 DEF IInv, MapCurrent
      <3> QED
        BY <3>1, <1>7, <1>8
    <2>3. ASSUME step > 0, NEW f \in Prescribed, Var("old_forces", f) \in setup.inputs
          PROVE  Has(in', Var("old_forces", f), ForceAt(f, step - 1))
      <3>1. Has(in, Var("old_forces", f), ForceAt(f, step - 1))
        BY <1>1, <2>3 DEF IInv, MapCurrent
      <3> QED
        BY <3>1, <1>7, <1>8
    <2> QED
      BY <1>1, <1>2, <2>1, <2>2, <2>3, StateKept DEF MapCurrent, Prescribed, Timed
  <1> QED
    BY <1>4, <1>5, <1>9 DEF IInv

\* The predictor writes state variables only.
LEMMA PredictorInvariant == IInv /\ ApplyPredictor => IInv'
  <1> SUFFICES ASSUME IInv, ApplyPredictor PROVE IInv'
    OBVIOUS
  <1> USE TransientAssumption
  <1>1. PICK g : DOMAIN g = Guessed /\ in' = WarmStart(Overlay(in, g))
    BY DEF ApplyPredictor
  <1>2. /\ pc = "predict" /\ pc' = "store"
        /\ UNCHANGED <<setup, runs, step, resultIn, resultOut>>
    BY DEF ApplyPredictor
  <1>3. TypeOK /\ step \in Nat /\ step > 0
    BY <1>2 DEF IInv, TypeOK, Places
  <1> DEFINE w == [v \in {Var("state", n) : n \in setup.warm} |-> <<"warm", runs>>]
  <1>4. in' = Overlay(in, g) \/ in' = Overlay(Overlay(in, g), w)
    BY <1>1 DEF WarmStart
  <1>5. \A v \in DOMAIN w : v[1] = "state"
    BY DEF Var
  <1>6. DOMAIN w \subseteq Vars /\ Guessed \subseteq Vars
    BY <1>3 DEF Vars, TypeOK, Setup, Guessed
  <1>7. \A v \in Guessed : v[1] = "state"
    BY DEF Guessed
  <1> HIDE DEF w
  <1>8. TypeOK'
    <2>1. DOMAIN Overlay(in, g) = DOMAIN in \cup Guessed
      BY <1>1, OverlayDomain
    <2>2. DOMAIN Overlay(Overlay(in, g), w) = DOMAIN in \cup Guessed \cup DOMAIN w
      BY <2>1, OverlayDomain
    <2>3. DOMAIN in' \subseteq Vars
      BY <1>3, <1>4, <1>6, <2>1, <2>2 DEF TypeOK
    <2> QED
      BY <1>2, <1>3, <2>3 DEF TypeOK
  <1>9. Places' /\ InitialKept' /\ PastRecorded'
    BY <1>2, <1>3, StateKept DEF IInv, Places, InitialKept, Initial, PastRecorded, Active,
                                 Prescribed, Timed
  <1>10. ASSUME NEW v, v[1] # "state", NEW val, Has(in, v, val)
         PROVE  Has(in', v, val)
    <2>1. v \notin DOMAIN g /\ v \notin DOMAIN w
      BY <1>1, <1>5, <1>7, <1>10
    <2>2. Has(Overlay(in, g), v, val)
      BY <1>10, <2>1, OverlayOld
    <2>3. Has(Overlay(Overlay(in, g), w), v, val)
      BY <2>1, <2>2, OverlayOld
    <2> QED
      BY <1>4, <2>2, <2>3
  <1>11. \A n : /\ Var("forces", n)[1] # "state"
                /\ Var("old_state", n)[1] # "state" /\ Var("old_forces", n)[1] # "state"
    BY DEF Var
  <1>12. MapCurrent'
    <2>1. ASSUME NEW f \in Prescribed
          PROVE  Has(in', Var("forces", f), ForceAt(f, step))
      <3>1. Has(in, Var("forces", f), ForceAt(f, step))
        BY <1>2 DEF IInv, MapCurrent
      <3> QED
        BY <3>1, <1>10, <1>11
    <2>2. ASSUME NEW n \in Names, Var("old_state", n) \in setup.inputs
          PROVE  Has(in', Var("old_state", n), StateAt(n, step - 1))
      <3>1. Has(in, Var("old_state", n), StateAt(n, step - 1))
        BY <1>2, <1>3, <2>2 DEF IInv, MapCurrent
      <3> QED
        BY <3>1, <1>10, <1>11
    <2>3. ASSUME NEW f \in Prescribed, Var("old_forces", f) \in setup.inputs
          PROVE  Has(in', Var("old_forces", f), ForceAt(f, step - 1))
      <3>1. Has(in, Var("old_forces", f), ForceAt(f, step - 1))
        BY <1>2, <1>3, <2>3 DEF IInv, MapCurrent
      <3> QED
        BY <3>1, <1>10, <1>11
    <2> QED
      BY <1>2, <2>1, <2>2, <2>3, StateKept DEF MapCurrent, Prescribed, Timed
  <1> QED
    BY <1>8, <1>9, <1>12 DEF IInv

\* A throw ends the run; only the past of step 0 is kept.
LEMMA ThrowInvariant == IInv /\ (PredictorThrow \/ EvaluationThrow) => IInv'
  <1> SUFFICES ASSUME IInv, PredictorThrow \/ EvaluationThrow PROVE IInv'
    OBVIOUS
  <1> USE TransientAssumption
  <1>1. pc' = "threw" /\ UNCHANGED <<setup, runs, step, resultOut>>
    BY DEF PredictorThrow, EvaluationThrow
  <1>2. DOMAIN in' \subseteq Vars /\ DOMAIN resultIn' = 0 .. Steps - 1
    <2>1. CASE PredictorThrow
      <3>1. PICK m : /\ DOMAIN m \subseteq Vars
                     /\ in' = Insert(m, Var("forces", Time))
        <4>1. DOMAIN in \subseteq Vars /\ Guessed \subseteq Vars
          BY DEF IInv, TypeOK, Setup, Guessed
        <4> DEFINE g == [v \in Guessed |-> Entry(resultOut[step - 1], v)]
        <4>2. DOMAIN Overlay(in, g) \subseteq Vars
          <5>1. DOMAIN g = Guessed
            OBVIOUS
          <5> HIDE DEF g
          <5>2. DOMAIN Overlay(in, g) = DOMAIN in \cup DOMAIN g
            BY OverlayDomain
          <5> QED
            BY <4>1, <5>1, <5>2
        <4>3. in' = Insert(IF Extrapolates THEN in ELSE Overlay(in, g), Var("forces", Time))
          BY <2>1 DEF PredictorThrow
        <4> QED
          BY <4>1, <4>2, <4>3
      <3> DEFINE t == [w \in {Var("forces", Time)} |-> Entry(m, Var("forces", Time))]
      <3>2. DOMAIN in' = DOMAIN m \cup DOMAIN t
        BY <3>1, OverlayDomain DEF Insert
      <3>3. Var("forces", Time) \in Vars
        BY DEF Vars
      <3>4. DOMAIN resultIn' = DOMAIN resultIn
        BY <2>1 DEF PredictorThrow
      <3> QED
        BY <3>1, <3>2, <3>3, <3>4 DEF IInv, TypeOK
    <2>2. CASE EvaluationThrow
      BY <2>2 DEF EvaluationThrow, IInv, TypeOK
    <2> QED
      BY <2>1, <2>2
  <1>3. TypeOK'
    BY <1>1, <1>2 DEF IInv, TypeOK
  <1>4. Places' /\ MapCurrent' /\ PastRecorded'
    BY <1>1 DEF Places, MapCurrent, PastRecorded, Active
  <1>5. InitialKept'
    BY <1>1 DEF IInv, InitialKept, Initial
  <1> QED
    BY <1>3, <1>4, <1>5 DEF IInv

\* The inputs are recorded as they are evaluated.
LEMMA StoreInvariant == IInv /\ StoreInput => IInv'
  <1> SUFFICES ASSUME IInv, StoreInput PROVE IInv'
    OBVIOUS
  <1> USE TransientAssumption
  <1>1. /\ pc = "store" /\ pc' \in {"ic", "solve"}
        /\ pc' = "ic" <=> step = 0
        /\ UNCHANGED <<setup, runs, step, in, resultOut>>
        /\ resultIn' = [resultIn EXCEPT ![step] = in]
    BY DEF StoreInput
  <1>2. TypeOK /\ step \in 0 .. Steps - 1
    BY <1>1 DEF IInv, TypeOK
  <1>3. TypeOK'
    BY <1>1, <1>2 DEF TypeOK
  <1>4. Places' /\ InitialKept'
    BY <1>1, <1>2 DEF IInv, Places, InitialKept, Initial
  <1>5. MapCurrent'
    BY <1>1, <1>2, StateKept DEF IInv, MapCurrent, Prescribed, Timed
  <1>6. resultIn'[step] = in /\ \A k \in 0 .. step - 1 : resultIn'[k] = resultIn[k]
    BY <1>1, <1>2 DEF TypeOK
  <1>7. \A f \in Prescribed : Has(in, Var("forces", f), ForceAt(f, step))
    BY <1>1 DEF IInv, MapCurrent
  <1>8. PastRecorded'
    BY <1>1, <1>2, <1>6, <1>7, StateKept DEF IInv, PastRecorded, Active, Prescribed, Timed
  <1> QED
    BY <1>3, <1>4, <1>5, <1>8 DEF IInv

\* A step ends with its outputs recorded next to those of the steps before it.
LEMMA EndInvariant ==
  ASSUME IInv, EndStep, pc \in {"ic", "post"}, UNCHANGED <<setup, runs, in, resultIn>>,
         DOMAIN resultOut' = DOMAIN resultOut,
         \A k \in 0 .. Steps - 1 : k # step => resultOut'[k] = resultOut[k],
         \A n \in setup.outputs : Has(resultOut'[step], Var("state", n), StateAt(n, step)),
         step = 0 => \A n \in Names : Var("state", n) \in DOMAIN resultOut'[0] =>
                       resultOut'[0][Var("state", n)] = Initial(setup, n)
  PROVE  IInv'
  <1> USE TransientAssumption
  <1>1. /\ TypeOK /\ step \in 0 .. Steps - 1
        /\ step' = step + 1 /\ pc' \in {"done", "advance"} /\ (pc' = "advance" => step + 1 < Steps)
    BY DEF IInv, TypeOK, EndStep
  <1>2. TypeOK'
    BY <1>1 DEF TypeOK
  <1>3. Places' /\ MapCurrent'
    BY <1>1 DEF Places, MapCurrent
  <1>4. InitialKept'
    BY <1>1 DEF IInv, InitialKept, Initial
  <1>5. PastRecorded'
    <2>1. ASSUME NEW k \in 0 .. step, NEW n \in setup.outputs
          PROVE  Has(resultOut'[k], Var("state", n), StateAt(n, k))
      <3>1. CASE k = step
        BY <3>1
      <3>2. CASE k # step
        BY <1>1, <3>2 DEF IInv, PastRecorded, Active
      <3> QED
        BY <3>1, <3>2
    <2>2. ASSUME NEW k \in 0 .. step, NEW f \in Prescribed
          PROVE  Has(resultIn[k], Var("forces", f), ForceAt(f, k))
      <3>1. CASE k = step
        BY <3>1 DEF IInv, PastRecorded
      <3>2. CASE k # step
        BY <1>1, <3>2 DEF IInv, PastRecorded, Active
      <3> QED
        BY <3>1, <3>2
    <2>3. step' - 1 = step
      BY <1>1
    <2> QED
      BY <1>1, <2>1, <2>2, <2>3, StateKept DEF PastRecorded, Active, Prescribed, Timed
  <1> QED
    BY <1>2, <1>3, <1>4, <1>5 DEF IInv

\* The initial conditions are put over what an earlier run left, zeros under it.
LEMMA ICInvariant == IInv /\ ApplyIC => IInv'
  <1> SUFFICES ASSUME IInv, ApplyIC PROVE IInv'
    OBVIOUS
  <1> USE TransientAssumption
  <1> DEFINE zeros == [v \in {Var("state", n) : n \in setup.outputs} |-> <<"zero", v[2]>>]
             ics == [v \in {Var("state", n) : n \in setup.ics} |-> <<"ic", v[2]>>]
             kept == Overlay(resultOut[0], ics)
  <1>1. /\ pc = "ic" /\ EndStep /\ UNCHANGED <<setup, runs, in, resultIn>>
        /\ resultOut' = [resultOut EXCEPT ![0] = Overlay(zeros, kept)]
    BY DEF ApplyIC
  <1>2. step = 0 /\ TypeOK /\ Steps > 0
    BY <1>1 DEF IInv, TypeOK, Places
  <1>3. resultOut'[0] = Overlay(zeros, kept) /\ DOMAIN resultOut' = DOMAIN resultOut
    BY <1>1, <1>2 DEF TypeOK
  <1>4. ASSUME NEW n \in Names, Var("state", n) \in DOMAIN resultOut'[0]
        PROVE  resultOut'[0][Var("state", n)] = Initial(setup, n)
    <2>1. \A m : Var("state", m) = Var("state", n) => m = n
      BY DEF Var
    <2>2. /\ Var("state", n)[2] = n
          /\ Var("state", n) \in DOMAIN ics <=> n \in setup.ics
          /\ Var("state", n) \in DOMAIN zeros <=> n \in setup.outputs
      BY <2>1 DEF Var
    <2>3. n \in setup.ics => ics[Var("state", n)] = Initial(setup, n)
      BY <2>2 DEF Initial
    <2>4. n \in setup.outputs /\ n \notin setup.ics => zeros[Var("state", n)] = Initial(setup, n)
      BY <2>2 DEF Initial
    <2>5. Var("state", n) \in DOMAIN resultOut[0] => resultOut[0][Var("state", n)] = Initial(setup, n)
      BY <1>2 DEF IInv, InitialKept
    <2> HIDE DEF ics, zeros
    <2>6. Var("state", n) \in DOMAIN kept => kept[Var("state", n)] = Initial(setup, n)
      BY <2>2, <2>3, <2>5 DEF Overlay
    <2>7. DOMAIN kept = DOMAIN resultOut[0] \cup DOMAIN ics
      BY OverlayDomain
    <2> HIDE DEF kept
    <2>8. resultOut'[0] = Overlay(zeros, kept)
      BY <1>3 DEF kept, zeros, ics
    <2> QED
      BY <1>4, <2>2, <2>4, <2>6, <2>7, <2>8 DEF Overlay
  <1>5. ASSUME NEW n \in setup.outputs
        PROVE  Has(resultOut'[0], Var("state", n), StateAt(n, 0))
    <2>1. DOMAIN Overlay(zeros, kept) = DOMAIN zeros \cup DOMAIN kept
      <3> HIDE DEF zeros, kept
      <3> QED
        BY OverlayDomain
    <2>2. n \in Names /\ Var("state", n) \in DOMAIN zeros
      BY <1>2 DEF TypeOK, Setup
    <2> QED
      BY <1>3, <1>4, <2>1, <2>2 DEF Has, StateAt
  <1>6. \A k \in 0 .. Steps - 1 : k # step => resultOut'[k] = resultOut[k]
    BY <1>1, <1>2 DEF TypeOK
  <1> QED
    BY <1>1, <1>2, <1>3, <1>4, <1>5, <1>6, EndInvariant

\* The outputs of the model are recorded at the step.
LEMMA SolveInvariant == IInv /\ SolveStep => IInv'
  <1> SUFFICES ASSUME IInv, SolveStep PROVE IInv'
    OBVIOUS
  <1> USE TransientAssumption
  <1>1. /\ pc = "solve" /\ pc' = "post" /\ UNCHANGED <<setup, runs, step, in, resultIn>>
        /\ resultOut' = [resultOut EXCEPT ![step] =
                           [v \in {Var("state", n) : n \in setup.outputs} |-> Output(v[2], step)]]
    BY DEF SolveStep
  <1>2. TypeOK /\ step \in 0 .. Steps - 1 /\ step > 0
    BY <1>1 DEF IInv, TypeOK, Places
  <1>3. TypeOK'
    BY <1>1, <1>2 DEF TypeOK
  <1>4. Places' /\ MapCurrent'
    BY <1>1, <1>2 DEF Places, MapCurrent
  <1>5. InitialKept'
    BY <1>1, <1>2 DEF IInv, TypeOK, InitialKept, Initial
  <1>6. /\ resultOut'[step] = [v \in {Var("state", n) : n \in setup.outputs} |-> Output(v[2], step)]
        /\ \A k \in 0 .. step - 1 : resultOut'[k] = resultOut[k]
    BY <1>1, <1>2 DEF TypeOK
  <1>7. PastRecorded'
    BY <1>1, <1>2, <1>6, StateKept DEF IInv, PastRecorded, Active, Prescribed, Timed, Output
  <1> QED
    BY <1>3, <1>4, <1>5, <1>7 DEF IInv

\* What the postprocessor replaces is the state from then on.
LEMMA PostInvariant == IInv /\ Postprocess => IInv'
  <1> SUFFICES ASSUME IInv, Postprocess PROVE IInv'
    OBVIOUS
  <1> USE TransientAssumption
  <1> DEFINE d == [v \in setup.ppout |-> Derived(v, step)]
  <1>1. /\ pc = "post" /\ EndStep /\ UNCHANGED <<setup, runs, in, resultIn>>
        /\ resultOut' = [resultOut EXCEPT ![step] = Overlay(resultOut[step], d)]
    BY DEF Postprocess
  <1>2. TypeOK /\ step \in 0 .. Steps - 1 /\ step > 0
    BY <1>1 DEF IInv, TypeOK, Places
  <1>3. /\ resultOut'[step] = Overlay(resultOut[step], d) /\ DOMAIN resultOut' = DOMAIN resultOut
        /\ \A k \in 0 .. Steps - 1 : k # step => resultOut'[k] = resultOut[k]
    BY <1>1, <1>2 DEF TypeOK
  <1>4. ASSUME NEW n \in setup.outputs
        PROVE  Has(resultOut'[step], Var("state", n), StateAt(n, step))
    <2>1. Var("state", n)[2] = n
      BY DEF Var
    <2>2. Has(resultOut[step], Var("state", n), Output(n, step))
      BY <1>1, <2>1 DEF IInv, PastRecorded, Has
    <2>3. CASE Var("state", n) \in setup.ppout
      <3>1. Var("state", n) \in DOMAIN d /\ d[Var("state", n)] = Derived(Var("state", n), step)
        BY <2>3
      <3>2. StateAt(n, step) = Derived(Var("state", n), step)
        BY <1>2, <2>3 DEF StateAt
      <3> HIDE DEF d
      <3> QED
        BY <1>3, <3>1, <3>2, OverlayNew
    <2>4. CASE Var("state", n) \notin setup.ppout
      <3>1. Var("state", n) \notin DOMAIN d
        BY <2>4
      <3>2. StateAt(n, step) = Output(n, step)
        BY <1>2, <2>4 DEF StateAt
      <3> HIDE DEF d
      <3> QED
        BY <1>3, <2>2, <3>1, <3>2, OverlayOld
    <2> QED
      BY <2>3, <2>4
  <1> QED
    BY <1>1, <1>2, <1>3, <1>4, EndInvariant

\* Throughout every run, what is recorded and what is in the map is of this run and of the
\* right steps.
THEOREM Invariance == Spec => []IInv
  <1>1. Init => IInv
    BY InitInvariant
  <1>2. IInv /\ [Next]_vars => IInv'
    <2> SUFFICES ASSUME IInv, [Next]_vars PROVE IInv'
      OBVIOUS
    <2>1. CASE UNCHANGED vars
      BY <2>1 DEF IInv, TypeOK, Places, PastRecorded, InitialKept, MapCurrent, Active, StateAt,
                  Initial, Derived, Output, Prescribed, Timed, vars
    <2> QED
      BY <2>1, RunInvariant, AdvanceInvariant, ForcesInvariant, PredictorInvariant,
         ThrowInvariant, StoreInvariant, ICInvariant, SolveInvariant, PostInvariant
         DEF Next, Ended
  <1> QED
    BY <1>1, <1>2, PTL DEF Spec

\* Every evaluation of the model is the update from the step before it in the same run,
\* however many runs, complete or not, came before.
THEOREM SolvesInitialValueProblem == Spec => []InitialValueProblem
  <1>1. IInv => InitialValueProblem
    BY DEF IInv, Places, MapCurrent, InitialValueProblem
  <1> QED
    BY <1>1, Invariance, PTL

-----------------------------------------------------------------------------
(* The predictor *)

GuessOf(n) ==
  IF Extrapolates
    THEN Line(StateAt(n, step - 1), StateAt(n, step - 2), ForceAt(Time, step),
              ForceAt(Time, step - 1), ForceAt(Time, step - 2))
    ELSE StateAt(n, step - 1)

\* From the predictor to the evaluation, the guess is the one of the step.
GuessCurrent ==
  pc \in {"store", "solve"} /\ step > 0 =>
    \A n \in Names :
      Var("state", n) \in Guessed /\ ~(step = 1 /\ n \in setup.warm) =>
        Entry(in, Var("state", n)) = GuessOf(n)

\* An entry that a map has is the entry.
LEMMA HasEntry ==
  ASSUME NEW m, NEW v, NEW val, Has(m, v, val)
  PROVE  Entry(m, v) = val
  BY DEF Has, Entry

\* What the predictor reads is recorded.
LEMMA PredictorReads ==
  ASSUME IInv, ApplyPredictor, NEW n \in Names, Var("state", n) \in Guessed
  PROVE  /\ Entry(resultOut[step - 1], Var("state", n)) = StateAt(n, step - 1)
         /\ Extrapolates =>
              /\ Entry(resultOut[step - 2], Var("state", n)) = StateAt(n, step - 2)
              /\ Entry(in, Var("forces", Time)) = ForceAt(Time, step)
              /\ Entry(resultIn[step - 1], Var("forces", Time)) = ForceAt(Time, step - 1)
              /\ Entry(resultIn[step - 2], Var("forces", Time)) = ForceAt(Time, step - 2)
<1>1. pc = "predict" /\ step \in Nat /\ step > 0
  BY DEF ApplyPredictor, IInv, TypeOK, Places
<1>2. n \in setup.outputs
  BY DEF Guessed, Var
<1>3. \A k \in 0 .. step - 1 : Entry(resultOut[k], Var("state", n)) = StateAt(n, k)
  BY <1>1, <1>2, HasEntry DEF IInv, PastRecorded, Active
<1>4. ASSUME Extrapolates
      PROVE  /\ step > 1
             /\ Entry(in, Var("forces", Time)) = ForceAt(Time, step)
             /\ \A k \in 0 .. step - 1 : Entry(resultIn[k], Var("forces", Time)) = ForceAt(Time, k)
  <2>1. step > 1 /\ Time \in Prescribed
    BY <1>4 DEF Extrapolates, ApplyPredictor, NeedsTime, Prescribed
  <2> QED
    BY <1>1, <2>1, HasEntry DEF IInv, MapCurrent, PastRecorded, Active
<1> QED
  BY <1>1, <1>3, <1>4

LEMMA PredictorGuess == IInv /\ ApplyPredictor => GuessCurrent'
<1> SUFFICES ASSUME IInv, ApplyPredictor PROVE GuessCurrent'
  OBVIOUS
<1> DEFINE t(m) == Entry(m, Var("forces", Time))
           g == [v \in Guessed |->
                  IF Extrapolates
                    THEN Line(Entry(resultOut[step - 1], v), Entry(resultOut[step - 2], v), t(in),
                              t(resultIn[step - 1]), t(resultIn[step - 2]))
                    ELSE Entry(resultOut[step - 1], v)]
           w == [v \in {Var("state", n) : n \in setup.warm} |-> <<"warm", runs>>]
<1>1. in' = WarmStart(Overlay(in, g)) /\ UNCHANGED <<setup, runs, step>>
  BY DEF ApplyPredictor
<1>2. ASSUME NEW n \in Names, Var("state", n) \in Guessed, ~(step = 1 /\ n \in setup.warm)
      PROVE  Entry(in', Var("state", n)) = GuessOf(n)
  <2>1. Var("state", n) \in DOMAIN g /\ g[Var("state", n)] = GuessOf(n)
    <3>1. CASE Extrapolates
      BY <3>1, <1>2, PredictorReads DEF GuessOf
    <3>2. CASE ~Extrapolates
      BY <3>2, <1>2, PredictorReads DEF GuessOf
    <3> QED
      BY <3>1, <3>2
  <2>2. Var("state", n) \in DOMAIN w => n \in setup.warm
    BY DEF Var
  <2>3. in' = IF step = 1 THEN Overlay(Overlay(in, g), w) ELSE Overlay(in, g)
    BY <1>1 DEF WarmStart
  <2> HIDE DEF g, w
  <2>4. Has(Overlay(in, g), Var("state", n), GuessOf(n))
    BY <2>1, OverlayNew
  <2>5. Has(in', Var("state", n), GuessOf(n))
    <3>1. CASE step = 1
      BY <3>1, <1>2, <2>2, <2>3, <2>4, OverlayOld
    <3>2. CASE step # 1
      BY <3>2, <2>3, <2>4
    <3> QED
      BY <3>1, <3>2
  <2> QED
    BY <2>5, HasEntry
<1>3. Guessed' = Guessed /\ \A n : GuessOf(n)' = GuessOf(n)
  BY <1>1, StateKept DEF Guessed, GuessOf, Extrapolates
<1> QED
  BY <1>1, <1>2, <1>3 DEF GuessCurrent

LEMMA GuessInvariance == Spec => []GuessCurrent
<1>1. Init => GuessCurrent
  BY DEF Init, GuessCurrent
<1>2. IInv /\ GuessCurrent /\ [Next]_vars => GuessCurrent'
  <2> SUFFICES ASSUME IInv, GuessCurrent, [Next]_vars PROVE GuessCurrent'
    OBVIOUS
  <2>1. CASE UpdateForces
    <3>1. UNCHANGED step /\ (pc' = "predict" \/ step = 0)
      BY <2>1 DEF UpdateForces
    <3> QED
      BY <3>1 DEF GuessCurrent
  <2>2. CASE StoreInput \/ UNCHANGED vars
    <3>1. /\ UNCHANGED <<setup, runs, step, in>>
          /\ pc' \in {"store", "solve"} => pc \in {"store", "solve"}
      BY <2>2 DEF StoreInput, vars
    <3>2. Guessed' = Guessed /\ \A n : GuessOf(n)' = GuessOf(n)
      BY <3>1, StateKept DEF Guessed, GuessOf, Extrapolates
    <3> QED
      BY <3>1, <3>2 DEF GuessCurrent
  <2>3. CASE Run \/ AdvanceStep \/ PredictorThrow \/ ApplyIC \/ SolveStep \/ EvaluationThrow \/ Postprocess
    <3>1. pc' \notin {"store", "solve"}
      BY <2>3 DEF Run, AdvanceStep, PredictorThrow, ApplyIC, SolveStep, EvaluationThrow, Postprocess,
                  EndStep
    <3> QED
      BY <3>1 DEF GuessCurrent
  <2> QED
    BY <2>1, <2>2, <2>3, PredictorGuess DEF Next, Ended
<1> QED
  BY <1>1, <1>2, Invariance, PTL DEF Spec

\* Every solve starts from the converged state of the step before it, or from the line
\* through the two before it, of the same run and with the times that belong to them.
THEOREM StartsFromSolutions == Spec => []PredictorUsesSolutions
<1>1. IInv /\ GuessCurrent => PredictorUsesSolutions
  <2> SUFFICES ASSUME IInv, GuessCurrent, pc = "solve" PROVE PredictorUsesSolutions
    BY DEF PredictorUsesSolutions
  <2>1. step > 0
    BY DEF IInv, Places
  <2> QED
    BY <2>1 DEF GuessCurrent, GuessOf, PredictorUsesSolutions
<1> QED
  BY <1>1, Invariance, GuessInvariance, PTL

-----------------------------------------------------------------------------
(* The recorded trajectory *)

\* The inputs of step k continue from the recorded step before it,
Continues(k) ==
  \A v \in setup.inputs :
    /\ v[1] = "old_state" =>
         Entry(resultIn[k], v) = Entry(resultOut[k - 1], Var("state", v[2]))
    /\ v[1] = "old_forces" /\ v[2] \in Prescribed =>
         Entry(resultIn[k], v) = Entry(resultIn[k - 1], Var("forces", v[2]))

\* and its outputs are those of this run.
OutputsOf(k) ==
  /\ DOMAIN resultOut[k] = {Var("state", n) : n \in setup.outputs} \cup setup.ppout
  /\ \A v \in DOMAIN resultOut[k] :
       resultOut[k][v] = IF v \in setup.ppout THEN Derived(v, k) ELSE Output(v[2], k)

\* So it is for the steps that are over, and half so for the one at hand.
Recorded ==
  /\ pc \in Active \cup {"done"} => \A k \in 1 .. step - 1 : Continues(k) /\ OutputsOf(k)
  /\ pc \in {"solve", "post"} => Continues(step)
  /\ pc = "done" => step = Steps

LEMMA RecordKept ==
  ASSUME UNCHANGED <<setup, runs>>, NEW k
  PROVE  /\ resultIn'[k] = resultIn[k] /\ resultIn'[k - 1] = resultIn[k - 1]
              /\ resultOut'[k - 1] = resultOut[k - 1]
              => Continues(k)' = Continues(k)
         /\ resultOut'[k] = resultOut[k] => OutputsOf(k)' = OutputsOf(k)
<1> USE DEF Prescribed, Timed
<1>1. ASSUME resultIn'[k] = resultIn[k], resultIn'[k - 1] = resultIn[k - 1],
             resultOut'[k - 1] = resultOut[k - 1]
      PROVE  Continues(k)' = Continues(k)
  BY <1>1 DEF Continues
<1>2. ASSUME resultOut'[k] = resultOut[k]
      PROVE  OutputsOf(k)' = OutputsOf(k)
  BY <1>2 DEF OutputsOf, Derived, Output
<1> QED
  BY <1>1, <1>2

\* The inputs that are stored continue from the step before.
LEMMA StoredContinues ==
  ASSUME IInv, StoreInput, step > 0
  PROVE  Continues(step)'
<1>1. /\ pc = "store" /\ UNCHANGED <<setup, runs, step, in, resultOut>>
      /\ resultIn' = [resultIn EXCEPT ![step] = in]
      /\ step \in 0 .. Steps - 1 /\ DOMAIN resultIn = 0 .. Steps - 1
      /\ setup.inputs \subseteq Vars /\ Diagnosed(setup)
  BY TransientAssumption DEF StoreInput, IInv, TypeOK, Setup
<1>2. resultIn'[step] = in /\ resultIn'[step - 1] = resultIn[step - 1]
  BY <1>1
<1>3. ASSUME NEW v \in setup.inputs, v[1] = "old_state"
      PROVE  Entry(in, v) = Entry(resultOut[step - 1], Var("state", v[2]))
  <2>1. v[2] \in Names /\ v = Var("old_state", v[2])
    BY <1>1, <1>3 DEF Vars, Var
  <2>2. v[2] \in setup.outputs
    BY <1>1, <2>1, <1>3 DEF Diagnosed
  <2>3. Has(in, v, StateAt(v[2], step - 1))
    BY <1>1, <1>3, <2>1 DEF IInv, MapCurrent
  <2>4. Has(resultOut[step - 1], Var("state", v[2]), StateAt(v[2], step - 1))
    BY <1>1, <2>2 DEF IInv, PastRecorded, Active
  <2> QED
    BY <2>3, <2>4, HasEntry
<1>4. ASSUME NEW v \in setup.inputs, v[1] = "old_forces", v[2] \in Prescribed
      PROVE  Entry(in, v) = Entry(resultIn[step - 1], Var("forces", v[2]))
  <2>1. v = Var("old_forces", v[2])
    BY <1>1, <1>4 DEF Vars, Var
  <2>2. Has(in, v, ForceAt(v[2], step - 1))
    BY <1>1, <1>4, <2>1 DEF IInv, MapCurrent
  <2>3. Has(resultIn[step - 1], Var("forces", v[2]), ForceAt(v[2], step - 1))
    BY <1>1, <1>4 DEF IInv, PastRecorded, Active
  <2> QED
    BY <2>2, <2>3, HasEntry
<1> QED
  BY <1>1, <1>2, <1>3, <1>4 DEF Continues, Prescribed, Timed

\* The postprocessor completes the outputs of the step.
LEMMA PostOutputs ==
  ASSUME IInv, Postprocess, NEW k, k = step
  PROVE  /\ OutputsOf(k)'
         /\ \A j \in 0 .. Steps - 1 : j # k => resultOut'[j] = resultOut[j]
<1> DEFINE d == [v \in setup.ppout |-> Derived(v, k)]
           o == [v \in {Var("state", n) : n \in setup.outputs} |-> Output(v[2], k)]
<1>1. /\ pc = "post" /\ UNCHANGED <<setup, runs, in, resultIn>>
      /\ resultOut' = [resultOut EXCEPT ![k] = Overlay(resultOut[k], d)]
  BY DEF Postprocess
<1>2. k \in 0 .. Steps - 1 /\ DOMAIN resultOut = 0 .. Steps - 1
  BY <1>1, TransientAssumption DEF IInv, TypeOK
<1>3. resultOut[k] = o
  BY <1>1 DEF IInv, PastRecorded
<1>4. resultOut'[k] = Overlay(o, d)
  BY <1>1, <1>2, <1>3
<1>5. DOMAIN o = {Var("state", n) : n \in setup.outputs} /\ DOMAIN d = setup.ppout
  OBVIOUS
<1>6. /\ \A v \in setup.ppout : d[v] = Derived(v, k)
      /\ \A v \in DOMAIN o : o[v] = Output(v[2], k)
  OBVIOUS
<1>7. \A j \in 0 .. Steps - 1 : j # k => resultOut'[j] = resultOut[j]
  BY <1>1, <1>2
<1> HIDE DEF o, d
<1>8. /\ DOMAIN Overlay(o, d) = DOMAIN o \cup DOMAIN d
      /\ \A v \in DOMAIN o \cup DOMAIN d : Overlay(o, d)[v] = IF v \in DOMAIN d THEN d[v] ELSE o[v]
  BY DEF Overlay
<1>9. OutputsOf(k)'
  <2>1. /\ DOMAIN resultOut'[k] = {Var("state", n) : n \in setup'.outputs} \cup setup'.ppout
        /\ \A v \in DOMAIN resultOut'[k] :
             resultOut'[k][v] = IF v \in setup'.ppout THEN Derived(v, k) ELSE Output(v[2], k)
    BY <1>1, <1>4, <1>5, <1>6, <1>8
  <2> QED
    BY <2>1, <1>1 DEF OutputsOf, Derived, Output
<1> QED
  BY <1>7, <1>9

LEMMA RecordedInvariance == Spec => []Recorded
<1> USE TransientAssumption
<1>1. Init => Recorded
  BY DEF Init, Recorded, Active
<1>2. IInv /\ IInv' /\ Recorded /\ [Next]_vars => Recorded'
  <2> SUFFICES ASSUME IInv, IInv', Recorded, [Next]_vars PROVE Recorded'
    OBVIOUS
  <2>1. /\ step \in Nat /\ DOMAIN resultIn = 0 .. Steps - 1 /\ DOMAIN resultOut = 0 .. Steps - 1
        /\ pc \in Active => step \in 0 .. Steps - 1
    BY DEF IInv, TypeOK, Active
  <2>2. CASE Run
    BY <2>2 DEF Run, Recorded
  <2>3. CASE PredictorThrow \/ EvaluationThrow
    BY <2>3 DEF PredictorThrow, EvaluationThrow, Recorded, Active
  <2>4. CASE AdvanceStep \/ UpdateForces \/ ApplyPredictor \/ UNCHANGED vars
    <3>1. /\ UNCHANGED <<setup, runs, step, resultIn, resultOut>>
          /\ pc' \in Active \cup {"done"} => pc \in Active \cup {"done"}
          /\ pc' \in {"solve", "post"} => pc \in {"solve", "post"}
          /\ pc' = "done" => pc = "done"
      BY <2>4 DEF AdvanceStep, UpdateForces, ApplyPredictor, vars, Active
    <3>2. \A k : Continues(k)' = Continues(k) /\ OutputsOf(k)' = OutputsOf(k)
      BY <3>1, RecordKept
    <3>3. Continues(step)' = Continues(step)
      BY <3>1 DEF Continues, Prescribed, Timed
    <3> QED
      BY <3>1, <3>2, <3>3 DEF Recorded
  <2>5. CASE StoreInput
    <3>1. /\ UNCHANGED <<setup, runs, step, in, resultOut>> /\ pc = "store"
          /\ pc' = IF step = 0 THEN "ic" ELSE "solve"
          /\ resultIn' = [resultIn EXCEPT ![step] = in]
      BY <2>5 DEF StoreInput
    <3>2. ASSUME NEW k \in 1 .. step - 1 PROVE Continues(k)' /\ OutputsOf(k)'
      <4>1. resultIn'[k] = resultIn[k] /\ resultIn'[k - 1] = resultIn[k - 1]
        BY <2>1, <3>1 DEF Active
      <4>2. Continues(k) /\ OutputsOf(k)
        BY <3>1 DEF Recorded, Active
      <4> QED
        BY <3>1, <4>1, <4>2, RecordKept
    <3>3. pc' = "solve" => Continues(step)'
      BY <2>1, <2>5, <3>1, StoredContinues
    <3> QED
      BY <3>1, <3>2, <3>3 DEF Recorded
  <2>6. CASE ApplyIC
    <3>1. step' = 1 /\ pc' \in {"done", "advance"} /\ (pc' = "done" => step' = Steps)
      BY <2>6 DEF ApplyIC, EndStep, IInv, Places
    <3> QED
      BY <3>1 DEF Recorded
  <2>7. CASE SolveStep
    <3>1. /\ UNCHANGED <<setup, runs, step, in, resultIn>> /\ pc = "solve" /\ pc' = "post"
          /\ \A j \in 0 .. Steps - 1 : j # step => resultOut'[j] = resultOut[j]
      BY <2>1, <2>7 DEF SolveStep
    <3>2. step \in 0 .. Steps - 1 /\ step > 0
      BY <2>1, <3>1 DEF Active, IInv, Places
    <3>3. ASSUME NEW k \in 1 .. step PROVE Continues(k)' = Continues(k)
      BY <3>1, <3>2, RecordKept
    <3>4. ASSUME NEW k \in 1 .. step - 1 PROVE OutputsOf(k)' = OutputsOf(k)
      BY <3>1, <3>2, RecordKept
    <3>5. \A k \in 1 .. step : Continues(k)
      <4>1. \A k \in 1 .. step - 1 : Continues(k)
        BY <3>1 DEF Recorded, Active
      <4>2. \A k : k = step => Continues(k)
        BY <3>1 DEF Recorded
      <4> QED
        BY <3>2, <4>1, <4>2
    <3>6. ASSUME NEW k, k = step PROVE Continues(k)'
      BY <3>2, <3>3, <3>5, <3>6
    <3>7. Continues(step)'
      BY <3>1, <3>6 DEF Continues
    <3> QED
      BY <3>1, <3>2, <3>3, <3>4, <3>5, <3>7 DEF Recorded, Active
  <2>8. CASE Postprocess
    <3>1. /\ UNCHANGED <<setup, runs, in, resultIn>> /\ pc = "post" /\ EndStep
          /\ \A j \in 0 .. Steps - 1 : j # step => resultOut'[j] = resultOut[j]
          /\ \A k : k = step => OutputsOf(k)'
      BY <2>8, PostOutputs DEF Postprocess
    <3>2. step \in 0 .. Steps - 1 /\ step > 0
      BY <2>1, <3>1 DEF Active, IInv, Places
    <3>3. \A k \in 1 .. step : Continues(k)
      <4>1. \A k \in 1 .. step - 1 : Continues(k)
        BY <3>1 DEF Recorded, Active
      <4>2. \A k : k = step => Continues(k)
        BY <3>1 DEF Recorded
      <4> QED
        BY <3>2, <4>1, <4>2
    <3>4. ASSUME NEW k \in 1 .. step PROVE Continues(k)'
      BY <3>1, <3>2, <3>3, RecordKept
    <3>5. ASSUME NEW k \in 1 .. step - 1 PROVE OutputsOf(k)'
      <4>1. OutputsOf(k)
        BY <3>1 DEF Recorded, Active
      <4> QED
        BY <3>1, <3>2, <4>1, RecordKept
    <3>6. step' = step + 1 /\ pc' \in {"done", "advance"} /\ (pc' = "done" => step' = Steps)
      BY <3>1 DEF EndStep
    <3>7. ASSUME NEW k \in 1 .. step' - 1 PROVE Continues(k)' /\ OutputsOf(k)'
      BY <3>1, <3>2, <3>4, <3>5, <3>6
    <3> QED
      BY <3>6, <3>7 DEF Recorded
  <2> QED
    BY <2>2, <2>3, <2>4, <2>5, <2>6, <2>7, <2>8 DEF Next, Ended
<1> QED
  BY <1>1, <1>2, Invariance, PTL DEF Spec

\* What a finished run has recorded is one trajectory of this run: every step from the
\* first on continues from the recorded step before it, and has its own outputs.  The
\* inputs recorded for step 0 are left out.
THEOREM RecordsOneTrajectory == Spec => []RecordsTrajectory
<1>1. Recorded => RecordsTrajectory
  BY DEF Recorded, Continues, OutputsOf, RecordsTrajectory
<1> QED
  BY <1>1, RecordedInvariance, PTL

=============================================================================
