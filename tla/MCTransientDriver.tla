------------------------- MODULE MCTransientDriver -------------------------
(***************************************************************************)
(* Setups of TransientDriver for TLC: an implicit variable a, a second     *)
(* state b, a driving force f, and a postprocessor that adds c or replaces *)
(* a.                                                                      *)
(***************************************************************************)
EXTENDS TransientDriver

MCNames == {"a", "b", "c"}
MCForces == {"t", "f"}

Postprocessors ==
  { [ppin |-> {}, ppout |-> {}],
    [ppin |-> {Var("state", "a")}, ppout |-> {Var("state", "c")}],
    [ppin |-> {Var("state", "a")}, ppout |-> {Var("state", "a")}] }

SetupsOf(always, maybe, warms) ==
  { [inputs |-> always \cup i, outputs |-> o, driven |-> d, ics |-> c, predictor |-> p,
     ppin |-> pp.ppin, ppout |-> pp.ppout, warm |-> w] :
      i \in SUBSET maybe, o \in {{"a"}, {"a", "b"}}, d \in {{}, {"f"}}, c \in {{}, {"a"}},
      p \in {"PREVIOUS_STATE", "LINEAR_EXTRAPOLATION"}, pp \in Postprocessors, w \in warms }

Clock == {Var("forces", "t")}
Optional == {Var("state", "a"), Var("old_state", "a"), Var("state", "b"), Var("forces", "f"),
             Var("old_forces", "f"), Var("old_forces", "t")}

\* Models that take the time
TimedSetups == {s \in SetupsOf(Clock, Optional, {{}, {"b"}}) : Diagnosed(s)}

\* Models that may do without
UntimedSetups ==
  {s \in SetupsOf({}, {Var("state", "a"), Var("old_state", "a"), Var("forces", "f")}, {{}}) :
     Diagnosed(s)}

AllSetups == TimedSetups \cup UntimedSetups

=============================================================================
