---------------------------- MODULE ImplicitMap ----------------------------
(***************************************************************************)
(* What an implicit update promises its caller: from a trial state it      *)
(* returns a state at which every element of the batch has converged, or   *)
(* it throws.                                                              *)
(***************************************************************************)
CONSTANTS
  Batch,      \* elements of the batch
  Points,     \* values the unknowns of an element may take
  Good(_, _)  \* a point is converged with respect to the one started from

VARIABLES phase, from, to

vars == <<phase, from, to>>

State == [Batch -> Points]

Init == phase = "idle" /\ from \in State /\ to = from

Call(p) ==
  /\ phase # "called"
  /\ phase' = "called"
  /\ from' = p /\ to' = p

Return(q) ==
  /\ phase = "called"
  /\ \A b \in Batch : Good(q[b], from[b])
  /\ phase' = "returned"
  /\ to' = q
  /\ UNCHANGED from

Throw == phase = "called" /\ phase' = "threw" /\ UNCHANGED <<from, to>>

Next == Throw \/ \E p \in State : Call(p) \/ Return(p)

Spec == Init /\ [][Next]_vars

=============================================================================
