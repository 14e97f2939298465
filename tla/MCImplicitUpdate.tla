-------------------------- MODULE MCImplicitUpdate --------------------------
(* Instances of ImplicitUpdate for TLC. *)
EXTENDS ImplicitUpdate

\* A root, a point away from it, and one whose residual overflows
Norms3 == <<0, 16, NaN>>

=============================================================================
