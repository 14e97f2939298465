------------------------- MODULE MCModelEvaluation -------------------------
(* Instances of ModelEvaluation: a state variable, a force and one output. *)
EXTENDS ModelEvaluation

\* value, dvalue, and all of value, first and second derivatives
MCRequests == {{0}, {1}, {0, 1, 2}}

=============================================================================
