-------------------------- MODULE MCWorkDispatcher --------------------------
(* Instances of WorkDispatcher for TLC: the device lists of the runs. *)
EXTENDS WorkDispatcher

\* Two devices alike, and two that differ in batch size, capacity and priority
Two1 == <<1, 1>>
Two21 == <<2, 1>>

Two32 == <<3, 2>>

=============================================================================
