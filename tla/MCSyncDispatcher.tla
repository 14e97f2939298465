-------------------------- MODULE MCSyncDispatcher --------------------------
(* Instances of SyncDispatcher for TLC. *)
EXTENDS SyncDispatcher

Two23 == <<2, 3>>
Two1 == <<1, 1>>

=============================================================================
