--------------------------- MODULE BatchDispatch ---------------------------
(***************************************************************************)
(* What WorkDispatcher::run promises its caller, whatever the scheduler,   *)
(* the number of devices and the mode: each batch of the generator is      *)
(* worked on exactly once, and the call returns only after all of them.    *)
(***************************************************************************)
EXTENDS Naturals

CONSTANT Totals   \* numbers of batches a generator may hold

VARIABLES
  phase,    \* what the caller sees of the dispatcher
  batches,  \* the batches of the last call
  done      \* those whose work is done

vars == <<phase, batches, done>>

Phase == {"idle", "running", "returned", "failed", "closing", "closed", "crashed"}

Init == phase = "idle" /\ batches = {} /\ done = {}

\* A call that threw may be followed by another one.
Call(t) ==
  /\ phase \in {"idle", "failed"}
  /\ phase' = "running"
  /\ batches' = 0 .. t - 1
  /\ done' = {}

\* Some batches are worked on, none of them for the second time.
DoWork(S) ==
  /\ phase \in {"running", "failed", "closing"}
  /\ S # {}
  /\ S \subseteq batches \ done
  /\ done' = done \cup S
  /\ UNCHANGED <<phase, batches>>

Return ==
  /\ phase = "running"
  /\ done = batches
  /\ phase' = "returned"
  /\ UNCHANGED <<batches, done>>

BackToIdle == phase = "returned" /\ phase' = "idle" /\ UNCHANGED <<batches, done>>

\* The call throws; work already handed out may still be done.
Throw == phase = "running" /\ phase' = "failed" /\ UNCHANGED <<batches, done>>

Close == phase \in {"idle", "failed"} /\ phase' = "closing" /\ UNCHANGED <<batches, done>>

Closed == phase = "closing" /\ phase' = "closed" /\ UNCHANGED <<batches, done>>

Crash == phase \notin {"closed", "crashed"} /\ phase' = "crashed" /\ UNCHANGED <<batches, done>>

Next ==
  \/ \E t \in Totals : Call(t)
  \/ \E S \in SUBSET batches : DoWork(S)
  \/ Return \/ BackToIdle \/ Throw \/ Close \/ Closed \/ Crash

Spec == Init /\ [][Next]_vars

=============================================================================
