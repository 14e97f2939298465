--------------------------- MODULE SyncDispatcher ---------------------------
(***************************************************************************)
(* WorkDispatcher in synchronous mode (run_sync).  There are no pool       *)
(* threads and the scheduler is not told of dispatch or completion, so its *)
(* loads stay zero: every batch goes to the device it would pick first,    *)
(* and a device whose capacity is smaller than its batch size blocks the   *)
(* only thread there is.                                                   *)
(***************************************************************************)
EXTENDS DispatchCalls, Sequences, FiniteSets

VARIABLE current   \* the work being done: device, first batch, batches

syncVars == <<load, pc, run, total, offset, current, results>>

NoWork == [dev |-> 0, lo |-> 0, m |-> 0]

SyncInit ==
  /\ SchedulerInit
  /\ pc = "idle" /\ run = 0 /\ total = 0 /\ offset = 0
  /\ current = NoWork /\ results = <<>>

\* Mutation of SyncStartRun: results of an earlier call are kept.
SyncStartRunUncleared(t) ==
  /\ pc \in {"idle", "threw"}
  /\ run < MaxRuns
  /\ run' = run + 1 /\ total' = t /\ offset' = 0
  /\ pc' = "loop"
  /\ UNCHANGED <<load, current, results>>

\* run(); an exception of an earlier call left nothing behind but its results.
SyncStartRun(t) ==
  /\ pc \in {"idle", "threw"}
  /\ run < MaxRuns
  /\ run' = run + 1 /\ total' = t /\ offset' = 0
  /\ results' = <<>>
  /\ pc' = "loop"
  /\ UNCHANGED <<load, current>>

\* Mutation of SyncSchedule: the work is cut off before the offset has moved on.
SyncScheduleTwice(d) ==
  /\ pc = "loop"
  /\ offset < total
  /\ Picks(d)
  /\ BatchSize[d] > 0
  /\ LET left == total - offset
         m == IF BatchSize[d] < left THEN BatchSize[d] ELSE left
     IN  /\ current' = [dev |-> d, lo |-> IF offset = 0 THEN 0 ELSE offset - 1, m |-> m]
         /\ offset' = offset + m
  /\ pc' = "work"
  /\ UNCHANGED <<load, run, total, results>>

\* schedule_work returns at once; "Scheduler returned a batch size of 0", or the
\* generator cuts the work off.
SyncSchedule(d) ==
  /\ pc = "loop"
  /\ offset < total
  /\ Picks(d)
  /\ LET left == total - offset
         m == IF BatchSize[d] < left THEN BatchSize[d] ELSE left
     IN  /\ current' = IF m = 0 THEN current ELSE [dev |-> d, lo |-> offset, m |-> m]
         /\ offset' = offset + m
         /\ pc' = IF m = 0 THEN "threw" ELSE "work"
  /\ UNCHANGED <<load, run, total, results>>

\* preprocess, do_work, postprocess and push_back
SyncDoWork ==
  /\ pc = "work"
  /\ results' = Append(results, current)
  /\ pc' = "loop"
  /\ UNCHANGED <<load, run, total, offset, current>>

\* Mutation of WorkThrow: the work is tried again.
WorkThrowRetried ==
  /\ pc = "work"
  /\ WorkMayThrow
  /\ offset' = current.lo
  /\ pc' = "loop"
  /\ UNCHANGED <<load, run, total, current, results>>

\* One of them throws: the exception goes to the caller of run().
WorkThrow ==
  /\ pc = "work"
  /\ WorkMayThrow
  /\ pc' = "threw"
  /\ UNCHANGED <<load, run, total, offset, current, results>>

\* The generator is exhausted: reduce and return.
SyncReturn ==
  /\ pc = "loop"
  /\ offset >= total
  /\ pc' = "returned"
  /\ UNCHANGED <<load, run, total, offset, current, results>>

BackToIdle ==
  /\ pc = "returned"
  /\ pc' = "idle"
  /\ UNCHANGED <<load, run, total, offset, current, results>>

\* The caller makes no more calls.
SyncEnded == pc \in {"idle", "threw"} /\ run = MaxRuns /\ UNCHANGED syncVars

SyncNext ==
  \/ \E t \in Totals : SyncStartRun(t)
  \/ \E d \in Device : SyncSchedule(d)
  \/ SyncDoWork \/ WorkThrow \/ SyncReturn \/ BackToIdle
  \/ SyncEnded

SyncSpec == SyncInit /\ [][SyncNext]_syncVars

\* The thread that runs a call is scheduled; the caller need not call again.
SyncFairSpec ==
  SyncSpec /\ WF_syncVars((\E d \in Device : SyncSchedule(d)) \/ SyncDoWork \/ WorkThrow \/ SyncReturn \/ BackToIdle)

-----------------------------------------------------------------------------
(* Properties *)

SyncSpan(w) == w.lo .. w.lo + w.m - 1

\* The results handed to reduce are in the order of the batches, without a gap or
\* an overlap, also when the previous call threw after part of its work.
InOrder ==
  pc = "returned" =>
    /\ results # <<>>
    /\ results[1].lo = 0
    /\ \A i \in 1 .. Len(results) - 1 : results[i + 1].lo = results[i].lo + results[i].m
    /\ results[Len(results)].lo + results[Len(results)].m = total

\* Every call returns or throws: a batch that fails is not tried for ever.
RunEnds == pc = "loop" ~> pc \in {"returned", "threw"}

-----------------------------------------------------------------------------
(* Refinement *)

syncPhase ==
  CASE pc \in {"loop", "work"} -> "running"
    [] pc = "returned" -> "returned"
    [] pc = "threw" -> "failed"
    [] OTHER -> "idle"

syncBatches == 0 .. total - 1

worked == UNION {SyncSpan(results[i]) : i \in DOMAIN results}

SyncPromise == INSTANCE BatchDispatch WITH
  phase <- syncPhase, batches <- syncBatches, done <- worked

\* The synchronous loop keeps the same promise as the thread pool.
SyncImplementsBatchDispatch == SyncPromise!Spec

=============================================================================
