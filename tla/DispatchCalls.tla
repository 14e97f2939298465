---------------------------- MODULE DispatchCalls ----------------------------
(***************************************************************************)
(* What both modes of WorkDispatcher have: a caller that calls run() again *)
(* and again, and the members and variables that a call works with.        *)
(***************************************************************************)
EXTENDS WorkScheduler

CONSTANTS
  Totals,        \* numbers of batches a generator may hold
  MaxRuns,       \* bound on the calls to run()
  WorkMayThrow   \* the generator, preprocess, do_work or postprocess may throw

ASSUME CallsAssumption ==
  /\ Totals \subseteq Nat \ {0}   \* SliceGenerator asserts start < stop
  /\ MaxRuns \in Nat
  /\ WorkMayThrow \in BOOLEAN

VARIABLES
  pc,       \* where the thread is that calls run()
  run,      \* runs started
  total,    \* batches the current generator holds
  offset,   \* WorkGenerator::_offset
  results   \* the work whose value is in _results: numbers of tasks in
            \* asynchronous mode, spans of batches in order in synchronous mode

=============================================================================
