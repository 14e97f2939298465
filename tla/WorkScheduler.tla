--------------------------- MODULE WorkScheduler ---------------------------
(***************************************************************************)
(* The scheduler half of the dispatch protocol: WorkScheduler with its     *)
(* StaticHybridScheduler, SimpleScheduler and SimpleMPIScheduler           *)
(* implementations.  The three differ in the number of devices they hold   *)
(* and in whether dispatched_work checks the capacity, so one model with   *)
(* two parameters stands for them.                                         *)
(*                                                                         *)
(* A scheduler is a passive object: its operations run in the threads of   *)
(* the dispatcher, each one a critical section of WorkScheduler::_mutex.   *)
(* This module gives the operations; WorkDispatcher calls them.            *)
(***************************************************************************)
EXTENDS Integers

CONSTANTS
  NDevices,      \* length of the list _devices
  BatchSize,     \* DeviceStatus::batch_size, by position in the list
  Capacity,      \* DeviceStatus::capacity
  Priority,      \* DeviceStatus::priority, or the custom availability
  Lowest,        \* std::numeric_limits<double>::lowest()
  ChecksCapacity \* StaticHybridScheduler asserts load <= capacity

\* Devices are unique (StaticHybridScheduler::setup), so the position names one.
Device == 1 .. NDevices

ASSUME DeviceAssumption ==
  /\ NDevices \in Nat \ {0}
  /\ BatchSize \in [Device -> Nat]
  /\ Capacity \in [Device -> Nat]
  /\ Lowest \in Int
  /\ Priority \in [Device -> Int]
  /\ \A d \in Device : Priority[d] >= Lowest
  /\ ChecksCapacity \in BOOLEAN

VARIABLE load   \* DeviceStatus::load

SchedulerTypeOK == load \in [Device -> Nat]

SchedulerInit == load = [d \in Device |-> 0]

\* Mutation of HasRoom: the batch about to be added is not counted.
HasRoomBefore(d) == load[d] <= Capacity[d]

\* The device could take one more full batch.
HasRoom(d) == load[d] + BatchSize[d] <= Capacity[d]

SomeRoom == \E d \in Device : HasRoom(d)

\* The scan of the list ends on d.  The running maximum is never raised, so a
\* later device replaces an earlier one whenever its availability is above the
\* lowest double.
Picks(d) ==
  /\ HasRoom(d)
  /\ Priority[d] > Lowest \/ \A e \in Device : e < d => ~HasRoom(e)
  /\ \A e \in Device : e > d /\ HasRoom(e) => Priority[e] <= Lowest

\* Mutation of DispatchedWork: counts the batch size asked for, not the batches cut off.
DispatchedFullBatch(d, m) == load' = [load EXCEPT ![d] = @ + BatchSize[d]]

\* dispatched_work: the load grows first and is compared with the capacity after.
DispatchedWork(d, m) == load' = [load EXCEPT ![d] = @ + m]

Oversubscribes(d, m) == ChecksCapacity /\ load[d] + m > Capacity[d]

\* completed_work, when it does not assert
CompletedWork(d, m) ==
  /\ load[d] >= m
  /\ load' = [load EXCEPT ![d] = @ - m]

Underflows(d, m) == load[d] < m

AllWorkCompleted == \A d \in Device : load[d] = 0

=============================================================================
