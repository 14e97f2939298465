--------------------------- MODULE WorkDispatcher ---------------------------
(***************************************************************************)
(* WorkDispatcher in asynchronous mode, as ModelDriver uses it: a main     *)
(* thread that constructs the pool, runs the dispatching loop of run_async *)
(* any number of times and destroys the pool, and one pool thread for each *)
(* device.  Every critical section of _qmutex or of the scheduler's mutex  *)
(* is one action; so is a stretch of code that touches only the thread's   *)
(* own state.  The two accesses the code leaves unsynchronised, the vector *)
(* _results and ModelDriver's map _models, are split in two actions each.  *)
(***************************************************************************)
EXTENDS DispatchCalls, Sequences, FiniteSets

CONSTANT ThreadInit   \* a thread_init functor was given (ModelDriver gives one)

ASSUME DispatcherAssumption == ThreadInit \in BOOLEAN

\* pc is where the main thread is, and run is 0 while the pool is being constructed.
VARIABLES
  begin,     \* offset at the begin of this run
  first,     \* tasks that were created before this run
  work,      \* tasks: device, first batch, batches, and the place of its result
  tasks,     \* _tasks, a queue of task numbers for each device
  stop,      \* _stop
  thread,    \* where each pool thread is
  cur,       \* the task each pool thread took, 0 if none
  finished,  \* tasks whose do_work has returned
  reserved,  \* _results.capacity(), kept by clear()
  stale,     \* threads holding an address into a freed _results buffer
  models,    \* keys of ModelDriver::_models
  raced      \* threads whose insertion into _models overlapped another one

callVars == <<run, total, begin, first>>
mainVars == <<pc, callVars, offset, work, stop>>
poolVars == <<tasks, thread, cur, finished>>
unsyncVars == <<results, reserved, stale, models, raced>>
vars == <<load, mainVars, poolVars, unsyncVars>>

Task == [dev : Device, lo : Nat, m : Nat \ {0}, slot : Nat]

Alive == pc # "terminated"

-----------------------------------------------------------------------------
(* Condition variables *)

\* _thread_condition.notify_all()
NotifyThreads ==
  thread' = [d \in Device |-> IF thread[d] = "asleep" THEN "check" ELSE thread[d]]

\* WorkScheduler::_condition.notify_all(): the main thread is its only waiter.
NotifyMain ==
  pc' = CASE pc = "scheduleAsleep" -> "schedule"
          [] pc = "waitAsleep" -> "wait"
          [] OTHER -> pc

-----------------------------------------------------------------------------
(* Main thread *)

Init ==
  /\ SchedulerInit
  /\ pc = IF ThreadInit THEN "init" ELSE "ready"
  /\ run = 0 /\ total = 0 /\ offset = 0 /\ begin = 0 /\ first = 0 /\ work = <<>>
  /\ tasks = [d \in Device |-> <<>>]
  /\ stop = FALSE
  /\ thread = [d \in Device |-> "check"]
  /\ cur = [d \in Device |-> 0]
  /\ finished = {} /\ results = {} /\ reserved = 0 /\ stale = {}
  /\ models = {} /\ raced = {}

\* Mutation of InitDispatch: the scheduler is not told of the initialisation task.
InitDispatchUncounted ==
  /\ pc = "init"
  /\ Len(work) < NDevices
  /\ work' = Append(work, [dev |-> Len(work) + 1, lo |-> offset, m |-> 1, slot |-> 0])
  /\ pc' = "push"
  /\ offset' = offset + 1
  /\ UNCHANGED <<load, callVars, stop, poolVars, unsyncVars>>

\* init_thread_pool hands each thread one initialisation task that counts as one
\* batch of load.  A throw from the constructor finds joinable threads.
InitDispatch ==
  /\ pc = "init"
  /\ Len(work) < NDevices
  /\ LET d == Len(work) + 1 IN
       /\ work' = Append(work, [dev |-> d, lo |-> offset, m |-> 1, slot |-> 0])
       /\ DispatchedWork(d, 1)
       /\ pc' = IF Oversubscribes(d, 1) THEN "terminated" ELSE "push"
  /\ offset' = offset + 1
  /\ UNCHANGED <<callVars, stop, poolVars, unsyncVars>>

InitDispatched ==
  /\ pc = "init"
  /\ Len(work) = NDevices
  /\ pc' = "wait"
  /\ UNCHANGED <<load, callVars, offset, work, stop, poolVars, unsyncVars>>

\* run() with a generator of t batches clears _results.  After a run that threw, tasks of
\* it may still be in flight, each with its place in _results: they keep their numbers, and
\* so do their batches.
StartRun(t) ==
  /\ run < MaxRuns
  /\ run' = run + 1
  /\ \/ pc = "ready" /\ work' = <<>> /\ finished' = {} /\ first' = 0 /\ begin' = 0
     \/ pc = "threw" /\ UNCHANGED <<work, finished>> /\ first' = Len(work) /\ begin' = offset
  /\ offset' = begin' /\ total' = begin' + t
  /\ results' = {}
  /\ pc' = "schedule"
  /\ UNCHANGED <<load, tasks, thread, cur, stop, reserved, stale, models, raced>>

\* schedule_work finds no room and waits; no notification is lost because the
\* test and the wait are one critical section.
ScheduleSleep ==
  /\ pc = "schedule"
  /\ offset < total
  /\ ~SomeRoom
  /\ pc' = "scheduleAsleep"
  /\ UNCHANGED <<load, callVars, offset, work, stop, poolVars, unsyncVars>>

\* schedule_work names device d, then WorkGenerator::next cuts the task off.
Schedule(d) ==
  /\ pc = "schedule"
  /\ offset < total
  /\ Picks(d)
  /\ BatchSize[d] > 0
  /\ LET left == total - offset
         m == IF BatchSize[d] < left THEN BatchSize[d] ELSE left
     IN  /\ work' = Append(work, [dev |-> d, lo |-> offset, m |-> m, slot |-> Len(work) - first])
         /\ offset' = offset + m
  /\ pc' = "resize"
  /\ UNCHANGED <<load, callVars, stop, poolVars, unsyncVars>>

\* "Scheduler returned a batch size of 0", or the generator throws: the loop is left
\* with work in flight.
ScheduleThrow(d) ==
  /\ pc = "schedule"
  /\ offset < total
  /\ Picks(d)
  /\ BatchSize[d] = 0 \/ WorkMayThrow
  /\ pc' = "threw"
  /\ UNCHANGED <<load, callVars, offset, work, stop, poolVars, unsyncVars>>

\* Mutation of AllDispatched: run_async does not wait for completion.
AllDispatchedNoWait ==
  /\ pc = "schedule"
  /\ offset >= total
  /\ pc' = "returned"
  /\ UNCHANGED <<load, callVars, offset, work, stop, poolVars, unsyncVars>>

AllDispatched ==
  /\ pc = "schedule"
  /\ offset >= total
  /\ pc' = "wait"
  /\ UNCHANGED <<load, callVars, offset, work, stop, poolVars, unsyncVars>>

\* _results.resize(size + 1) within the capacity leaves the elements in place.
ResizeInPlace ==
  /\ pc = "resize"
  /\ Len(work) - first <= reserved
  /\ pc' = "dispatch"
  /\ UNCHANGED <<load, callVars, offset, work, stop, poolVars, unsyncVars>>

\* Beyond it the elements move to a new buffer ...
GrowBegin ==
  /\ pc = "resize"
  /\ Len(work) - first > reserved
  /\ pc' = "growing"
  /\ UNCHANGED <<load, callVars, offset, work, stop, poolVars, unsyncVars>>

\* ... twice as large, and the old buffer is freed under the threads that have
\* computed an address in it.
GrowEnd ==
  /\ pc = "growing"
  /\ reserved' = reserved + (IF reserved = 0 THEN 1 ELSE reserved)
  /\ stale' = stale \cup {d \in Device : thread[d] = "storing"}
  /\ pc' = "dispatch"
  /\ UNCHANGED <<load, callVars, offset, work, stop, poolVars, results, models, raced>>

\* dispatched_work for the task just created
Dispatch ==
  /\ pc = "dispatch"
  /\ LET t == work[Len(work)] IN
       /\ DispatchedWork(t.dev, t.m)
       /\ pc' = IF Oversubscribes(t.dev, t.m) THEN "threw" ELSE "push"
  /\ UNCHANGED <<callVars, offset, work, stop, poolVars, unsyncVars>>

\* Mutation of Push: the notification is forgotten.
PushSilently ==
  /\ pc = "push"
  /\ tasks' = [tasks EXCEPT ![work[Len(work)].dev] = Append(@, Len(work))]
  /\ pc' = "schedule"
  /\ UNCHANGED <<load, callVars, offset, work, stop, thread, cur, finished, unsyncVars>>

Push ==
  /\ pc = "push"
  /\ tasks' = [tasks EXCEPT ![work[Len(work)].dev] = Append(@, Len(work))]
  /\ pc' = "notify"
  /\ UNCHANGED <<load, callVars, offset, work, stop, thread, cur, finished, unsyncVars>>

Notify ==
  /\ pc = "notify"
  /\ NotifyThreads
  /\ pc' = IF run = 0 THEN "init" ELSE "schedule"
  /\ UNCHANGED <<load, callVars, offset, work, stop, tasks, cur, finished, unsyncVars>>

\* wait_for_completion returns: the constructor is done, or run_async reduces.
WaitForCompletion ==
  /\ pc = "wait"
  /\ AllWorkCompleted
  /\ pc' = IF run = 0 THEN "ready" ELSE "returned"
  /\ UNCHANGED <<load, callVars, offset, work, stop, poolVars, unsyncVars>>

WaitSleep ==
  /\ pc = "wait"
  /\ ~AllWorkCompleted
  /\ pc' = "waitAsleep"
  /\ UNCHANGED <<load, callVars, offset, work, stop, poolVars, unsyncVars>>

Return ==
  /\ pc = "returned"
  /\ pc' = "ready"
  /\ UNCHANGED <<load, callVars, offset, work, stop, poolVars, unsyncVars>>

\* The driver goes away, after a run or unwinding a throw: its members die in
\* reverse order of declaration, _models before _dispatcher.
DestroyModels ==
  /\ pc \in {"ready", "threw"}
  /\ models' = {}
  /\ pc' = "stop"
  /\ UNCHANGED <<load, callVars, offset, work, stop, poolVars,
                 results, reserved, stale, raced>>

SetStop ==
  /\ pc = "stop"
  /\ stop' = TRUE
  /\ pc' = "stopNotify"
  /\ UNCHANGED <<load, callVars, offset, work, poolVars, unsyncVars>>

StopNotify ==
  /\ pc = "stopNotify"
  /\ NotifyThreads
  /\ pc' = "join"
  /\ UNCHANGED <<load, callVars, offset, work, stop, tasks, cur, finished, unsyncVars>>

Join ==
  /\ pc = "join"
  /\ \A d \in Device : thread[d] = "exited"
  /\ pc' = "joined"
  /\ UNCHANGED <<load, callVars, offset, work, stop, poolVars, unsyncVars>>

MainStep ==
  \/ InitDispatch \/ InitDispatched
  \/ \E t \in Totals : StartRun(t)
  \/ ScheduleSleep
  \/ \E d \in Device : Schedule(d)
  \/ \E d \in Device : ScheduleThrow(d)
  \/ AllDispatched
  \/ ResizeInPlace \/ GrowBegin \/ GrowEnd
  \/ Dispatch \/ Push \/ Notify
  \/ WaitForCompletion \/ WaitSleep \/ Return
  \/ DestroyModels \/ SetStop \/ StopNotify \/ Join

-----------------------------------------------------------------------------
(* Pool threads *)

\* thread_pool_main: test, wait and pop are critical sections of _qmutex.
Take(d) ==
  /\ Alive
  /\ thread[d] = "check"
  /\ tasks[d] # <<>>
  /\ cur' = [cur EXCEPT ![d] = Head(tasks[d])]
  /\ tasks' = [tasks EXCEPT ![d] = Tail(@)]
  /\ thread' = [thread EXCEPT ![d] = IF run = 0 THEN "init" ELSE "work"]
  /\ UNCHANGED <<load, mainVars, finished, unsyncVars>>

Sleep(d) ==
  /\ Alive
  /\ thread[d] = "check"
  /\ tasks[d] = <<>>
  /\ ~stop
  /\ thread' = [thread EXCEPT ![d] = "asleep"]
  /\ UNCHANGED <<load, mainVars, tasks, cur, finished, unsyncVars>>

\* Mutation of Exit: the loop is left with tasks in the queue.
ExitEarly(d) ==
  /\ Alive
  /\ thread[d] = "check"
  /\ stop
  /\ thread' = [thread EXCEPT ![d] = "exited"]
  /\ UNCHANGED <<load, mainVars, tasks, cur, finished, unsyncVars>>

\* Mutation of Exit: the loop is never left.
ExitNever(d) ==
  /\ Alive
  /\ thread[d] = "check"
  /\ tasks[d] = <<>>
  /\ stop
  /\ UNCHANGED vars

Exit(d) ==
  /\ Alive
  /\ thread[d] = "check"
  /\ tasks[d] = <<>>
  /\ stop
  /\ thread' = [thread EXCEPT ![d] = "exited"]
  /\ UNCHANGED <<load, mainVars, tasks, cur, finished, unsyncVars>>

\* thread_init: the thread has cloned its model and starts to insert it into the
\* map, beside any other thread that does.
InsertBegin(d) ==
  /\ Alive
  /\ thread[d] = "init"
  /\ LET others == {e \in Device : thread[e] = "inserting"} IN
       raced' = IF others = {} THEN raced ELSE raced \cup others \cup {d}
  /\ thread' = [thread EXCEPT ![d] = "inserting"]
  /\ UNCHANGED <<load, mainVars, tasks, cur, finished, results, reserved, stale, models>>

\* An insertion that raced another one may be lost.
InsertEnd(d) ==
  /\ Alive
  /\ thread[d] = "inserting"
  /\ \/ models' = models \cup {d}
     \/ d \in raced /\ models' = models
  /\ raced' = raced \ {d}
  /\ finished' = finished \cup {cur[d]}
  /\ thread' = [thread EXCEPT ![d] = "complete"]
  /\ UNCHANGED <<load, mainVars, tasks, cur, results, reserved, stale>>

\* preprocess, do_work (with this thread's model) and postprocess
DoWork(d) ==
  /\ Alive
  /\ thread[d] = "work"
  /\ ThreadInit => d \in models
  /\ finished' = finished \cup {cur[d]}
  /\ thread' = [thread EXCEPT ![d] = "store"]
  /\ UNCHANGED <<load, mainVars, tasks, cur, unsyncVars>>

\* _results[i] = result reads the buffer's address ...
StoreBegin(d) ==
  /\ Alive
  /\ thread[d] = "store"
  /\ thread' = [thread EXCEPT ![d] = "storing"]
  /\ UNCHANGED <<load, mainVars, tasks, cur, finished, unsyncVars>>

\* _results.size()
Size == Len(work) - first - (IF pc \in {"resize", "growing"} THEN 1 ELSE 0)

\* ... and writes through it: into the buffer, where another result may be, into one being
\* moved from (before or after the element has moved), into a freed one, or behind the last
\* element, where clear() has destroyed one.
StoreEnd(d) ==
  /\ Alive
  /\ thread[d] = "storing"
  /\ LET slot == work[cur[d]].slot
     IN  \/ /\ d \notin stale /\ slot < Size
            /\ results' = {i \in results : work[i].slot # slot} \cup {cur[d]}
         \/ (d \in stale \/ pc = "growing" \/ slot >= Size) /\ results' = results
  /\ stale' = stale \ {d}
  /\ thread' = [thread EXCEPT ![d] = "complete"]
  /\ UNCHANGED <<load, mainVars, tasks, cur, finished, reserved, models, raced>>

\* completed_work, then back to the queue
Complete(d) ==
  /\ Alive
  /\ thread[d] = "complete"
  /\ CompletedWork(d, work[cur[d]].m)
  /\ NotifyMain
  /\ cur' = [cur EXCEPT ![d] = 0]
  /\ thread' = [thread EXCEPT ![d] = "check"]
  /\ UNCHANGED <<callVars, offset, work, stop, tasks, finished, unsyncVars>>

\* An exception leaves thread_pool_main, or a model is missing from the map: the
\* process ends.
Terminate(d) ==
  /\ Alive
  /\ \/ thread[d] \in {"init", "work"} /\ WorkMayThrow
     \/ thread[d] = "work" /\ ThreadInit /\ d \notin models
     \/ thread[d] = "complete" /\ Underflows(d, work[cur[d]].m)
  /\ pc' = "terminated"
  /\ UNCHANGED <<load, callVars, offset, work, stop, poolVars, unsyncVars>>

ThreadStep(d) ==
  \/ Take(d) \/ Sleep(d) \/ Exit(d)
  \/ InsertBegin(d) \/ InsertEnd(d)
  \/ DoWork(d) \/ StoreBegin(d) \/ StoreEnd(d) \/ Complete(d)
  \/ Terminate(d)

\* The program has ended.
Ended == pc \in {"joined", "terminated"} /\ UNCHANGED vars

Next == MainStep \/ (\E d \in Device : ThreadStep(d)) \/ Ended

\* The operating system runs every thread.  The last disjunct of Terminate makes
\* a thread that throws count as having run.
Fairness == WF_vars(MainStep) /\ \A d \in Device : WF_vars(ThreadStep(d))

Spec == Init /\ [][Next]_vars

FairSpec == Spec /\ Fairness

-----------------------------------------------------------------------------
(* Properties *)

MainPlaces ==
  {"init", "ready", "schedule", "scheduleAsleep", "resize", "growing", "dispatch",
   "push", "notify", "wait", "waitAsleep", "returned", "threw", "stop",
   "stopNotify", "join", "joined", "terminated"}

ThreadPlaces ==
  {"check", "asleep", "init", "inserting", "work", "store", "storing",
   "complete", "exited"}

\* Every variable has its type.
TypeOK ==
  /\ SchedulerTypeOK
  /\ pc \in MainPlaces
  /\ run \in Nat /\ total \in Nat /\ offset \in Nat /\ reserved \in Nat
  /\ begin \in Nat /\ first \in Nat
  /\ work \in Seq(Task)
  /\ tasks \in [Device -> Seq(Nat)]
  /\ stop \in BOOLEAN
  /\ thread \in [Device -> ThreadPlaces]
  /\ cur \in [Device -> Nat]
  /\ finished \subseteq Nat /\ results \subseteq Nat
  /\ stale \subseteq Device /\ models \subseteq Device /\ raced \subseteq Device

\* The batches of task i
Span(i) == work[i].lo .. work[i].lo + work[i].m - 1

\* dispatched_work has been called for task i.
Dispatched(i) == i < Len(work) \/ pc \notin {"resize", "growing", "dispatch"}

\* Tasks dispatched to d whose completed_work has not been called.
Outstanding(d) ==
  {i \in DOMAIN work : work[i].dev = d /\ Dispatched(i) /\ (i \notin finished \/ i = cur[d])}

InFlight(d) == UNION {Span(i) : i \in Outstanding(d)}

\* The scheduler's load of a device is the number of batches dispatched to it and
\* not completed: no batch is counted twice or forgotten while the main thread
\* and the pool threads update the counter.
LoadAccounted ==
  Alive => \A d \in Device : load[d] = Cardinality(InFlight(d))

\* schedule_work tests the room and dispatched_work takes it in two separate
\* critical sections; the load never exceeds the capacity all the same, so the
\* "Device oversubscribed" assertion of StaticHybridScheduler cannot fail in a run.
CapacityRespected == run > 0 /\ Alive => \A d \in Device : load[d] <= Capacity[d]

\* The tasks of this run
Own == first + 1 .. Len(work)

\* run_async reduces only after do_work has returned for every task, also for those that an
\* earlier run has left in flight, and the tasks of this run together hold each batch of
\* the generator exactly once.
ReturnsComplete ==
  pc = "returned" =>
    /\ finished = DOMAIN work
    /\ \A b \in begin .. total - 1 : Cardinality({i \in Own : b \in Span(i)}) = 1

\* "Once all the work has been completed and results have been collected, the
\* dispatcher reduces the results": every task's result is in _results then.
ResultsCollected == pc = "returned" => results = Own

\* A thread that evaluates its model finds it in _models: thread_init has put it
\* there, and the map has not been destroyed.
ModelsReady == \A d \in Device : ThreadInit /\ thread[d] = "work" => d \in models

\* No wake-up is lost: a pool thread sleeps with a task in its queue, or with _stop
\* set, only until the main thread's notify_all that is due; the main thread
\* never sleeps on a condition that holds.
NoLostWakeup ==
  /\ \A d \in Device : Alive /\ thread[d] = "asleep" =>
       /\ tasks[d] # <<>> => pc = "notify"
       /\ stop => pc = "stopNotify"
  /\ pc = "scheduleAsleep" => ~SomeRoom
  /\ pc = "waitAsleep" => ~AllWorkCompleted

\* The destructor drains the queues: when the threads are joined, every task that
\* was created has been worked on, also after the loop has thrown midway.
DrainedAtJoin == pc = "joined" => finished = DOMAIN work

\* Every call of run() comes to an end: it returns, or it leaves the dispatching
\* loop by the exception, or the work of a thread has ended the process.
RunReturns == pc = "schedule" ~> pc \in {"returned", "threw", "terminated"}

\* The destructor ends: every pool thread leaves its loop and is joined.
DestructorEnds == pc = "stop" ~> pc \in {"joined", "terminated"}

\* No caller of the dispatcher is left waiting, in run() or in the destructor.
CallsEnd == RunReturns /\ DestructorEnds

-----------------------------------------------------------------------------
(* The inductive invariant behind LoadAccounted, CapacityRespected and          *)
(* ReturnsComplete                                                           *)

\* The tasks that have been pushed to the queue of their device
Pushed ==
  {i \in DOMAIN work :
     i < Len(work) \/ pc \notin {"resize", "growing", "dispatch", "push"}}

\* The tasks cut 0 .. offset - 1 into consecutive spans.
Tiled ==
  /\ \A i \in DOMAIN work : work[i].lo + work[i].m <= offset
  /\ \A i, j \in DOMAIN work : i < j => work[i].lo + work[i].m <= work[j].lo
  /\ \A b \in 0 .. offset - 1 : \E i \in DOMAIN work : b \in Span(i)

\* Tasks of earlier runs hold the batches before begin, those of this run the others.
EarlierWork ==
  /\ first <= Len(work) /\ begin <= offset
  /\ \A i \in DOMAIN work :
       IF i <= first THEN work[i].lo + work[i].m <= begin ELSE begin <= work[i].lo

\* While the loop or the constructor holds a new task there is one; the loop is
\* left when the generator is exhausted.
LoopProgress ==
  /\ pc \in {"resize", "growing", "dispatch", "push"} => first < Len(work)
  /\ pc = "init" => run = 0
  /\ pc \in {"schedule", "scheduleAsleep", "resize", "growing", "dispatch", "returned", "threw"} =>
       run > 0
  /\ run > 0 /\ pc \in {"wait", "waitAsleep", "returned"} => offset = total
  /\ run > 0 /\ pc \in {"schedule", "scheduleAsleep", "resize", "growing", "dispatch",
                        "push", "notify"} => offset <= total

\* A queue holds pushed tasks of its device, in order, none of them worked on.
QueueOrdered ==
  \A d \in Device :
    /\ \A j \in DOMAIN tasks[d] :
         /\ tasks[d][j] \in Pushed
         /\ work[tasks[d][j]].dev = d
         /\ tasks[d][j] \notin finished
         /\ cur[d] < tasks[d][j]
    /\ \A j, k \in DOMAIN tasks[d] : j < k => tasks[d][j] < tasks[d][k]

\* A busy thread works on one pushed task of its device, and do_work is done for
\* it once the thread has left it.
CurrentTask ==
  \A d \in Device :
    /\ thread[d] \in {"check", "asleep", "exited"} => cur[d] = 0
    /\ thread[d] \notin {"check", "asleep", "exited"} =>
         cur[d] \in Pushed /\ work[cur[d]].dev = d
    /\ thread[d] \in {"init", "inserting", "work"} => cur[d] \notin finished
    /\ thread[d] \in {"store", "storing", "complete"} => cur[d] \in finished

FinishedPushed == finished \subseteq Pushed

\* Between runs nothing is in flight.
Quiet == pc \in {"ready", "returned"} => AllWorkCompleted

\* The room schedule_work found is still there when dispatched_work takes it.
RoomKept ==
  /\ run > 0 /\ pc \in {"resize", "growing", "dispatch"} =>
       load[work[Len(work)].dev] + work[Len(work)].m <= Capacity[work[Len(work)].dev]
  /\ run > 0 => \A d \in Device : load[d] <= Capacity[d]

Inductive ==
  /\ LoopProgress
  /\ Tiled
  /\ EarlierWork
  /\ QueueOrdered
  /\ CurrentTask
  /\ FinishedPushed
  /\ \A d \in Device : load[d] = Cardinality(InFlight(d))
  /\ Quiet
  /\ RoomKept

\* Holds initially and is preserved by every step.
IInv == TypeOK /\ (Alive => Inductive)

-----------------------------------------------------------------------------
(* Refinement *)

phaseMap ==
  CASE pc = "terminated" -> "crashed"
    [] pc = "threw" -> "failed"
    [] pc \in {"stop", "stopNotify", "join"} -> "closing"
    [] pc = "joined" -> "closed"
    [] pc = "returned" -> "returned"
    [] pc \in {"init", "ready"} -> "idle"
    [] pc \in {"push", "notify", "wait", "waitAsleep"} ->
         IF run = 0 THEN "idle" ELSE "running"
    [] OTHER -> "running"

batchesMap == IF run = 0 THEN {} ELSE 0 .. total - begin - 1

\* The batches of task i as the generator of its run numbers them
OwnSpan(i) == work[i].lo - begin .. work[i].lo + work[i].m - 1 - begin

doneMap == IF run = 0 THEN {} ELSE UNION {OwnSpan(i) : i \in finished \cap Own}

Promise == INSTANCE BatchDispatch WITH
  phase <- phaseMap, batches <- batchesMap, done <- doneMap

\* The threads, the queue and the scheduler together keep BatchDispatch's promise.
ImplementsBatchDispatch == Promise!Spec

=============================================================================
