------------------------ MODULE WorkDispatcherProofs ------------------------
(***************************************************************************)
(* Proofs about WorkDispatcher for every device list, every batch size,    *)
(* capacity and priority, every generator and any number of runs: the      *)
(* inductive invariant IInv, and the properties that follow from it; then  *)
(* that no wake-up is lost, that the destructor drains the queues, and     *)
(* that run() implements BatchDispatch.                                    *)
(***************************************************************************)
EXTENDS WorkDispatcher, SyncDispatcher, TLAPS, FiniteSetTheorems, SequenceTheorems

Undispatched == {"resize", "growing", "dispatch"}

Unpushed == {"resize", "growing", "dispatch", "push"}

InLoop ==
  {"schedule", "scheduleAsleep", "resize", "growing", "dispatch", "push", "notify"}

Idle == {"check", "asleep", "exited"}

\* The members and variables of a call, wherever a step leaves them alone
USE DEF callVars

\* Facts about sequences the steps of the main thread need.
LEMMA AppendFacts ==
  ASSUME NEW S, NEW s \in Seq(S), NEW e \in S
  PROVE  /\ Append(s, e) \in Seq(S)
         /\ Len(Append(s, e)) = Len(s) + 1
         /\ DOMAIN Append(s, e) = 1 .. Len(s) + 1
         /\ \A i \in 1 .. Len(s) : Append(s, e)[i] = s[i]
         /\ Append(s, e)[Len(s) + 1] = e
  OBVIOUS

LEMMA PickFacts ==
  ASSUME NEW S, NEW s \in Seq(S), NEW k \in Nat, k < Len(s)
  PROVE  Len(s) \in Nat \ {0} /\ s[Len(s)] \in S
  BY ElementOfSeq, LenProperties

\* The batches in flight on a device are finitely many.
LEMMA InFlightFinite ==
  ASSUME TypeOK, Tiled, NEW d \in Device
  PROVE  IsFiniteSet(InFlight(d)) /\ InFlight(d) \subseteq 0 .. offset - 1
<1>1. InFlight(d) \subseteq 0 .. offset - 1
  <2> SUFFICES ASSUME NEW i \in DOMAIN work, NEW b \in Span(i)
               PROVE  b \in 0 .. offset - 1
    BY DEF InFlight, Outstanding
  <2>1. work[i] \in Task
    BY ElementOfSeq, LenProperties DEF TypeOK
  <2> QED
    BY <2>1 DEF Span, Task, Tiled, TypeOK
<1>2. 0 \in Int /\ offset - 1 \in Int
  BY DEF TypeOK
<1>3. IsFiniteSet(0 .. offset - 1)
  BY <1>2, FS_Interval
<1>4. InFlight(d) \in SUBSET (0 .. offset - 1)
  BY <1>1
<1>5. IsFiniteSet(InFlight(d))
  BY <1>3, <1>4, FS_Subset
<1> QED
  BY <1>1, <1>5

LEMMA IntervalCardinality ==
  ASSUME NEW a \in Nat, NEW m \in Nat \ {0}
  PROVE  IsFiniteSet(a .. a + m - 1) /\ Cardinality(a .. a + m - 1) = m
<1> DEFINE b == a + m - 1
<1>1. b \in Int /\ a \in Int /\ ~(a > b) /\ b - a + 1 = m
  OBVIOUS
<1> HIDE DEF b
<1>2. IsFiniteSet(a .. b) /\ Cardinality(a .. b) = IF a > b THEN 0 ELSE b - a + 1
  BY <1>1, FS_Interval
<1>3. IsFiniteSet(a .. b) /\ Cardinality(a .. b) = m
  BY <1>1, <1>2
<1> QED
  BY <1>3 DEF b

\* The number of batches a task adds to, or takes from, those in flight.
LEMMA SpanCardinality ==
  ASSUME TypeOK, NEW i \in DOMAIN work
  PROVE  IsFiniteSet(Span(i)) /\ Cardinality(Span(i)) = work[i].m
<1>1. work[i] \in Task
  BY ElementOfSeq, LenProperties DEF TypeOK
<1>2. work[i].lo \in Nat /\ work[i].m \in Nat \ {0}
  BY <1>1 DEF Task
<1> QED
  BY <1>2, IntervalCardinality DEF Span

\* Different tasks hold different batches.
LEMMA SpansDisjoint ==
  ASSUME TypeOK, Tiled, NEW i \in DOMAIN work, NEW j \in DOMAIN work, i # j
  PROVE  Span(i) \cap Span(j) = {}
<1>1. work[i] \in Task /\ work[j] \in Task /\ i \in Nat /\ j \in Nat
  BY ElementOfSeq, LenProperties DEF TypeOK
<1>2. \/ work[i].lo + work[i].m <= work[j].lo
      \/ work[j].lo + work[j].m <= work[i].lo
  BY <1>1 DEF Tiled
<1> QED
  BY <1>1, <1>2 DEF Span, Task

LEMMA AddDisjoint ==
  ASSUME NEW S, IsFiniteSet(S), NEW T, IsFiniteSet(T), S \cap T = {}
  PROVE  /\ IsFiniteSet(S \cup T)
         /\ Cardinality(S \cup T) = Cardinality(S) + Cardinality(T)
<1>1. Cardinality(S \cap T) = 0
  BY FS_EmptySet
<1>2. Cardinality(S) \in Nat /\ Cardinality(T) \in Nat
  BY FS_CardinalityType
<1>3. /\ IsFiniteSet(S \cup T)
      /\ Cardinality(S \cup T) = Cardinality(S) + Cardinality(T) - Cardinality(S \cap T)
  BY FS_Union
<1> QED
  BY <1>1, <1>2, <1>3

-----------------------------------------------------------------------------
(* Types *)

LEMMA InitTypeOK == Init => TypeOK
<1> SUFFICES ASSUME Init PROVE TypeOK
  OBVIOUS
<1>1. <<>> \in Seq(Task) /\ <<>> \in Seq(Nat)
  BY EmptySeq
<1>2. SchedulerTypeOK /\ tasks \in [Device -> Seq(Nat)] /\ cur \in [Device -> Nat]
  BY <1>1 DEF Init, SchedulerInit, SchedulerTypeOK
<1>3. thread \in [Device -> ThreadPlaces] /\ pc \in MainPlaces
  BY DEF Init, ThreadPlaces, MainPlaces
<1> QED
  BY <1>1, <1>2, <1>3 DEF Init, TypeOK

\* The steps that touch neither a sequence nor a number.
LEMMA PlainTypeOK ==
  ASSUME TypeOK,
         \/ InitDispatched \/ ScheduleSleep \/ (\E d \in Device : ScheduleThrow(d))
         \/ AllDispatched \/ ResizeInPlace \/ GrowBegin \/ WaitForCompletion
         \/ WaitSleep \/ Return \/ DestroyModels \/ SetStop \/ Join
         \/ Notify \/ StopNotify
  PROVE  TypeOK'
<1> USE DEF TypeOK, SchedulerTypeOK, MainPlaces, ThreadPlaces, poolVars, unsyncVars
<1>1. CASE Notify \/ StopNotify
  BY <1>1 DEF Notify, StopNotify, NotifyThreads
<1>2. CASE DestroyModels \/ SetStop
  BY <1>2 DEF DestroyModels, SetStop
<1>3. CASE InitDispatched \/ ScheduleSleep \/ AllDispatched \/ ResizeInPlace \/ GrowBegin
  BY <1>3 DEF InitDispatched, ScheduleSleep, AllDispatched, ResizeInPlace, GrowBegin
<1>4. CASE WaitForCompletion \/ WaitSleep \/ Return \/ Join
  BY <1>4 DEF WaitForCompletion, WaitSleep, Return, Join
<1>5. CASE \E d \in Device : ScheduleThrow(d)
  BY <1>5 DEF ScheduleThrow
<1> QED
  BY <1>1, <1>2, <1>3, <1>4, <1>5

LEMMA InitDispatchTypeOK == TypeOK /\ InitDispatch => TypeOK'
<1> SUFFICES ASSUME TypeOK, InitDispatch PROVE TypeOK'
  OBVIOUS
<1> USE DEF TypeOK, SchedulerTypeOK, MainPlaces, poolVars, unsyncVars
<1> DEFINE d == Len(work) + 1
           t == [dev |-> d, lo |-> offset, m |-> 1, slot |-> 0]
<1>4. Len(work) \in Nat /\ Len(work) < NDevices
  BY LenProperties DEF InitDispatch
<1>5. d \in Device
  BY <1>4, DeviceAssumption DEF Device
<1>1. d \in Device /\ t \in Task
  BY <1>5 DEF Task
<1>2. work' = Append(work, t) /\ load' = [load EXCEPT ![d] = @ + 1]
  BY DEF InitDispatch, DispatchedWork
<1>3. work' \in Seq(Task) /\ load' \in [Device -> Nat]
  BY <1>1, <1>2, AppendFacts
<1> QED
  BY <1>3 DEF InitDispatch

LEMMA ScheduleTypeOK == \A d \in Device : TypeOK /\ EarlierWork /\ Schedule(d) => TypeOK'
<1> SUFFICES ASSUME TypeOK, EarlierWork, NEW d \in Device, Schedule(d) PROVE TypeOK'
  OBVIOUS
<1> USE DEF TypeOK, SchedulerTypeOK, MainPlaces, poolVars, unsyncVars
<1> DEFINE left == total - offset
           m == IF BatchSize[d] < left THEN BatchSize[d] ELSE left
           t == [dev |-> d, lo |-> offset, m |-> m, slot |-> Len(work) - first]
<1>1. m \in Nat \ {0}
  BY DeviceAssumption DEF Schedule
<1>5. Len(work) - first \in Nat
  BY LenProperties DEF EarlierWork
<1>2. t \in Task
  BY <1>1, <1>5 DEF Task
<1>3. work' = Append(work, t) /\ offset' = offset + m
  BY DEF Schedule
<1>4. work' \in Seq(Task) /\ offset' \in Nat
  BY <1>1, <1>2, <1>3, AppendFacts
<1> QED
  BY <1>4 DEF Schedule

LEMMA DispatchTypeOK == TypeOK /\ LoopProgress /\ Dispatch => TypeOK'
<1> SUFFICES ASSUME TypeOK, LoopProgress, Dispatch PROVE TypeOK'
  OBVIOUS
<1> USE DEF TypeOK, SchedulerTypeOK, MainPlaces, poolVars, unsyncVars
<1>1. work[Len(work)] \in Task
  BY PickFacts DEF LoopProgress, Dispatch
<1>2. work[Len(work)].dev \in Device /\ work[Len(work)].m \in Nat
  BY <1>1 DEF Task
<1>3. load' = [load EXCEPT ![work[Len(work)].dev] = @ + work[Len(work)].m]
  BY DEF Dispatch, DispatchedWork
<1>4. load' \in [Device -> Nat]
  BY <1>2, <1>3
<1> QED
  BY <1>4 DEF Dispatch

LEMMA OtherMainTypeOK ==
  ASSUME TypeOK, GrowEnd \/ Push \/ \E t \in Totals : StartRun(t)
  PROVE  TypeOK'
<1> USE DEF TypeOK, SchedulerTypeOK, MainPlaces, poolVars, unsyncVars
<1>1. CASE GrowEnd
  BY <1>1 DEF GrowEnd
<1>2. CASE Push
  <2>1. tasks' \in [Device -> Seq(Nat)]
    BY <1>2, LenProperties, AppendFacts DEF Push
  <2> QED
    BY <1>2, <2>1 DEF Push
<1>3. CASE \E t \in Totals : StartRun(t)
  <2>1. PICK t \in Totals : StartRun(t)
    BY <1>3
  <2>2. Len(work) \in Nat /\ <<>> \in Seq(Task) /\ t \in Nat
    BY EmptySeq, LenProperties, CallsAssumption
  <2>3. begin' \in Nat /\ first' \in Nat /\ work' \in Seq(Task) /\ finished' \subseteq Nat
    <3>1. CASE pc = "ready"
      BY <3>1, <2>1, <2>2 DEF StartRun
    <3>2. CASE pc = "threw"
      BY <3>2, <2>1, <2>2 DEF StartRun
    <3> QED
      BY <3>1, <3>2, <2>1 DEF StartRun
  <2>4. /\ run' = run + 1 /\ results' = {} /\ pc' = "schedule"
        /\ UNCHANGED <<load, tasks, thread, cur, stop, reserved, stale, models, raced>>
    BY <2>1 DEF StartRun
  <2>5. offset' = begin' /\ total' = begin' + t
    BY <2>1 DEF StartRun
  <2>6. offset' \in Nat
    BY <2>3, <2>5
  <2>7. total' \in Nat
    <3>1. \A a, b \in Nat : a + b \in Nat
      OBVIOUS
    <3> HIDE DEF TypeOK
    <3> QED
      BY <3>1, <2>2, <2>3, <2>5, Zenon
  <2>8. run' \in Nat /\ results' \subseteq Nat /\ pc' \in MainPlaces
    BY <2>4
  <2>9. SchedulerTypeOK' /\ tasks' \in [Device -> Seq(Nat)] /\ thread' \in [Device -> ThreadPlaces]
    BY <2>4
  <2>10. cur' \in [Device -> Nat] /\ stop' \in BOOLEAN /\ reserved' \in Nat
    BY <2>4
  <2>11. stale' \subseteq Device /\ models' \subseteq Device /\ raced' \subseteq Device
    BY <2>4
  <2> QED
    BY <2>3, <2>6, <2>7, <2>8, <2>9, <2>10, <2>11
<1> QED
  BY <1>1, <1>2, <1>3

LEMMA ThreadTypeOK ==
  ASSUME TypeOK, CurrentTask, NEW d \in Device, ThreadStep(d)
  PROVE  TypeOK'
<1> USE DEF TypeOK, SchedulerTypeOK, MainPlaces, ThreadPlaces, mainVars, unsyncVars, poolVars
<1>1. CASE Take(d)
  BY <1>1, HeadTailProperties DEF Take
<1>2. CASE Sleep(d) \/ Exit(d)
  BY <1>2 DEF Sleep, Exit
<1>3. CASE InsertBegin(d)
  BY <1>3 DEF InsertBegin
<1>4. CASE InsertEnd(d)
  BY <1>4 DEF InsertEnd
<1>5. CASE DoWork(d) \/ StoreBegin(d)
  BY <1>5 DEF DoWork, StoreBegin
<1>6. CASE StoreEnd(d)
  BY <1>6 DEF StoreEnd
<1>7. CASE Complete(d)
  <2>1. cur[d] \in DOMAIN work
    BY <1>7 DEF Complete, CurrentTask, Pushed
  <2>5. work[cur[d]] \in Task
    BY <2>1, ElementOfSeq, LenProperties
  <2>2. work[cur[d]].m \in Nat
    BY <2>5 DEF Task
  <2>3. load' \in [Device -> Nat]
    BY <1>7, <2>2 DEF Complete, CompletedWork
  <2>4. pc' \in MainPlaces
    BY <1>7 DEF Complete, NotifyMain
  <2> QED
    BY <1>7, <2>3, <2>4 DEF Complete
<1>8. CASE Terminate(d)
  BY <1>8 DEF Terminate
<1> QED
  BY <1>1, <1>2, <1>3, <1>4, <1>5, <1>6, <1>7, <1>8 DEF ThreadStep

-----------------------------------------------------------------------------
(* Induction *)

\* A step that leaves the tasks, the queues and the load alone, and moves the
\* threads only between places the invariant does not tell apart, preserves it.
LEMMA Bystander ==
  ASSUME TypeOK, Inductive, Alive,
         UNCHANGED <<load, run, total, begin, first, offset, work, tasks, cur, finished>>,
         pc' \in Undispatched <=> pc \in Undispatched,
         pc' \in Unpushed <=> pc \in Unpushed,
         pc' \in InLoop => pc \in InLoop,
         pc' = "init" => run = 0,
         pc' \in {"schedule", "scheduleAsleep", "returned", "threw"} => run > 0,
         run > 0 /\ pc' \in {"wait", "waitAsleep", "returned"} => offset = total,
         pc' \in {"ready", "returned"} => AllWorkCompleted,
         \A d \in Device :
           /\ thread'[d] \in Idle <=> thread[d] \in Idle
           /\ thread'[d] \in {"init", "inserting", "work"} <=>
                thread[d] \in {"init", "inserting", "work"}
           /\ thread'[d] \in {"store", "storing", "complete"} <=>
                thread[d] \in {"store", "storing", "complete"}
  PROVE  Inductive'
<1>1. \A i : Dispatched(i)' <=> Dispatched(i)
  BY DEF Dispatched, Undispatched
<1>2. Pushed' = Pushed
  BY DEF Pushed, Unpushed
<1>3. \A i : Span(i)' = Span(i)
  BY DEF Span
<1>4. LoopProgress'
  BY DEF Inductive, LoopProgress, Undispatched, Unpushed, InLoop
<1>5. Tiled' /\ EarlierWork'
  BY <1>3 DEF Inductive, Tiled, EarlierWork
<1>6. QueueOrdered'
  BY <1>2 DEF Inductive, QueueOrdered
<1>7. CurrentTask'
  BY <1>2 DEF Inductive, CurrentTask, Idle
<1>8. FinishedPushed'
  BY <1>2 DEF Inductive, FinishedPushed
<1>9. \A d \in Device : load'[d] = Cardinality(InFlight(d)')
  <2>1. \A d \in Device : Outstanding(d)' = Outstanding(d)
    BY <1>1 DEF Outstanding
  <2>2. \A d \in Device : InFlight(d)' = InFlight(d)
    BY <1>3, <2>1 DEF InFlight
  <2> QED
    BY <2>2 DEF Inductive
<1>10. Quiet'
  BY DEF Quiet, AllWorkCompleted
<1>11. RoomKept'
  BY DEF Inductive, RoomKept, Undispatched
<1> QED
  BY <1>4, <1>5, <1>6, <1>7, <1>8, <1>9, <1>10, <1>11 DEF Inductive

LEMMA MainBystander ==
  ASSUME TypeOK, Inductive, Alive,
         \/ InitDispatched \/ ScheduleSleep \/ (\E d \in Device : ScheduleThrow(d))
         \/ AllDispatched \/ ResizeInPlace \/ GrowBegin \/ GrowEnd
         \/ WaitForCompletion \/ WaitSleep \/ Return
         \/ DestroyModels \/ SetStop \/ Join
  PROVE  Inductive'
<1> USE DEF Undispatched, Unpushed, InLoop, poolVars
<1>1. CASE InitDispatched
  BY <1>1, Bystander DEF InitDispatched, Inductive, LoopProgress
<1>2. CASE ScheduleSleep
  BY <1>2, Bystander DEF ScheduleSleep, Inductive, LoopProgress
<1>3. CASE \E d \in Device : ScheduleThrow(d)
  BY <1>3, Bystander DEF ScheduleThrow, Inductive, LoopProgress
<1>4. CASE AllDispatched
  BY <1>4, Bystander DEF AllDispatched, Inductive, LoopProgress, TypeOK
<1>5. CASE ResizeInPlace \/ GrowBegin
  BY <1>5, Bystander DEF ResizeInPlace, GrowBegin
<1>6. CASE GrowEnd
  BY <1>6, Bystander DEF GrowEnd
<1>7. CASE WaitForCompletion
  BY <1>7, Bystander DEF WaitForCompletion, Inductive, LoopProgress, TypeOK
<1>8. CASE WaitSleep
  BY <1>8, Bystander DEF WaitSleep, Inductive, LoopProgress
<1>9. CASE Return
  BY <1>9, Bystander DEF Return, Inductive, Quiet
<1>10. CASE DestroyModels \/ SetStop \/ Join
  BY <1>10, Bystander DEF DestroyModels, SetStop, Join
<1> QED
  BY <1>1, <1>2, <1>3, <1>4, <1>5, <1>6, <1>7, <1>8, <1>9, <1>10

LEMMA NotifyInductive ==
  ASSUME TypeOK, Inductive, Alive, Notify \/ StopNotify
  PROVE  Inductive'
<1> USE DEF Undispatched, Unpushed, InLoop, Idle
<1>1. \A d \in Device :
        /\ thread'[d] \in Idle <=> thread[d] \in Idle
        /\ thread'[d] = thread[d] \/ (thread[d] = "asleep" /\ thread'[d] = "check")
  BY DEF Notify, StopNotify, NotifyThreads
<1>2. CASE Notify
  BY <1>1, <1>2, Bystander DEF Notify, TypeOK
<1>3. CASE StopNotify
  BY <1>1, <1>3, Bystander DEF StopNotify
<1> QED
  BY <1>2, <1>3

LEMMA ThreadBystander ==
  ASSUME TypeOK, Inductive, Alive, NEW d \in Device,
         Sleep(d) \/ Exit(d) \/ InsertBegin(d) \/ StoreBegin(d) \/ StoreEnd(d)
  PROVE  Inductive'
<1> USE DEF Undispatched, Unpushed, InLoop, Idle, mainVars
<1>1. /\ UNCHANGED <<load, pc, run, total, begin, first, offset, work, tasks, cur, finished>>
      /\ \E p \in ThreadPlaces :
           /\ thread' = [thread EXCEPT ![d] = p]
           /\ \/ thread[d] = "check" /\ p \in {"asleep", "exited"}
              \/ thread[d] = "init" /\ p = "inserting"
              \/ thread[d] = "store" /\ p = "storing"
              \/ thread[d] = "storing" /\ p = "complete"
  BY DEF Sleep, Exit, InsertBegin, StoreBegin, StoreEnd, ThreadPlaces
<1>2. \A e \in Device :
        /\ thread'[e] \in Idle <=> thread[e] \in Idle
        /\ thread'[e] \in {"init", "inserting", "work"} <=>
             thread[e] \in {"init", "inserting", "work"}
        /\ thread'[e] \in {"store", "storing", "complete"} <=>
             thread[e] \in {"store", "storing", "complete"}
  BY <1>1 DEF TypeOK
<1>3. /\ run > 0 /\ pc \in {"wait", "waitAsleep", "returned"} => offset = total
      /\ pc \in {"ready", "returned"} => AllWorkCompleted
      /\ pc = "init" => run = 0
      /\ pc \in {"schedule", "scheduleAsleep", "returned", "threw"} => run > 0
  BY DEF Inductive, LoopProgress, Quiet
<1> QED
  BY <1>1, <1>2, <1>3, Bystander

\* Cutting off one more task keeps the earlier ones and the tiling.
LEMMA CutTask ==
  ASSUME TypeOK, Tiled, EarlierWork, NEW t \in Task, t.lo = offset,
         work' = Append(work, t), offset' = offset + t.m, UNCHANGED <<begin, first>>
  PROVE  /\ Len(work) \in Nat
         /\ DOMAIN work = 1 .. Len(work)
         /\ Len(work') = Len(work) + 1
         /\ DOMAIN work' = 1 .. Len(work) + 1
         /\ work'[Len(work) + 1] = t
         /\ \A i \in DOMAIN work : work'[i] = work[i] /\ Span(i)' = Span(i)
         /\ Tiled' /\ EarlierWork'
<1>1. /\ Len(work) \in Nat
      /\ DOMAIN work = 1 .. Len(work)
  BY LenProperties DEF TypeOK
<1>2. /\ Len(work') = Len(work) + 1
      /\ DOMAIN work' = 1 .. Len(work) + 1
      /\ work'[Len(work) + 1] = t
      /\ \A i \in DOMAIN work : work'[i] = work[i]
  BY <1>1, AppendFacts DEF TypeOK
<1>3. \A i \in DOMAIN work : Span(i)' = Span(i)
  BY <1>2 DEF Span
<1>4. offset \in Nat /\ t.m \in Nat \ {0}
  BY DEF TypeOK, Task
<1>9. \A i \in DOMAIN work : work[i] \in Task
  BY <1>1, ElementOfSeq DEF TypeOK
<1>5. \A i \in DOMAIN work : work[i].lo \in Nat /\ work[i].m \in Nat
  BY <1>9 DEF Task
<1>6. \A i \in DOMAIN work' : work'[i].lo + work'[i].m <= offset'
  BY <1>1, <1>2, <1>4, <1>5 DEF Tiled
<1>7. \A i, j \in DOMAIN work' : i < j => work'[i].lo + work'[i].m <= work'[j].lo
  BY <1>1, <1>2, <1>4, <1>5 DEF Tiled
<1>8. \A b \in 0 .. offset' - 1 : \E i \in DOMAIN work' : b \in Span(i)'
  <2> SUFFICES ASSUME NEW b \in 0 .. offset' - 1
               PROVE  \E i \in DOMAIN work' : b \in work'[i].lo .. work'[i].lo + work'[i].m - 1
    BY DEF Span
  <2>3. b \in Nat /\ b < offset + t.m
    BY <1>4
  <2>1. CASE b < offset
    <3>1. b \in 0 .. offset - 1
      BY <2>1, <2>3, <1>4
    <3>2. PICK i \in DOMAIN work : b \in Span(i)
      BY <3>1 DEF Tiled
    <3> QED
      BY <3>2, <1>1, <1>2 DEF Span
  <2>2. CASE b >= offset
    <3>1. b \in t.lo .. t.lo + t.m - 1
      BY <2>2, <2>3, <1>4
    <3>2. Len(work) + 1 \in DOMAIN work'
      BY <1>1, <1>2
    <3> QED
      BY <3>1, <3>2, <1>2
  <2> QED
    BY <2>1, <2>2, <2>3, <1>4
<1>10. EarlierWork'
  BY <1>1, <1>2, <1>4, <1>5 DEF EarlierWork, TypeOK
<1> QED
  BY <1>1, <1>2, <1>3, <1>6, <1>7, <1>8, <1>10 DEF Tiled

LEMMA ScheduleInductive ==
  ASSUME TypeOK, Inductive, Alive, NEW d \in Device, Schedule(d)
  PROVE  Inductive'
<1> DEFINE left == total - offset
           m == IF BatchSize[d] < left THEN BatchSize[d] ELSE left
           t == [dev |-> d, lo |-> offset, m |-> m, slot |-> Len(work) - first]
           n == Len(work) + 1
<1>1. m \in Nat \ {0} /\ m <= BatchSize[d] /\ m <= left
  BY DeviceAssumption DEF Schedule, TypeOK
<1>16. Len(work) - first \in Nat
  BY LenProperties DEF Inductive, EarlierWork, TypeOK
<1>2. t \in Task /\ t.lo = offset /\ t.dev = d /\ t.m = m
  BY <1>1, <1>16 DEF Task, TypeOK
<1>3. work' = Append(work, t) /\ offset' = offset + t.m
  BY DEF Schedule
<1>4. /\ Len(work) \in Nat
      /\ DOMAIN work = 1 .. Len(work)
      /\ Len(work') = n
      /\ DOMAIN work' = 1 .. n
      /\ work'[n] = t
      /\ \A i \in DOMAIN work : work'[i] = work[i] /\ Span(i)' = Span(i)
      /\ Tiled' /\ EarlierWork'
  BY <1>2, <1>3, CutTask DEF Inductive, Schedule
<1> HIDE DEF m, left, t
<1>5. /\ pc = "schedule" /\ pc' = "resize"
      /\ UNCHANGED <<load, run, total, begin, first, tasks, cur, finished, thread>>
  BY DEF Schedule, poolVars
<1>6. Pushed' = Pushed
  BY <1>4, <1>5 DEF Pushed
<1>7. Pushed \subseteq DOMAIN work
  BY DEF Pushed
<1>8. LoopProgress'
  <2>1. first' < Len(work')
    BY <1>4, <1>5 DEF Inductive, EarlierWork, TypeOK
  <2>2. offset' <= total
    BY <1>1, <1>2, <1>3 DEF left, TypeOK
  <2> QED
    BY <2>1, <2>2, <1>5 DEF Inductive, LoopProgress
<1>9. QueueOrdered'
  BY <1>4, <1>5, <1>6, <1>7 DEF Inductive, QueueOrdered
<1>10. CurrentTask'
  BY <1>4, <1>5, <1>6, <1>7 DEF Inductive, CurrentTask
<1>11. FinishedPushed'
  BY <1>5, <1>6 DEF Inductive, FinishedPushed
<1>12. \A e \in Device : load'[e] = Cardinality(InFlight(e)')
  <2>1. \A e \in Device : Outstanding(e)' = Outstanding(e)
    BY <1>4, <1>5 DEF Outstanding, Dispatched
  <2>2. \A e \in Device : InFlight(e)' = InFlight(e)
    BY <1>4, <2>1 DEF InFlight, Outstanding
  <2> QED
    BY <1>5, <2>2 DEF Inductive
<1>13. Quiet'
  BY <1>5 DEF Quiet
<1>14. RoomKept'
  <2>1. load[d] + m <= Capacity[d]
    BY <1>1, DeviceAssumption DEF Schedule, Picks, HasRoom, TypeOK, SchedulerTypeOK
  <2> QED
    BY <2>1, <1>2, <1>4, <1>5 DEF Inductive, RoomKept
<1> QED
  BY <1>4, <1>8, <1>9, <1>10, <1>11, <1>12, <1>13, <1>14 DEF Inductive

\* Counting one more task among those in flight on its device
LEMMA LoadGrows ==
  ASSUME NEW S, NEW T, IsFiniteSet(S), IsFiniteSet(T), S \cap T = {}, NEW m,
         Cardinality(T) = m, NEW l, l = Cardinality(S)
  PROVE  l + m = Cardinality(S \cup T)
BY AddDisjoint

LEMMA InitDispatchInductive ==
  ASSUME TypeOK, Inductive, Alive, InitDispatch, Alive'
  PROVE  Inductive'
<1> DEFINE n == Len(work) + 1
           t == [dev |-> n, lo |-> offset, m |-> 1, slot |-> 0]
<1>1. Len(work) \in Nat /\ Len(work) < NDevices
  BY LenProperties DEF InitDispatch, TypeOK
<1>2. n \in Device
  BY <1>1, DeviceAssumption DEF Device
<1>3. t \in Task /\ t.lo = offset /\ t.dev = n /\ t.m = 1
  BY <1>2 DEF Task, TypeOK
<1>4. work' = Append(work, t) /\ offset' = offset + t.m
  BY DEF InitDispatch
<1>5. /\ DOMAIN work = 1 .. Len(work)
      /\ Len(work') = n
      /\ DOMAIN work' = 1 .. n
      /\ work'[n] = t
      /\ \A i \in DOMAIN work : work'[i] = work[i] /\ Span(i)' = Span(i)
      /\ Tiled' /\ EarlierWork'
  BY <1>3, <1>4, CutTask DEF Inductive, InitDispatch
<1> HIDE DEF t
<1>6. /\ pc = "init" /\ pc' = "push" /\ run = 0
      /\ load' = [load EXCEPT ![n] = @ + 1]
      /\ UNCHANGED <<run, total, begin, first, tasks, cur, finished, thread>>
  BY DEF InitDispatch, DispatchedWork, poolVars, Alive, Inductive, LoopProgress
<1>7. Pushed' = Pushed
  BY <1>1, <1>5, <1>6 DEF Pushed
<1>8. Pushed \subseteq DOMAIN work
  BY DEF Pushed
<1>9. n \notin finished
  BY <1>1, <1>5, <1>8 DEF Inductive, FinishedPushed
<1>10. LoopProgress'
  <2>1. first' < Len(work')
    BY <1>1, <1>5, <1>6 DEF Inductive, EarlierWork, TypeOK
  <2> QED
    BY <2>1, <1>6
    DEF LoopProgress
<1>11. QueueOrdered'
  BY <1>5, <1>6, <1>7, <1>8 DEF Inductive, QueueOrdered
<1>12. CurrentTask'
  BY <1>5, <1>6, <1>7, <1>8 DEF Inductive, CurrentTask
<1>13. FinishedPushed'
  BY <1>6, <1>7 DEF Inductive, FinishedPushed
<1>14. \A e \in Device : load'[e] = Cardinality(InFlight(e)')
  <2> SUFFICES ASSUME NEW e \in Device PROVE load'[e] = Cardinality(InFlight(e)')
    OBVIOUS
  <2>1. \A i \in DOMAIN work : i \in Outstanding(e)' <=> i \in Outstanding(e)
    BY <1>1, <1>5, <1>6 DEF Outstanding, Dispatched
  <2>2. n \in Outstanding(e)' <=> e = n
    BY <1>1, <1>3, <1>5, <1>6, <1>9 DEF Outstanding, Dispatched
  <2>3. Outstanding(e) \subseteq DOMAIN work /\ Outstanding(e)' \subseteq DOMAIN work \cup {n}
    BY <1>1, <1>5 DEF Outstanding
  <2>6. n \notin DOMAIN work
    BY <1>1, <1>5
  <2> DEFINE T == {offset}
  <2>4. CASE e # n
    <3>1. Outstanding(e)' = Outstanding(e)
      BY <2>1, <2>2, <2>3, <2>4
    <3>2. InFlight(e)' = InFlight(e)
      BY <3>1, <2>3, <1>5 DEF InFlight
    <3> QED
      BY <3>2, <2>4, <1>6 DEF Inductive, TypeOK, SchedulerTypeOK
  <2>5. CASE e = n
    <3>1. Outstanding(e)' = Outstanding(e) \cup {n}
      BY <2>1, <2>2, <2>3, <2>5
    <3>3. work'[n].lo .. work'[n].lo + work'[n].m - 1 = T
      BY <1>3, <1>5 DEF TypeOK
    <3>2. InFlight(e)' = InFlight(e) \cup T
      <4>1. \A i \in Outstanding(e) :
              work'[i].lo .. work'[i].lo + work'[i].m - 1 = Span(i)
        BY <2>3, <1>5 DEF Span
      <4>2. InFlight(e)' =
              UNION {work'[i].lo .. work'[i].lo + work'[i].m - 1 : i \in Outstanding(e) \cup {n}}
        BY <3>1 DEF InFlight, Span
      <4> QED
        BY <4>1, <4>2, <3>3 DEF InFlight
    <3>4. IsFiniteSet(InFlight(e)) /\ InFlight(e) \subseteq 0 .. offset - 1
      BY InFlightFinite DEF Inductive
    <3>5. IsFiniteSet(T) /\ Cardinality(T) = 1
      BY FS_Singleton
    <3>6. InFlight(e) \cap T = {}
      BY <3>4 DEF TypeOK
    <3> HIDE DEF T
    <3>7. load[e] = Cardinality(InFlight(e))
      BY DEF Inductive
    <3>8. load[e] + 1 = Cardinality(InFlight(e) \cup T)
      BY <3>4, <3>5, <3>6, <3>7, LoadGrows
    <3> QED
      BY <3>2, <3>8, <2>5, <1>6 DEF TypeOK, SchedulerTypeOK
  <2> QED
    BY <2>4, <2>5
<1>15. Quiet'
  BY <1>6 DEF Quiet
<1>16. RoomKept'
  BY <1>6 DEF RoomKept
<1> QED
  BY <1>5, <1>10, <1>11, <1>12, <1>13, <1>14, <1>15, <1>16 DEF Inductive

LEMMA DispatchInductive ==
  ASSUME TypeOK, Inductive, Alive, Dispatch
  PROVE  Inductive'
<1> DEFINE n == Len(work)
           t == work[n]
<1>1. n \in Nat \ {0} /\ n \in DOMAIN work /\ t \in Task
  BY PickFacts, LenProperties DEF Dispatch, Inductive, LoopProgress, TypeOK
<1>2. t.dev \in Device /\ t.m \in Nat
  BY <1>1 DEF Task
<1>3. run > 0 /\ load[t.dev] + t.m <= Capacity[t.dev]
  BY DEF Dispatch, Inductive, LoopProgress, RoomKept
<1>4. Capacity[t.dev] \in Nat /\ load[t.dev] \in Nat
  BY <1>2, DeviceAssumption DEF TypeOK, SchedulerTypeOK
<1>5. ~Oversubscribes(t.dev, t.m)
  BY <1>2, <1>3, <1>4 DEF Oversubscribes
<1>6. /\ pc = "dispatch" /\ pc' = "push"
      /\ load' = [load EXCEPT ![t.dev] = @ + t.m]
      /\ UNCHANGED <<run, total, begin, first, offset, work, tasks, cur, finished, thread>>
  BY <1>5 DEF Dispatch, DispatchedWork, poolVars
<1> HIDE DEF t, n
<1>7. Pushed' = Pushed
  BY <1>6 DEF Pushed
<1>8. n \notin finished
  BY <1>1, <1>6 DEF Inductive, FinishedPushed, Pushed, n
<1>9. LoopProgress'
  BY <1>6 DEF Inductive, LoopProgress
<1>10. Tiled' /\ EarlierWork'
  BY <1>6 DEF Inductive, Tiled, EarlierWork, Span
<1>11. QueueOrdered'
  BY <1>6, <1>7 DEF Inductive, QueueOrdered
<1>12. CurrentTask'
  BY <1>6, <1>7 DEF Inductive, CurrentTask
<1>13. FinishedPushed'
  BY <1>6, <1>7 DEF Inductive, FinishedPushed
<1>14. \A e \in Device : load'[e] = Cardinality(InFlight(e)')
  <2> SUFFICES ASSUME NEW e \in Device PROVE load'[e] = Cardinality(InFlight(e)')
    OBVIOUS
  <2>1. \A i : Span(i)' = Span(i)
    BY <1>6 DEF Span
  <2>2. CASE e # t.dev
    <3>1. Outstanding(e)' = Outstanding(e)
      BY <2>2, <1>1, <1>6 DEF Outstanding, Dispatched, n, t
    <3>2. InFlight(e)' = InFlight(e)
      BY <3>1, <2>1 DEF InFlight
    <3> QED
      BY <3>2, <2>2, <1>6 DEF Inductive, TypeOK, SchedulerTypeOK
  <2>3. CASE e = t.dev
    <3>1. Outstanding(e)' = Outstanding(e) \cup {n}
      BY <2>3, <1>1, <1>6, <1>8, LenProperties DEF Outstanding, Dispatched, n, t, TypeOK
    <3>2. n \notin Outstanding(e)
      BY <1>1, <1>6 DEF Outstanding, Dispatched, n
    <3>3. InFlight(e)' = InFlight(e) \cup Span(n)
      BY <3>1, <2>1 DEF InFlight
    <3>4. IsFiniteSet(InFlight(e))
      BY InFlightFinite DEF Inductive
    <3>5. IsFiniteSet(Span(n)) /\ Cardinality(Span(n)) = t.m
      BY <1>1, SpanCardinality DEF t
    <3>6. InFlight(e) \cap Span(n) = {}
      BY <3>2, <1>1, SpansDisjoint DEF InFlight, Outstanding, Inductive
    <3>7. load[e] = Cardinality(InFlight(e))
      BY DEF Inductive
    <3>8. load[e] + t.m = Cardinality(InFlight(e) \cup Span(n))
      BY <3>4, <3>5, <3>6, <3>7, LoadGrows
    <3> QED
      BY <3>3, <3>8, <2>3, <1>2, <1>6 DEF TypeOK, SchedulerTypeOK
  <2> QED
    BY <2>2, <2>3
<1>15. Quiet'
  BY <1>6 DEF Quiet
<1>16. RoomKept'
  BY <1>2, <1>3, <1>4, <1>6 DEF Inductive, RoomKept, TypeOK, SchedulerTypeOK
<1> QED
  BY <1>9, <1>10, <1>11, <1>12, <1>13, <1>14, <1>15, <1>16 DEF Inductive

LEMMA PushInductive ==
  ASSUME TypeOK, Inductive, Alive, Push
  PROVE  Inductive'
<1> DEFINE n == Len(work)
           d == work[n].dev
<1>1. n \in Nat \ {0} /\ n \in DOMAIN work /\ DOMAIN work = 1 .. n /\ work[n] \in Task
  BY PickFacts, LenProperties DEF Push, Inductive, LoopProgress, TypeOK
<1>2. d \in Device
  BY <1>1 DEF Task
<1>3. /\ pc = "push" /\ pc' = "notify"
      /\ tasks' = [tasks EXCEPT ![d] = Append(@, n)]
      /\ UNCHANGED <<load, run, total, begin, first, offset, work, cur, finished, thread>>
  BY DEF Push
<1>4. /\ tasks[d] \in Seq(Nat)
      /\ Len(tasks[d]) \in Nat
      /\ DOMAIN tasks[d] = 1 .. Len(tasks[d])
  BY <1>2, LenProperties DEF TypeOK
<1>5. /\ DOMAIN tasks'[d] = 1 .. Len(tasks[d]) + 1
      /\ \A j \in DOMAIN tasks[d] : tasks'[d][j] = tasks[d][j]
      /\ tasks'[d][Len(tasks[d]) + 1] = n
  BY <1>1, <1>2, <1>3, <1>4, AppendFacts DEF TypeOK
<1>6. \A e \in Device : e # d => tasks'[e] = tasks[e]
  BY <1>3 DEF TypeOK
<1> HIDE DEF n, d
<1>7. Pushed' = Pushed \cup {n}
  BY <1>1, <1>3 DEF Pushed, n
<1>8. \A i \in Pushed : i \in Nat /\ i < n
  BY <1>1, <1>3 DEF Pushed, n
<1>9. n \notin finished
  BY <1>1, <1>8 DEF Inductive, FinishedPushed
<1>10. \A e \in Device : cur[e] < n
  <2>1. \A e \in Device : cur[e] = 0 \/ cur[e] \in Pushed
    BY DEF Inductive, CurrentTask
  <2> QED
    BY <2>1, <1>1, <1>8 DEF n
<1>11. LoopProgress'
  BY <1>3 DEF Inductive, LoopProgress
<1>12. Tiled' /\ EarlierWork'
  BY <1>3 DEF Inductive, Tiled, EarlierWork, Span
<1>13. QueueOrdered'
  <2> SUFFICES ASSUME NEW e \in Device
               PROVE  /\ \A j \in DOMAIN tasks'[e] :
                           /\ tasks'[e][j] \in Pushed'
                           /\ work[tasks'[e][j]].dev = e
                           /\ tasks'[e][j] \notin finished
                           /\ cur[e] < tasks'[e][j]
                      /\ \A j, k \in DOMAIN tasks'[e] :
                           j < k => tasks'[e][j] < tasks'[e][k]
    BY <1>3 DEF QueueOrdered
  <2>1. CASE e # d
    BY <2>1, <1>6, <1>7 DEF Inductive, QueueOrdered
  <2>2. CASE e = d
    <3>1. \A j \in DOMAIN tasks'[d] :
            j \in DOMAIN tasks[d] \/ (j = Len(tasks[d]) + 1 /\ tasks'[d][j] = n)
      BY <1>4, <1>5
    <3>2. \A j \in DOMAIN tasks[d] :
            /\ tasks[d][j] \in Pushed /\ tasks[d][j] < n
            /\ work[tasks[d][j]].dev = d
            /\ tasks[d][j] \notin finished
            /\ cur[d] < tasks[d][j]
      BY <1>2, <1>8 DEF Inductive, QueueOrdered
    <3>3. \A j \in DOMAIN tasks'[d] :
            /\ tasks'[d][j] \in Pushed'
            /\ work[tasks'[d][j]].dev = d
            /\ tasks'[d][j] \notin finished
            /\ cur[d] < tasks'[d][j]
      BY <3>1, <3>2, <1>2, <1>5, <1>7, <1>9, <1>10 DEF d
    <3>4. \A j, k \in DOMAIN tasks'[d] : j < k => tasks'[d][j] < tasks'[d][k]
      <4> SUFFICES ASSUME NEW j \in DOMAIN tasks'[d], NEW k \in DOMAIN tasks'[d], j < k
                   PROVE  tasks'[d][j] < tasks'[d][k]
        OBVIOUS
      <4>1. j \in DOMAIN tasks[d]
        BY <1>4, <1>5
      <4>2. CASE k \in DOMAIN tasks[d]
        BY <4>1, <4>2, <1>2, <1>5 DEF Inductive, QueueOrdered
      <4>3. CASE tasks'[d][k] = n
        BY <4>1, <4>3, <3>2, <1>5
      <4> QED
        BY <3>1, <4>2, <4>3
    <3> QED
      BY <3>3, <3>4, <2>2
  <2> QED
    BY <2>1, <2>2
<1>14. CurrentTask'
  BY <1>3, <1>7 DEF Inductive, CurrentTask
<1>15. FinishedPushed'
  BY <1>3, <1>7 DEF Inductive, FinishedPushed
<1>16. \A e \in Device : load'[e] = Cardinality(InFlight(e)')
  <2>1. \A e \in Device : Outstanding(e)' = Outstanding(e)
    BY <1>3 DEF Outstanding, Dispatched
  <2>2. \A e \in Device : InFlight(e)' = InFlight(e)
    BY <2>1, <1>3 DEF InFlight, Span
  <2> QED
    BY <2>2, <1>3 DEF Inductive
<1>17. Quiet' /\ RoomKept'
  BY <1>3 DEF Quiet, Inductive, RoomKept
<1> QED
  BY <1>11, <1>12, <1>13, <1>14, <1>15, <1>16, <1>17 DEF Inductive

\* When no device is loaded, nothing is queued and no thread is busy.
LEMMA NothingInFlight ==
  ASSUME TypeOK, Inductive, AllWorkCompleted, pc \notin Undispatched, NEW d \in Device
  PROVE  /\ Outstanding(d) = {}
         /\ DOMAIN tasks[d] = {}
         /\ thread[d] \in Idle
         /\ cur[d] = 0
<1>1. IsFiniteSet(InFlight(d)) /\ Cardinality(InFlight(d)) = 0
  BY InFlightFinite DEF Inductive, AllWorkCompleted
<1>2. InFlight(d) = {}
  BY <1>1, FS_EmptySet
<1>3. \A i \in DOMAIN work : work[i] \in Task
  BY ElementOfSeq, LenProperties DEF TypeOK
<1>4. \A i \in DOMAIN work : work[i].lo \in Span(i)
  BY <1>3 DEF Span, Task
<1>5. Outstanding(d) = {}
  BY <1>2, <1>4 DEF InFlight, Outstanding
<1>6. \A i \in Pushed : i \in DOMAIN work /\ Dispatched(i)
  BY DEF Pushed, Dispatched, Undispatched
<1>7. DOMAIN tasks[d] = {}
  BY <1>5, <1>6 DEF Inductive, QueueOrdered, Outstanding
<1>8. thread[d] \in Idle
  BY <1>5, <1>6 DEF Inductive, CurrentTask, Outstanding, Idle
<1>9. cur[d] = 0
  BY <1>8 DEF Inductive, CurrentTask, Idle
<1> QED
  BY <1>5, <1>7, <1>8, <1>9

\* run() on a pool at rest starts from nothing; after a run that threw it goes on with the
\* tasks of that run in flight.
LEMMA StartRunInductive ==
  ASSUME TypeOK, Inductive, Alive, NEW t \in Totals, StartRun(t)
  PROVE  Inductive'
<1>1. /\ pc \in {"ready", "threw"} /\ pc' = "schedule"
      /\ run' = run + 1 /\ offset' = begin' /\ total' = begin' + t
      /\ UNCHANGED <<load, tasks, thread, cur>>
  BY DEF StartRun
<1>2. t \in Nat /\ run \in Nat
  BY CallsAssumption DEF TypeOK
<1>3. CASE pc = "ready"
  <2>1. begin' = 0 /\ first' = 0 /\ work' = <<>> /\ finished' = {}
    BY <1>3 DEF StartRun
  <2>2. AllWorkCompleted
    BY <1>3 DEF Inductive, Quiet
  <2>3. \A d \in Device : DOMAIN tasks[d] = {} /\ thread[d] \in Idle /\ cur[d] = 0
    BY <1>3, <2>2, NothingInFlight DEF Undispatched
  <2>5. DOMAIN work' = {} /\ Len(work') = 0
    BY <2>1
  <2>6. LoopProgress'
    BY <1>1, <1>2, <2>1 DEF LoopProgress
  <2>7. Tiled' /\ EarlierWork'
    BY <1>1, <2>1, <2>5 DEF Tiled, EarlierWork
  <2>8. QueueOrdered'
    BY <1>1, <2>3 DEF QueueOrdered
  <2>9. CurrentTask'
    BY <1>1, <2>3 DEF CurrentTask, Idle
  <2>10. FinishedPushed'
    BY <2>1 DEF FinishedPushed
  <2>11. \A d \in Device : load'[d] = Cardinality(InFlight(d)')
    <3>1. \A d \in Device : InFlight(d)' = {}
      BY <2>5 DEF InFlight, Outstanding
    <3> QED
      BY <3>1, <1>1, <2>2, FS_EmptySet DEF AllWorkCompleted
  <2>12. Quiet'
    BY <1>1 DEF Quiet
  <2>13. RoomKept'
    BY <1>1, <2>2, DeviceAssumption DEF RoomKept, AllWorkCompleted
  <2> QED
    BY <2>6, <2>7, <2>8, <2>9, <2>10, <2>11, <2>12, <2>13 DEF Inductive
<1>4. CASE pc = "threw"
  <2>1. begin' = offset /\ first' = Len(work) /\ UNCHANGED <<work, finished, offset>>
    BY <1>1, <1>4 DEF StartRun
  <2>2. DOMAIN work = 1 .. Len(work) /\ Len(work) \in Nat
    BY LenProperties DEF TypeOK
  <2>3. Pushed' = Pushed
    BY <1>1, <1>4, <2>1 DEF Pushed
  <2>6. LoopProgress'
    BY <1>1, <1>2, <2>1 DEF LoopProgress, TypeOK
  <2>7. Tiled' /\ EarlierWork'
    BY <2>1, <2>2 DEF Inductive, Tiled, EarlierWork, Span, TypeOK
  <2>8. QueueOrdered'
    BY <1>1, <2>1, <2>3 DEF Inductive, QueueOrdered
  <2>9. CurrentTask'
    BY <1>1, <2>1, <2>3 DEF Inductive, CurrentTask
  <2>10. FinishedPushed'
    BY <2>1, <2>3 DEF Inductive, FinishedPushed
  <2>11. \A d \in Device : load'[d] = Cardinality(InFlight(d)')
    <3>1. \A d \in Device : Outstanding(d)' = Outstanding(d)
      BY <1>1, <1>4, <2>1 DEF Outstanding, Dispatched
    <3>2. \A d \in Device : InFlight(d)' = InFlight(d)
      BY <2>1, <3>1 DEF InFlight, Span
    <3> QED
      BY <3>2, <1>1 DEF Inductive
  <2>12. Quiet'
    BY <1>1 DEF Quiet
  <2>13. RoomKept'
    BY <1>1, <1>4 DEF Inductive, RoomKept, LoopProgress
  <2> QED
    BY <2>6, <2>7, <2>8, <2>9, <2>10, <2>11, <2>12, <2>13 DEF Inductive
<1> QED
  BY <1>1, <1>3, <1>4

LEMMA TakeInductive ==
  ASSUME TypeOK, Inductive, Alive, NEW d \in Device, Take(d)
  PROVE  Inductive'
<1> DEFINE i == tasks[d][1]
           q == tasks[d]
<1>1. /\ q \in Seq(Nat) /\ q # <<>>
      /\ Len(q) \in Nat \ {0} /\ DOMAIN q = 1 .. Len(q)
  BY EmptySeq, LenProperties DEF Take, TypeOK
<1>2. /\ UNCHANGED <<load, pc, run, total, begin, first, offset, work, finished>>
      /\ thread[d] = "check"
      /\ cur' = [cur EXCEPT ![d] = i]
      /\ tasks' = [tasks EXCEPT ![d] = Tail(q)]
      /\ \E p \in {"init", "work"} : thread' = [thread EXCEPT ![d] = p]
  <2>1. Head(tasks[d]) = tasks[d][1]
    BY <1>1
  <2>2. \E p \in {"init", "work"} : thread' = [thread EXCEPT ![d] = p]
    BY DEF Take
  <2> QED
    BY <2>1, <2>2 DEF Take, mainVars
<1>3. /\ tasks'[d] = Tail(q)
      /\ DOMAIN tasks'[d] = 1 .. Len(q) - 1
      /\ \A j \in 1 .. Len(q) - 1 : tasks'[d][j] = q[j + 1]
  BY <1>1, <1>2, HeadTailProperties, LenProperties DEF TypeOK
<1>4. 1 \in DOMAIN q /\ \A j \in 1 .. Len(q) - 1 : j + 1 \in DOMAIN q /\ 1 < j + 1
  BY <1>1
<1>5. /\ i \in Pushed /\ work[i].dev = d /\ i \notin finished /\ i \in Nat
      /\ cur[d] = 0
  BY <1>1, <1>2, <1>4, ElementOfSeq DEF Inductive, QueueOrdered, CurrentTask
<1>6. /\ cur'[d] = i /\ thread'[d] \in {"init", "work"}
      /\ \A e \in Device : e # d =>
           cur'[e] = cur[e] /\ tasks'[e] = tasks[e] /\ thread'[e] = thread[e]
  BY <1>2 DEF TypeOK
<1>7. \A j \in 1 .. Len(q) - 1 :
        /\ q[j + 1] \in Pushed
        /\ work[q[j + 1]].dev = d
        /\ q[j + 1] \notin finished
        /\ i < q[j + 1]
  BY <1>4 DEF Inductive, QueueOrdered
<1>8. \A j, k \in 1 .. Len(q) - 1 : j < k => q[j + 1] < q[k + 1]
  <2> SUFFICES ASSUME NEW j \in 1 .. Len(q) - 1, NEW k \in 1 .. Len(q) - 1, j < k
               PROVE  q[j + 1] < q[k + 1]
    OBVIOUS
  <2>1. j + 1 \in DOMAIN q /\ k + 1 \in DOMAIN q /\ j + 1 < k + 1
    BY <1>4
  <2> QED
    BY <2>1 DEF Inductive, QueueOrdered
<1>9. Pushed' = Pushed
  BY <1>2 DEF Pushed
<1> HIDE DEF i, q
<1>10. LoopProgress' /\ Tiled' /\ EarlierWork' /\ Quiet' /\ RoomKept'
  BY <1>2 DEF Inductive, LoopProgress, Tiled, EarlierWork, Span, Quiet, AllWorkCompleted, RoomKept
<1>11. QueueOrdered'
  <2> SUFFICES ASSUME NEW e \in Device
               PROVE  /\ \A j \in DOMAIN tasks'[e] :
                           /\ tasks'[e][j] \in Pushed
                           /\ work[tasks'[e][j]].dev = e
                           /\ tasks'[e][j] \notin finished
                           /\ cur'[e] < tasks'[e][j]
                      /\ \A j, k \in DOMAIN tasks'[e] :
                           j < k => tasks'[e][j] < tasks'[e][k]
    BY <1>2, <1>9 DEF QueueOrdered
  <2>1. CASE e # d
    BY <2>1, <1>6 DEF Inductive, QueueOrdered
  <2>2. CASE e = d
    <3>1. \A j \in DOMAIN tasks'[d] : j \in 1 .. Len(q) - 1 /\ tasks'[d][j] = q[j + 1]
      BY <1>3
    <3>2. \A j \in DOMAIN tasks'[d] :
            /\ tasks'[d][j] \in Pushed
            /\ work[tasks'[d][j]].dev = d
            /\ tasks'[d][j] \notin finished
            /\ cur'[d] < tasks'[d][j]
      BY <3>1, <1>6, <1>7
    <3>3. \A j, k \in DOMAIN tasks'[d] : j < k => tasks'[d][j] < tasks'[d][k]
      BY <3>1, <1>8
    <3> QED
      BY <3>2, <3>3, <2>2
  <2> QED
    BY <2>1, <2>2
<1>12. CurrentTask'
  <2> SUFFICES ASSUME NEW e \in Device
               PROVE  /\ thread'[e] \in {"check", "asleep", "exited"} => cur'[e] = 0
                      /\ thread'[e] \notin {"check", "asleep", "exited"} =>
                           cur'[e] \in Pushed /\ work[cur'[e]].dev = e
                      /\ thread'[e] \in {"init", "inserting", "work"} =>
                           cur'[e] \notin finished
                      /\ thread'[e] \in {"store", "storing", "complete"} =>
                           cur'[e] \in finished
    BY <1>2, <1>9 DEF CurrentTask
  <2>1. CASE e # d
    BY <2>1, <1>6 DEF Inductive, CurrentTask
  <2>2. CASE e = d
    BY <2>2, <1>5, <1>6
  <2> QED
    BY <2>1, <2>2
<1>13. FinishedPushed'
  BY <1>2, <1>9 DEF Inductive, FinishedPushed
<1>14. \A e \in Device : load'[e] = Cardinality(InFlight(e)')
  <2>1. 0 \notin DOMAIN work
    BY LenProperties DEF TypeOK
  <2>2. \A e \in Device : Outstanding(e)' = Outstanding(e)
    BY <2>1, <1>2, <1>5, <1>6 DEF Outstanding, Dispatched
  <2>3. \A e \in Device : InFlight(e)' = InFlight(e)
    BY <2>2, <1>2 DEF InFlight, Span
  <2> QED
    BY <2>3, <1>2 DEF Inductive
<1> QED
  BY <1>10, <1>11, <1>12, <1>13, <1>14 DEF Inductive

\* do_work, or the initialisation of a thread, is done for the current task.
LEMMA FinishInductive ==
  ASSUME TypeOK, Inductive, Alive, NEW d \in Device, InsertEnd(d) \/ DoWork(d)
  PROVE  Inductive'
<1>1. /\ UNCHANGED <<load, pc, run, total, begin, first, offset, work, tasks, cur>>
      /\ thread[d] \in {"inserting", "work"}
      /\ finished' = finished \cup {cur[d]}
      /\ \E p \in {"complete", "store"} : thread' = [thread EXCEPT ![d] = p]
  BY DEF InsertEnd, DoWork, mainVars
<1>2. cur[d] \in Pushed /\ work[cur[d]].dev = d /\ cur[d] \notin finished
  BY <1>1 DEF Inductive, CurrentTask
<1>3. /\ thread'[d] \in {"complete", "store"}
      /\ \A e \in Device : e # d => thread'[e] = thread[e]
  BY <1>1 DEF TypeOK
<1>4. Pushed' = Pushed
  BY <1>1 DEF Pushed
<1>5. LoopProgress' /\ Tiled' /\ EarlierWork' /\ Quiet' /\ RoomKept'
  BY <1>1 DEF Inductive, LoopProgress, Tiled, EarlierWork, Span, Quiet, AllWorkCompleted, RoomKept
<1>6. QueueOrdered'
  <2>1. \A e \in Device : \A j \in DOMAIN tasks[e] : tasks[e][j] # cur[d]
    <3> SUFFICES ASSUME NEW e \in Device, NEW j \in DOMAIN tasks[e], tasks[e][j] = cur[d]
                 PROVE  FALSE
      OBVIOUS
    <3>1. e = d
      BY <1>2 DEF Inductive, QueueOrdered
    <3>2. cur[d] < cur[d]
      BY <3>1 DEF Inductive, QueueOrdered
    <3> QED
      BY <3>2 DEF TypeOK
  <2> QED
    BY <2>1, <1>1, <1>4 DEF Inductive, QueueOrdered
<1>7. CurrentTask'
  <2> SUFFICES ASSUME NEW e \in Device
               PROVE  /\ thread'[e] \in {"check", "asleep", "exited"} => cur[e] = 0
                      /\ thread'[e] \notin {"check", "asleep", "exited"} =>
                           cur[e] \in Pushed /\ work[cur[e]].dev = e
                      /\ thread'[e] \in {"init", "inserting", "work"} =>
                           cur[e] \notin finished'
                      /\ thread'[e] \in {"store", "storing", "complete"} =>
                           cur[e] \in finished'
    BY <1>1, <1>4 DEF CurrentTask
  <2>1. CASE e # d
    BY <2>1, <1>1, <1>2, <1>3 DEF Inductive, CurrentTask
  <2>2. CASE e = d
    BY <2>2, <1>1, <1>2, <1>3
  <2> QED
    BY <2>1, <2>2
<1>8. FinishedPushed'
  BY <1>1, <1>2, <1>4 DEF Inductive, FinishedPushed
<1>9. \A e \in Device : load'[e] = Cardinality(InFlight(e)')
  <2>1. \A e \in Device : Outstanding(e)' = Outstanding(e)
    BY <1>1, <1>2 DEF Outstanding, Dispatched
  <2>2. \A e \in Device : InFlight(e)' = InFlight(e)
    BY <2>1, <1>1 DEF InFlight, Span
  <2> QED
    BY <2>2, <1>1 DEF Inductive
<1> QED
  BY <1>5, <1>6, <1>7, <1>8, <1>9 DEF Inductive

LEMMA CompleteInductive ==
  ASSUME TypeOK, Inductive, Alive, NEW d \in Device, Complete(d)
  PROVE  Inductive'
<1> DEFINE i == cur[d]
           m == work[i].m
<1>1. /\ UNCHANGED <<run, total, begin, first, offset, work, tasks, finished>>
      /\ thread[d] = "complete"
      /\ load[d] >= m
      /\ load' = [load EXCEPT ![d] = @ - m]
      /\ cur' = [cur EXCEPT ![d] = 0]
      /\ thread' = [thread EXCEPT ![d] = "check"]
  BY DEF Complete, CompletedWork
<1>2. /\ pc' \in Undispatched <=> pc \in Undispatched
      /\ pc' \in Unpushed <=> pc \in Unpushed
      /\ pc' \in {"ready", "returned"} => pc \in {"ready", "returned"}
      /\ pc' = pc \/ (pc = "scheduleAsleep" /\ pc' = "schedule")
                  \/ (pc = "waitAsleep" /\ pc' = "wait")
  BY DEF Complete, NotifyMain, Undispatched, Unpushed
<1>3. i \in Pushed /\ work[i].dev = d /\ i \in finished
  BY <1>1 DEF Inductive, CurrentTask
<1>4. i \in DOMAIN work /\ i \in Nat \ {0} /\ Dispatched(i)
  BY <1>3, LenProperties DEF Pushed, Dispatched, TypeOK
<1>5. m \in Nat
  <2>1. work[i] \in Task
    BY <1>4, ElementOfSeq, LenProperties DEF TypeOK
  <2> QED
    BY <2>1 DEF Task
<1>6. /\ cur'[d] = 0 /\ thread'[d] = "check" /\ load'[d] = load[d] - m
      /\ \A e \in Device : e # d =>
           cur'[e] = cur[e] /\ load'[e] = load[e] /\ thread'[e] = thread[e]
  BY <1>1 DEF TypeOK, SchedulerTypeOK
<1>7. \A e \in Device : load[e] \in Nat /\ load'[e] \in Nat /\ load'[e] <= load[e]
  BY <1>1, <1>5, <1>6 DEF TypeOK, SchedulerTypeOK
<1> HIDE DEF i, m
<1>8. Pushed' = Pushed
  BY <1>1, <1>2 DEF Pushed, Unpushed
<1>9. LoopProgress'
  BY <1>1, <1>2 DEF Inductive, LoopProgress
<1>10. Tiled' /\ EarlierWork'
  BY <1>1 DEF Inductive, Tiled, EarlierWork, Span
<1>11. QueueOrdered'
  <2> SUFFICES ASSUME NEW e \in Device
               PROVE  /\ \A j \in DOMAIN tasks[e] :
                           /\ tasks[e][j] \in Pushed
                           /\ work[tasks[e][j]].dev = e
                           /\ tasks[e][j] \notin finished
                           /\ cur'[e] < tasks[e][j]
                      /\ \A j, k \in DOMAIN tasks[e] :
                           j < k => tasks[e][j] < tasks[e][k]
    BY <1>1, <1>8 DEF QueueOrdered
  <2>1. CASE e # d
    BY <2>1, <1>6 DEF Inductive, QueueOrdered
  <2>2. CASE e = d
    <3>1. \A j \in Pushed : j \in Nat /\ 0 < j
      BY LenProperties DEF Pushed, TypeOK
    <3> QED
      BY <3>1, <2>2, <1>6 DEF Inductive, QueueOrdered
  <2> QED
    BY <2>1, <2>2
<1>12. CurrentTask'
  <2> SUFFICES ASSUME NEW e \in Device
               PROVE  /\ thread'[e] \in {"check", "asleep", "exited"} => cur'[e] = 0
                      /\ thread'[e] \notin {"check", "asleep", "exited"} =>
                           cur'[e] \in Pushed /\ work[cur'[e]].dev = e
                      /\ thread'[e] \in {"init", "inserting", "work"} =>
                           cur'[e] \notin finished
                      /\ thread'[e] \in {"store", "storing", "complete"} =>
                           cur'[e] \in finished
    BY <1>1, <1>8 DEF CurrentTask
  <2>1. CASE e # d
    BY <2>1, <1>6 DEF Inductive, CurrentTask
  <2>2. CASE e = d
    BY <2>2, <1>6
  <2> QED
    BY <2>1, <2>2
<1>13. FinishedPushed'
  BY <1>1, <1>8 DEF Inductive, FinishedPushed
<1>14. \A e \in Device : load'[e] = Cardinality(InFlight(e)')
  <2> SUFFICES ASSUME NEW e \in Device PROVE load'[e] = Cardinality(InFlight(e)')
    OBVIOUS
  <2>1. \A j : Span(j)' = Span(j)
    BY <1>1 DEF Span
  <2>2. CASE e # d
    <3>1. Outstanding(e)' = Outstanding(e)
      BY <2>2, <1>1, <1>2, <1>6 DEF Outstanding, Dispatched, Undispatched
    <3>2. InFlight(e)' = InFlight(e)
      BY <3>1, <2>1 DEF InFlight
    <3> QED
      BY <3>2, <2>2, <1>6 DEF Inductive
  <2>3. CASE e = d
    <3> DEFINE rest == UNION {Span(j) : j \in Outstanding(d) \ {i}}
    <3>1. i \in Outstanding(d)
      BY <1>3, <1>4 DEF Outstanding, i
    <3>11. 0 \notin DOMAIN work
      BY LenProperties DEF TypeOK
    <3>12. \A j : Dispatched(j)' <=> Dispatched(j)
      BY <1>1, <1>2 DEF Dispatched, Undispatched
    <3>2. Outstanding(d)' = Outstanding(d) \ {i}
      BY <3>11, <3>12, <1>1, <1>3, <1>6 DEF Outstanding, i
    <3>3. InFlight(d)' = rest
      BY <3>2, <2>1 DEF InFlight
    <3>4. InFlight(d) = rest \cup Span(i)
      BY <3>1 DEF InFlight
    <3>5. rest \cap Span(i) = {}
      BY <1>4, SpansDisjoint DEF Outstanding, Inductive
    <3>6. IsFiniteSet(InFlight(d)) /\ IsFiniteSet(Span(i)) /\ Cardinality(Span(i)) = m
      BY <1>4, InFlightFinite, SpanCardinality DEF Inductive, m
    <3>7. IsFiniteSet(rest)
      <4>1. rest \in SUBSET InFlight(d)
        BY <3>4
      <4> HIDE DEF rest
      <4> QED
        BY <4>1, <3>6, FS_Subset
    <3> HIDE DEF rest
    <3>8. Cardinality(rest) \in Nat
      BY <3>7, FS_CardinalityType
    <3>9. Cardinality(InFlight(d)) = Cardinality(rest) + m
      BY <3>4, <3>5, <3>6, <3>7, AddDisjoint
    <3>10. load[d] = Cardinality(InFlight(d))
      BY DEF Inductive
    <3> QED
      BY <3>3, <3>8, <3>9, <3>10, <2>3, <1>5, <1>6
  <2> QED
    BY <2>2, <2>3
<1>15. Quiet'
  <2> SUFFICES ASSUME pc' \in {"ready", "returned"}, NEW e \in Device
               PROVE  load'[e] = 0
    BY DEF Quiet, AllWorkCompleted
  <2>1. load[e] = 0
    BY <1>2 DEF Inductive, Quiet, AllWorkCompleted
  <2> QED
    BY <2>1, <1>7
<1>16. RoomKept'
  <2>1. CASE run > 0
    <3>1. \A e \in Device : load[e] <= Capacity[e] /\ Capacity[e] \in Nat
      BY <2>1, DeviceAssumption DEF Inductive, RoomKept
    <3>2. \A e \in Device : load'[e] <= Capacity[e]
      BY <3>1, <1>7
    <3>3. ASSUME pc \in Undispatched
          PROVE  load'[work[Len(work)].dev] + work[Len(work)].m
                   <= Capacity[work[Len(work)].dev]
      <4> DEFINE t == work[Len(work)]
      <4>1. t \in Task
        BY <3>3, PickFacts DEF Undispatched, Inductive, LoopProgress, TypeOK
      <4>2. t.dev \in Device /\ t.m \in Nat
        BY <4>1 DEF Task
      <4>3. load[t.dev] + t.m <= Capacity[t.dev]
        BY <3>3, <2>1 DEF Undispatched, Inductive, RoomKept
      <4> QED
        BY <4>2, <4>3, <3>1, <1>7
    <3> QED
      BY <3>2, <3>3, <1>1, <1>2 DEF RoomKept, Undispatched
  <2>2. CASE ~(run > 0)
    BY <2>2, <1>1 DEF RoomKept
  <2> QED
    BY <2>1, <2>2
<1> QED
  BY <1>9, <1>10, <1>11, <1>12, <1>13, <1>14, <1>15, <1>16 DEF Inductive

-----------------------------------------------------------------------------
(* The invariant *)

LEMMA InitInductive == Init => IInv
<1> SUFFICES ASSUME Init PROVE IInv
  OBVIOUS
<1>1. DOMAIN work = {} /\ \A d \in Device : DOMAIN tasks[d] = {}
  BY DEF Init
<1>2. TypeOK
  BY InitTypeOK
<1>3. LoopProgress
  BY DEF Init, LoopProgress
<1>4. Tiled /\ EarlierWork
  BY <1>1 DEF Init, Tiled, EarlierWork
<1>5. QueueOrdered
  BY <1>1 DEF QueueOrdered
<1>6. CurrentTask
  BY DEF Init, CurrentTask
<1>7. FinishedPushed
  BY DEF Init, FinishedPushed
<1>8. \A d \in Device : load[d] = Cardinality(InFlight(d))
  <2>1. \A d \in Device : InFlight(d) = {}
    BY <1>1 DEF InFlight, Outstanding
  <2> QED
    BY <2>1, FS_EmptySet DEF Init, SchedulerInit
<1>9. Quiet
  BY DEF Init, SchedulerInit, Quiet, AllWorkCompleted
<1>10. RoomKept
  BY DEF Init, RoomKept
<1> QED
  BY <1>2, <1>3, <1>4, <1>5, <1>6, <1>7, <1>8, <1>9, <1>10 DEF IInv, Inductive

LEMMA StepInductive == IInv /\ [Next]_vars => IInv'
<1> SUFFICES ASSUME IInv, [Next]_vars PROVE IInv'
  OBVIOUS
<1>1. TypeOK
  BY DEF IInv
<1>2. CASE Ended \/ UNCHANGED vars
  <2>1. UNCHANGED vars
    BY <1>2 DEF Ended
  <2>2. TypeOK'
    BY <1>1, <2>1 DEF vars, mainVars, poolVars, unsyncVars, TypeOK, SchedulerTypeOK
  <2>3. ASSUME Alive' PROVE Inductive'
    <3>1. Alive /\ Inductive
      BY <2>1, <2>3 DEF vars, mainVars, Alive, IInv
    <3>2. /\ run > 0 /\ pc \in {"wait", "waitAsleep", "returned"} => offset = total
          /\ pc \in {"ready", "returned"} => AllWorkCompleted
          /\ pc = "init" => run = 0
          /\ pc \in {"schedule", "scheduleAsleep", "returned", "threw"} => run > 0
      BY <3>1 DEF Inductive, LoopProgress, Quiet
    <3> QED
      BY <1>1, <2>1, <3>1, <3>2, Bystander DEF vars, mainVars, poolVars
  <2> QED
    BY <2>2, <2>3 DEF IInv
<1>3. CASE MainStep
  <2>1. Alive
    BY <1>3 DEF Alive, MainStep, InitDispatch, InitDispatched, StartRun, ScheduleSleep,
       Schedule, ScheduleThrow, AllDispatched, ResizeInPlace, GrowBegin, GrowEnd, Dispatch,
       Push, Notify, WaitForCompletion, WaitSleep, Return, DestroyModels, SetStop,
       StopNotify, Join
  <2>2. Inductive
    BY <2>1 DEF IInv
  <2>3. TypeOK'
    BY <1>1, <1>3, <2>2, PlainTypeOK, InitDispatchTypeOK, ScheduleTypeOK, DispatchTypeOK,
       OtherMainTypeOK DEF MainStep, Inductive
  <2>4. Alive' => Inductive'
    BY <1>1, <1>3, <2>1, <2>2, MainBystander, NotifyInductive, InitDispatchInductive,
       ScheduleInductive, DispatchInductive, PushInductive, StartRunInductive DEF MainStep
  <2> QED
    BY <2>3, <2>4 DEF IInv
<1>4. ASSUME NEW d \in Device, ThreadStep(d) PROVE IInv'
  <2>1. Alive
    BY <1>4 DEF ThreadStep, Take, Sleep, Exit, InsertBegin, InsertEnd, DoWork, StoreBegin,
       StoreEnd, Complete, Terminate
  <2>2. Inductive
    BY <2>1 DEF IInv
  <2>3. TypeOK'
    BY <1>1, <1>4, <2>2, ThreadTypeOK DEF Inductive
  <2>4. Alive' => Inductive'
    <3>1. CASE Terminate(d)
      BY <3>1 DEF Terminate, Alive
    <3>2. CASE ~Terminate(d)
      BY <1>1, <1>4, <2>1, <2>2, <3>2, ThreadBystander, TakeInductive, FinishInductive,
         CompleteInductive DEF ThreadStep
    <3> QED
      BY <3>1, <3>2
  <2> QED
    BY <2>3, <2>4 DEF IInv
<1> QED
  BY <1>2, <1>3, <1>4 DEF Next

THEOREM Invariance == Spec => []IInv
BY InitInductive, StepInductive, PTL DEF Spec

\* Every variable keeps its type.
THEOREM TypeCorrect == Spec => []TypeOK
<1>1. IInv => TypeOK
  BY DEF IInv
<1> QED
  BY <1>1, Invariance, PTL

\* The load of a device is the number of batches dispatched to it and not
\* completed: dispatched_work and completed_work stay balanced task by task.
THEOREM LoadIsAccounted == Spec => []LoadAccounted
<1>1. IInv => LoadAccounted
  BY DEF IInv, Inductive, LoadAccounted
<1> QED
  BY <1>1, Invariance, PTL

\* StaticHybridScheduler's "Device oversubscribed" assertion cannot fail in a run,
\* although the room is tested and taken in different critical sections.
THEOREM CapacityIsRespected == Spec => []CapacityRespected
<1>1. IInv => CapacityRespected
  BY DEF IInv, Inductive, RoomKept, CapacityRespected
<1> QED
  BY <1>1, Invariance, PTL

\* wait_for_completion lets run_async go on only when do_work has returned for each
\* task, and the tasks hold each batch of the generator exactly once.
THEOREM RunReturnsComplete == Spec => []ReturnsComplete
<1>1. IInv => ReturnsComplete
  <2> SUFFICES ASSUME IInv, pc = "returned"
               PROVE  /\ finished = DOMAIN work
                      /\ \A b \in begin .. total - 1 :
                           Cardinality({i \in Own : b \in Span(i)}) = 1
    BY DEF ReturnsComplete
  <2>1. TypeOK /\ Inductive /\ AllWorkCompleted
    BY DEF IInv, Alive, Inductive, Quiet
  <2>2. \A d \in Device : Outstanding(d) = {}
    BY <2>1, NothingInFlight DEF Undispatched
  <2>3. \A i \in DOMAIN work : work[i].dev \in Device
    <3>1. \A i \in DOMAIN work : work[i] \in Task
      BY <2>1, ElementOfSeq, LenProperties DEF TypeOK
    <3> QED
      BY <3>1 DEF Task
  <2>4. DOMAIN work \subseteq finished
    BY <2>2, <2>3 DEF Outstanding, Dispatched
  <2>5. finished = DOMAIN work
    BY <2>1, <2>4 DEF Inductive, FinishedPushed, Pushed
  <2>7. Own \subseteq DOMAIN work
    BY <2>1, LenProperties DEF Own, TypeOK
  <2>6. ASSUME NEW b \in begin .. total - 1
        PROVE  Cardinality({i \in Own : b \in Span(i)}) = 1
    <3>1. offset = total
      BY <2>1 DEF Inductive, LoopProgress
    <3>2. PICK i \in DOMAIN work : b \in Span(i)
      BY <3>1, <2>1 DEF Inductive, Tiled, TypeOK
    <3>3. \A j \in DOMAIN work : b \in Span(j) => j = i
      BY <3>2, <2>1, SpansDisjoint DEF Inductive
    <3>5. i \in Own
      <4>1. work[i] \in Task /\ i \in Nat /\ i <= Len(work)
        BY <2>1, ElementOfSeq, LenProperties DEF TypeOK
      <4>2. ~(work[i].lo + work[i].m <= begin)
        BY <4>1, <3>2, <2>1 DEF Span, Task, TypeOK
      <4> QED
        BY <4>1, <4>2, <2>1 DEF Inductive, EarlierWork, Own, TypeOK
    <3>4. {j \in Own : b \in Span(j)} = {i}
      BY <3>2, <3>3, <3>5, <2>7
    <3> QED
      BY <3>4, FS_Singleton
  <2> QED
    BY <2>5, <2>6
<1> QED
  BY <1>1, Invariance, PTL

-----------------------------------------------------------------------------
(* What the pool, its queues and the scheduler promise together *)

\* Steps of the main thread that neither push, notify, set the flag nor sleep
LEMMA QuietMainStep ==
  ASSUME NoLostWakeup, Alive, UNCHANGED <<thread, tasks, stop>>,
         pc \notin {"notify", "stopNotify"}, pc' \notin {"scheduleAsleep", "waitAsleep"}
  PROVE  NoLostWakeup'
  BY DEF NoLostWakeup, Alive

LEMMA MainWakeup ==
  ASSUME NoLostWakeup, MainStep, Alive
  PROVE  NoLostWakeup'
<1> USE DEF poolVars
<1>1. CASE InitDispatch \/ InitDispatched \/ AllDispatched \/ ResizeInPlace \/ GrowBegin \/ GrowEnd \/ Dispatch
  BY <1>1, QuietMainStep
     DEF InitDispatch, InitDispatched, AllDispatched, ResizeInPlace, GrowBegin, GrowEnd, Dispatch
<1>2. CASE WaitForCompletion \/ Return \/ DestroyModels \/ Join
  BY <1>2, QuietMainStep DEF WaitForCompletion, Return, DestroyModels, Join
<1>3. CASE \E t \in Totals : StartRun(t)
  BY <1>3, QuietMainStep DEF StartRun
<1>4. CASE \E d \in Device : Schedule(d) \/ ScheduleThrow(d)
  BY <1>4, QuietMainStep DEF Schedule, ScheduleThrow
<1>5. CASE ScheduleSleep
  BY <1>5 DEF ScheduleSleep, NoLostWakeup, Alive, SomeRoom, HasRoom
<1>6. CASE WaitSleep
  BY <1>6 DEF WaitSleep, NoLostWakeup, Alive, AllWorkCompleted
<1>7. CASE Push
  BY <1>7 DEF Push, NoLostWakeup, Alive
<1>8. CASE SetStop
  BY <1>8 DEF SetStop, NoLostWakeup, Alive
<1>9. CASE Notify \/ StopNotify
  <2>1. \A d \in Device : thread'[d] # "asleep"
    BY <1>9 DEF Notify, StopNotify, NotifyThreads
  <2>2. pc' \notin {"scheduleAsleep", "waitAsleep"}
    BY <1>9 DEF Notify, StopNotify
  <2> QED
    BY <2>1, <2>2 DEF NoLostWakeup
<1> QED
  BY <1>1, <1>2, <1>3, <1>4, <1>5, <1>6, <1>7, <1>8, <1>9 DEF MainStep

\* A thread falls asleep on an empty queue only, and wakes the main thread up
\* whenever it has taken load off.
LEMMA ThreadWakeup ==
  ASSUME TypeOK, NoLostWakeup, NEW d \in Device, ThreadStep(d)
  PROVE  NoLostWakeup'
<1>1. CASE Terminate(d)
  BY <1>1 DEF Terminate, NoLostWakeup, Alive
<1>2. CASE Complete(d)
  <2>1. pc' \notin {"scheduleAsleep", "waitAsleep"}
    BY <1>2 DEF Complete, NotifyMain
  <2>2. \A e \in Device : Alive' /\ thread'[e] = "asleep" =>
          Alive /\ thread[e] = "asleep" /\ tasks'[e] = tasks[e]
    BY <1>2 DEF Complete, TypeOK
  <2>3. /\ pc = "notify" => pc' = "notify"
        /\ pc = "stopNotify" => pc' = "stopNotify"
        /\ stop' = stop
    BY <1>2 DEF Complete, NotifyMain
  <2> QED
    BY <2>1, <2>2, <2>3 DEF NoLostWakeup
<1>3. CASE Sleep(d)
  BY <1>3 DEF Sleep, NoLostWakeup, TypeOK, mainVars, Alive, SomeRoom, HasRoom, AllWorkCompleted
<1>4. CASE Take(d)
  BY <1>4 DEF Take, NoLostWakeup, TypeOK, mainVars, Alive, SomeRoom, HasRoom, AllWorkCompleted
<1>5. CASE Exit(d) \/ InsertBegin(d) \/ InsertEnd(d) \/ DoWork(d) \/ StoreBegin(d) \/ StoreEnd(d)
  <2>1. UNCHANGED <<load, pc, tasks, stop>>
    BY <1>5 DEF Exit, InsertBegin, InsertEnd, DoWork, StoreBegin, StoreEnd, mainVars
  <2>2. \A e \in Device : thread'[e] = "asleep" => thread[e] = "asleep"
    BY <1>5 DEF Exit, InsertBegin, InsertEnd, DoWork, StoreBegin, StoreEnd, TypeOK
  <2> QED
    BY <2>1, <2>2 DEF NoLostWakeup, Alive, SomeRoom, HasRoom, AllWorkCompleted
<1> QED
  BY <1>1, <1>2, <1>3, <1>4, <1>5 DEF ThreadStep

LEMMA MainAlive == MainStep => Alive
BY DEF Alive, MainStep, InitDispatch, InitDispatched, StartRun, ScheduleSleep, Schedule,
   ScheduleThrow, AllDispatched, ResizeInPlace, GrowBegin, GrowEnd, Dispatch, Push, Notify,
   WaitForCompletion, WaitSleep, Return, DestroyModels, SetStop, StopNotify, Join

\* A thread of the pool sleeps on a queue with a task, or on the flag that ends it,
\* only while the notification is on its way, and run() never sleeps on room or
\* completion that is there: testing and waiting are one critical section for both.
THEOREM NoWakeupIsLost == Spec => []NoLostWakeup
<1>1. Init => NoLostWakeup
  BY DEF Init, NoLostWakeup
<1>2. TypeOK /\ NoLostWakeup /\ [Next]_vars => NoLostWakeup'
  <2> SUFFICES ASSUME TypeOK, NoLostWakeup, [Next]_vars PROVE NoLostWakeup'
    OBVIOUS
  <2>1. CASE Ended \/ UNCHANGED vars
    BY <2>1 DEF Ended, vars, mainVars, poolVars, NoLostWakeup, Alive, SomeRoom, HasRoom, AllWorkCompleted
  <2>2. CASE MainStep
    BY <2>2, MainAlive, MainWakeup
  <2>3. CASE \E d \in Device : ThreadStep(d)
    BY <2>3, ThreadWakeup
  <2> QED
    BY <2>1, <2>2, <2>3 DEF Next
<1> QED
  BY <1>1, <1>2, TypeCorrect, PTL DEF Spec

-----------------------------------------------------------------------------
(* Draining *)

\* No task that has been pushed is dropped: it is in its queue, with a thread, or done.
Kept ==
  \A i \in Pushed :
    \/ i \in finished
    \/ \E d \in Device : cur[d] = i \/ \E j \in DOMAIN tasks[d] : tasks[d][j] = i

\* Threads leave only once the flag is set, from an empty queue, and nothing is
\* pushed from then on.
Leaving ==
  /\ stop => pc \in {"stopNotify", "join", "joined"}
  /\ \A d \in Device : thread[d] = "exited" => stop /\ tasks[d] = <<>>
  /\ pc = "joined" => \A d \in Device : thread[d] = "exited"

\* The generator is not asked for more than it holds.
WithinTotal == run > 0 => offset <= total

Draining == Kept /\ Leaving /\ WithinTotal

LEMMA PopFacts ==
  ASSUME NEW q \in Seq(Nat), q # <<>>
  PROVE  \A j \in DOMAIN q :
           q[j] = Head(q) \/ \E k \in DOMAIN Tail(q) : Tail(q)[k] = q[j]
<1> SUFFICES ASSUME NEW j \in DOMAIN q, j # 1
             PROVE  \E k \in DOMAIN Tail(q) : Tail(q)[k] = q[j]
  OBVIOUS
<1>1. Len(q) \in Nat /\ DOMAIN q = 1 .. Len(q)
  BY LenProperties
<1>2. j - 1 \in 1 .. Len(q) - 1
  BY <1>1
<1>3. DOMAIN Tail(q) = 1 .. Len(q) - 1 /\ Tail(q)[j - 1] = q[j]
  BY <1>1, <1>2, HeadTailProperties, LenProperties
<1> QED
  BY <1>2, <1>3

\* The room that was found is kept, so dispatched_work does not throw.
LEMMA DispatchPushes ==
  ASSUME TypeOK, Inductive, Dispatch
  PROVE  pc' = "push" /\ UNCHANGED <<run, total, begin, first, offset, work, tasks, cur, finished, thread, stop>>
<1> DEFINE t == work[Len(work)]
<1>1. t \in Task
  BY PickFacts DEF Dispatch, Inductive, LoopProgress, TypeOK
<1>2. t.dev \in Device /\ t.m \in Nat
  BY <1>1 DEF Task
<1>3. run > 0 /\ load[t.dev] + t.m <= Capacity[t.dev]
  BY DEF Dispatch, Inductive, LoopProgress, RoomKept
<1>4. Capacity[t.dev] \in Nat /\ load[t.dev] \in Nat
  BY <1>2, DeviceAssumption DEF TypeOK, SchedulerTypeOK
<1>5. ~Oversubscribes(t.dev, t.m)
  BY <1>2, <1>3, <1>4 DEF Oversubscribes
<1> QED
  BY <1>5 DEF Dispatch, poolVars

\* Steps that leave what has been pushed, the queues and the threads' tasks alone
LEMMA KeptUnchanged ==
  ASSUME Kept, Pushed' = Pushed, UNCHANGED <<tasks, cur>>, finished \subseteq finished'
  PROVE  Kept'
  BY DEF Kept

\* A task that has been created but not pushed does not change what has been pushed.
LEMMA PushedAppend ==
  ASSUME TypeOK, pc \notin Unpushed, NEW t \in Task, work' = Append(work, t), pc' \in Unpushed
  PROVE  Pushed' = Pushed
<1>1. work \in Seq(Task)
  BY DEF TypeOK
<1>2. DOMAIN work' = 1 .. Len(work) + 1 /\ Len(work') = Len(work) + 1 /\ Len(work) \in Nat
  BY <1>1, AppendFacts, LenProperties
<1>3. Pushed = 1 .. Len(work)
  BY <1>1, LenProperties DEF Pushed, Unpushed
<1>4. Pushed' = {i \in 1 .. Len(work) + 1 : i < Len(work) + 1}
  BY <1>2 DEF Pushed, Unpushed
<1> QED
  BY <1>2, <1>3, <1>4

LEMMA MainKept ==
  ASSUME TypeOK, Inductive, Kept, Alive, MainStep, Alive'
  PROVE  Kept'
<1> USE DEF poolVars
<1>1. CASE InitDispatched \/ AllDispatched \/ ScheduleSleep \/ WaitForCompletion \/ WaitSleep \/ Return
  BY <1>1, KeptUnchanged
     DEF InitDispatched, AllDispatched, ScheduleSleep, WaitForCompletion, WaitSleep, Return, Pushed
<1>2. CASE ResizeInPlace \/ GrowBegin \/ GrowEnd
  BY <1>2, KeptUnchanged DEF ResizeInPlace, GrowBegin, GrowEnd, Pushed
<1>3. CASE DestroyModels \/ SetStop \/ Join \/ Notify \/ StopNotify
  BY <1>3, KeptUnchanged DEF DestroyModels, SetStop, Join, Notify, StopNotify, Pushed
<1>4. CASE \E d \in Device : ScheduleThrow(d)
  BY <1>4, KeptUnchanged DEF ScheduleThrow, Pushed
<1>5. CASE InitDispatch
  <2> DEFINE d == Len(work) + 1
             t == [dev |-> d, lo |-> offset, m |-> 1, slot |-> 0]
  <2>1. Len(work) \in Nat /\ Len(work) < NDevices
    BY <1>5, LenProperties DEF TypeOK, InitDispatch
  <2>2. t \in Task
    BY <2>1, DeviceAssumption DEF Task, Device, TypeOK
  <2>3. work' = Append(work, t) /\ pc = "init" /\ pc' = "push"
    BY <1>5 DEF InitDispatch, Alive
  <2>4. Pushed' = Pushed
    BY <2>2, <2>3, PushedAppend DEF Unpushed
  <2> QED
    BY <1>5, <2>4, KeptUnchanged DEF InitDispatch
<1>6. ASSUME NEW d \in Device, Schedule(d) PROVE Kept'
  <2> DEFINE left == total - offset
             m == IF BatchSize[d] < left THEN BatchSize[d] ELSE left
             t == [dev |-> d, lo |-> offset, m |-> m, slot |-> Len(work) - first]
  <2>1. m \in Nat \ {0} /\ Len(work) - first \in Nat
    BY <1>6, DeviceAssumption, LenProperties DEF Schedule, TypeOK, Inductive, EarlierWork
  <2>2. t \in Task
    BY <2>1 DEF Task, TypeOK
  <2>3. work' = Append(work, t) /\ pc = "schedule" /\ pc' = "resize"
    BY <1>6 DEF Schedule
  <2>4. Pushed' = Pushed
    BY <2>2, <2>3, PushedAppend DEF Unpushed
  <2> QED
    BY <1>6, <2>4, KeptUnchanged DEF Schedule
<1>7. CASE Dispatch
  <2>1. pc' = "push"
    BY <1>7, DispatchPushes
  <2> QED
    BY <1>7, <2>1, KeptUnchanged DEF Dispatch, Pushed
<1>8. CASE Push
  <2> DEFINE n == Len(work)
             d == work[n].dev
  <2>1. work \in Seq(Task) /\ first \in Nat /\ first < Len(work)
    BY <1>8 DEF Push, Inductive, LoopProgress, TypeOK
  <2>2. n \in Nat \ {0} /\ work[n] \in Task
    BY <2>1, PickFacts
  <2>3. d \in Device
    BY <2>2 DEF Task
  <2>4. tasks' = [tasks EXCEPT ![d] = Append(@, n)] /\ UNCHANGED <<work, finished, cur>>
    BY <1>8 DEF Push
  <2>5. Pushed' = Pushed \cup {n}
    <3>1. Pushed = {i \in 1 .. n : i < n} /\ Pushed' = 1 .. n
      BY <1>8, <2>1, <2>4, LenProperties DEF Push, Pushed
    <3> QED
      BY <3>1, <2>2
  <2>6. \A e \in Device : \A j \in DOMAIN tasks[e] : j \in DOMAIN tasks'[e] /\ tasks'[e][j] = tasks[e][j]
    BY <2>2, <2>3, <2>4, LenProperties, AppendFacts DEF TypeOK
  <2>7. \E j \in DOMAIN tasks'[d] : tasks'[d][j] = n
    <3>1. tasks[d] \in Seq(Nat) /\ tasks'[d] = Append(tasks[d], n)
      BY <2>3, <2>4 DEF TypeOK
    <3>2. Len(tasks[d]) + 1 \in DOMAIN tasks'[d] /\ tasks'[d][Len(tasks[d]) + 1] = n
      BY <3>1, <2>2, LenProperties, AppendFacts
    <3> QED
      BY <3>2
  <2> QED
    BY <2>3, <2>4, <2>5, <2>6, <2>7 DEF Kept
<1>9. ASSUME NEW t \in Totals, StartRun(t) PROVE Kept'
  <2>1. CASE pc = "ready"
    <3>1. DOMAIN work' = {}
      BY <1>9, <2>1 DEF StartRun
    <3> QED
      BY <3>1 DEF Kept, Pushed
  <2>2. CASE pc = "threw"
    BY <1>9, <2>2, KeptUnchanged DEF StartRun, Pushed
  <2> QED
    BY <1>9, <2>1, <2>2 DEF StartRun
<1> QED
  BY <1>1, <1>2, <1>3, <1>4, <1>5, <1>6, <1>7, <1>8, <1>9 DEF MainStep

LEMMA ThreadKept ==
  ASSUME TypeOK, Inductive, Kept, NEW d \in Device, ThreadStep(d), Alive'
  PROVE  Kept'
<1>1. CASE Take(d)
  <2>1. tasks[d] \in Seq(Nat) /\ tasks[d] # <<>>
    BY <1>1 DEF Take, TypeOK
  <2>2. /\ cur' = [cur EXCEPT ![d] = Head(tasks[d])] /\ tasks' = [tasks EXCEPT ![d] = Tail(@)]
        /\ thread[d] = "check" /\ UNCHANGED <<work, pc, finished>>
    BY <1>1 DEF Take, mainVars
  <2>3. cur[d] = 0
    BY <2>2 DEF Inductive, CurrentTask
  <2>4. \A e \in Device : e # d => cur'[e] = cur[e] /\ tasks'[e] = tasks[e]
    BY <2>2 DEF TypeOK
  <2>5. cur'[d] = Head(tasks[d]) /\ tasks'[d] = Tail(tasks[d])
    BY <2>2 DEF TypeOK
  <2>6. \A i \in Pushed : i # 0
    BY LenProperties DEF Pushed, TypeOK
  <2>7. Pushed' = Pushed
    BY <2>2 DEF Pushed
  <2>8. ASSUME NEW i \in Pushed, i \notin finished
        PROVE  \E e \in Device : cur'[e] = i \/ \E j \in DOMAIN tasks'[e] : tasks'[e][j] = i
    <3>1. PICK e \in Device : cur[e] = i \/ \E j \in DOMAIN tasks[e] : tasks[e][j] = i
      BY <2>8 DEF Kept
    <3>2. CASE e # d
      BY <3>1, <3>2, <2>4
    <3>3. CASE e = d
      <4>1. PICK j \in DOMAIN tasks[d] : tasks[d][j] = i
        BY <3>1, <3>3, <2>3, <2>6
      <4> QED
        <5>1. i = Head(tasks[d]) \/ \E k \in DOMAIN Tail(tasks[d]) : Tail(tasks[d])[k] = i
          BY <4>1, <2>1, PopFacts
        <5> QED
          BY <5>1, <2>5
    <3> QED
      BY <3>2, <3>3
  <2> QED
    BY <2>2, <2>7, <2>8 DEF Kept
<1>2. CASE Sleep(d) \/ Exit(d) \/ InsertBegin(d) \/ InsertEnd(d) \/ DoWork(d) \/ StoreBegin(d) \/ StoreEnd(d)
  <2>1. UNCHANGED <<work, pc, tasks, cur>> /\ finished \subseteq finished'
    BY <1>2 DEF Sleep, Exit, InsertBegin, InsertEnd, DoWork, StoreBegin, StoreEnd, mainVars
  <2> QED
    BY <2>1, KeptUnchanged DEF Pushed
<1>3. CASE Complete(d)
  <2>1. cur' = [cur EXCEPT ![d] = 0] /\ thread[d] = "complete" /\ UNCHANGED <<work, tasks, finished>>
    BY <1>3 DEF Complete
  <2>2. pc' \in Unpushed <=> pc \in Unpushed
    BY <1>3 DEF Complete, NotifyMain, Unpushed
  <2>3. Pushed' = Pushed
    BY <2>1, <2>2 DEF Pushed, Unpushed
  <2>4. cur[d] \in finished
    BY <2>1 DEF Inductive, CurrentTask
  <2>5. \A e \in Device : e # d => cur'[e] = cur[e]
    BY <2>1 DEF TypeOK
  <2> QED
    BY <2>1, <2>3, <2>4, <2>5 DEF Kept
<1>4. CASE Terminate(d)
  BY <1>4 DEF Terminate, Alive
<1> QED
  BY <1>1, <1>2, <1>3, <1>4 DEF ThreadStep

LEMMA MainLeaving ==
  ASSUME TypeOK, Inductive, Leaving, MainStep, Alive'
  PROVE  Leaving'
<1> USE DEF poolVars
<1>1. CASE InitDispatch \/ InitDispatched \/ AllDispatched \/ ScheduleSleep \/ ResizeInPlace
           \/ GrowBegin \/ GrowEnd
  BY <1>1 DEF Leaving, InitDispatch, InitDispatched, AllDispatched, ScheduleSleep, ResizeInPlace, GrowBegin, GrowEnd
<1>2. CASE WaitForCompletion \/ WaitSleep \/ Return \/ DestroyModels \/ SetStop \/ Join \/ Dispatch
  BY <1>2 DEF Leaving, WaitForCompletion, WaitSleep, Return, DestroyModels, SetStop, Join, Dispatch
<1>3. CASE \E t \in Totals : StartRun(t)
  BY <1>3 DEF Leaving, StartRun
<1>4. CASE \E d \in Device : Schedule(d) \/ ScheduleThrow(d)
  BY <1>4 DEF Leaving, Schedule, ScheduleThrow
<1>5. CASE Push
  BY <1>5 DEF Leaving, Push
<1>6. CASE Notify \/ StopNotify
  BY <1>6 DEF Leaving, Notify, StopNotify, NotifyThreads
<1> QED
  BY <1>1, <1>2, <1>3, <1>4, <1>5, <1>6 DEF MainStep

LEMMA ThreadLeaving ==
  ASSUME TypeOK, Leaving, NEW d \in Device, ThreadStep(d), Alive'
  PROVE  Leaving'
<1> USE DEF mainVars
<1>1. CASE Take(d)
  BY <1>1 DEF Leaving, Take, TypeOK
<1>5. CASE Sleep(d)
  BY <1>5 DEF Leaving, Sleep, TypeOK
<1>6. CASE Exit(d)
  BY <1>6 DEF Leaving, Exit, TypeOK
<1>2. CASE InsertBegin(d) \/ InsertEnd(d) \/ DoWork(d) \/ StoreBegin(d) \/ StoreEnd(d)
  BY <1>2 DEF Leaving, InsertBegin, InsertEnd, DoWork, StoreBegin, StoreEnd, TypeOK
<1>3. CASE Complete(d)
  <2>1. /\ thread[d] = "complete" /\ thread' = [thread EXCEPT ![d] = "check"]
        /\ UNCHANGED <<stop, tasks>>
    BY <1>3 DEF Complete
  <2>2. \/ pc' = pc
        \/ pc = "scheduleAsleep" /\ pc' = "schedule"
        \/ pc = "waitAsleep" /\ pc' = "wait"
    BY <1>3 DEF Complete, NotifyMain
  <2> QED
    BY <2>1, <2>2 DEF Leaving, TypeOK
<1>4. CASE Terminate(d)
  BY <1>4 DEF Terminate, Alive
<1> QED
  BY <1>1, <1>2, <1>3, <1>4, <1>5, <1>6 DEF ThreadStep

LEMMA StepWithinTotal ==
  ASSUME TypeOK, Inductive, WithinTotal, MainStep \/ \E d \in Device : ThreadStep(d)
  PROVE  WithinTotal'
<1>1. CASE InitDispatch
  BY <1>1 DEF WithinTotal, InitDispatch, Inductive, LoopProgress
<1>2. CASE \E d \in Device : Schedule(d)
  BY <1>2, DeviceAssumption DEF WithinTotal, Schedule, TypeOK
<1>3. CASE \E t \in Totals : StartRun(t)
  BY <1>3, CallsAssumption DEF WithinTotal, StartRun, TypeOK
<1>4. CASE MainStep /\ UNCHANGED <<run, total, begin, first, offset>>
  BY <1>4 DEF WithinTotal
<1>5. CASE \E d \in Device : ThreadStep(d)
  BY <1>5 DEF WithinTotal, ThreadStep, Take, Sleep, Exit, InsertBegin, InsertEnd, DoWork,
     StoreBegin, StoreEnd, Complete, Terminate, mainVars
<1> QED
  BY <1>1, <1>2, <1>3, <1>4, <1>5
     DEF MainStep, InitDispatched, ScheduleSleep, ScheduleThrow, AllDispatched, ResizeInPlace,
         GrowBegin, GrowEnd, Dispatch, Push, Notify, WaitForCompletion, WaitSleep, Return,
         DestroyModels, SetStop, StopNotify, Join

\* While the dispatcher exists, no batch that was pushed is lost between queue,
\* thread and result, no thread ends with tasks left in its queue, and no more is
\* handed out than the generator has.
THEOREM DrainingInvariance == Spec => [](Alive => Draining)
<1>1. Init => Draining
  BY DEF Init, Draining, Kept, Leaving, WithinTotal, Pushed
<1>2. IInv /\ (Alive => Draining) /\ [Next]_vars => (Alive => Draining)'
  <2> SUFFICES ASSUME IInv, Alive => Draining, [Next]_vars, Alive' PROVE Draining'
    OBVIOUS
  <2>1. CASE Ended \/ UNCHANGED vars
    <3>1. UNCHANGED vars
      BY <2>1 DEF Ended
    <3> QED
      BY <3>1 DEF vars, mainVars, poolVars, Alive, Draining, Kept, Leaving, WithinTotal, Pushed
  <2>2. CASE MainStep
    BY <2>2, MainAlive, MainKept, MainLeaving, StepWithinTotal DEF IInv, Draining
  <2>3. ASSUME NEW d \in Device, ThreadStep(d) PROVE Draining'
    <3>1. Alive
      BY <2>3 DEF ThreadStep, Take, Sleep, Exit, InsertBegin, InsertEnd, DoWork, StoreBegin,
         StoreEnd, Complete, Terminate
    <3> QED
      BY <2>3, <3>1, ThreadKept, ThreadLeaving, StepWithinTotal DEF IInv, Draining
  <2> QED
    BY <2>1, <2>2, <2>3 DEF Next
<1> QED
  BY <1>1, <1>2, Invariance, PTL DEF Spec

\* When the destructor has joined the threads, all that was handed out has been
\* worked on, also after the dispatching loop was left by an exception.
THEOREM JoinDrains == Spec => []DrainedAtJoin
<1>1. IInv /\ (Alive => Draining) => DrainedAtJoin
  <2> SUFFICES ASSUME IInv, Alive => Draining, pc = "joined" PROVE finished = DOMAIN work
    BY DEF DrainedAtJoin
  <2>1. Inductive /\ Draining /\ TypeOK
    BY DEF Alive, IInv
  <2>2. Pushed = DOMAIN work
    BY DEF Pushed
  <2>3. \A d \in Device : cur[d] = 0 /\ DOMAIN tasks[d] = {}
    BY <2>1 DEF Inductive, CurrentTask, Draining, Leaving
  <2>4. \A i \in Pushed : i # 0
    BY <2>1, LenProperties DEF Pushed, TypeOK
  <2> QED
    BY <2>1, <2>2, <2>3, <2>4 DEF Inductive, FinishedPushed, Draining, Kept
<1> QED
  BY <1>1, Invariance, DrainingInvariance, PTL

-----------------------------------------------------------------------------
(* Refinement *)

PhaseOf(p, r) ==
  CASE p = "terminated" -> "crashed"
    [] p = "threw" -> "failed"
    [] p \in {"stop", "stopNotify", "join"} -> "closing"
    [] p = "joined" -> "closed"
    [] p = "returned" -> "returned"
    [] p \in {"init", "ready"} -> "idle"
    [] p \in {"push", "notify", "wait", "waitAsleep"} -> IF r = 0 THEN "idle" ELSE "running"
    [] OTHER -> "running"

LEMMA PhaseIs == phaseMap = PhaseOf(pc, run) /\ phaseMap' = PhaseOf(pc', run')
BY DEF phaseMap, PhaseOf

LEMMA PhaseTable ==
  \A r :
    /\ PhaseOf("terminated", r) = "crashed" /\ PhaseOf("threw", r) = "failed"
    /\ \A p \in {"stop", "stopNotify", "join"} : PhaseOf(p, r) = "closing"
    /\ PhaseOf("joined", r) = "closed" /\ PhaseOf("returned", r) = "returned"
    /\ PhaseOf("init", r) = "idle" /\ PhaseOf("ready", r) = "idle"
    /\ \A p \in {"push", "notify", "wait", "waitAsleep"} :
         PhaseOf(p, r) = IF r = 0 THEN "idle" ELSE "running"
    /\ \A p \in {"schedule", "scheduleAsleep", "resize", "growing", "dispatch"} : PhaseOf(p, r) = "running"
BY DEF PhaseOf

\* Tasks of this run that are finished hold batches of its generator.
LEMMA FinishedWithin ==
  ASSUME TypeOK, Inductive, WithinTotal, run > 0, NEW i \in Pushed, i \in Own
  PROVE  /\ OwnSpan(i) \subseteq 0 .. total - begin - 1
         /\ OwnSpan(i) # {}
         /\ i \notin finished => OwnSpan(i) \cap doneMap = {}
<1>1. i \in DOMAIN work /\ work[i] \in Task /\ i \in Nat
  BY ElementOfSeq, LenProperties DEF Pushed, TypeOK
<1>2. /\ work[i].lo \in Nat /\ work[i].m \in Nat \ {0} /\ work[i].lo + work[i].m <= offset
      /\ begin <= work[i].lo
  BY <1>1 DEF Task, Inductive, Tiled, EarlierWork, Own, TypeOK
<1>6. offset <= total /\ total \in Nat /\ offset \in Nat /\ begin \in Nat
  BY DEF WithinTotal, TypeOK
<1>3. OwnSpan(i) \subseteq 0 .. total - begin - 1
  BY <1>2, <1>6 DEF OwnSpan
<1>4. work[i].lo - begin \in OwnSpan(i)
  <2>1. \A lo, m, b \in Int : m > 0 => lo - b \in lo - b .. lo + m - 1 - b
    OBVIOUS
  <2>2. work[i].lo \in Int /\ work[i].m \in Int /\ work[i].m > 0 /\ begin \in Int
    BY <1>2, <1>6
  <2> QED
    BY <2>1, <2>2 DEF OwnSpan
<1>5. ASSUME i \notin finished, NEW j \in finished PROVE OwnSpan(i) \cap OwnSpan(j) = {}
  <2>1. j \in DOMAIN work /\ j \in Nat /\ i # j
    BY <1>5, LenProperties DEF Inductive, FinishedPushed, Pushed, TypeOK
  <2>2. work[j] \in Task
    BY <2>1, ElementOfSeq, LenProperties DEF TypeOK
  <2>3. work[i].lo + work[i].m <= work[j].lo \/ work[j].lo + work[j].m <= work[i].lo
    BY <2>1, <1>1 DEF Inductive, Tiled
  <2>4. work[j].lo \in Nat /\ work[j].m \in Nat
    BY <2>2 DEF Task
  <2> QED
    BY <2>3, <2>4, <1>2, <1>6 DEF OwnSpan
<1> QED
  <2>1. run # 0
    BY DEF TypeOK
  <2>2. doneMap = UNION {OwnSpan(j) : j \in finished \cap Own}
    BY <2>1 DEF doneMap
  <2> QED
    BY <2>2, <1>3, <1>4, <1>5

\* Steps that finish nothing
LEMMA MapKept ==
  ASSUME TypeOK, Inductive, UNCHANGED <<run, total, begin, first, finished>>,
         \A i \in DOMAIN work : work'[i] = work[i],
         Len(work') = Len(work) \/ Len(work') = Len(work) + 1
  PROVE  batchesMap' = batchesMap /\ doneMap' = doneMap
<1>1. \A i \in finished : OwnSpan(i)' = OwnSpan(i)
  BY DEF OwnSpan, Inductive, FinishedPushed, Pushed
<1>2. \A i \in finished : i \in Nat /\ i <= Len(work) /\ Len(work) \in Nat
  BY LenProperties DEF Inductive, FinishedPushed, Pushed, TypeOK
<1>3. (finished \cap Own)' = finished \cap Own
  BY <1>2 DEF Own, TypeOK
<1> QED
  BY <1>1, <1>3 DEF batchesMap, doneMap

\* After waiting for completion, the tasks that are done hold all batches.
LEMMA AllDone ==
  ASSUME TypeOK, Inductive, WithinTotal, AllWorkCompleted, pc = "wait", run > 0
  PROVE  doneMap = batchesMap
<1>1. \A i \in DOMAIN work : i \in finished /\ i \in Pushed
  <2>1. \A i \in DOMAIN work : work[i] \in Task
    BY ElementOfSeq, LenProperties DEF TypeOK
  <2>2. \A d \in Device : Outstanding(d) = {}
    BY NothingInFlight DEF Undispatched
  <2> QED
    BY <2>1, <2>2 DEF Outstanding, Dispatched, Task, Pushed
<1>2. offset = total
  BY DEF Inductive, LoopProgress
<1>3. ASSUME NEW c \in 0 .. total - begin - 1
      PROVE  \E i \in finished \cap Own : c \in OwnSpan(i)
  <2>1. c + begin \in 0 .. offset - 1
    BY <1>2 DEF TypeOK
  <2>2. PICK i \in DOMAIN work : c + begin \in Span(i)
    BY <2>1 DEF Inductive, Tiled
  <2>3. work[i] \in Task /\ i \in Nat /\ i <= Len(work)
    BY ElementOfSeq, LenProperties DEF TypeOK
  <2>4. ~(work[i].lo + work[i].m <= begin)
    BY <2>2, <2>3 DEF Span, Task, TypeOK
  <2>5. i \in Own
    <3>1. ~(i <= first) /\ first \in Nat /\ Len(work) \in Nat
      BY <2>3, <2>4, LenProperties DEF Inductive, EarlierWork, TypeOK
    <3> QED
      BY <3>1, <2>3 DEF Own
  <2>6. c \in OwnSpan(i)
    <3>1. work[i].lo \in Nat /\ work[i].m \in Nat /\ begin \in Nat /\ c \in Int
      BY <2>3 DEF Task, TypeOK
    <3>2. work[i].lo <= c + begin /\ c + begin <= work[i].lo + work[i].m - 1
      BY <2>2, <3>1 DEF Span
    <3> QED
      BY <3>1, <3>2 DEF OwnSpan
  <2> QED
    BY <2>5, <2>6, <1>1
<1>4. \A i \in finished \cap Own : OwnSpan(i) \subseteq 0 .. total - begin - 1
  BY FinishedWithin DEF Inductive, FinishedPushed
<1>5. UNION {OwnSpan(i) : i \in finished \cap Own} = 0 .. total - begin - 1
  BY <1>3, <1>4
<1> QED
  BY <1>5 DEF doneMap, batchesMap, TypeOK

\* Steps of the main thread that its caller does not see
LEMMA MainStutters ==
  ASSUME TypeOK, Inductive,
         \/ InitDispatched \/ ScheduleSleep \/ AllDispatched \/ ResizeInPlace \/ GrowBegin
         \/ GrowEnd \/ Push \/ Notify \/ WaitSleep \/ SetStop \/ StopNotify
  PROVE  UNCHANGED Promise!vars
<1>1. UNCHANGED <<run, total, begin, first, finished, work>>
  BY DEF InitDispatched, ScheduleSleep, AllDispatched, ResizeInPlace, GrowBegin, GrowEnd, Push,
     Notify, WaitSleep, SetStop, StopNotify, poolVars
<1>2. batchesMap' = batchesMap /\ doneMap' = doneMap
  BY <1>1, MapKept
<1>3. phaseMap' = phaseMap
  <2>1. CASE InitDispatched
    BY <2>1, <1>1, PhaseIs, PhaseTable DEF InitDispatched, Inductive, LoopProgress
  <2>2. CASE AllDispatched
    BY <2>2, <1>1, PhaseIs, PhaseTable DEF AllDispatched, Inductive, LoopProgress
  <2>3. CASE ScheduleSleep \/ ResizeInPlace \/ GrowBegin \/ GrowEnd
    BY <2>3, <1>1, PhaseIs, PhaseTable DEF ScheduleSleep, ResizeInPlace, GrowBegin, GrowEnd
  <2>4. CASE Push \/ WaitSleep
    BY <2>4, <1>1, PhaseIs, PhaseTable DEF Push, WaitSleep
  <2>5. CASE Notify
    BY <2>5, <1>1, PhaseIs, PhaseTable DEF Notify
  <2>6. CASE SetStop \/ StopNotify
    BY <2>6, <1>1, PhaseIs, PhaseTable DEF SetStop, StopNotify
  <2> QED
    BY <2>1, <2>2, <2>3, <2>4, <2>5, <2>6
<1> QED
  BY <1>2, <1>3 DEF Promise!vars

LEMMA MainRefines ==
  ASSUME TypeOK, Inductive, Draining, MainStep
  PROVE  Promise!Next \/ UNCHANGED Promise!vars
<1>1. CASE \/ InitDispatched \/ ScheduleSleep \/ AllDispatched \/ ResizeInPlace \/ GrowBegin
           \/ GrowEnd \/ Push \/ Notify \/ WaitSleep \/ SetStop \/ StopNotify
  BY <1>1, MainStutters
<1>2. CASE InitDispatch
  <2>1. run = 0 /\ run' = run /\ pc = "init" /\ pc' \in {"push", "terminated"}
    BY <1>2 DEF InitDispatch, Inductive, LoopProgress
  <2>2. batchesMap' = batchesMap /\ doneMap' = doneMap
    BY <2>1 DEF batchesMap, doneMap
  <2>3. CASE pc' = "push"
    BY <2>1, <2>2, <2>3, PhaseIs, PhaseTable DEF Promise!vars
  <2>4. CASE pc' = "terminated"
    BY <2>1, <2>2, <2>4, PhaseIs, PhaseTable DEF Promise!Next, Promise!Crash
  <2> QED
    BY <2>1, <2>3, <2>4
<1>3. ASSUME NEW t \in Totals, StartRun(t) PROVE Promise!Call(t)
  <2>1. /\ run' > 0 /\ total' = begin' + t /\ first' = Len(work') /\ begin' \in Nat
        /\ pc \in {"ready", "threw"} /\ pc' = "schedule" /\ t \in Nat /\ Len(work') \in Nat
    BY <1>3, CallsAssumption, LenProperties DEF StartRun, TypeOK
  <2>3. Own' = {}
    BY <2>1 DEF Own
  <2>2. batchesMap' = 0 .. t - 1 /\ doneMap' = {}
    BY <2>1, <2>3 DEF batchesMap, doneMap
  <2> QED
    BY <2>1, <2>2, PhaseIs, PhaseTable DEF Promise!Call
<1>4. ASSUME NEW d \in Device, Schedule(d) PROVE UNCHANGED Promise!vars
  <2>1. /\ UNCHANGED <<run, total, begin, first, finished>> /\ pc = "schedule" /\ pc' = "resize"
        /\ \E t : work' = Append(work, t)
    BY <1>4 DEF Schedule, poolVars
  <2>2. Len(work') = Len(work) + 1 /\ \A i \in DOMAIN work : work'[i] = work[i]
    BY <2>1 DEF TypeOK
  <2> QED
    BY <2>1, <2>2, MapKept, PhaseIs, PhaseTable DEF Promise!vars
<1>5. ASSUME NEW d \in Device, ScheduleThrow(d) PROVE Promise!Throw
  <2>1. UNCHANGED <<run, total, begin, first, finished, work>> /\ pc = "schedule" /\ pc' = "threw"
    BY <1>5 DEF ScheduleThrow, poolVars
  <2> QED
    BY <2>1, MapKept, PhaseIs, PhaseTable DEF Promise!Throw
<1>6. CASE Dispatch
  <2>1. UNCHANGED <<run, total, begin, first, finished, work>> /\ pc = "dispatch" /\ pc' = "push" /\ run > 0
    BY <1>6, DispatchPushes DEF Dispatch, Inductive, LoopProgress
  <2> QED
    BY <2>1, MapKept, PhaseIs, PhaseTable DEF Promise!vars
<1>7. CASE WaitForCompletion
  <2>1. /\ UNCHANGED <<run, total, begin, first, finished, work>> /\ pc = "wait" /\ AllWorkCompleted
        /\ pc' = IF run = 0 THEN "ready" ELSE "returned"
    BY <1>7 DEF WaitForCompletion, poolVars
  <2>2. CASE run = 0
    BY <2>1, <2>2, MapKept, PhaseIs, PhaseTable DEF Promise!vars
  <2>3. CASE run # 0
    <3>1. doneMap = batchesMap
      BY <2>1, <2>3, AllDone DEF Draining, TypeOK
    <3> QED
      BY <2>1, <2>3, <3>1, MapKept, PhaseIs, PhaseTable DEF Promise!Next, Promise!Return
  <2> QED
    BY <2>2, <2>3
<1>8. CASE Return
  <2>1. UNCHANGED <<run, total, begin, first, finished, work>> /\ pc = "returned" /\ pc' = "ready"
    BY <1>8 DEF Return, poolVars
  <2> QED
    BY <2>1, MapKept, PhaseIs, PhaseTable DEF Promise!Next, Promise!BackToIdle
<1>9. CASE DestroyModels
  <2>1. UNCHANGED <<run, total, begin, first, finished, work>> /\ pc \in {"ready", "threw"} /\ pc' = "stop"
    BY <1>9 DEF DestroyModels, poolVars
  <2> QED
    BY <2>1, MapKept, PhaseIs, PhaseTable DEF Promise!Next, Promise!Close
<1>10. CASE Join
  <2>1. UNCHANGED <<run, total, begin, first, finished, work>> /\ pc = "join" /\ pc' = "joined"
    BY <1>10 DEF Join, poolVars
  <2> QED
    BY <2>1, MapKept, PhaseIs, PhaseTable DEF Promise!Next, Promise!Closed
<1> QED
  BY <1>1, <1>2, <1>3, <1>4, <1>5, <1>6, <1>7, <1>8, <1>9, <1>10 DEF MainStep, Promise!Next

\* A thread that has a task works for a call that runs, or was left by an exception.
LEMMA BusyPhase ==
  ASSUME TypeOK, Inductive, Draining, Alive, run > 0, NEW d \in Device, thread[d] \notin Idle
  PROVE  phaseMap \in {"running", "failed", "closing"}
<1>1. pc \notin {"ready", "returned"}
  BY NothingInFlight DEF Inductive, Quiet, Undispatched
<1>2. pc # "joined"
  BY DEF Draining, Leaving, Idle
<1>3. pc # "init"
  BY DEF Inductive, LoopProgress
<1> QED
  BY <1>1, <1>2, <1>3, PhaseIs, PhaseTable DEF TypeOK, MainPlaces, Alive

LEMMA FinishRefines ==
  ASSUME TypeOK, Inductive, Draining, Alive, NEW d \in Device, InsertEnd(d) \/ DoWork(d)
  PROVE  Promise!Next \/ UNCHANGED Promise!vars
<1> DEFINE i == cur[d]
<1>1. /\ UNCHANGED <<run, total, begin, first, work, pc>> /\ finished' = finished \cup {i}
      /\ thread[d] \in {"inserting", "work"}
  BY DEF InsertEnd, DoWork, mainVars
<1>2. phaseMap' = phaseMap /\ batchesMap' = batchesMap
  BY <1>1, PhaseIs DEF batchesMap
<1>3. CASE run = 0
  BY <1>1, <1>2, <1>3 DEF doneMap, Promise!vars
<1>4. CASE run # 0
  <2>1. run > 0 /\ thread[d] \notin Idle
    BY <1>1, <1>4 DEF TypeOK, Idle
  <2>2. i \in Pushed /\ i \notin finished
    BY <1>1 DEF Inductive, CurrentTask
  <2>4. Own' = Own /\ \A j : OwnSpan(j)' = OwnSpan(j)
    BY <1>1 DEF Own, OwnSpan
  <2>7. CASE i \in Own
    <3>1. OwnSpan(i) \subseteq batchesMap \ doneMap /\ OwnSpan(i) # {}
      BY <2>1, <2>2, <2>7, FinishedWithin DEF Draining, batchesMap
    <3>2. doneMap' = doneMap \cup OwnSpan(i)
      BY <1>1, <1>4, <2>4, <2>7 DEF doneMap
    <3>3. Promise!DoWork(OwnSpan(i))
      BY <1>2, <2>1, <3>1, <3>2, BusyPhase DEF Promise!DoWork
    <3> QED
      BY <3>1, <3>3 DEF Promise!Next
  <2>8. CASE i \notin Own
    <3>1. doneMap' = doneMap
      BY <1>1, <1>4, <2>4, <2>8 DEF doneMap
    <3> QED
      BY <3>1, <1>2 DEF Promise!vars
  <2> QED
    BY <2>7, <2>8
<1> QED
  BY <1>3, <1>4

LEMMA ThreadRefines ==
  ASSUME TypeOK, Inductive, Draining, Alive, NEW d \in Device, ThreadStep(d)
  PROVE  Promise!Next \/ UNCHANGED Promise!vars
<1>1. CASE InsertEnd(d) \/ DoWork(d)
  BY <1>1, FinishRefines
<1>2. CASE Take(d) \/ Sleep(d) \/ Exit(d) \/ InsertBegin(d) \/ StoreBegin(d) \/ StoreEnd(d)
  <2>1. UNCHANGED <<run, total, begin, first, finished, work, pc>>
    BY <1>2 DEF Take, Sleep, Exit, InsertBegin, StoreBegin, StoreEnd, mainVars
  <2> QED
    BY <2>1, MapKept, PhaseIs DEF Promise!vars
<1>3. CASE Complete(d)
  <2>1. UNCHANGED <<run, total, begin, first, finished, work>>
    BY <1>3 DEF Complete
  <2>2. \/ pc' = pc
        \/ pc = "scheduleAsleep" /\ pc' = "schedule"
        \/ pc = "waitAsleep" /\ pc' = "wait"
    BY <1>3 DEF Complete, NotifyMain
  <2>3. phaseMap' = phaseMap
    BY <2>1, <2>2, PhaseIs, PhaseTable
  <2> QED
    BY <2>1, <2>3, MapKept DEF Promise!vars
<1>4. CASE Terminate(d)
  <2>1. UNCHANGED <<run, total, begin, first, finished, work>> /\ pc' = "terminated" /\ thread[d] \notin Idle
    BY <1>4 DEF Terminate, poolVars, Idle
  <2>2. pc \notin {"joined", "terminated"}
    BY <2>1 DEF Draining, Leaving, Idle, Alive
  <2>3. phaseMap \notin {"closed", "crashed"}
    BY <2>2, PhaseIs, PhaseTable DEF TypeOK, MainPlaces
  <2> QED
    BY <2>1, <2>3, MapKept, PhaseIs, PhaseTable DEF Promise!Next, Promise!Crash
<1> QED
  BY <1>1, <1>2, <1>3, <1>4 DEF ThreadStep

\* The queue, the threads and the scheduler together keep what BatchDispatch says:
\* no batch is worked on twice, none after the call has returned, and the call
\* returns after all of them, for every number of devices.
THEOREM PoolKeepsPromise == Spec => ImplementsBatchDispatch
<1>1. Init => Promise!Init
  <2> SUFFICES ASSUME Init PROVE Promise!Init
    OBVIOUS
  <2>1. phaseMap = "idle"
    BY PhaseIs, PhaseTable DEF Init
  <2> QED
    BY <2>1 DEF Init, Promise!Init, batchesMap, doneMap
<1>2. IInv /\ (Alive => Draining) /\ [Next]_vars => [Promise!Next]_(Promise!vars)
  <2> SUFFICES ASSUME IInv, Alive => Draining, [Next]_vars
               PROVE  Promise!Next \/ UNCHANGED Promise!vars
    OBVIOUS
  <2>1. CASE Ended \/ UNCHANGED vars
    BY <2>1, PhaseIs DEF Ended, vars, mainVars, poolVars, Promise!vars, batchesMap, doneMap, Own, OwnSpan
  <2>2. CASE MainStep
    BY <2>2, MainAlive, MainRefines DEF IInv
  <2>3. ASSUME NEW d \in Device, ThreadStep(d) PROVE Promise!Next \/ UNCHANGED Promise!vars
    <3>1. Alive
      BY <2>3 DEF ThreadStep, Take, Sleep, Exit, InsertBegin, InsertEnd, DoWork, StoreBegin,
         StoreEnd, Complete, Terminate
    <3> QED
      BY <2>3, <3>1, ThreadRefines DEF IInv
  <2> QED
    BY <2>1, <2>2, <2>3 DEF Next
<1> QED
  BY <1>1, <1>2, Invariance, DrainingInvariance, PTL DEF Spec, ImplementsBatchDispatch, Promise!Spec

-----------------------------------------------------------------------------
(* Synchronous mode *)

Work == [dev : Device \cup {0}, lo : Nat, m : Nat]

\* The first batch behind the results
End == IF results = <<>> THEN 0 ELSE results[Len(results)].lo + results[Len(results)].m

SyncTypeOK ==
  /\ pc \in {"idle", "loop", "work", "returned", "threw"}
  /\ run \in Nat /\ total \in Nat /\ offset \in Nat
  /\ current \in Work
  /\ results \in Seq(Work)

\* The results are consecutive spans from the first batch on.
Consecutive ==
  /\ results # <<>> => results[1].lo = 0
  /\ \A i \in 1 .. Len(results) - 1 : results[i + 1].lo = results[i].lo + results[i].m
  /\ worked = 0 .. End - 1

\* What is cut off and not yet among the results is the current work.
Progress ==
  /\ pc # "idle" => total > 0
  /\ pc = "loop" => End = offset /\ offset <= total
  /\ pc = "work" => /\ current.lo = End /\ current.m > 0
                    /\ current.lo + current.m = offset /\ offset <= total
  /\ pc = "returned" => End = total

SInv == SyncTypeOK /\ Consecutive /\ Progress

LEMMA AppendWork ==
  ASSUME NEW s \in Seq(Work), NEW e \in Work
  PROVE  /\ Append(s, e) \in Seq(Work) /\ Append(s, e) # <<>>
         /\ Len(s) \in Nat /\ DOMAIN s = 1 .. Len(s)
         /\ Len(Append(s, e)) = Len(s) + 1
         /\ DOMAIN Append(s, e) = 1 .. Len(s) + 1
         /\ \A i \in 1 .. Len(s) : Append(s, e)[i] = s[i]
         /\ Append(s, e)[Len(s) + 1] = e
BY LenProperties, AppendProperties

LEMMA EndNat ==
  ASSUME SyncTypeOK
  PROVE  End \in Nat
<1>1. CASE results = <<>>
  BY <1>1 DEF End
<1>2. CASE results # <<>>
  <2>1. results[Len(results)] \in Work
    BY <1>2, EmptySeq, LenProperties, ElementOfSeq DEF SyncTypeOK
  <2> QED
    BY <1>2, <2>1 DEF End, Work
<1> QED
  BY <1>1, <1>2

\* Steps that leave the results alone
LEMMA SameResults ==
  ASSUME Consecutive, UNCHANGED results
  PROVE  Consecutive' /\ End' = End /\ worked' = worked
BY DEF Consecutive, worked, End, SyncSpan

LEMMA NoResults ==
  ASSUME results' = <<>>
  PROVE  Consecutive' /\ End' = 0 /\ worked' = {}
<1>1. DOMAIN results' = {} /\ Len(results') = 0
  OBVIOUS
<1>2. End' = 0 /\ worked' = {}
  BY <1>1 DEF End, worked
<1> QED
  BY <1>1, <1>2 DEF Consecutive

LEMMA DoWorkResults ==
  ASSUME SInv, SyncDoWork
  PROVE  /\ SInv'
         /\ worked' = worked \cup SyncSpan(current)
<1> DEFINE n == Len(results)
<1>1. /\ pc = "work" /\ pc' = "loop" /\ results' = Append(results, current)
      /\ UNCHANGED <<run, total, offset, current>>
      /\ results \in Seq(Work) /\ current \in Work
  BY DEF SyncDoWork, SInv, SyncTypeOK
<1>2. /\ results' \in Seq(Work) /\ results' # <<>>
      /\ n \in Nat /\ DOMAIN results = 1 .. n
      /\ Len(results') = n + 1 /\ DOMAIN results' = 1 .. n + 1
      /\ \A i \in 1 .. n : results'[i] = results[i]
      /\ results'[n + 1] = current
  BY <1>1, AppendWork
<1>3. current.lo \in Nat /\ current.m \in Nat \ {0} /\ current.lo = End /\ current.lo + current.m = offset
  BY <1>1 DEF SInv, Progress, Work
<1> HIDE DEF n
<1>4. End' = current.lo + current.m
  BY <1>2 DEF End
<1>5. worked' = worked \cup SyncSpan(current)
  <2>1. worked' = UNION {SyncSpan(results'[i]) : i \in 1 .. n + 1}
    BY <1>2 DEF worked, SyncSpan
  <2>2. worked = UNION {SyncSpan(results[i]) : i \in 1 .. n}
    BY <1>2 DEF worked
  <2>3. 1 .. n + 1 = (1 .. n) \cup {n + 1}
    BY <1>2
  <2>4. UNION {SyncSpan(results'[i]) : i \in 1 .. n} = worked
    BY <2>2, <1>2
  <2> QED
    BY <2>1, <2>3, <2>4, <1>2
<1>6. worked' = 0 .. End' - 1
  BY <1>3, <1>4, <1>5 DEF SInv, Consecutive, SyncSpan
<1>7. results'[1].lo = 0
  <2>1. CASE results = <<>>
    BY <2>1, <1>1, <1>2, <1>3 DEF End, n
  <2>2. CASE results # <<>>
    <3>1. 1 \in 1 .. n
      BY <2>2, <1>1, <1>2, EmptySeq DEF n
    <3> QED
      BY <3>1, <2>2, <1>2 DEF SInv, Consecutive
  <2> QED
    BY <2>1, <2>2
<1>8. ASSUME NEW i \in 1 .. n PROVE results'[i + 1].lo = results'[i].lo + results'[i].m
  <2>1. CASE i = n
    <3>1. results # <<>>
      BY <2>1, <1>2
    <3> QED
      BY <3>1, <2>1, <1>2, <1>3 DEF End, n
  <2>2. CASE i # n
    <3>1. i \in 1 .. n - 1 /\ i + 1 \in 1 .. n
      BY <2>2, <1>2
    <3> QED
      BY <3>1, <1>2 DEF SInv, Consecutive, n
  <2> QED
    BY <2>1, <2>2
<1>9. Consecutive'
  BY <1>2, <1>6, <1>7, <1>8 DEF Consecutive
<1>10. SyncTypeOK'
  BY <1>1, <1>2 DEF SInv, SyncTypeOK
<1>11. Progress'
  BY <1>1, <1>3, <1>4 DEF SInv, Progress
<1> QED
  BY <1>5, <1>9, <1>10, <1>11 DEF SInv

LEMMA SyncScheduleFacts ==
  ASSUME SInv, NEW d \in Device, SyncSchedule(d)
  PROVE  /\ SInv'
         /\ UNCHANGED <<total, results>> /\ pc = "loop" /\ pc' \in {"work", "threw"}
<1> DEFINE left == total - offset
           m == IF BatchSize[d] < left THEN BatchSize[d] ELSE left
<1>1. /\ pc = "loop" /\ offset < total /\ UNCHANGED <<run, total, results>>
      /\ current' = IF m = 0 THEN current ELSE [dev |-> d, lo |-> offset, m |-> m]
      /\ offset' = offset + m /\ pc' = IF m = 0 THEN "threw" ELSE "work"
  BY DEF SyncSchedule
<1>2. m \in Nat /\ offset + m <= total /\ offset \in Nat /\ total \in Nat
  BY <1>1, DeviceAssumption DEF SInv, SyncTypeOK
<1>3. End' = End /\ End = offset /\ Consecutive'
  BY <1>1, SameResults DEF SInv, Progress
<1> HIDE DEF m
<1>4. SyncTypeOK'
  BY <1>1, <1>2 DEF SInv, SyncTypeOK, Work
<1>5. CASE m = 0
  BY <1>1, <1>2, <1>3, <1>4, <1>5 DEF SInv, Progress
<1>6. CASE m # 0
  <2>1. current' = [dev |-> d, lo |-> offset, m |-> m] /\ pc' = "work"
    BY <1>1, <1>6
  <2> QED
    BY <1>1, <1>2, <1>3, <1>4, <1>6, <2>1 DEF SInv, Progress
<1> QED
  BY <1>5, <1>6

\* The results of a call are the consecutive pieces of its generator, and what has
\* been worked on is what has been cut off, in every reachable state.
THEOREM SyncInvariance == SyncSpec => []SInv
<1>1. SyncInit => SInv
  <2> SUFFICES ASSUME SyncInit PROVE SInv
    OBVIOUS
  <2>1. results = <<>> /\ DOMAIN results = {} /\ Len(results) = 0
    BY DEF SyncInit
  <2>2. End = 0 /\ worked = {}
    BY <2>1 DEF End, worked
  <2>3. Consecutive /\ Progress
    BY <2>1, <2>2 DEF Consecutive, Progress, SyncInit
  <2>4. SyncTypeOK
    BY <2>1, EmptySeq DEF SyncInit, SyncTypeOK, NoWork, Work
  <2> QED
    BY <2>3, <2>4 DEF SInv
<1>2. SInv /\ [SyncNext]_syncVars => SInv'
  <2> SUFFICES ASSUME SInv, [SyncNext]_syncVars PROVE SInv'
    OBVIOUS
  <2>1. ASSUME NEW t \in Totals, SyncStartRun(t) PROVE SInv'
    <3>1. Consecutive' /\ End' = 0
      BY <2>1, NoResults DEF SyncStartRun
    <3>2. t \in Nat \ {0}
      BY CallsAssumption
    <3>3. SyncTypeOK'
      BY <2>1, <3>2, EmptySeq DEF SyncStartRun, SInv, SyncTypeOK
    <3> QED
      BY <2>1, <3>1, <3>2, <3>3 DEF SyncStartRun, SInv, Progress
  <2>2. ASSUME NEW d \in Device, SyncSchedule(d) PROVE SInv'
    BY <2>2, SyncScheduleFacts
  <2>3. CASE SyncDoWork
    BY <2>3, DoWorkResults
  <2>4. CASE WorkThrow \/ SyncReturn \/ BackToIdle
    <3>1. Consecutive' /\ End' = End
      BY <2>4, SameResults DEF WorkThrow, SyncReturn, BackToIdle, SInv
    <3>2. SyncTypeOK'
      BY <2>4 DEF WorkThrow, SyncReturn, BackToIdle, SInv, SyncTypeOK
    <3> QED
      BY <2>4, <3>1, <3>2 DEF WorkThrow, SyncReturn, BackToIdle, SInv, SyncTypeOK, Progress
  <2>5. CASE SyncEnded \/ UNCHANGED syncVars
    <3>1. Consecutive' /\ End' = End
      BY <2>5, SameResults DEF SyncEnded, syncVars, SInv
    <3> QED
      BY <2>5, <3>1 DEF SyncEnded, syncVars, SInv, SyncTypeOK, Progress
  <2> QED
    BY <2>1, <2>2, <2>3, <2>4, <2>5 DEF SyncNext
<1> QED
  BY <1>1, <1>2, PTL DEF SyncSpec

\* reduce is given the results in the order of the batches, without a gap or an
\* overlap, whatever an earlier call has left behind.
THEOREM ResultsInOrder == SyncSpec => []InOrder
<1>1. SInv => InOrder
  <2> SUFFICES ASSUME SInv, pc = "returned" PROVE InOrder
    BY DEF InOrder
  <2>1. total > 0 /\ End = total /\ total \in Nat
    BY DEF SInv, Progress, SyncTypeOK
  <2>2. results # <<>>
    BY <2>1 DEF End
  <2> QED
    BY <2>1, <2>2 DEF InOrder, SInv, Consecutive, End
<1> QED
  BY <1>1, SyncInvariance, PTL

\* Where the caller is, for each place of the thread
LEMMA SyncPhaseTable ==
  /\ pc \in {"loop", "work"} => syncPhase = "running"
  /\ pc = "returned" => syncPhase = "returned"
  /\ pc = "threw" => syncPhase = "failed"
  /\ pc = "idle" => syncPhase = "idle"
  /\ pc' \in {"loop", "work"} => syncPhase' = "running"
  /\ pc' = "returned" => syncPhase' = "returned"
  /\ pc' = "threw" => syncPhase' = "failed"
  /\ pc' = "idle" => syncPhase' = "idle"
BY DEF syncPhase

\* The synchronous loop keeps the promise of BatchDispatch, as the thread pool does:
\* one call is as good as the other for its caller.
THEOREM LoopKeepsPromise == SyncSpec => SyncImplementsBatchDispatch
<1>1. SyncInit => SyncPromise!Init
  <2> SUFFICES ASSUME SyncInit PROVE SyncPromise!Init
    OBVIOUS
  <2>1. worked = {} /\ syncBatches = {} /\ syncPhase = "idle"
    BY SyncPhaseTable DEF SyncInit, worked, syncBatches
  <2> QED
    BY <2>1 DEF SyncPromise!Init
<1>2. SInv /\ SInv' /\ [SyncNext]_syncVars => [SyncPromise!Next]_(SyncPromise!vars)
  <2> SUFFICES ASSUME SInv, SInv', [SyncNext]_syncVars
               PROVE  SyncPromise!Next \/ UNCHANGED SyncPromise!vars
    OBVIOUS
  <2>1. ASSUME NEW t \in Totals, SyncStartRun(t) PROVE SyncPromise!Next
    <3>1. worked' = {} /\ syncBatches' = 0 .. t - 1
      BY <2>1, NoResults DEF SyncStartRun, syncBatches
    <3>2. SyncPromise!Call(t)
      BY <2>1, <3>1, SyncPhaseTable DEF SyncStartRun, SyncPromise!Call
    <3> QED
      BY <3>2 DEF SyncPromise!Next
  <2>2. ASSUME NEW d \in Device, SyncSchedule(d) PROVE SyncPromise!Next \/ UNCHANGED SyncPromise!vars
    <3>1. UNCHANGED <<total, results>> /\ pc = "loop" /\ pc' \in {"work", "threw"}
      BY <2>2, SyncScheduleFacts
    <3>2. worked' = worked /\ syncBatches' = syncBatches
      BY <3>1, SameResults DEF SInv, syncBatches
    <3> QED
      BY <3>1, <3>2, SyncPhaseTable DEF SyncPromise!vars, SyncPromise!Next, SyncPromise!Throw
  <2>3. CASE SyncDoWork
    <3>1. worked' = worked \cup SyncSpan(current)
      BY <2>3, DoWorkResults
    <3>2. UNCHANGED total /\ pc = "work" /\ pc' = "loop"
      BY <2>3 DEF SyncDoWork
    <3>3. /\ current.lo \in Nat /\ current.m \in Nat \ {0} /\ current.lo + current.m <= total
          /\ worked = 0 .. current.lo - 1
      BY <3>2 DEF SInv, Progress, Consecutive, SyncTypeOK, Work
    <3>4. SyncSpan(current) \subseteq syncBatches \ worked /\ SyncSpan(current) # {}
      <4>1. current.lo \in SyncSpan(current)
        BY <3>3 DEF SyncSpan
      <4>2. ASSUME NEW b \in SyncSpan(current) PROVE b \in syncBatches \ worked
        <5>1. total \in Nat /\ b \in Int /\ current.lo <= b /\ b <= current.lo + current.m - 1
          BY <3>3 DEF SyncSpan, SInv, SyncTypeOK
        <5>2. b \in syncBatches
          BY <5>1, <3>3 DEF syncBatches
        <5>3. b \notin 0 .. current.lo - 1
          BY <5>1, <3>3
        <5> QED
          BY <5>2, <5>3, <3>3
      <4> QED
        BY <4>1, <4>2
    <3>5. SyncPromise!DoWork(SyncSpan(current))
      BY <3>1, <3>2, <3>4, SyncPhaseTable DEF SyncPromise!DoWork, syncBatches
    <3> QED
      BY <3>4, <3>5 DEF SyncPromise!Next
  <2>4. CASE WorkThrow \/ SyncReturn \/ BackToIdle
    <3>1. UNCHANGED <<total, results>>
      BY <2>4 DEF WorkThrow, SyncReturn, BackToIdle
    <3>2. worked' = worked /\ syncBatches' = syncBatches
      BY <3>1, SameResults DEF SInv, syncBatches
    <3>3. CASE WorkThrow
      BY <3>2, <3>3, SyncPhaseTable DEF WorkThrow, SyncPromise!Next, SyncPromise!Throw
    <3>4. CASE SyncReturn
      <4>1. worked = syncBatches
        BY <3>4 DEF SyncReturn, SInv, SyncTypeOK, Progress, Consecutive, syncBatches
      <4> QED
        BY <3>2, <3>4, <4>1, SyncPhaseTable DEF SyncReturn, SyncPromise!Next, SyncPromise!Return
    <3>5. CASE BackToIdle
      BY <3>2, <3>5, SyncPhaseTable DEF BackToIdle, SyncPromise!Next, SyncPromise!BackToIdle
    <3> QED
      BY <2>4, <3>3, <3>4, <3>5
  <2>5. CASE SyncEnded \/ UNCHANGED syncVars
    BY <2>5 DEF SyncEnded, syncVars, SyncPromise!vars, syncPhase, syncBatches, worked, SyncSpan
  <2> QED
    BY <2>1, <2>2, <2>3, <2>4, <2>5 DEF SyncNext
<1> QED
  BY <1>1, <1>2, SyncInvariance, PTL DEF SyncSpec, SyncImplementsBatchDispatch, SyncPromise!Spec

=============================================================================
