-------------------------- MODULE JobLifecycleTypes --------------------------
(***************************************************************************)
(* Proof that the variables of JobLifecycle keep their types. A worker's   *)
(* job, record and run only have theirs at certain points of its cycle, so *)
(* the invariant also says at which.                                       *)
(***************************************************************************)
EXTENDS JobLifecycle, TLAPS

\* A worker has a job exactly when it is not idle, has the record of the job
\* once it fetched it, and a run that counts as a ghost is among the ghosts
\* that the record lists.
WorkerShape ==
    \A w \in Workers :
        /\ pc[w] = "idle" <=> workerJob[w] = NoJob
        /\ pc[w] \notin {"idle", "popped"} => workerItem[w] \in JobItem
        /\ workerRun[w] = "ghost" =>
              /\ pc[w] \in {"stated", "saved", "resaved"}
              /\ workerItem[w].ghosts > 0

TypeInv == TypeOK /\ WorkerShape

-----------------------------------------------------------------------------

\* The pure decisions stay within the states and records they work on.
LEMMA DecisionTypes ==
    ASSUME NEW o, NEW item \in JobItem, NEW report \in Report
    PROVE  /\ AddRun(item, report) \in JobItem
           /\ NextState(o, AddRun(item, report), report)
                 \in FinalState \union {"retry", "ghost"}
           /\ \A s \in JobState : Finish(AddRun(item, report), s) \in JobItem
           /\ RunState(report) \in ProcessState \ {"processing"}
           /\ RunState(report) = "ghost" =>
                 \A s \in JobState : Finish(AddRun(item, report), s).ghosts > 0
<1>1. AddRun(item, report) \in JobItem
  <2>1. item.runs + 1 \in Nat /\ item.ghosts + 1 \in Nat
    BY DEF JobItem
  <2>2. QED
    BY <2>1 DEF JobItem, AddRun
<1>2. NextState(o, AddRun(item, report), report) \in FinalState \union {"retry", "ghost"}
  BY DEF NextState, ErrorState, TimeoutState, Report, FinalState
<1>3. ASSUME NEW s \in JobState
      PROVE  /\ Finish(AddRun(item, report), s) \in JobItem
             /\ Finish(AddRun(item, report), s).ghosts = AddRun(item, report).ghosts
  BY <1>1 DEF Finish, JobItem, FinalState
<1>4. RunState(report) \in ProcessState \ {"processing"}
  BY DEF RunState, Report, ProcessState
<1>5. RunState(report) = "ghost" => AddRun(item, report).ghosts > 0
  BY DEF RunState, Report, AddRun, JobItem
<1>6. QED
  BY <1>1, <1>2, <1>3, <1>4, <1>5

\* The original state is one of two.
LEMMA InitialStateType ==
    ASSUME NEW o
    PROVE  InitialState(o) \in {"new", "delayed"}
BY DEF InitialState

\* What a save writes: the record, or what getPublicJSON makes of it.
LEMMA SavedItem ==
    ASSUME NEW j, NEW state, NEW item, SaveItem(j, state, item)
    PROVE  /\ jobState' = [jobState EXCEPT ![j] = state]
           /\ \E saved \in {item, IdOnly} : itemData' = [itemData EXCEPT ![j] = saved]
BY DEF SaveItem

LEMMA SaveTypes ==
    ASSUME TypeOK, NEW j, NEW state \in JobState \union {"none"}, NEW item \in JobItem,
           SaveItem(j, state, item)
    PROVE  /\ jobState' \in [Jobs -> JobState \union {"none"}]
           /\ itemData' \in [Jobs -> JobItem \union {NoItem}]
<1>1. IdOnly \in JobItem
  BY DEF IdOnly, NewItem, JobItem
<1>2. PICK saved \in {item, IdOnly} : itemData' = [itemData EXCEPT ![j] = saved]
  BY SavedItem
<1>3. jobState' = [jobState EXCEPT ![j] = state]
  BY SavedItem
<1>4. QED
  BY <1>1, <1>2, <1>3 DEF TypeOK

LEMMA TypeInit == Init => TypeInv
<1> SUFFICES ASSUME Init PROVE TypeInv
  OBVIOUS
<1>1. queue \in Seq(Jobs)
  BY DEF Init
<1>2. TypeOK
  BY <1>1, MaxLateAssumption DEF Init, TypeOK, JobState, CreatorState, WorkerState
<1>3. WorkerShape
  BY DEF Init, WorkerShape
<1>4. QED
  BY <1>2, <1>3 DEF TypeInv

-----------------------------------------------------------------------------
(***************************************************************************)
(* Steps of the creators.                                                  *)
(***************************************************************************)

LEMMA TypeCreator ==
    ASSUME TypeInv, NEW j \in Jobs,
           Create(j) \/ CreatorStep(j) \/ CreatorAborts(j)
    PROVE  TypeInv'
<1> USE DEF TypeInv, records, places, creatorVars, workerVars, schedVars, history
<1>1. WorkerShape'
  BY DEF WorkerShape, CreatorStep, Create, CreateRecord, CreateState, CreateTimeIndex,
         QueueNewJob, ResaveDelayedJob, ScheduleDelayedJob, SaveTimeIndex, CreatorAborts
<1> SUFFICES TypeOK'
  BY <1>1
<1>2. NewItem \in JobItem
  BY DEF NewItem, JobItem
<1>3. InitialState(opts[j]) \in JobState /\ "delayed" \in JobState
  BY InitialStateType DEF JobState
<1>4. CASE Create(j)
  BY <1>4 DEF Create, TypeOK, CreatorState
<1>5. CASE CreateRecord(j)
  BY <1>2, <1>3, <1>5, SaveTypes DEF CreateRecord, TypeOK, CreatorState
<1>6. CASE CreateState(j)
  BY <1>3, <1>6 DEF CreateState, TypeOK, CreatorState
<1>7. CASE CreateTimeIndex(j)
  BY <1>7 DEF CreateTimeIndex, TypeOK, CreatorState
<1>8. CASE QueueNewJob(j)
  BY <1>8 DEF QueueNewJob, TypeOK, CreatorState
<1>9. CASE ResaveDelayedJob(j)
  BY <1>2, <1>3, <1>9, SaveTypes DEF ResaveDelayedJob, TypeOK, CreatorState
<1>10. CASE ScheduleDelayedJob(j)
  BY <1>10 DEF ScheduleDelayedJob, TypeOK, CreatorState
<1>11. CASE SaveTimeIndex(j)
  BY <1>11 DEF SaveTimeIndex, TypeOK, CreatorState
<1>12. CASE CreatorAborts(j)
  BY <1>12 DEF CreatorAborts, TypeOK, CreatorState
<1>13. QED
  BY <1>1, <1>4, <1>5, <1>6, <1>7, <1>8, <1>9, <1>10, <1>11, <1>12 DEF CreatorStep

-----------------------------------------------------------------------------
(***************************************************************************)
(* Steps of the workers.                                                   *)
(***************************************************************************)

\* A worker that is not idle has a job.
LEMMA WorkerHasJob ==
    ASSUME TypeInv, NEW w \in Workers, pc[w] # "idle"
    PROVE  workerJob[w] \in Jobs
BY DEF TypeInv, TypeOK, WorkerShape

\* Going idle.
LEMMA TypeRelease ==
    ASSUME TypeInv, NEW w \in Workers, Release(w)
    PROVE  /\ WorkerShape'
           /\ pc' \in [Workers -> WorkerState]
           /\ workerJob' \in [Workers -> Jobs \union {NoJob}]
           /\ workerState' \in [Workers -> JobState \union {"none"}]
           /\ workerItem' \in [Workers -> JobItem \union {NoItem}]
           /\ workerRun' \in [Workers -> ProcessState \union {"none"}]
<1>1. WorkerShape'
  BY DEF TypeInv, TypeOK, WorkerShape, Release
<1>2. QED
  BY <1>1 DEF TypeInv, TypeOK, Release, WorkerState

LEMMA TypeWorker ==
    ASSUME TypeInv, NEW w \in Workers,
           WorkerStep(w) \/ LateAnswer(w) \/ WorkerAborts(w)
    PROVE  TypeInv'
<1> USE DEF TypeInv, records, places, creatorVars, workerVars, schedVars, history
<1>1. CASE Pop(w)
  <2>1. Head(queue) \in Jobs /\ Tail(queue) \in Seq(Jobs)
    BY <1>1 DEF Pop, TypeOK
  <2>2. Head(queue) # NoJob
    BY <2>1, NullAssumption
  <2>3. TypeOK'
    BY <1>1, <2>1 DEF Pop, TypeOK, WorkerState
  <2>4. WorkerShape'
    BY <1>1, <2>2 DEF Pop, TypeOK, WorkerShape
  <2>5. QED
    BY <2>3, <2>4
<1>2. CASE Fetch(w)
  <2>1. workerJob[w] \in Jobs
    BY <1>2, WorkerHasJob DEF Fetch
  <2>2. itemData[workerJob[w]] \in JobItem
    BY <1>2, <2>1 DEF Fetch, TypeOK
  <2>3. TypeOK'
    BY <1>2, <2>1, <2>2 DEF Fetch, TypeOK, WorkerState
  <2>4. WorkerShape'
    BY <1>2, <2>2 DEF Fetch, TypeOK, WorkerShape
  <2>5. QED
    BY <2>3, <2>4
<1>3. CASE SetProcessing(w)
  <2>1. TypeOK'
    BY <1>3, WorkerHasJob DEF SetProcessing, SetState, TypeOK, WorkerState, JobState
  <2>2. WorkerShape'
    BY <1>3 DEF SetProcessing, TypeOK, WorkerShape
  <2>3. QED
    BY <2>1, <2>2
<1>4. CASE WorkStart(w)
  <2>1. TypeOK'
    BY <1>4 DEF WorkStart, TypeOK, WorkerState, ProcessState
  <2>2. WorkerShape'
    BY <1>4 DEF WorkStart, TypeOK, WorkerShape
  <2>3. QED
    BY <2>1, <2>2
<1>5. ASSUME NEW report \in Report, Processed(w, report)
      PROVE  TypeInv'
  <2> DEFINE j == workerJob[w]
             item == AddRun(workerItem[w], report)
             state == NextState(OptionsIn(workerItem[w], opts[j]), item, report)
  <2>1. j \in Jobs /\ workerItem[w] \in JobItem
    BY <1>5, WorkerHasJob DEF Processed, WorkerShape
  <2>2. state \in JobState
    BY <2>1, DecisionTypes DEF JobState, FinalState
  <2>3. /\ Finish(item, state) \in JobItem
        /\ RunState(report) \in ProcessState
        /\ RunState(report) = "ghost" => Finish(item, state).ghosts > 0
    BY <2>1, <2>2, DecisionTypes
  <2>4. /\ workerRun' = [workerRun EXCEPT ![w] = RunState(report)]
        /\ workerItem' = [workerItem EXCEPT ![w] = Finish(item, state)]
        /\ jobState' = [jobState EXCEPT ![j] = state]
        /\ stateSet' = [stateSet EXCEPT ![workerState[w]] = @ \ {j}, ![state] = @ \union {j}]
        /\ workerState' = [workerState EXCEPT ![w] = state]
        /\ pc' = [pc EXCEPT ![w] = "stated"]
        /\ UNCHANGED <<itemData, places, creatorVars, workerJob, schedVars, history>>
    BY <1>5 DEF Processed, SetState
  <2> HIDE DEF j, item, state
  <2>5. TypeOK'
    BY <2>1, <2>2, <2>3, <2>4 DEF TypeOK, WorkerState
  <2>6. WorkerShape'
    BY <1>5, <2>3, <2>4 DEF Processed, TypeOK, WorkerShape
  <2>7. QED
    BY <2>5, <2>6
<1>6. CASE SaveProcessed(w)
  <2>1. workerJob[w] \in Jobs /\ workerItem[w] \in JobItem
    BY <1>6, WorkerHasJob DEF SaveProcessed, WorkerShape
  <2>2. TypeOK'
    BY <1>6, <2>1, SaveTypes DEF SaveProcessed, TypeOK, WorkerState
  <2>3. WorkerShape'
    BY <1>6 DEF SaveProcessed, TypeOK, WorkerShape
  <2>4. QED
    BY <2>2, <2>3
<1>7. CASE Resave(w)
  <2>1. workerJob[w] \in Jobs /\ workerItem[w] \in JobItem
    BY <1>7, WorkerHasJob DEF Resave, WorkerShape
  <2>2. TypeOK'
    BY <1>7, <2>1, SaveTypes DEF Resave, TypeOK, WorkerState
  <2>3. WorkerShape'
    BY <1>7 DEF Resave, TypeOK, WorkerShape
  <2>4. QED
    BY <2>2, <2>3
<1>8. CASE Schedule(w)
  <2>1. workerJob[w] \in Jobs
    BY <1>8, WorkerHasJob DEF Schedule
  <2>2. QED
    BY <1>8, <2>1, TypeRelease DEF Schedule, TypeOK, Zsets
<1>9. CASE LateAnswer(w)
  <2>1. workerJob[w] \in Jobs /\ workerItem[w] \in JobItem /\ workerItem[w].ghosts > 0
    BY <1>9, WorkerHasJob DEF LateAnswer, WorkerShape
  <2>2. OverwriteGhost(workerItem[w]) \in JobItem
    BY <2>1 DEF JobItem, OverwriteGhost
  <2>3. PICK run \in {"success", "fail"} : workerRun' = [workerRun EXCEPT ![w] = run]
    BY <1>9 DEF LateAnswer
  <2>4. workerItem' = [workerItem EXCEPT ![w] = OverwriteGhost(workerItem[w])]
    BY <1>9 DEF LateAnswer
  <2>5. late' \in [Jobs -> 0 .. MaxLate]
    BY <1>9, <2>1, MaxLateAssumption DEF LateAnswer, TypeOK
  <2>6. TypeOK'
    BY <1>9, <2>2, <2>3, <2>4, <2>5 DEF LateAnswer, TypeOK, ProcessState
  <2>7. WorkerShape'
    BY <1>9, <2>2, <2>3, <2>4 DEF LateAnswer, TypeOK, WorkerShape
  <2>8. QED
    BY <2>6, <2>7
<1>10. CASE WorkerAborts(w)
  BY <1>10, WorkerHasJob, TypeRelease DEF WorkerAborts, TypeOK
<1>11. QED
  BY <1>1, <1>2, <1>3, <1>4, <1>5, <1>6, <1>7, <1>8, <1>9, <1>10 DEF WorkerStep

-----------------------------------------------------------------------------
(***************************************************************************)
(* Steps of the schedulers.                                                *)
(***************************************************************************)

\* A job leaves the timers of a scheduler.
LEMMA DropTimer ==
    ASSUME timers \in [Schedulers -> [Zsets -> SUBSET Jobs]],
           NEW s \in Schedulers, NEW q \in Zsets, NEW j,
           timers' = [timers EXCEPT ![s][q] = @ \ {j}]
    PROVE  timers' \in [Schedulers -> [Zsets -> SUBSET Jobs]]
<1>1. [timers[s] EXCEPT ![q] = @ \ {j}] \in [Zsets -> SUBSET Jobs]
  OBVIOUS
<1>2. timers' = [timers EXCEPT ![s] = [timers[s] EXCEPT ![q] = @ \ {j}]]
  OBVIOUS
<1>3. QED
  BY <1>1, <1>2

LEMMA TypeScheduler ==
    ASSUME TypeInv, NEW s \in Schedulers,
           \/ SchedulerStep(s)
           \/ \E q \in Zsets : BatchFails(s, q)
           \/ \E j \in Jobs : TaskFails(s, j)
           \/ SchedulerCrashes(s)
    PROVE  TypeInv'
<1> USE DEF TypeInv, records, places, creatorVars, workerVars, schedVars, history
<1>1. WorkerShape'
  BY DEF WorkerShape, SchedulerStep, Ping, FetchScheduled, Lineup, AddToProcessQueue,
         Enqueue, PurgeJob, BatchFails, TaskFails, SchedulerCrashes
<1> SUFFICES TypeOK'
  BY <1>1
<1>2. ASSUME NEW due \in DueBatches, Ping(s, due)
      PROVE  TypeOK'
  BY <1>2 DEF DueBatches, Ping, TypeOK
<1>3. ASSUME NEW q \in Zsets, NEW j \in Jobs, FetchScheduled(s, q, j)
      PROVE  TypeOK'
  BY <1>3 DEF FetchScheduled, TypeOK
<1>4. ASSUME NEW q \in Zsets, Lineup(s, q)
      PROVE  TypeOK'
  BY <1>4 DEF Lineup, TypeOK
<1>5. ASSUME NEW j \in Jobs, AddToProcessQueue(s, j)
      PROVE  TypeOK'
  <2>1. jobState' \in [Jobs -> JobState \union {"none"}]
    BY <1>5 DEF AddToProcessQueue, SetState, TypeOK, JobState
  <2>2. stateSet' \in [JobState -> SUBSET Jobs]
    BY <1>5 DEF AddToProcessQueue, SetState, TypeOK
  <2>3. timers' \in [Schedulers -> [Zsets -> SUBSET Jobs]]
    BY <1>5, DropTimer DEF AddToProcessQueue, TypeOK, Zsets
  <2>4. cached' \in [Schedulers -> [Jobs -> JobState \union {"none"}]]
    BY <1>5 DEF AddToProcessQueue, TypeOK
  <2>5. requeue' \in [Schedulers -> SUBSET Jobs]
    BY <1>5 DEF AddToProcessQueue, TypeOK
  <2>6. QED
    BY <1>5, <2>1, <2>2, <2>3, <2>4, <2>5 DEF AddToProcessQueue, TypeOK
<1>6. ASSUME NEW j \in Jobs, Enqueue(s, j)
      PROVE  TypeOK'
  <2>1. queue' \in Seq(Jobs) /\ nameless' \subseteq Jobs
    <3>1. queue \in Seq(Jobs) /\ nameless \subseteq Jobs /\ Append(queue, j) \in Seq(Jobs)
      BY DEF TypeOK
    <3>2. CASE j \in blank[s]
      BY <1>6, <3>1, <3>2 DEF Enqueue
    <3>3. CASE j \notin blank[s]
      BY <1>6, <3>1, <3>3 DEF Enqueue
    <3>4. QED
      BY <3>2, <3>3
  <2>2. requeue' \in [Schedulers -> SUBSET Jobs] /\ blank' \in [Schedulers -> SUBSET Jobs]
    BY <1>6 DEF Enqueue, TypeOK
  <2>3. QED
    BY <1>6, <2>1, <2>2 DEF Enqueue, TypeOK
<1>7. ASSUME NEW j \in Jobs, PurgeJob(s, j)
      PROVE  TypeOK'
  <2>1. timers' \in [Schedulers -> [Zsets -> SUBSET Jobs]]
    BY <1>7, DropTimer DEF PurgeJob, TypeOK, Zsets
  <2>2. CASE PurgeJobs
    <3>1. DeleteItem(j, cached[s][j])
      BY <1>7, <2>2 DEF PurgeJob
    <3>2. QED
      BY <1>7, <2>1, <3>1 DEF PurgeJob, DeleteItem, TypeOK
  <2>3. CASE ~PurgeJobs
    BY <1>7, <2>1, <2>3 DEF PurgeJob, TypeOK
  <2>4. QED
    BY <2>2, <2>3
<1>8. ASSUME NEW q \in Zsets, BatchFails(s, q)
      PROVE  TypeOK'
  BY <1>8 DEF BatchFails, TypeOK
<1>9. ASSUME NEW j \in Jobs, TaskFails(s, j)
      PROVE  TypeOK'
  BY <1>9 DEF TaskFails, TypeOK
<1>10. CASE SchedulerCrashes(s)
  BY <1>10 DEF SchedulerCrashes, SchedulerHolds, TypeOK, Zsets
<1>11. QED
  BY <1>2, <1>3, <1>4, <1>5, <1>6, <1>7, <1>8, <1>9, <1>10 DEF SchedulerStep

-----------------------------------------------------------------------------

\* An entry of a sorted set falls behind.
LEMMA TypeBehind ==
    ASSUME TypeInv, NEW j \in Jobs, FallsBehind(j)
    PROVE  TypeInv'
<1> USE DEF records, places, creatorVars, workerVars, schedVars, history
<1>1. TypeOK'
  BY DEF FallsBehind, TypeInv, TypeOK
<1>2. WorkerShape'
  BY DEF FallsBehind, TypeInv, WorkerShape
<1>3. QED
  BY <1>1, <1>2 DEF TypeInv

LEMMA TypeStep == TypeInv /\ [Next]_vars => TypeInv'
<1> SUFFICES ASSUME TypeInv, [Next]_vars PROVE TypeInv'
  OBVIOUS
<1>1. CASE UNCHANGED vars
  BY <1>1 DEF TypeInv, TypeOK, WorkerShape, vars
<1>2. CASE Next
  BY <1>2, TypeCreator, TypeWorker, TypeScheduler, TypeBehind DEF Next, Fault
<1>3. QED
  BY <1>1, <1>2

\* Every variable of the system keeps its type, and a worker has a job, a
\* record and a run exactly when the code of Worker has them.
THEOREM TypeCorrect == Spec => [](TypeOK /\ WorkerShape)
<1>1. Init => TypeInv
  BY TypeInit
<1>2. TypeInv /\ [Next]_vars => TypeInv'
  BY TypeStep
<1>3. QED
  BY <1>1, <1>2, PTL DEF Spec, TypeInv
=============================================================================
