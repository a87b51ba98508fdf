------------------------- MODULE JobLifecycleContract -------------------------
(***************************************************************************)
(* Proof that JobLifecycle implements JobContract: every step of the       *)
(* processes is one step in the story of one job, or none at all.          *)
(***************************************************************************)
EXTENDS JobLifecyclePlaces

\* The contract is about the jobs that were born ...
Born == {j \in Jobs : creator[j] \notin {"none", "numbered"}}

\* ... and about who runs each of them.
Runners == [j \in Jobs |-> RunnersOf(j)]

-----------------------------------------------------------------------------
(***************************************************************************)
(* Facts about runners.                                                    *)
(***************************************************************************)

\* A step that the contract does not see.
LEMMA Unseen ==
    ASSUME UNCHANGED jobState, Born' = Born, Runners' = Runners
    PROVE  UNCHANGED Contract!cvars
BY DEF Contract!cvars, Born, Runners

\* Whoever is not a worker leaves the runners alone.
LEMMA SameRunners ==
    ASSUME UNCHANGED <<pc, workerJob>>
    PROVE  Runners' = Runners
BY DEF Runners, RunnersOf

\* A worker that does not begin or end a run leaves them alone, too.
LEMMA RunnersKept ==
    ASSUME TypeOK, NEW w \in Workers,
           pc[w] \notin {"claimed", "running"}, pc'[w] \notin {"claimed", "running"},
           \A v \in Workers \ {w} : pc'[v] = pc[v] /\ workerJob'[v] = workerJob[v]
    PROVE  Runners' = Runners
<1>1. \A j \in Jobs : RunnersOf(j)' = RunnersOf(j)
  BY DEF RunnersOf
<1>2. QED
  BY <1>1 DEF Runners

\* The worker of a job is the only one that can be running it.
LEMMA OnlyRunner ==
    ASSUME PlaceInv, NEW w \in Workers, pc[w] # "idle"
    PROVE  RunnersOf(workerJob[w]) = IF pc[w] \in {"claimed", "running"} THEN {w} ELSE {}
BY WorkerOwns DEF RunnersOf

\* A worker begins or ends the run of its job.
LEMMA RunnersMoved ==
    ASSUME PlaceInv, NEW w \in Workers, pc[w] # "idle",
           \A v \in Workers \ {w} : pc'[v] = pc[v] /\ workerJob'[v] = workerJob[v],
           workerJob'[w] \in {workerJob[w], NoJob},
           pc'[w] \in {"claimed", "running"} => workerJob'[w] = workerJob[w]
    PROVE  Runners' = [Runners EXCEPT ![workerJob[w]] =
                          IF pc'[w] \in {"claimed", "running"} THEN {w} ELSE {}]
<1> DEFINE then == IF pc'[w] \in {"claimed", "running"} THEN {w} ELSE {}
<1>1. PICK j \in Jobs : /\ j = workerJob[w]
                       /\ j # NoJob
                       /\ \A v \in Workers \ {w} : workerJob[v] # j
  BY WorkerOwns, NullAssumption
<1>2. \A v \in Workers \ {w} : workerJob'[v] # j
  BY <1>1
<1>3. RunnersOf(j)' = then
  <2>1. RunnersOf(j)' \subseteq {w}
    BY <1>2 DEF RunnersOf
  <2>2. w \in RunnersOf(j)' <=> pc'[w] \in {"claimed", "running"}
    BY <1>1 DEF RunnersOf
  <2>3. QED
    BY <2>1, <2>2
<1>4. \A k \in Jobs \ {j} : RunnersOf(k)' = RunnersOf(k)
  <2> SUFFICES ASSUME NEW k \in Jobs, k # j
               PROVE  RunnersOf(k)' = RunnersOf(k)
    OBVIOUS
  <2>1. k # NoJob
    BY NullAssumption
  <2>2. workerJob[w] # k /\ workerJob'[w] # k
    BY <1>1, <2>1
  <2>3. QED
    BY <2>2 DEF RunnersOf
<1> HIDE DEF then
<1>5. Runners' = [Runners EXCEPT ![j] = then]
  <2>1. Runners' = [k \in Jobs |-> RunnersOf(k)']
    BY DEF Runners
  <2>2. \A k \in Jobs : RunnersOf(k)' = IF k = j THEN then ELSE RunnersOf(k)
    BY <1>3, <1>4
  <2>3. QED
    BY <2>1, <2>2 DEF Runners
<1>6. QED
  BY <1>1, <1>5 DEF then

-----------------------------------------------------------------------------
(***************************************************************************)
(* Every step is a step of the contract.                                   *)
(***************************************************************************)

LEMMA ContractCreator ==
    ASSUME PlaceInv, NEW j \in Jobs,
           Create(j) \/ CreatorStep(j) \/ CreatorAborts(j)
    PROVE  [Contract!Next]_Contract!cvars
<1> USE DEF records, places, creatorVars, workerVars, schedVars, history
<1>1. TypeOK
  BY DEF PlaceInv, TypeInv
<1>2. Runners' = Runners
  BY SameRunners DEF CreatorStep, Create, CreateRecord, CreateState, CreateTimeIndex,
     QueueNewJob, ResaveDelayedJob, ScheduleDelayedJob, SaveTimeIndex, CreatorAborts
<1>3. CASE CreateRecord(j)
  <2>1. /\ j \notin Born /\ Born' = Born \union {j}
    BY <1>1, <1>3 DEF CreateRecord, Born, TypeOK
  <2>2. \E s \in {"new", "delayed"} : jobState' = [jobState EXCEPT ![j] = s]
    BY <1>3, InitialStateType DEF CreateRecord, SaveItem
  <2>3. Contract!Create(j)
    BY <1>2, <2>1, <2>2 DEF Contract!Create, Born, Runners
  <2>4. QED
    BY <2>3 DEF Contract!Next
<1>4. CASE CreatorAborts(j) /\ creator[j] = "numbered"
  <2>1. j \notin Born /\ Born' = Born \union {j} /\ UNCHANGED jobState
    BY <1>1, <1>4 DEF CreatorAborts, Born, TypeOK
  <2>2. Contract!GiveUp(j)
    BY <1>2, <2>1 DEF Contract!GiveUp, Born, Runners
  <2>3. QED
    BY <2>2 DEF Contract!Next
<1>5. CASE ResaveDelayedJob(j)
  <2>1. jobState[j] = "delayed"
    BY <1>5 DEF ResaveDelayedJob, PlaceInv, FreshRecord, CreatorHolds
  <2>2. UNCHANGED jobState /\ Born' = Born
    BY <1>1, <1>5, <2>1 DEF ResaveDelayedJob, SaveItem, Born, TypeOK
  <2>3. QED
    BY <1>2, <2>2, Unseen
<1>6. CASE \/ Create(j) \/ CreateState(j) \/ CreateTimeIndex(j) \/ QueueNewJob(j)
           \/ ScheduleDelayedJob(j) \/ SaveTimeIndex(j)
           \/ CreatorAborts(j) /\ creator[j] # "numbered"
  <2>1. UNCHANGED jobState /\ Born' = Born
    BY <1>1, <1>6 DEF Create, CreateState, CreateTimeIndex, QueueNewJob,
       ScheduleDelayedJob, SaveTimeIndex, CreatorAborts, Born, TypeOK
  <2>2. QED
    BY <1>2, <2>1, Unseen
<1>7. QED
  BY <1>3, <1>4, <1>5, <1>6 DEF CreatorStep

LEMMA ContractWorker ==
    ASSUME PlaceInv, NEW w \in Workers,
           WorkerStep(w) \/ LateAnswer(w) \/ WorkerAborts(w)
    PROVE  [Contract!Next]_Contract!cvars
<1> USE DEF records, places, creatorVars, workerVars, schedVars, history
<1> DEFINE j == workerJob[w]
<1>1. TypeOK /\ WorkerShape /\ StatesAtNames
  BY StatesAtNames DEF PlaceInv, TypeInv
<1>2. Born' = Born
  BY DEF Born, WorkerStep, Pop, Fetch, SetProcessing, WorkStart, Processed, SaveProcessed,
     Resave, Schedule, LateAnswer, WorkerAborts
<1>3. pc[w] # "idle" => /\ j \in Jobs
                        /\ jobState[j] \in StatesAt(AtWorker(w))
                        /\ RunnersOf(j) = IF pc[w] \in {"claimed", "running"} THEN {w} ELSE {}
  BY WorkerOwns, OnlyRunner
<1>4. CASE SetProcessing(w)
  <2>1. j \in Jobs /\ jobState[j] \in ReadyState /\ RunnersOf(j) = {}
    BY <1>1, <1>3, <1>4 DEF SetProcessing
  <2>2. jobState' = [jobState EXCEPT ![j] = "processing"]
    BY <1>4 DEF SetProcessing, SetState
  <2>3. Runners' = [Runners EXCEPT ![j] = {w}]
    BY <1>1, <1>4, RunnersMoved DEF SetProcessing, TypeOK
  <2>4. Contract!Claim(j, w)
    BY <1>2, <2>1, <2>2, <2>3 DEF Contract!Claim, Contract!ReadyState, ReadyState, Born, Runners
  <2>5. QED
    BY <2>1, <2>4 DEF Contract!Next
<1>5. ASSUME NEW report \in Report, Processed(w, report)
      PROVE  [Contract!Next]_Contract!cvars
  <2> DEFINE state == NextState(OptionsIn(workerItem[w], opts[j]), AddRun(workerItem[w], report), report)
  <2>1. j \in Jobs /\ jobState[j] = "processing" /\ RunnersOf(j) = {w}
    BY <1>1, <1>3, <1>5 DEF Processed
  <2>2. state \in FinalState \union {"retry", "ghost"}
    BY <1>1, <1>5, DecisionTypes DEF Processed, WorkerShape
  <2>3. jobState' = [jobState EXCEPT ![j] = state]
    BY <1>5 DEF Processed, SetState
  <2> HIDE DEF state
  <2>4. Runners' = [Runners EXCEPT ![j] = {}]
    BY <1>1, <1>5, RunnersMoved DEF Processed, TypeOK
  <2>5. Contract!Settle(j, w)
    BY <1>2, <2>1, <2>2, <2>3, <2>4 DEF Contract!Settle, Contract!FinalState, FinalState,
       Born, Runners
  <2>6. QED
    BY <2>1, <2>5 DEF Contract!Next
<1>6. CASE WorkerAborts(w) /\ pc[w] \in {"claimed", "running"}
  <2>1. j \in Jobs /\ RunnersOf(j) = {w} /\ UNCHANGED jobState
    BY <1>3, <1>6 DEF WorkerAborts
  <2>2. Runners' = [Runners EXCEPT ![j] = {}]
    BY <1>1, <1>6, RunnersMoved DEF WorkerAborts, Release, TypeOK
  <2>3. Contract!Abandon(j, w)
    BY <1>2, <2>1, <2>2 DEF Contract!Abandon, Born, Runners
  <2>4. QED
    BY <2>1, <2>3 DEF Contract!Next
<1>7. CASE SaveProcessed(w) \/ Resave(w)
  <2>1. UNCHANGED jobState
    <3>1. workerState[w] = jobState[j]
      BY <1>3, <1>7, WorkerKnows DEF SaveProcessed, Resave
    <3>2. SaveItem(j, jobState[j], workerItem[w]) \/ UNCHANGED jobState
      BY <1>7, <3>1 DEF SaveProcessed, Resave
    <3>3. QED
      BY <1>1, <3>2 DEF SaveItem, TypeOK
  <2>2. Runners' = Runners
    <3>1. /\ pc[w] \in {"stated", "saved"} /\ pc'[w] \in {"saved", "resaved"}
          /\ \A v \in Workers \ {w} : pc'[v] = pc[v]
          /\ UNCHANGED workerJob
      BY <1>1, <1>7 DEF SaveProcessed, Resave, TypeOK
    <3>2. QED
      BY <1>1, <3>1, RunnersKept
  <2>3. QED
    BY <1>2, <2>1, <2>2, Unseen
<1>8. CASE WorkStart(w)
  <2>1. Runners' = [Runners EXCEPT ![j] = {w}]
    BY <1>1, <1>8, RunnersMoved DEF WorkStart, TypeOK
  <2>2. Runners' = Runners
    BY <1>3, <1>8, <2>1 DEF WorkStart, Runners
  <2>3. QED
    BY <1>2, <1>8, <2>2, Unseen DEF WorkStart
<1>9. CASE \/ Pop(w) \/ Fetch(w) \/ Schedule(w) \/ LateAnswer(w)
           \/ WorkerAborts(w) /\ pc[w] \notin {"claimed", "running"}
  <2>1. Runners' = Runners
    <3>1. CASE Pop(w)
      BY <1>1, <3>1, RunnersKept DEF Pop, TypeOK
    <3>2. CASE Fetch(w)
      BY <1>1, <3>2, RunnersKept DEF Fetch, TypeOK
    <3>3. CASE LateAnswer(w)
      BY <1>1, <3>3, RunnersKept DEF LateAnswer
    <3>4. CASE Schedule(w)
      BY <1>1, <3>4, RunnersKept DEF Schedule, Release, TypeOK
    <3>5. CASE WorkerAborts(w) /\ pc[w] \notin {"claimed", "running"}
      BY <1>1, <3>5, RunnersKept DEF WorkerAborts, Release, TypeOK
    <3>6. QED
      BY <1>9, <3>1, <3>2, <3>3, <3>4, <3>5
  <2>2. UNCHANGED jobState
    BY <1>9 DEF Pop, Fetch, Schedule, LateAnswer, WorkerAborts
  <2>3. QED
    BY <1>2, <2>1, <2>2, Unseen
<1>10. QED
  BY <1>4, <1>5, <1>6, <1>7, <1>8, <1>9 DEF WorkerStep

LEMMA ContractScheduler ==
    ASSUME PlaceInv, NEW s \in Schedulers,
           \/ SchedulerStep(s)
           \/ \E q \in Zsets : BatchFails(s, q)
           \/ \E j \in Jobs : TaskFails(s, j)
           \/ SchedulerCrashes(s)
    PROVE  [Contract!Next]_Contract!cvars
<1> USE DEF records, places, creatorVars, workerVars, schedVars, history
<1>1. StatesAtNames /\ "scheduled" \in Zsets /\ "scheduled-purge" \in Zsets
  <2>1. StatesAtNames
    BY StatesAtNames
  <2>2. QED
    BY <2>1 DEF Zsets
<1>2. Born' = Born /\ Runners' = Runners
  <2>1. UNCHANGED <<creator, pc, workerJob>>
    BY DEF SchedulerStep, Ping, FetchScheduled, Lineup, AddToProcessQueue, Enqueue,
       PurgeJob, BatchFails, TaskFails, SchedulerCrashes
  <2>2. QED
    BY <2>1, SameRunners DEF Born
<1>3. ASSUME NEW j \in Jobs, NEW q \in Zsets, j \in timers[s][q]
      PROVE  jobState[j] \in StatesAt(AtTimers(s, q))
  <2>1. At(j, AtTimers(s, q)) /\ AtTimers(s, q) \in Place
    BY <1>3, AtNames, PlaceNames
  <2>2. QED
    BY <2>1, Whereabouts
<1>4. ASSUME NEW j \in Jobs, AddToProcessQueue(s, j)
      PROVE  [Contract!Next]_Contract!cvars
  <2>1. jobState[j] \in ScheduledState
    BY <1>1, <1>3, <1>4 DEF AddToProcessQueue
  <2>2. jobState' = [jobState EXCEPT ![j] = "queued"]
    BY <1>4 DEF AddToProcessQueue, SetState
  <2>3. Contract!Requeue(j)
    BY <1>2, <2>1, <2>2 DEF Contract!Requeue, Contract!ScheduledState, ScheduledState,
       Born, Runners
  <2>4. QED
    BY <2>3 DEF Contract!Next
<1>5. ASSUME NEW j \in Jobs, PurgeJob(s, j), PurgeJobs
      PROVE  [Contract!Next]_Contract!cvars
  <2>1. jobState[j] \in FinalState
    BY <1>1, <1>3, <1>5 DEF PurgeJob
  <2>2. jobState' = [jobState EXCEPT ![j] = "none"]
    BY <1>5 DEF PurgeJob, DeleteItem
  <2>3. Contract!Purge(j)
    BY <1>2, <2>1, <2>2 DEF Contract!Purge, Contract!FinalState, FinalState, Born, Runners
  <2>4. QED
    BY <2>3 DEF Contract!Next
<1>6. CASE \/ \E due \in DueBatches : Ping(s, due)
           \/ \E q \in Zsets, j \in Jobs : FetchScheduled(s, q, j)
           \/ \E q \in Zsets : Lineup(s, q)
           \/ \E j \in Jobs : Enqueue(s, j)
           \/ \E j \in Jobs : PurgeJob(s, j) /\ ~PurgeJobs
           \/ \E q \in Zsets : BatchFails(s, q)
           \/ \E j \in Jobs : TaskFails(s, j)
           \/ SchedulerCrashes(s)
  <2>1. UNCHANGED jobState
    BY <1>6 DEF Ping, FetchScheduled, Lineup, Enqueue, PurgeJob, BatchFails, TaskFails,
       SchedulerCrashes
  <2>2. QED
    BY <1>2, <2>1, Unseen
<1>7. QED
  BY <1>4, <1>5, <1>6 DEF SchedulerStep

LEMMA ContractInit == Init => Contract!Init
<1> SUFFICES ASSUME Init PROVE Contract!Init
  OBVIOUS
<1>1. \A j \in Jobs : RunnersOf(j) = {}
  BY DEF Init, RunnersOf
<1>2. QED
  BY <1>1 DEF Init, Contract!Init

LEMMA ContractStep == PlaceInv /\ [Next]_vars => [Contract!Next]_Contract!cvars
<1> SUFFICES ASSUME PlaceInv, [Next]_vars PROVE [Contract!Next]_Contract!cvars
  OBVIOUS
<1>1. CASE UNCHANGED vars
  <2>1. UNCHANGED jobState /\ Born' = Born /\ Runners' = Runners
    BY <1>1, SameRunners DEF vars, Born
  <2>2. QED
    BY <2>1, Unseen
<1>2. ASSUME NEW j \in Jobs, FallsBehind(j)
      PROVE  [Contract!Next]_Contract!cvars
  <2>1. UNCHANGED jobState /\ Born' = Born /\ Runners' = Runners
    BY <1>2, SameRunners DEF FallsBehind, records, creatorVars, workerVars, Born
  <2>2. QED
    BY <2>1, Unseen
<1>3. CASE Next
  BY <1>2, <1>3, ContractCreator, ContractWorker, ContractScheduler DEF Next, Fault
<1>4. QED
  BY <1>1, <1>3

\* Whatever creators, workers and schedulers do, and whatever fails: a job is
\* created once, run by one worker at a time, settled by that worker only, and
\* once it is complete or purged it never comes back.
THEOREM LifecycleImplementsContract == Spec => ImplementsContract
<1>1. Init => Contract!Init
  BY ContractInit
<1>2. PlaceInv /\ [Next]_vars => [Contract!Next]_Contract!cvars
  BY ContractStep
<1>3. QED
  BY <1>1, <1>2, PlacesAlways, PTL DEF Spec, ImplementsContract, Contract!Spec
=============================================================================
