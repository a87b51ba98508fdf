------------------------- MODULE JobLifecycleRecords -------------------------
(***************************************************************************)
(* Proof that what redis knows of a job fits together: the state sets and  *)
(* the time index agree with the records, and a record agrees with itself  *)
(* about the outcome of its job and about the runs it lists; and no job    *)
(* that has a record is lost without a fault.                              *)
(***************************************************************************)
EXTENDS JobLifecyclePlaces

\* The hash of a job has a state and an item, or does not exist.
RecordExists == \A j \in Jobs : Recorded(j) <=> jobState[j] # "none"

\* IndexAgrees, for one job and one state set.
IndexFits(j, s) ==
    /\ j \in stateSet[s] => jobState[j] = s
    /\ jobState[j] = s =>
          \/ j \in stateSet[s]
          \/ creator[j] = "saved"
          \/ creator[j] = "failed" /\ j \in hit /\ s = InitialState(opts[j])

IndexInv == RecordExists /\ IndexAgrees /\ TimeIndexAgrees

\* The creator's options are known from the moment the job has a number.
OptionsKnown == \A j \in Jobs : creator[j] # "none" => opts[j] \in JobOptions

\* The record a worker works on has an outcome once its last state is decided.
OutcomeKept ==
    \A w \in Workers :
        /\ pc[w] \in {"fetched", "claimed", "running"} => workerItem[w].outcome = "none"
        /\ pc[w] \in {"stated", "saved", "resaved"} =>
              workerItem[w].outcome =
                 IF workerState[w] \in FinalState THEN workerState[w] ELSE "none"

\* OutcomeAgrees, for one job.
OutcomeFits(j) ==
    Recorded(j) =>
        /\ itemData[j].outcome # "none" => jobState[j] = itemData[j].outcome
        /\ jobState[j] \in FinalState =>
              \/ itemData[j].outcome = jobState[j]
              \/ Circular /\ itemData[j] = IdOnly
              \/ j \in hit
              \/ \E w \in Workers : workerJob[w] = j /\ pc[w] = "stated"

OutcomeInv == OutcomeAgrees /\ OutcomeKept

\* The runs that a record lists are within the budget of options o, when n
\* late answers came ...
WithinBudget(o, n, item) == item.runs <= RunBudget(o) + n

\* ... and leave room for one more, while the job has one to come: every run
\* so far was a ghost, or an error that was worth a retry, or answered late.
MayRunAgain(o, n, item) ==
    /\ item.ghosts <= GhostAllowance(o)
    /\ item.runs <= RetryAllowance(o) + item.ghosts + n

Counted(o, n, state, item) ==
    /\ WithinBudget(o, n, item)
    /\ state \notin FinalState => MayRunAgain(o, n, item)

\* The record in redis, and the copy a worker has, each with its own options.
RecordCounted(j) ==
    Recorded(j) =>
        Counted(OptionsIn(itemData[j], opts[j]), late[j], jobState[j], itemData[j])

CopyCounted(w) ==
    pc[w] \notin {"idle", "popped"} =>
        Counted(OptionsIn(workerItem[w], opts[workerJob[w]]), late[workerJob[w]],
                workerState[w], workerItem[w])

RunsInv ==
    /\ OptionsKnown
    /\ \A j \in Jobs : RecordCounted(j)
    /\ \A w \in Workers : CopyCounted(w)

\* A job that has a record is somewhere, or there is a reason why it is not.
Somewhere(j) == \E p \in Place : At(j, p)

Accounted(j) ==
    Recorded(j) => \/ Somewhere(j)
                   \/ j \in hit
                   \/ ~PurgeJobs /\ jobState[j] \in FinalState

-----------------------------------------------------------------------------
(***************************************************************************)
(* Saving a record, and falling behind, job by job.                        *)
(***************************************************************************)

\* What save leaves in redis.
LEMMA SavedRecord ==
    ASSUME TypeOK, NEW j \in Jobs, NEW state, NEW item \in JobItem, SaveItem(j, state, item)
    PROVE  /\ \A k \in Jobs : jobState'[k] = IF k = j THEN state ELSE jobState[k]
           /\ \E saved \in JobItem :
                 /\ saved # NoItem
                 /\ saved = item \/ (Circular /\ saved = IdOnly)
                 /\ \A k \in Jobs : itemData'[k] = IF k = j THEN saved ELSE itemData[k]
<1>1. IdOnly \in JobItem /\ NoItem \notin JobItem
  BY NullAssumption DEF IdOnly, NewItem, JobItem
<1>2. jobState' = [jobState EXCEPT ![j] = state]
  BY SavedItem
<1>3. PICK saved \in IF Circular THEN {item, IdOnly} ELSE {item} :
         itemData' = [itemData EXCEPT ![j] = saved]
  BY DEF SaveItem
<1>4. saved \in JobItem /\ (saved = item \/ (Circular /\ saved = IdOnly))
  BY <1>1, <1>3
<1>5. \A k \in Jobs : itemData'[k] = IF k = j THEN saved ELSE itemData[k]
  BY <1>3 DEF TypeOK
<1>6. \A k \in Jobs : jobState'[k] = IF k = j THEN state ELSE jobState[k]
  BY <1>2 DEF TypeOK
<1>7. saved # NoItem
  BY <1>1, <1>4
<1>8. QED
  BY <1>4, <1>5, <1>6, <1>7

\* An entry that falls behind stays where it is.
LEMMA BehindRest ==
    ASSUME NEW j, FallsBehind(j)
    PROVE  /\ UNCHANGED <<jobState, itemData, stateSet, timeIndex, queue, nameless, zset>>
           /\ UNCHANGED <<creatorVars, workerVars, schedVars, history>>
BY DEF FallsBehind, records

-----------------------------------------------------------------------------
(***************************************************************************)
(* The indexes.                                                            *)
(***************************************************************************)

\* A record that changes nothing but its state moves between state sets.
LEMMA IndexMoved ==
    ASSUME TypeOK, IndexInv, NEW j \in Jobs, NEW new \in JobState,
           jobState[j] # "none", SetState(j, jobState[j], new),
           UNCHANGED <<itemData, timeIndex, opts, creator, hit, relisted>>
    PROVE  IndexInv'
<1>1. jobState[j] \in JobState
  BY DEF TypeOK
<1>2. \A s \in JobState : stateSet'[s] =
         IF s = new THEN stateSet[s] \union {j}
         ELSE IF s = jobState[j] THEN stateSet[s] \ {j} ELSE stateSet[s]
  BY <1>1 DEF SetState, TypeOK
<1>3. \A k \in Jobs : jobState'[k] = IF k = j THEN new ELSE jobState[k]
  BY DEF SetState, TypeOK
<1>4. \A s \in JobState : j \in stateSet'[s] <=> s = new
  BY <1>2 DEF IndexInv, IndexAgrees
<1>5. \A k \in Jobs \ {j}, s \in JobState : IndexFits(k, s)'
  BY <1>2, <1>3 DEF IndexInv, IndexAgrees, IndexFits
<1>6. \A s \in JobState : IndexFits(j, s)'
  BY <1>3, <1>4 DEF IndexFits
<1>7. IndexAgrees'
  BY <1>5, <1>6 DEF IndexAgrees, IndexFits
<1>8. "none" \notin JobState
  BY DEF JobState
<1>9. RecordExists' /\ TimeIndexAgrees'
  BY <1>3, <1>8 DEF IndexInv, RecordExists, TimeIndexAgrees, Recorded
<1>10. QED
  BY <1>7, <1>9 DEF IndexInv

\* Nothing that the indexes are about changes.
LEMMA IndexSame ==
    ASSUME IndexInv, UNCHANGED <<jobState, itemData, stateSet, timeIndex, opts, creator>>,
           UNCHANGED relisted, hit \subseteq hit'
    PROVE  IndexInv'
BY DEF IndexInv, RecordExists, IndexAgrees, TimeIndexAgrees, Recorded

LEMMA IndexCreator ==
    ASSUME PlaceInv, IndexInv, NEW j \in Jobs,
           Create(j) \/ CreatorStep(j) \/ CreatorAborts(j)
    PROVE  IndexInv'
<1> USE DEF records, places, creatorVars, workerVars, schedVars, history
<1>1. TypeOK /\ FreshRecord
  BY DEF PlaceInv, TypeInv
<1>2. InitialState(opts[j]) \in {"new", "delayed"} /\ "none" \notin JobState
  BY InitialStateType DEF JobState
<1>3. NewItem \in JobItem
  BY DEF NewItem, JobItem
<1>4. CASE Create(j)
  BY <1>1, <1>4 DEF Create, IndexInv, RecordExists, IndexAgrees, TimeIndexAgrees, Recorded,
     FreshRecord, TypeOK
<1>5. CASE CreateRecord(j) \/ ResaveDelayedJob(j)
  <2>1. PICK state \in {"new", "delayed"} :
           state = InitialState(opts[j]) /\ SaveItem(j, state, NewItem)
    BY <1>2, <1>5 DEF CreateRecord, ResaveDelayedJob
  <2>2. PICK saved \in JobItem :
           /\ saved # NoItem
           /\ \A k \in Jobs : itemData'[k] = IF k = j THEN saved ELSE itemData[k]
    BY <1>1, <1>3, <2>1, SavedRecord
  <2>3. \A k \in Jobs : jobState'[k] = IF k = j THEN state ELSE jobState[k]
    BY <1>1, <1>3, <2>1, SavedRecord
  <2>4. /\ UNCHANGED <<stateSet, timeIndex, opts, hit, relisted>>
        /\ \A k \in Jobs \ {j} : creator'[k] = creator[k]
        /\ \/ creator[j] = "numbered" /\ creator'[j] = "saved"
           \/ creator[j] = "timed" /\ creator'[j] = "resaved"
    BY <1>1, <1>5 DEF CreateRecord, ResaveDelayedJob, TypeOK
  <2>5. RecordExists'
    BY <1>2, <2>1, <2>2, <2>3 DEF IndexInv, RecordExists, Recorded
  <2>6. /\ creator[j] = "numbered" => itemData[j] = NoItem /\ jobState[j] = "none"
        /\ creator[j] = "timed" => jobState[j] = state /\ itemData[j] # NoItem
    BY <1>1, <2>1 DEF FreshRecord, CreatorHolds, IndexInv, RecordExists, Recorded
  <2>7. TimeIndexAgrees'
    BY <2>2, <2>4, <2>6 DEF IndexInv, TimeIndexAgrees, Recorded
  <2>8. ASSUME NEW k \in Jobs, NEW s \in JobState
        PROVE  IndexFits(k, s)'
    <3>1. IndexFits(k, s)
      BY DEF IndexInv, IndexAgrees, IndexFits
    <3>2. "none" \notin JobState
      BY DEF JobState
    <3>3. CASE k = j
      BY <2>3, <2>4, <2>6, <3>1, <3>2, <3>3 DEF IndexFits
    <3>4. CASE k # j
      BY <2>3, <2>4, <3>1, <3>4 DEF IndexFits
    <3>5. QED
      BY <3>3, <3>4
  <2>9. QED
    BY <2>5, <2>7, <2>8 DEF IndexInv, IndexAgrees, IndexFits
<1>6. CASE CreateState(j)
  <2>1. \A s \in JobState : stateSet'[s] =
           IF s = InitialState(opts[j]) THEN stateSet[s] \union {j} ELSE stateSet[s]
    BY <1>1, <1>6 DEF CreateState, TypeOK
  <2>2. /\ creator' = [creator EXCEPT ![j] = "indexed"]
        /\ creator[j] = "saved" /\ jobState[j] = InitialState(opts[j])
        /\ UNCHANGED <<jobState, itemData, timeIndex, opts, hit, relisted>>
    BY <1>1, <1>6 DEF CreateState, FreshRecord, CreatorHolds
  <2>3. \A k \in Jobs : creator'[k] = IF k = j THEN "indexed" ELSE creator[k]
    BY <1>1, <2>2 DEF TypeOK
  <2>4. RecordExists' /\ TimeIndexAgrees'
    BY <2>2, <2>3 DEF IndexInv, RecordExists, TimeIndexAgrees, Recorded
  <2>5. ASSUME NEW k \in Jobs, NEW s \in JobState
        PROVE  IndexFits(k, s)'
    <3>1. IndexFits(k, s)
      BY DEF IndexInv, IndexAgrees, IndexFits
    <3>2. CASE k = j
      BY <2>1, <2>2, <2>3, <3>1, <3>2 DEF IndexFits
    <3>3. CASE k # j
      BY <2>1, <2>2, <2>3, <3>1, <3>3 DEF IndexFits
    <3>4. QED
      BY <3>2, <3>3
  <2>6. QED
    BY <2>4, <2>5 DEF IndexInv, IndexAgrees, IndexFits
<1>7. CASE CreateTimeIndex(j) \/ SaveTimeIndex(j)
  <2>1. /\ creator[j] \in {"indexed", "handed"} /\ creator'[j] \in {"timed", "done"}
        /\ timeIndex' = timeIndex \union {j}
        /\ relisted \subseteq relisted'
        /\ \A k \in Jobs \ {j} : creator'[k] = creator[k]
        /\ UNCHANGED <<jobState, itemData, stateSet, opts, hit>>
    BY <1>1, <1>7 DEF CreateTimeIndex, SaveTimeIndex, TypeOK
  <2>2. Recorded(j) \/ j \in relisted'
    <3>1. CASE CreateTimeIndex(j)
      BY <1>1, <1>2, <3>1 DEF CreateTimeIndex, FreshRecord, CreatorHolds, IndexInv, RecordExists
    <3>2. CASE SaveTimeIndex(j)
      BY <3>2 DEF SaveTimeIndex, Recorded
    <3>3. QED
      BY <1>7, <3>1, <3>2
  <2>3. RecordExists' /\ TimeIndexAgrees'
    BY <2>1, <2>2 DEF IndexInv, RecordExists, TimeIndexAgrees, Recorded
  <2>4. \A k \in Jobs, s \in JobState : IndexFits(k, s)'
    BY <2>1 DEF IndexInv, IndexAgrees, IndexFits
  <2>5. QED
    BY <2>3, <2>4 DEF IndexInv, IndexAgrees, IndexFits
<1>8. CASE QueueNewJob(j) \/ ScheduleDelayedJob(j)
  <2>1. /\ creator[j] \in {"timed", "resaved"}
        /\ creator' = [creator EXCEPT ![j] = "handed"]
        /\ UNCHANGED <<jobState, itemData, stateSet, timeIndex, opts, hit, relisted>>
    BY <1>8 DEF QueueNewJob, ScheduleDelayedJob
  <2>2. \A k \in Jobs : creator'[k] = IF k = j THEN "handed" ELSE creator[k]
    BY <1>1, <2>1 DEF TypeOK
  <2>3. QED
    BY <2>1, <2>2 DEF IndexInv, RecordExists, IndexAgrees, TimeIndexAgrees, Recorded
<1>9. CASE CreatorAborts(j)
  BY <1>1, <1>2, <1>9 DEF CreatorAborts, IndexInv, RecordExists, IndexAgrees,
     TimeIndexAgrees, Recorded, FreshRecord, CreatorHolds, TypeOK
<1>10. QED
  BY <1>4, <1>5, <1>6, <1>7, <1>8, <1>9 DEF CreatorStep

LEMMA IndexWorker ==
    ASSUME PlaceInv, IndexInv, NEW w \in Workers,
           WorkerStep(w) \/ LateAnswer(w) \/ WorkerAborts(w)
    PROVE  IndexInv'
<1> USE DEF records, places, creatorVars, workerVars, schedVars, history
<1>1. TypeOK /\ WorkerShape
  BY DEF PlaceInv, TypeInv
<1>2. CASE SetProcessing(w) \/ \E report \in Report : Processed(w, report)
  <2>1. PICK j \in Jobs : j = workerJob[w] /\ jobState[j] # "none"
    BY <1>2, WorkerOwns DEF SetProcessing, Processed
  <2>2. workerState[w] = jobState[j]
    BY <1>2, <2>1, WorkerKnows DEF SetProcessing, Processed
  <2>3. UNCHANGED <<itemData, timeIndex, opts, creator, hit, relisted>>
    BY <1>2 DEF SetProcessing, Processed
  <2>4. PICK new \in JobState : SetState(j, jobState[j], new)
    <3>1. CASE SetProcessing(w)
      BY <2>1, <2>2, <3>1 DEF SetProcessing, JobState
    <3>2. ASSUME NEW report \in Report, Processed(w, report)
          PROVE  \E new \in JobState : SetState(j, jobState[j], new)
      <4>1. NextState(OptionsIn(workerItem[w], opts[j]), AddRun(workerItem[w], report), report) \in JobState
        BY <1>1, <3>2, DecisionTypes DEF Processed, WorkerShape, JobState, FinalState
      <4>2. QED
        BY <2>1, <2>2, <3>2, <4>1 DEF Processed
    <3>3. QED
      BY <1>2, <3>1, <3>2
  <2>5. QED
    BY <1>1, <2>1, <2>3, <2>4, IndexMoved
<1>3. CASE SaveProcessed(w) \/ Resave(w)
  <2>1. PICK j \in Jobs : j = workerJob[w] /\ jobState[j] # "none"
    BY <1>3, WorkerOwns DEF SaveProcessed, Resave
  <2>2. workerState[w] = jobState[j]
    BY <1>3, <2>1, WorkerKnows DEF SaveProcessed, Resave
  <2>3. workerItem[w] \in JobItem
    BY <1>1, <1>3 DEF SaveProcessed, Resave, WorkerShape
  <2>4. UNCHANGED <<stateSet, timeIndex, opts, creator, hit, relisted>>
    BY <1>3 DEF SaveProcessed, Resave
  <2>5. /\ \A k \in Jobs : jobState'[k] = jobState[k]
        /\ \A k \in Jobs : Recorded(k)' <=> Recorded(k)
    <3>1. CASE SaveItem(j, jobState[j], workerItem[w])
      <4>1. /\ \A k \in Jobs : jobState'[k] = jobState[k]
            /\ itemData'[j] # NoItem
            /\ \A k \in Jobs \ {j} : itemData'[k] = itemData[k]
        BY <1>1, <2>3, <3>1, SavedRecord
      <4>2. QED
        BY <2>1, <4>1 DEF Recorded, IndexInv, RecordExists
    <3>2. CASE UNCHANGED <<jobState, itemData>>
      BY <3>2 DEF Recorded
    <3>3. QED
      BY <1>3, <2>1, <2>2, <3>1, <3>2 DEF SaveProcessed, Resave
  <2>6. QED
    BY <2>4, <2>5 DEF IndexInv, RecordExists, IndexAgrees, TimeIndexAgrees
<1>4. CASE Pop(w) \/ Fetch(w) \/ WorkStart(w) \/ Schedule(w) \/ LateAnswer(w) \/ WorkerAborts(w)
  BY <1>4, IndexSame DEF Pop, Fetch, WorkStart, Schedule, LateAnswer, WorkerAborts
<1>5. QED
  BY <1>2, <1>3, <1>4 DEF WorkerStep

\* A scheduler knows the state of a job whose timer runs.
LEMMA TimerKnows ==
    ASSUME PlaceInv, NEW s \in Schedulers, NEW q \in Zsets, NEW j \in Jobs, j \in timers[s][q]
    PROVE  /\ cached[s][j] = jobState[j]
           /\ jobState[j] \in IF q = "scheduled" THEN ScheduledState ELSE FinalState
<1>1. At(j, AtTimers(s, q)) /\ AtTimers(s, q) \in Place
  BY AtNames, PlaceNames
<1>2. jobState[j] \in StatesAt(AtTimers(s, q))
  BY <1>1, Whereabouts
<1>3. q \in {"scheduled", "scheduled-purge"}
  BY DEF Zsets
<1>4. QED
  BY <1>2, <1>3, StatesAtNames DEF PlaceInv, NoStaleState, CacheHeld

LEMMA IndexScheduler ==
    ASSUME PlaceInv, IndexInv, NEW s \in Schedulers,
           \/ SchedulerStep(s)
           \/ \E q \in Zsets : BatchFails(s, q)
           \/ \E j \in Jobs : TaskFails(s, j)
           \/ SchedulerCrashes(s)
    PROVE  IndexInv'
<1> USE DEF records, places, creatorVars, workerVars, schedVars, history
<1>1. TypeOK /\ "scheduled" \in Zsets /\ "scheduled-purge" \in Zsets
  BY DEF PlaceInv, TypeInv, Zsets
<1>2. ASSUME NEW j \in Jobs, AddToProcessQueue(s, j)
      PROVE  IndexInv'
  <2>1. cached[s][j] = jobState[j] /\ jobState[j] # "none"
    BY <1>1, <1>2, TimerKnows DEF AddToProcessQueue, ScheduledState
  <2>2. SetState(j, jobState[j], "queued") /\ "queued" \in JobState
    BY <1>2, <2>1 DEF AddToProcessQueue, JobState
  <2>3. UNCHANGED <<itemData, timeIndex, opts, creator, hit, relisted>>
    BY <1>2 DEF AddToProcessQueue
  <2>4. QED
    BY <1>1, <2>1, <2>2, <2>3, IndexMoved
<1>3. ASSUME NEW j \in Jobs, PurgeJob(s, j), PurgeJobs
      PROVE  IndexInv'
  <2>1. /\ cached[s][j] = jobState[j] /\ jobState[j] \in FinalState
        /\ FinalState \subseteq JobState /\ "none" \notin JobState
    BY <1>1, <1>3, TimerKnows DEF PurgeJob, FinalState, JobState
  <2>2. DeleteItem(j, jobState[j]) /\ UNCHANGED <<opts, creator, hit, relisted>>
    BY <1>3, <2>1 DEF PurgeJob
  <2>3. /\ \A k \in Jobs : /\ jobState'[k] = IF k = j THEN "none" ELSE jobState[k]
                           /\ itemData'[k] = IF k = j THEN NoItem ELSE itemData[k]
        /\ \A t \in JobState : stateSet'[t] =
              IF t = jobState[j] THEN stateSet[t] \ {j} ELSE stateSet[t]
        /\ timeIndex' = timeIndex \ {j}
    BY <1>1, <2>1, <2>2 DEF DeleteItem, TypeOK
  <2>4. RecordExists' /\ TimeIndexAgrees'
    BY <2>2, <2>3 DEF IndexInv, RecordExists, TimeIndexAgrees, Recorded
  <2>5. ASSUME NEW k \in Jobs, NEW t \in JobState
        PROVE  IndexFits(k, t)'
    <3>1. IndexFits(k, t)
      BY DEF IndexInv, IndexAgrees, IndexFits
    <3>2. CASE k = j
      BY <2>1, <2>2, <2>3, <3>1, <3>2 DEF IndexFits
    <3>3. CASE k # j
      BY <2>2, <2>3, <3>1, <3>3 DEF IndexFits
    <3>4. QED
      BY <3>2, <3>3
  <2>6. QED
    BY <2>4, <2>5 DEF IndexInv, IndexAgrees, IndexFits
<1>4. CASE \/ \E due \in DueBatches : Ping(s, due)
           \/ \E q \in Zsets, j \in Jobs : FetchScheduled(s, q, j)
           \/ \E q \in Zsets : Lineup(s, q)
           \/ \E j \in Jobs : Enqueue(s, j)
           \/ \E j \in Jobs : PurgeJob(s, j) /\ ~PurgeJobs
           \/ \E q \in Zsets : BatchFails(s, q)
           \/ \E j \in Jobs : TaskFails(s, j)
           \/ SchedulerCrashes(s)
  BY <1>4, IndexSame DEF Ping, FetchScheduled, Lineup, Enqueue, PurgeJob, BatchFails, TaskFails,
     SchedulerCrashes
<1>5. QED
  BY <1>2, <1>3, <1>4 DEF SchedulerStep

LEMMA IndexInit == Init => IndexInv
BY DEF Init, IndexInv, RecordExists, IndexAgrees, TimeIndexAgrees, Recorded, JobState

LEMMA IndexStep == PlaceInv /\ IndexInv /\ [Next]_vars => IndexInv'
<1> SUFFICES ASSUME PlaceInv, IndexInv, [Next]_vars PROVE IndexInv'
  OBVIOUS
<1>1. CASE UNCHANGED vars
  BY <1>1, IndexSame DEF vars
<1>2. ASSUME NEW j \in Jobs, FallsBehind(j)
      PROVE  IndexInv'
  BY <1>2, BehindRest, IndexSame DEF creatorVars, history
<1>3. CASE Next
  BY <1>2, <1>3, IndexCreator, IndexWorker, IndexScheduler DEF Next, Fault
<1>4. QED
  BY <1>1, <1>3

LEMMA IndexAlways == Spec => []IndexInv
<1>1. Init => IndexInv
  BY IndexInit
<1>2. PlaceInv /\ IndexInv /\ [Next]_vars => IndexInv'
  BY IndexStep
<1>3. QED
  BY <1>1, <1>2, PlacesAlways, PTL DEF Spec

\* An id is in the set of the state of its record and in no other, whatever
\* the processes do at the same time; only a creator that fails between its
\* first two commands leaves a record that no set lists.
THEOREM StateSetsAgree == Spec => []IndexAgrees
<1>1. IndexInv => IndexAgrees
  BY DEF IndexInv
<1>2. QED
  BY <1>1, IndexAlways, PTL

\* The time index lists every record, once its creator got that far, and no
\* purged one, unless the record was gone when the creator issued its second
\* zadd.
THEOREM TimeIndexIsRight == Spec => []TimeIndexAgrees
<1>1. IndexInv => TimeIndexAgrees
  BY DEF IndexInv
<1>2. QED
  BY <1>1, IndexAlways, PTL

-----------------------------------------------------------------------------
(***************************************************************************)
(* The outcome.                                                            *)
(***************************************************************************)

\* A record that is not touched, nor its worker.
LEMMA OutcomeElsewhere ==
    ASSUME OutcomeAgrees, NEW k \in Jobs,
           jobState'[k] = jobState[k], itemData'[k] = itemData[k], hit \subseteq hit',
           \A v \in Workers : workerJob[v] = k /\ pc[v] = "stated" =>
              workerJob'[v] = k /\ pc'[v] = "stated"
    PROVE  OutcomeFits(k)'
BY DEF OutcomeAgrees, OutcomeFits, Recorded

\* Until the outcome is decided, the record has none.
LEMMA NoOutcomeYet ==
    ASSUME TypeOK, OutcomeAgrees, NEW j \in Jobs, Recorded(j), jobState[j] \notin FinalState
    PROVE  itemData[j].outcome = "none"
<1>1. itemData[j] \in JobItem
  BY DEF TypeOK, Recorded
<1>2. QED
  BY <1>1 DEF OutcomeAgrees, JobItem

LEMMA OutcomeCreator ==
    ASSUME PlaceInv, OutcomeInv, NEW j \in Jobs,
           Create(j) \/ CreatorStep(j) \/ CreatorAborts(j)
    PROVE  OutcomeInv'
<1> USE DEF records, places, creatorVars, workerVars, schedVars, history
<1>1. TypeOK
  BY DEF PlaceInv, TypeInv
<1>2. OutcomeKept'
  BY DEF OutcomeInv, OutcomeKept, CreatorStep, Create, CreateRecord, CreateState,
     CreateTimeIndex, QueueNewJob, ResaveDelayedJob, ScheduleDelayedJob, SaveTimeIndex,
     CreatorAborts
<1>3. UNCHANGED <<pc, workerJob>> /\ hit \subseteq hit'
  BY DEF CreatorStep, Create, CreateRecord, CreateState, CreateTimeIndex, QueueNewJob,
     ResaveDelayedJob, ScheduleDelayedJob, SaveTimeIndex, CreatorAborts
<1>4. CASE CreateRecord(j) \/ ResaveDelayedJob(j)
  <2>1. PICK state \in {"new", "delayed"} : SaveItem(j, state, NewItem)
    BY <1>4, InitialStateType DEF CreateRecord, ResaveDelayedJob
  <2>2. NewItem \in JobItem
    BY DEF NewItem, JobItem
  <2>3. PICK saved \in JobItem :
           /\ saved = NewItem \/ (Circular /\ saved = IdOnly)
           /\ \A k \in Jobs : itemData'[k] = IF k = j THEN saved ELSE itemData[k]
    BY <1>1, <2>1, <2>2, SavedRecord
  <2>4. \A k \in Jobs : jobState'[k] = IF k = j THEN state ELSE jobState[k]
    BY <1>1, <2>1, <2>2, SavedRecord
  <2>5. saved.outcome = "none"
    BY <2>3 DEF NewItem, IdOnly
  <2>6. OutcomeFits(j)'
    BY <2>3, <2>4, <2>5 DEF OutcomeFits, FinalState
  <2>7. \A k \in Jobs \ {j} : OutcomeFits(k)'
    BY <1>3, <2>3, <2>4, OutcomeElsewhere DEF OutcomeInv
  <2>8. OutcomeAgrees'
    BY <2>6, <2>7 DEF OutcomeAgrees, OutcomeFits
  <2>9. QED
    BY <1>2, <2>8 DEF OutcomeInv
<1>5. CASE \/ Create(j) \/ CreateState(j) \/ CreateTimeIndex(j) \/ QueueNewJob(j)
           \/ ScheduleDelayedJob(j) \/ SaveTimeIndex(j) \/ CreatorAborts(j)
  <2>1. UNCHANGED <<jobState, itemData>>
    BY <1>5 DEF Create, CreateState, CreateTimeIndex, QueueNewJob, ScheduleDelayedJob,
       SaveTimeIndex, CreatorAborts
  <2>2. \A k \in Jobs : OutcomeFits(k)'
    BY <1>3, <2>1, OutcomeElsewhere DEF OutcomeInv
  <2>3. QED
    BY <1>2, <2>2 DEF OutcomeInv, OutcomeAgrees, OutcomeFits
<1>6. QED
  BY <1>4, <1>5 DEF CreatorStep

LEMMA OutcomeWorker ==
    ASSUME PlaceInv, RecordExists, OutcomeInv, NEW w \in Workers,
           WorkerStep(w) \/ LateAnswer(w) \/ WorkerAborts(w)
    PROVE  OutcomeInv'
<1> USE DEF records, places, creatorVars, workerVars, schedVars, history
<1>1. TypeOK /\ WorkerShape /\ StatesAtNames
  BY StatesAtNames DEF PlaceInv, TypeInv
<1>2. ASSUME pc[w] # "idle"
      PROVE  \E j \in Jobs :
                /\ j = workerJob[w] /\ Recorded(j)
                /\ \A v \in Workers \ {w} : workerJob[v] # j
                /\ pc[w] \in {"popped", "fetched"} => jobState[j] \in ReadyState
                /\ pc[w] \in {"claimed", "running"} => jobState[j] = "processing"
                /\ pc[w] \notin {"idle", "popped"} => workerState[w] = jobState[j]
  BY <1>1, <1>2, WorkerOwns, WorkerKnows DEF RecordExists
<1>3. CASE Pop(w)
  <2>1. /\ pc[w] = "idle" /\ workerJob[w] = NoJob
        /\ \A v \in Workers \ {w} : workerJob'[v] = workerJob[v] /\ pc'[v] = pc[v]
        /\ pc'[w] = "popped"
        /\ UNCHANGED <<jobState, itemData, workerState, workerItem, hit>>
    BY <1>1, <1>3 DEF Pop, TypeOK, WorkerShape
  <2>2. \A k \in Jobs : OutcomeFits(k)'
    BY <2>1, OutcomeElsewhere DEF OutcomeInv
  <2>3. OutcomeKept'
    BY <2>1 DEF OutcomeInv, OutcomeKept
  <2>4. QED
    BY <2>2, <2>3 DEF OutcomeInv, OutcomeAgrees, OutcomeFits
<1>4. CASE Fetch(w)
  <2>1. PICK j \in Jobs : j = workerJob[w] /\ Recorded(j) /\ jobState[j] \in ReadyState
    BY <1>2, <1>4 DEF Fetch
  <2>2. itemData[j].outcome = "none"
    BY <1>1, <2>1, NoOutcomeYet DEF OutcomeInv, ReadyState, FinalState
  <2>3. /\ pc[w] = "popped" /\ pc'[w] = "fetched" /\ workerItem'[w] = itemData[j]
        /\ \A v \in Workers \ {w} : /\ pc'[v] = pc[v]
                                     /\ workerState'[v] = workerState[v]
                                     /\ workerItem'[v] = workerItem[v]
        /\ UNCHANGED <<jobState, itemData, workerJob, hit>>
    BY <1>1, <1>4, <2>1 DEF Fetch, TypeOK
  <2>4. \A k \in Jobs : OutcomeFits(k)'
    BY <2>3, OutcomeElsewhere DEF OutcomeInv
  <2>5. OutcomeKept'
    BY <2>2, <2>3 DEF OutcomeInv, OutcomeKept
  <2>6. QED
    BY <2>4, <2>5 DEF OutcomeInv, OutcomeAgrees, OutcomeFits
<1>5. CASE SetProcessing(w)
  <2>1. PICK j \in Jobs : j = workerJob[w] /\ Recorded(j) /\ jobState[j] \in ReadyState
    BY <1>2, <1>5 DEF SetProcessing
  <2>2. itemData[j].outcome = "none"
    BY <1>1, <2>1, NoOutcomeYet DEF OutcomeInv, ReadyState, FinalState
  <2>3. /\ pc[w] = "fetched" /\ pc'[w] = "claimed"
        /\ jobState'[j] = "processing"
        /\ \A k \in Jobs \ {j} : jobState'[k] = jobState[k]
        /\ \A v \in Workers \ {w} : /\ pc'[v] = pc[v]
                                     /\ workerState'[v] = workerState[v]
        /\ UNCHANGED <<itemData, workerJob, workerItem, hit>>
    BY <1>1, <1>5, <2>1 DEF SetProcessing, SetState, TypeOK
  <2>4. \A k \in Jobs \ {j} : OutcomeFits(k)'
    BY <2>3, OutcomeElsewhere DEF OutcomeInv
  <2>5. OutcomeFits(j)'
    BY <2>2, <2>3 DEF OutcomeFits, FinalState
  <2>6. OutcomeKept'
    BY <2>3 DEF OutcomeInv, OutcomeKept
  <2>7. QED
    BY <2>4, <2>5, <2>6 DEF OutcomeInv, OutcomeAgrees, OutcomeFits
<1>6. CASE WorkStart(w)
  <2>1. /\ pc[w] = "claimed" /\ pc'[w] = "running"
        /\ \A v \in Workers \ {w} : pc'[v] = pc[v]
        /\ UNCHANGED <<jobState, itemData, workerJob, workerState, workerItem, hit>>
    BY <1>1, <1>6 DEF WorkStart, TypeOK
  <2>2. \A k \in Jobs : OutcomeFits(k)'
    BY <2>1, OutcomeElsewhere DEF OutcomeInv
  <2>3. OutcomeKept'
    BY <2>1 DEF OutcomeInv, OutcomeKept
  <2>4. QED
    BY <2>2, <2>3 DEF OutcomeInv, OutcomeAgrees, OutcomeFits
<1>7. ASSUME NEW report \in Report, Processed(w, report)
      PROVE  OutcomeInv'
  <2>1. PICK j \in Jobs : j = workerJob[w] /\ Recorded(j) /\ jobState[j] = "processing"
    BY <1>2, <1>7 DEF Processed
  <2>2. itemData[j].outcome = "none" /\ workerItem[w].outcome = "none"
    BY <1>1, <1>7, <2>1, NoOutcomeYet DEF Processed, OutcomeInv, OutcomeKept, FinalState
  <2> DEFINE state == NextState(OptionsIn(workerItem[w], opts[j]), AddRun(workerItem[w], report), report)
             item  == Finish(AddRun(workerItem[w], report), state)
  <2>3. item.outcome = IF state \in FinalState THEN state ELSE "none"
    <3>1. AddRun(workerItem[w], report) \in JobItem
      BY <1>1, <1>7, DecisionTypes DEF Processed, WorkerShape
    <3>2. AddRun(workerItem[w], report).outcome = "none"
      BY <1>1, <1>7, <2>2 DEF Processed, WorkerShape, AddRun, JobItem
    <3>3. QED
      BY <3>1, <3>2 DEF Finish, JobItem
  <2>4. /\ pc[w] = "running" /\ pc'[w] = "stated"
        /\ workerState'[w] = state /\ workerItem'[w] = item
        /\ jobState'[j] = state
        /\ \A k \in Jobs \ {j} : jobState'[k] = jobState[k]
        /\ \A v \in Workers \ {w} : /\ pc'[v] = pc[v]
                                     /\ workerState'[v] = workerState[v]
                                     /\ workerItem'[v] = workerItem[v]
        /\ UNCHANGED <<itemData, workerJob, hit>>
    BY <1>1, <1>7, <2>1 DEF Processed, SetState, TypeOK
  <2> HIDE DEF state, item
  <2>5. \A k \in Jobs \ {j} : OutcomeFits(k)'
    BY <2>4, OutcomeElsewhere DEF OutcomeInv
  <2>6. OutcomeFits(j)'
    BY <2>1, <2>2, <2>4 DEF OutcomeFits
  <2>7. OutcomeKept'
    BY <2>3, <2>4 DEF OutcomeInv, OutcomeKept
  <2>8. QED
    BY <2>5, <2>6, <2>7 DEF OutcomeInv, OutcomeAgrees, OutcomeFits
<1>8. CASE SaveProcessed(w) \/ Resave(w)
  <2>1. PICK j \in Jobs : /\ j = workerJob[w] /\ Recorded(j)
                         /\ workerState[w] = jobState[j]
                         /\ \A v \in Workers \ {w} : workerJob[v] # j
    BY <1>2, <1>8 DEF SaveProcessed, Resave
  <2>2. /\ pc[w] \in {"stated", "saved"} /\ pc'[w] \in {"saved", "resaved"}
        /\ \A v \in Workers \ {w} : pc'[v] = pc[v]
        /\ UNCHANGED <<workerJob, workerState, workerItem, hit>>
        /\ \/ SaveItem(j, jobState[j], workerItem[w])
           \/ UNCHANGED <<jobState, itemData>> /\ pc[w] = "saved"
    BY <1>1, <1>8, <2>1 DEF SaveProcessed, Resave, TypeOK
  <2>3. /\ \A k \in Jobs : jobState'[k] = jobState[k]
        /\ \A k \in Jobs \ {j} : itemData'[k] = itemData[k]
        /\ \/ itemData'[j] = workerItem[w]
           \/ Circular /\ itemData'[j] = IdOnly
           \/ itemData'[j] = itemData[j] /\ pc[w] = "saved"
    <3>1. CASE SaveItem(j, jobState[j], workerItem[w])
      <4>1. workerItem[w] \in JobItem
        BY <1>1, <2>2 DEF WorkerShape
      <4>2. QED
        BY <1>1, <3>1, <4>1, SavedRecord
    <3>2. CASE UNCHANGED <<jobState, itemData>> /\ pc[w] = "saved"
      BY <3>2
    <3>3. QED
      BY <2>2, <3>1, <3>2
  <2>4. \A k \in Jobs \ {j} : OutcomeFits(k)'
    BY <2>1, <2>2, <2>3, OutcomeElsewhere DEF OutcomeInv
  <2>5. OutcomeFits(j)'
    <3>1. CASE itemData'[j] = workerItem[w]
      <4>1. workerItem[w].outcome = IF jobState[j] \in FinalState THEN jobState[j] ELSE "none"
        BY <2>1, <2>2 DEF OutcomeInv, OutcomeKept
      <4>2. QED
        BY <2>3, <3>1, <4>1 DEF OutcomeFits
    <3>2. CASE itemData'[j] = itemData[j] /\ pc[w] = "saved"
      <4>1. OutcomeFits(j) /\ \A v \in Workers : ~(workerJob[v] = j /\ pc[v] = "stated")
        BY <2>1, <3>2 DEF OutcomeInv, OutcomeAgrees, OutcomeFits
      <4>2. QED
        BY <2>2, <2>3, <3>2, <4>1 DEF OutcomeFits, Recorded
    <3>3. CASE Circular /\ itemData'[j] = IdOnly
      BY <3>3 DEF OutcomeFits, IdOnly, NewItem
    <3>4. QED
      BY <2>3, <3>1, <3>2, <3>3
  <2>6. OutcomeKept'
    BY <2>2 DEF OutcomeInv, OutcomeKept
  <2>7. QED
    BY <2>4, <2>5, <2>6 DEF OutcomeInv, OutcomeAgrees, OutcomeFits
<1>9. CASE LateAnswer(w)
  <2>1. workerItem[w] \in JobItem /\ pc[w] \in {"stated", "saved"}
    BY <1>1, <1>9 DEF LateAnswer, WorkerShape
  <2>2. /\ workerItem'[w].outcome = workerItem[w].outcome
        /\ \A v \in Workers \ {w} : workerItem'[v] = workerItem[v]
        /\ UNCHANGED <<jobState, itemData, pc, workerJob, workerState, hit>>
    BY <1>1, <1>9, <2>1 DEF LateAnswer, TypeOK, OverwriteGhost, JobItem
  <2>3. \A k \in Jobs : OutcomeFits(k)'
    BY <2>2, OutcomeElsewhere DEF OutcomeInv
  <2>4. OutcomeKept'
    BY <2>2 DEF OutcomeInv, OutcomeKept
  <2>5. QED
    BY <2>3, <2>4 DEF OutcomeInv, OutcomeAgrees, OutcomeFits
<1>10. CASE Schedule(w) \/ WorkerAborts(w)
  <2>1. PICK j \in Jobs : j = workerJob[w]
    BY <1>2, <1>10 DEF Schedule, WorkerAborts
  <2>2. /\ pc'[w] = "idle"
        /\ \A v \in Workers \ {w} : /\ pc'[v] = pc[v] /\ workerJob'[v] = workerJob[v]
                                     /\ workerState'[v] = workerState[v]
                                     /\ workerItem'[v] = workerItem[v]
        /\ UNCHANGED <<jobState, itemData>> /\ hit \subseteq hit'
        /\ pc[w] = "resaved" \/ j \in hit'
    BY <1>1, <1>10, <2>1 DEF Schedule, WorkerAborts, Release, TypeOK
  <2>3. \A k \in Jobs \ {j} : OutcomeFits(k)'
    BY <2>1, <2>2, OutcomeElsewhere DEF OutcomeInv
  <2>4. OutcomeFits(j)'
    <3>1. CASE pc[w] = "resaved"
      BY <2>2, <3>1, OutcomeElsewhere DEF OutcomeInv
    <3>2. CASE j \in hit'
      BY <2>2, <3>2 DEF OutcomeInv, OutcomeAgrees, OutcomeFits, Recorded
    <3>3. QED
      BY <2>2, <3>1, <3>2
  <2>5. OutcomeKept'
    BY <2>2 DEF OutcomeInv, OutcomeKept
  <2>6. QED
    BY <2>3, <2>4, <2>5 DEF OutcomeInv, OutcomeAgrees, OutcomeFits
<1>11. QED
  BY <1>3, <1>4, <1>5, <1>6, <1>7, <1>8, <1>9, <1>10 DEF WorkerStep

\* What schedulers do to records: a job that is due becomes ready again, and a
\* job that is complete is deleted.
LEMMA SchedulerRecords ==
    ASSUME PlaceInv, NEW s \in Schedulers,
           \/ SchedulerStep(s)
           \/ \E q \in Zsets : BatchFails(s, q)
           \/ \E j \in Jobs : TaskFails(s, j)
           \/ SchedulerCrashes(s)
    PROVE  /\ UNCHANGED <<pc, workerJob, workerState, workerItem, creator, opts, late>>
           /\ hit \subseteq hit'
           /\ \A k \in Jobs :
                 \/ jobState'[k] = jobState[k] /\ itemData'[k] = itemData[k]
                 \/ /\ jobState[k] \in ScheduledState /\ jobState'[k] = "queued"
                    /\ itemData'[k] = itemData[k]
                 \/ jobState[k] \in FinalState /\ ~Recorded(k)'
<1> USE DEF records, places, creatorVars, workerVars, schedVars, history
<1> DEFINE Goal == \A k \in Jobs :
                 \/ jobState'[k] = jobState[k] /\ itemData'[k] = itemData[k]
                 \/ /\ jobState[k] \in ScheduledState /\ jobState'[k] = "queued"
                    /\ itemData'[k] = itemData[k]
                 \/ jobState[k] \in FinalState /\ ~Recorded(k)'
<1>1. TypeOK /\ "scheduled" \in Zsets /\ "scheduled-purge" \in Zsets
  BY DEF PlaceInv, TypeInv, Zsets
<1>2. /\ UNCHANGED <<pc, workerJob, workerState, workerItem, creator, opts, late>>
      /\ hit \subseteq hit'
  BY DEF SchedulerStep, Ping, FetchScheduled, Lineup, AddToProcessQueue, Enqueue, PurgeJob,
     BatchFails, TaskFails, SchedulerCrashes
<1>3. ASSUME NEW j \in Jobs, AddToProcessQueue(s, j)
      PROVE  Goal
  <2>1. jobState[j] \in ScheduledState
    BY <1>1, <1>3, TimerKnows DEF AddToProcessQueue
  <2>2. jobState' = [jobState EXCEPT ![j] = "queued"] /\ UNCHANGED itemData
    BY <1>3 DEF AddToProcessQueue, SetState
  <2>3. QED
    BY <1>1, <2>1, <2>2 DEF TypeOK
<1>4. ASSUME NEW j \in Jobs, PurgeJob(s, j), PurgeJobs
      PROVE  Goal
  <2>1. jobState[j] \in FinalState
    BY <1>1, <1>4, TimerKnows DEF PurgeJob
  <2>2. DeleteItem(j, cached[s][j])
    BY <1>4 DEF PurgeJob
  <2>3. QED
    BY <1>1, <2>1, <2>2 DEF DeleteItem, Recorded, TypeOK
<1>5. ASSUME \/ \E due \in DueBatches : Ping(s, due)
             \/ \E q \in Zsets, j \in Jobs : FetchScheduled(s, q, j)
             \/ \E q \in Zsets : Lineup(s, q)
             \/ \E j \in Jobs : Enqueue(s, j)
             \/ \E j \in Jobs : PurgeJob(s, j) /\ ~PurgeJobs
             \/ \E q \in Zsets : BatchFails(s, q)
             \/ \E j \in Jobs : TaskFails(s, j)
             \/ SchedulerCrashes(s)
      PROVE  Goal
  <2>1. UNCHANGED <<jobState, itemData>>
    BY <1>5 DEF Ping, FetchScheduled, Lineup, Enqueue, PurgeJob, BatchFails, TaskFails,
       SchedulerCrashes
  <2>2. QED
    BY <2>1
<1>6. Goal
  BY <1>3, <1>4, <1>5 DEF SchedulerStep
<1>7. QED
  BY <1>2, <1>6

LEMMA OutcomeScheduler ==
    ASSUME PlaceInv, RecordExists, OutcomeInv, NEW s \in Schedulers,
           \/ SchedulerStep(s)
           \/ \E q \in Zsets : BatchFails(s, q)
           \/ \E j \in Jobs : TaskFails(s, j)
           \/ SchedulerCrashes(s)
    PROVE  OutcomeInv'
<1>1. TypeOK
  BY DEF PlaceInv, TypeInv
<1>2. UNCHANGED <<pc, workerJob, workerState, workerItem>> /\ hit \subseteq hit'
  BY SchedulerRecords
<1>3. OutcomeKept'
  BY <1>2 DEF OutcomeInv, OutcomeKept
<1>4. ASSUME NEW k \in Jobs
      PROVE  OutcomeFits(k)'
  <2>1. CASE jobState'[k] = jobState[k] /\ itemData'[k] = itemData[k]
    BY <1>2, <2>1, OutcomeElsewhere DEF OutcomeInv
  <2>2. CASE /\ jobState[k] \in ScheduledState /\ jobState'[k] = "queued"
             /\ itemData'[k] = itemData[k]
    <3>1. Recorded(k) /\ jobState[k] \notin FinalState
      BY <2>2 DEF RecordExists, ScheduledState, FinalState
    <3>2. itemData[k].outcome = "none"
      BY <1>1, <3>1, NoOutcomeYet DEF OutcomeInv
    <3>3. QED
      BY <2>2, <3>2 DEF OutcomeFits, FinalState
  <2>3. CASE ~Recorded(k)'
    BY <2>3 DEF OutcomeFits
  <2>4. QED
    BY <2>1, <2>2, <2>3, SchedulerRecords
<1>5. QED
  BY <1>3, <1>4 DEF OutcomeInv, OutcomeAgrees, OutcomeFits

LEMMA OutcomeInit == Init => OutcomeInv
BY DEF Init, OutcomeInv, OutcomeAgrees, OutcomeKept, Recorded

LEMMA OutcomeStep == PlaceInv /\ IndexInv /\ OutcomeInv /\ [Next]_vars => OutcomeInv'
<1> SUFFICES ASSUME PlaceInv, RecordExists, OutcomeInv, [Next]_vars PROVE OutcomeInv'
  BY DEF IndexInv
<1>1. CASE UNCHANGED vars
  BY <1>1 DEF vars, OutcomeInv, OutcomeAgrees, OutcomeKept, Recorded
<1>2. ASSUME NEW j \in Jobs, FallsBehind(j)
      PROVE  OutcomeInv'
  BY <1>2, BehindRest
     DEF workerVars, history, OutcomeInv, OutcomeAgrees, OutcomeKept, Recorded
<1>3. CASE Next
  BY <1>2, <1>3, OutcomeCreator, OutcomeWorker, OutcomeScheduler DEF Next, Fault
<1>4. QED
  BY <1>1, <1>3

\* The flags complete and success in itemData never contradict the state field
\* of the record, whatever late answers and errors come between the two
\* commands that write them; and when a job is complete they say how it ended
\* as soon as its worker has saved the record, unless it could not be serialized
\* and all that was saved is the id.
THEOREM OutcomeIsConsistent == Spec => []OutcomeAgrees
<1>1. Init => OutcomeInv
  BY OutcomeInit
<1>2. PlaceInv /\ IndexInv /\ OutcomeInv /\ [Next]_vars => OutcomeInv'
  BY OutcomeStep
<1>3. OutcomeInv => OutcomeAgrees
  BY DEF OutcomeInv
<1>4. QED
  BY <1>1, <1>2, <1>3, PlacesAlways, IndexAlways, PTL DEF Spec

-----------------------------------------------------------------------------
(***************************************************************************)
(* The runs.                                                               *)
(***************************************************************************)

\* The allowances are numbers.
LEMMA Allowances ==
    ASSUME NEW o \in OptionRecord
    PROVE  /\ RetryAllowance(o) \in Nat
           /\ GhostAllowance(o) \in Nat
           /\ RunBudget(o) = 1 + RetryAllowance(o) + GhostAllowance(o)
BY DEF OptionRecord, RetryAllowance, GhostAllowance, RunBudget

\* The options of a record are options, whether or not it still has its own.
LEMMA OptionsInType ==
    ASSUME NEW o \in OptionRecord, NEW item
    PROVE  OptionsIn(item, o) \in OptionRecord
BY DEF OptionsIn, DefaultOptions, OptionRecord

\* A run, an outcome and a late answer leave a record its name.
LEMMA NameStays ==
    ASSUME NEW item \in JobItem, NEW report \in Report, NEW state, NEW o
    PROVE  OptionsIn(Finish(AddRun(item, report), state), o) = OptionsIn(item, o)
<1>1. AddRun(item, report) \in JobItem /\ AddRun(item, report).named = item.named
  BY DecisionTypes DEF AddRun, JobItem
<1>2. Finish(AddRun(item, report), state).named = item.named
  BY <1>1 DEF Finish, JobItem
<1>3. QED
  BY <1>2 DEF OptionsIn

LEMMA NameStaysLate ==
    ASSUME NEW item \in JobItem, NEW o
    PROVE  OptionsIn(OverwriteGhost(item), o) = OptionsIn(item, o)
BY DEF OverwriteGhost, OptionsIn, JobItem

\* One more run, and the state it leads to.
LEMMA OneMoreRun ==
    ASSUME NEW o \in OptionRecord, NEW item \in JobItem, NEW n \in Nat, NEW report \in Report,
           Counted(o, n, "processing", item)
    PROVE  LET next  == AddRun(item, report)
               state == NextState(o, next, report)
           IN  Counted(o, n, state, Finish(next, state))
<1> DEFINE next  == AddRun(item, report)
           state == NextState(o, next, report)
           final == Finish(next, state)
<1>1. /\ item.runs \in Nat /\ item.ghosts \in Nat
      /\ o.retryTimes \in Nat /\ o.ghostTimes \in Nat
  BY DEF JobItem, OptionRecord
<1>2. RetryAllowance(o) \in Nat /\ GhostAllowance(o) \in Nat
  BY Allowances
<1>3. item.ghosts <= GhostAllowance(o) /\ item.runs <= RetryAllowance(o) + item.ghosts + n
  BY DEF Counted, MayRunAgain, FinalState
<1>4. next \in JobItem
  BY DecisionTypes
<1>5. final.runs = next.runs /\ final.ghosts = next.ghosts
  BY <1>4 DEF Finish, JobItem
<1>6. /\ next.runs = item.runs + 1
      /\ next.ghosts = IF report = "timeout" THEN item.ghosts + 1 ELSE item.ghosts
  BY DEF AddRun, JobItem
<1>7. WithinBudget(o, n, final)
  BY <1>1, <1>2, <1>3, <1>5, <1>6, Allowances DEF WithinBudget
<1>8. state \notin FinalState => MayRunAgain(o, n, final)
  <2>1. CASE report = "success"
    BY <2>1 DEF NextState, FinalState
  <2>2. CASE report = "error"
    <3>1. state \notin FinalState => o.retry /\ next.runs < o.retryTimes
      BY <2>2 DEF NextState, ErrorState, FinalState
    <3>2. o.retry => RetryAllowance(o) = o.retryTimes
      BY DEF RetryAllowance
    <3>3. QED
      BY <1>1, <1>3, <1>5, <1>6, <2>2, <3>1, <3>2 DEF MayRunAgain
  <2>3. CASE report = "timeout"
    <3>1. state \notin FinalState => o.ghostRetry /\ next.ghosts <= o.ghostTimes
      BY <2>3 DEF NextState, TimeoutState, FinalState
    <3>2. o.ghostRetry => GhostAllowance(o) = o.ghostTimes
      BY DEF GhostAllowance
    <3>3. QED
      BY <1>1, <1>2, <1>3, <1>5, <1>6, <2>3, <3>1, <3>2 DEF MayRunAgain
  <2>4. QED
    BY <2>1, <2>2, <2>3 DEF Report
<1>9. QED
  BY <1>7, <1>8 DEF Counted

\* A record without runs is within any budget.
LEMMA CountedNew ==
    ASSUME NEW o \in OptionRecord, NEW n \in Nat, NEW state, NEW item \in {NewItem, IdOnly}
    PROVE  Counted(o, n, state, item)
<1>1. item.runs = 0 /\ item.ghosts = 0
  BY DEF NewItem, IdOnly
<1>2. QED
  BY <1>1, Allowances DEF Counted, WithinBudget, MayRunAgain

\* A record stays within its budget when its job comes to its end, or is
\* answered late.
LEMMA CountedStill ==
    ASSUME NEW o \in OptionRecord, NEW item \in JobItem, NEW n \in Nat, NEW m \in Nat, n <= m,
           NEW state, NEW new, state \in FinalState => new \in FinalState,
           Counted(o, n, state, item)
    PROVE  Counted(o, m, new, item)
BY Allowances DEF Counted, WithinBudget, MayRunAgain, JobItem

\* A late answer turns a ghost into a run of another kind.
LEMMA CountedLate ==
    ASSUME NEW o \in OptionRecord, NEW item \in JobItem, item.ghosts > 0, NEW n \in Nat,
           NEW state, Counted(o, n, state, item)
    PROVE  Counted(o, n + 1, state, OverwriteGhost(item))
<1>1. /\ OverwriteGhost(item).runs = item.runs
      /\ OverwriteGhost(item).ghosts = item.ghosts - 1
      /\ item.runs \in Nat /\ item.ghosts \in Nat
  BY DEF OverwriteGhost, JobItem
<1>2. QED
  BY <1>1, Allowances DEF Counted, WithinBudget, MayRunAgain

\* A recorded job has options, and its record has numbers in it.
LEMMA RecordKnown ==
    ASSUME PlaceInv, RecordExists, OptionsKnown, NEW j \in Jobs, Recorded(j)
    PROVE  /\ creator[j] \notin {"none", "numbered"}
           /\ opts[j] \in OptionRecord
           /\ late[j] \in Nat
           /\ itemData[j] \in JobItem
<1>1. creator[j] \notin {"none", "numbered"}
  BY DEF PlaceInv, FreshRecord, RecordExists
<1>2. QED
  BY <1>1, OptionsAssumption, MaxLateAssumption
     DEF PlaceInv, TypeInv, TypeOK, Recorded, OptionsKnown

\* So does the copy of a worker.
LEMMA CopyKnown ==
    ASSUME PlaceInv, OptionsKnown, NEW w \in Workers, pc[w] \notin {"idle", "popped"}
    PROVE  /\ workerJob[w] \in Jobs
           /\ creator[workerJob[w]] \notin {"none", "numbered"}
           /\ opts[workerJob[w]] \in OptionRecord
           /\ late[workerJob[w]] \in Nat
           /\ workerItem[w] \in JobItem
<1>1. workerJob[w] \in Jobs /\ creator[workerJob[w]] \notin {"none", "numbered"}
  BY WorkerOwns
<1>2. workerItem[w] \in JobItem
  BY DEF PlaceInv, TypeInv, WorkerShape
<1>3. QED
  BY <1>1, <1>2, OptionsAssumption, MaxLateAssumption
     DEF PlaceInv, TypeInv, TypeOK, OptionsKnown

\* Records and workers that a step does not reach.
LEMMA RecordStill ==
    ASSUME PlaceInv, RecordExists, RunsInv, NEW j \in Jobs,
           Recorded(j)' => Recorded(j) /\ itemData'[j] = itemData[j]
                           /\ opts'[j] = opts[j] /\ late'[j] \in Nat /\ late[j] <= late'[j]
                           /\ (jobState[j] \in FinalState => jobState'[j] \in FinalState)
    PROVE  RecordCounted(j)'
<1> SUFFICES ASSUME Recorded(j)'
             PROVE  Counted(OptionsIn(itemData'[j], opts'[j]), late'[j], jobState'[j],
                            itemData'[j])
  BY DEF RecordCounted
<1>1. Counted(OptionsIn(itemData[j], opts[j]), late[j], jobState[j], itemData[j])
  BY DEF RunsInv, RecordCounted
<1>2. OptionsIn(itemData[j], opts[j]) \in OptionRecord
  BY RecordKnown, OptionsInType DEF RunsInv
<1>3. QED
  BY <1>1, <1>2, RecordKnown, CountedStill DEF RunsInv

LEMMA CopyStill ==
    ASSUME PlaceInv, RunsInv, NEW w \in Workers,
           /\ pc'[w] \in {"idle", "popped"} <=> pc[w] \in {"idle", "popped"}
           /\ workerJob'[w] = workerJob[w] /\ workerState'[w] = workerState[w]
           /\ workerItem'[w] = workerItem[w],
           \A j \in Jobs : creator[j] # "none" => opts'[j] = opts[j],
           \A j \in Jobs : late'[j] \in Nat /\ late[j] <= late'[j]
    PROVE  CopyCounted(w)'
<1> SUFFICES ASSUME pc[w] \notin {"idle", "popped"}
             PROVE  Counted(OptionsIn(workerItem[w], opts'[workerJob[w]]), late'[workerJob[w]],
                            workerState[w], workerItem[w])
  BY DEF CopyCounted
<1>1. Counted(OptionsIn(workerItem[w], opts[workerJob[w]]), late[workerJob[w]],
              workerState[w], workerItem[w])
  BY DEF RunsInv, CopyCounted
<1>2. OptionsIn(workerItem[w], opts[workerJob[w]]) \in OptionRecord
  BY CopyKnown, OptionsInType DEF RunsInv
<1>3. QED
  BY <1>1, <1>2, CopyKnown, CountedStill DEF RunsInv

LEMMA RunsCreator ==
    ASSUME PlaceInv, RecordExists, RunsInv, NEW j \in Jobs,
           Create(j) \/ CreatorStep(j) \/ CreatorAborts(j)
    PROVE  RunsInv'
<1> USE DEF records, places, creatorVars, workerVars, schedVars, history
<1>1. TypeOK /\ FreshRecord
  BY DEF PlaceInv, TypeInv
<1>2. \A k \in Jobs : late[k] \in Nat
  BY <1>1, MaxLateAssumption DEF TypeOK
<1>3. UNCHANGED <<pc, workerJob, workerState, workerItem, late>>
  BY DEF CreatorStep, Create, CreateRecord, CreateState, CreateTimeIndex, QueueNewJob,
     ResaveDelayedJob, ScheduleDelayedJob, SaveTimeIndex, CreatorAborts
<1>4. OptionsKnown' /\ \A k \in Jobs : creator[k] # "none" => opts'[k] = opts[k]
  <2>1. CASE Create(j)
    BY <1>1, <2>1 DEF Create, RunsInv, OptionsKnown, TypeOK
  <2>2. CASE CreatorStep(j) \/ CreatorAborts(j)
    <3>1. UNCHANGED opts /\ creator[j] # "none"
      BY <2>2 DEF CreatorStep, CreateRecord, CreateState, CreateTimeIndex, QueueNewJob,
         ResaveDelayedJob, ScheduleDelayedJob, SaveTimeIndex, CreatorAborts
    <3>2. \A k \in Jobs \ {j} : creator'[k] = creator[k]
      BY <1>1, <2>2 DEF CreatorStep, CreateRecord, CreateState, CreateTimeIndex, QueueNewJob,
         ResaveDelayedJob, ScheduleDelayedJob, SaveTimeIndex, CreatorAborts, TypeOK
    <3>3. QED
      BY <3>1, <3>2 DEF RunsInv, OptionsKnown
  <2>3. QED
    BY <2>1, <2>2
<1>5. \A w \in Workers : CopyCounted(w)'
  BY <1>2, <1>3, <1>4, CopyStill
<1>6. ASSUME CreateRecord(j) \/ ResaveDelayedJob(j)
      PROVE  \A k \in Jobs : RecordCounted(k)'
  <2>1. PICK state : SaveItem(j, state, NewItem)
    BY <1>6 DEF CreateRecord, ResaveDelayedJob
  <2>2. /\ \A k \in Jobs \ {j} : jobState'[k] = jobState[k] /\ itemData'[k] = itemData[k]
        /\ jobState'[j] = state /\ itemData'[j] \in {NewItem, IdOnly}
    <3>1. NewItem \in JobItem
      BY DEF NewItem, JobItem
    <3>2. QED
      BY <1>1, <2>1, <3>1, SavedRecord
  <2>3. UNCHANGED opts /\ opts[j] \in OptionRecord
    BY <1>6, OptionsAssumption DEF CreateRecord, ResaveDelayedJob, RunsInv, OptionsKnown
  <2>4. RecordCounted(j)'
    <3>1. OptionsIn(itemData'[j], opts[j]) \in OptionRecord
      BY <2>3, OptionsInType
    <3>2. QED
      BY <1>2, <1>3, <2>2, <2>3, <3>1, CountedNew DEF RecordCounted
  <2>5. \A k \in Jobs \ {j} : RecordCounted(k)'
    BY <1>2, <1>3, <2>2, <2>3, RecordStill DEF Recorded
  <2>6. QED
    BY <2>4, <2>5
<1>7. ASSUME \/ Create(j) \/ CreateState(j) \/ CreateTimeIndex(j) \/ QueueNewJob(j)
             \/ ScheduleDelayedJob(j) \/ SaveTimeIndex(j) \/ CreatorAborts(j)
      PROVE  \A k \in Jobs : RecordCounted(k)'
  <2>1. UNCHANGED <<jobState, itemData>>
    BY <1>7 DEF Create, CreateState, CreateTimeIndex, QueueNewJob, ScheduleDelayedJob,
       SaveTimeIndex, CreatorAborts
  <2>2. \A k \in Jobs : Recorded(k)' => Recorded(k) /\ opts'[k] = opts[k]
    BY <1>4, <2>1, RecordKnown DEF RunsInv, Recorded
  <2>3. QED
    BY <1>2, <1>3, <2>1, <2>2, RecordStill
<1>8. QED
  BY <1>4, <1>5, <1>6, <1>7 DEF RunsInv, CreatorStep

LEMMA RunsWorker ==
    ASSUME PlaceInv, RecordExists, RunsInv, NEW w \in Workers,
           WorkerStep(w) \/ LateAnswer(w) \/ WorkerAborts(w)
    PROVE  RunsInv'
<1> USE DEF records, places, creatorVars, workerVars, schedVars, history
<1>1. TypeOK /\ WorkerShape /\ StatesAtNames
  BY StatesAtNames DEF PlaceInv, TypeInv
<1>2. \A k \in Jobs : late[k] \in Nat
  BY <1>1, MaxLateAssumption DEF TypeOK
<1>3. UNCHANGED <<opts, creator>> /\ OptionsKnown'
  BY DEF WorkerStep, Pop, Fetch, SetProcessing, WorkStart, Processed, SaveProcessed,
     Resave, Schedule, LateAnswer, WorkerAborts, RunsInv, OptionsKnown
<1>4. ASSUME pc[w] # "idle"
      PROVE  \E j \in Jobs :
                /\ j = workerJob[w] /\ Recorded(j)
                /\ opts[j] \in OptionRecord
                /\ \A v \in Workers \ {w} : workerJob[v] # j
                /\ pc[w] \in {"popped", "fetched"} => jobState[j] \in ReadyState
                /\ pc[w] \in {"claimed", "running"} => jobState[j] = "processing"
                /\ pc[w] \notin {"idle", "popped"} => workerState[w] = jobState[j]
  BY <1>1, <1>4, WorkerOwns, WorkerKnows, RecordKnown DEF RecordExists, RunsInv
<1>5. ASSUME \A v \in Workers \ {w} : /\ pc'[v] = pc[v] /\ workerJob'[v] = workerJob[v]
                                       /\ workerState'[v] = workerState[v]
                                       /\ workerItem'[v] = workerItem[v],
             \A k \in Jobs : late'[k] \in Nat /\ late[k] <= late'[k]
      PROVE  \A v \in Workers \ {w} : CopyCounted(v)'
  BY <1>3, <1>5, CopyStill
<1>6. CASE Pop(w) \/ Schedule(w) \/ WorkerAborts(w)
  <2>1. /\ pc'[w] \in {"idle", "popped"}
        /\ \A v \in Workers \ {w} : /\ pc'[v] = pc[v] /\ workerJob'[v] = workerJob[v]
                                     /\ workerState'[v] = workerState[v]
                                     /\ workerItem'[v] = workerItem[v]
        /\ UNCHANGED <<jobState, itemData, late>>
    BY <1>1, <1>6 DEF Pop, Schedule, WorkerAborts, Release, TypeOK
  <2>2. \A k \in Jobs : RecordCounted(k)'
    BY <1>2, <1>3, <2>1, RecordStill DEF Recorded
  <2>3. CopyCounted(w)'
    BY <2>1 DEF CopyCounted
  <2>4. QED
    BY <1>2, <1>3, <1>5, <2>1, <2>2, <2>3 DEF RunsInv
<1>7. CASE Fetch(w)
  <2>1. PICK j \in Jobs : j = workerJob[w] /\ Recorded(j)
    BY <1>4, <1>7 DEF Fetch
  <2>2. /\ pc'[w] = "fetched" /\ workerJob'[w] = j
        /\ workerState'[w] = jobState[j] /\ workerItem'[w] = itemData[j]
        /\ \A v \in Workers \ {w} : /\ pc'[v] = pc[v] /\ workerJob'[v] = workerJob[v]
                                     /\ workerState'[v] = workerState[v]
                                     /\ workerItem'[v] = workerItem[v]
        /\ UNCHANGED <<jobState, itemData, late>>
    BY <1>1, <1>7, <2>1 DEF Fetch, TypeOK
  <2>3. \A k \in Jobs : RecordCounted(k)'
    BY <1>2, <1>3, <2>2, RecordStill DEF Recorded
  <2>4. CopyCounted(w)'
    BY <1>3, <2>1, <2>2 DEF CopyCounted, RunsInv, RecordCounted
  <2>5. QED
    BY <1>2, <1>3, <1>5, <2>2, <2>3, <2>4 DEF RunsInv
<1>8. CASE SetProcessing(w)
  <2>1. PICK j \in Jobs : /\ j = workerJob[w] /\ Recorded(j)
                         /\ jobState[j] \in ReadyState /\ workerState[w] = jobState[j]
    BY <1>4, <1>8 DEF SetProcessing
  <2>2. /\ pc[w] = "fetched" /\ pc'[w] = "claimed"
        /\ jobState'[j] = "processing" /\ workerState'[w] = "processing"
        /\ \A k \in Jobs \ {j} : jobState'[k] = jobState[k]
        /\ \A v \in Workers \ {w} : pc'[v] = pc[v] /\ workerState'[v] = workerState[v]
        /\ UNCHANGED <<itemData, workerJob, workerItem, late>>
    BY <1>1, <1>8, <2>1 DEF SetProcessing, SetState, TypeOK
  <2>3. \A k \in Jobs : RecordCounted(k)'
    BY <1>2, <1>3, <2>1, <2>2, RecordStill DEF Recorded, ReadyState, FinalState
  <2>4. CopyCounted(w)'
    BY <1>3, <2>1, <2>2 DEF CopyCounted, RunsInv, Counted, ReadyState, FinalState
  <2>5. QED
    BY <1>2, <1>3, <1>5, <2>2, <2>3, <2>4 DEF RunsInv
<1>9. CASE WorkStart(w)
  <2>1. /\ pc[w] = "claimed" /\ pc'[w] = "running"
        /\ \A v \in Workers \ {w} : pc'[v] = pc[v]
        /\ UNCHANGED <<jobState, itemData, workerJob, workerState, workerItem, late>>
    BY <1>1, <1>9 DEF WorkStart, TypeOK
  <2>2. \A k \in Jobs : RecordCounted(k)'
    BY <1>2, <1>3, <2>1, RecordStill DEF Recorded
  <2>3. CopyCounted(w)'
    BY <1>2, <1>3, <2>1, CopyStill
  <2>4. QED
    BY <1>2, <1>3, <1>5, <2>1, <2>2, <2>3 DEF RunsInv
<1>10. ASSUME NEW report \in Report, Processed(w, report)
       PROVE  RunsInv'
  <2>1. PICK j \in Jobs : /\ j = workerJob[w] /\ Recorded(j) /\ opts[j] \in OptionRecord
                         /\ jobState[j] = "processing" /\ workerState[w] = "processing"
    BY <1>4, <1>10 DEF Processed
  <2> DEFINE state == NextState(OptionsIn(workerItem[w], opts[j]), AddRun(workerItem[w], report), report)
             item  == Finish(AddRun(workerItem[w], report), state)
  <2>2. Counted(OptionsIn(item, opts[j]), late[j], state, item)
    <3>1. workerItem[w] \in JobItem
      BY <1>1, <1>10 DEF Processed, WorkerShape
    <3>2. Counted(OptionsIn(workerItem[w], opts[j]), late[j], "processing", workerItem[w])
      BY <1>10, <2>1 DEF Processed, RunsInv, CopyCounted
    <3>3. OptionsIn(workerItem[w], opts[j]) \in OptionRecord
      BY <2>1, OptionsInType
    <3>4. Counted(OptionsIn(workerItem[w], opts[j]), late[j], state, item)
      BY <1>2, <3>1, <3>2, <3>3, OneMoreRun
    <3>5. OptionsIn(item, opts[j]) = OptionsIn(workerItem[w], opts[j])
      BY <3>1, NameStays
    <3>6. QED
      BY <3>4, <3>5
  <2>3. /\ pc[w] = "running" /\ pc'[w] = "stated"
        /\ workerState'[w] = state /\ workerItem'[w] = item
        /\ jobState'[j] = state
        /\ \A k \in Jobs \ {j} : jobState'[k] = jobState[k]
        /\ \A v \in Workers \ {w} : /\ pc'[v] = pc[v]
                                     /\ workerState'[v] = workerState[v]
                                     /\ workerItem'[v] = workerItem[v]
        /\ UNCHANGED <<itemData, workerJob, late>>
    BY <1>1, <1>10, <2>1 DEF Processed, SetState, TypeOK
  <2> HIDE DEF state, item
  <2>4. \A k \in Jobs : RecordCounted(k)'
    BY <1>2, <1>3, <2>1, <2>3, RecordStill DEF Recorded, FinalState
  <2>5. CopyCounted(w)'
    BY <1>3, <2>1, <2>2, <2>3 DEF CopyCounted
  <2>6. QED
    BY <1>2, <1>3, <1>5, <2>3, <2>4, <2>5 DEF RunsInv
<1>11. CASE SaveProcessed(w) \/ Resave(w)
  <2>1. PICK j \in Jobs : /\ j = workerJob[w] /\ Recorded(j)
                         /\ opts[j] \in OptionRecord /\ workerState[w] = jobState[j]
    BY <1>4, <1>11 DEF SaveProcessed, Resave
  <2>2. /\ pc[w] \in {"stated", "saved"} /\ pc'[w] \in {"saved", "resaved"}
        /\ \A v \in Workers \ {w} : pc'[v] = pc[v]
        /\ UNCHANGED <<workerJob, workerState, workerItem, late>>
        /\ \/ SaveItem(j, jobState[j], workerItem[w])
           \/ UNCHANGED <<jobState, itemData>>
    BY <1>1, <1>11, <2>1 DEF SaveProcessed, Resave, TypeOK
  <2>3. /\ \A k \in Jobs : jobState'[k] = jobState[k]
        /\ \A k \in Jobs \ {j} : itemData'[k] = itemData[k]
        /\ itemData'[j] \in {workerItem[w], IdOnly, itemData[j]}
    <3>1. workerItem[w] \in JobItem
      BY <1>1, <2>2 DEF WorkerShape
    <3>2. CASE SaveItem(j, jobState[j], workerItem[w])
      BY <1>1, <3>1, <3>2, SavedRecord
    <3>3. QED
      BY <2>2, <3>2
  <2>4. \A k \in Jobs \ {j} : RecordCounted(k)'
    BY <1>2, <1>3, <2>2, <2>3, RecordStill DEF Recorded
  <2>5. RecordCounted(j)'
    <3>1. Counted(OptionsIn(workerItem[w], opts[j]), late[j], jobState[j], workerItem[w])
      BY <2>1, <2>2 DEF RunsInv, CopyCounted
    <3>2. Counted(OptionsIn(IdOnly, opts[j]), late[j], jobState[j], IdOnly)
      BY <1>2, <2>1, OptionsInType, CountedNew
    <3>3. Counted(OptionsIn(itemData[j], opts[j]), late[j], jobState[j], itemData[j])
      BY <2>1 DEF RecordCounted, RunsInv
    <3>4. jobState'[j] = jobState[j] /\ late'[j] = late[j] /\ opts'[j] = opts[j]
      BY <1>3, <2>2, <2>3
    <3>5. Counted(OptionsIn(itemData'[j], opts'[j]), late'[j], jobState'[j], itemData'[j])
      BY <2>3, <3>1, <3>2, <3>3, <3>4
    <3>6. QED
      BY <3>5 DEF RecordCounted
  <2>6. CopyCounted(w)'
    BY <1>2, <1>3, <2>2, CopyStill
  <2>7. QED
    BY <1>2, <1>3, <1>5, <2>2, <2>4, <2>5, <2>6 DEF RunsInv
<1>12. CASE LateAnswer(w)
  <2>1. PICK j \in Jobs : /\ j = workerJob[w] /\ Recorded(j) /\ opts[j] \in OptionRecord
                         /\ \A v \in Workers \ {w} : workerJob[v] # j
    BY <1>4, <1>12 DEF LateAnswer
  <2>2. workerItem[w] \in JobItem /\ workerItem[w].ghosts > 0
    BY <1>1, <1>12 DEF LateAnswer, WorkerShape
  <2>3. /\ pc[w] \in {"stated", "saved"}
        /\ workerItem'[w] = OverwriteGhost(workerItem[w])
        /\ \A v \in Workers \ {w} : workerItem'[v] = workerItem[v]
        /\ UNCHANGED <<jobState, itemData, pc, workerJob, workerState>>
        /\ \A k \in Jobs : late'[k] = IF k = j THEN late[j] + 1 ELSE late[k]
    BY <1>1, <1>12, <2>1 DEF LateAnswer, TypeOK
  <2>4. \A k \in Jobs : late'[k] \in Nat /\ late[k] <= late'[k]
    BY <1>2, <2>3
  <2>5. \A k \in Jobs : RecordCounted(k)'
    BY <1>3, <2>3, <2>4, RecordStill DEF Recorded
  <2>6. CopyCounted(w)'
    <3>1. Counted(OptionsIn(workerItem[w], opts[j]), late[j], workerState[w], workerItem[w])
      BY <2>1, <2>3 DEF RunsInv, CopyCounted
    <3>2. OptionsIn(workerItem[w], opts[j]) \in OptionRecord
      BY <2>1, OptionsInType
    <3>3. Counted(OptionsIn(workerItem[w], opts[j]), late[j] + 1, workerState[w],
                  OverwriteGhost(workerItem[w]))
      BY <1>2, <2>2, <3>1, <3>2, CountedLate
    <3>4. OptionsIn(OverwriteGhost(workerItem[w]), opts[j]) = OptionsIn(workerItem[w], opts[j])
      BY <2>2, NameStaysLate
    <3>5. QED
      BY <1>3, <2>1, <2>3, <3>3, <3>4 DEF CopyCounted
  <2>7. QED
    BY <1>3, <1>5, <2>3, <2>4, <2>5, <2>6 DEF RunsInv
<1>13. QED
  BY <1>6, <1>7, <1>8, <1>9, <1>10, <1>11, <1>12 DEF WorkerStep

LEMMA RunsScheduler ==
    ASSUME PlaceInv, RecordExists, RunsInv, NEW s \in Schedulers,
           \/ SchedulerStep(s)
           \/ \E q \in Zsets : BatchFails(s, q)
           \/ \E j \in Jobs : TaskFails(s, j)
           \/ SchedulerCrashes(s)
    PROVE  RunsInv'
<1>1. \A k \in Jobs : late[k] \in Nat
  BY MaxLateAssumption DEF PlaceInv, TypeInv, TypeOK
<1>2. /\ UNCHANGED <<pc, workerJob, workerState, workerItem, creator, opts, late>>
      /\ \A k \in Jobs :
            \/ jobState'[k] = jobState[k] /\ itemData'[k] = itemData[k]
            \/ /\ jobState[k] \in ScheduledState /\ jobState'[k] = "queued"
               /\ itemData'[k] = itemData[k]
            \/ jobState[k] \in FinalState /\ ~Recorded(k)'
  BY SchedulerRecords
<1>3. OptionsKnown'
  BY <1>2 DEF RunsInv, OptionsKnown
<1>4. \A w \in Workers : CopyCounted(w)'
  BY <1>1, <1>2, CopyStill
<1>5. \A k \in Jobs : RecordCounted(k)'
  BY <1>1, <1>2, RecordStill DEF Recorded, ScheduledState, FinalState
<1>6. QED
  BY <1>3, <1>4, <1>5 DEF RunsInv

LEMMA RunsInit == Init => RunsInv
BY DEF Init, RunsInv, OptionsKnown, RecordCounted, CopyCounted, Recorded

LEMMA RunsStep == PlaceInv /\ IndexInv /\ RunsInv /\ [Next]_vars => RunsInv'
<1> SUFFICES ASSUME PlaceInv, RecordExists, RunsInv, [Next]_vars PROVE RunsInv'
  BY DEF IndexInv
<1>1. CASE UNCHANGED vars
  BY <1>1 DEF vars, RunsInv, OptionsKnown, RecordCounted, CopyCounted, Recorded
<1>2. ASSUME NEW j \in Jobs, FallsBehind(j)
      PROVE  RunsInv'
  BY <1>2, BehindRest DEF creatorVars, workerVars, history, RunsInv, OptionsKnown,
     RecordCounted, CopyCounted, Recorded
<1>3. CASE Next
  BY <1>2, <1>3, RunsCreator, RunsWorker, RunsScheduler DEF Next, Fault
<1>4. QED
  BY <1>1, <1>3

\* A job does not run for ever: for all options, the record never lists more
\* runs than the first, a retry for each retryTimes and a rerun for each
\* ghostTimes, plus one for each late answer that hid a ghost.
THEOREM RunsAreBounded == Spec => []RunsBounded
<1>1. Init => RunsInv
  BY RunsInit
<1>2. PlaceInv /\ IndexInv /\ RunsInv /\ [Next]_vars => RunsInv'
  BY RunsStep
<1>3. RunsInv => RunsBounded
  BY DEF RunsInv, RecordCounted, Counted, WithinBudget, RunsBounded
<1>4. QED
  BY <1>1, <1>2, <1>3, PlacesAlways, IndexAlways, PTL DEF Spec

-----------------------------------------------------------------------------
(***************************************************************************)
(* Nothing is lost.                                                        *)
(***************************************************************************)

\* Being somewhere, by name.
LEMMA SomewhereMeaning ==
    \A j \in Jobs : Somewhere(j) <=>
        \/ CreatorHolds(j)
        \/ InQueue(j)
        \/ j \in nameless
        \/ \E q \in Zsets : j \in zset[q]
        \/ \E w \in Workers : workerJob[w] = j
        \/ \E s \in Schedulers, q \in Zsets : j \in batch[s][q] \union timers[s][q]
        \/ \E s \in Schedulers : j \in requeue[s]
<1> SUFFICES ASSUME NEW j \in Jobs
             PROVE  Somewhere(j) <=>
                       \/ CreatorHolds(j)
                       \/ InQueue(j)
                       \/ j \in nameless
                       \/ \E q \in Zsets : j \in zset[q]
                       \/ \E w \in Workers : workerJob[w] = j
                       \/ \E s \in Schedulers, q \in Zsets : j \in batch[s][q] \union timers[s][q]
                       \/ \E s \in Schedulers : j \in requeue[s]
  OBVIOUS
<1> DEFINE Named ==
        \/ CreatorHolds(j)
        \/ InQueue(j)
        \/ j \in nameless
        \/ \E q \in Zsets : j \in zset[q]
        \/ \E w \in Workers : workerJob[w] = j
        \/ \E s \in Schedulers, q \in Zsets : j \in batch[s][q] \union timers[s][q]
        \/ \E s \in Schedulers : j \in requeue[s]
<1>1. ASSUME NEW p \in Place, At(j, p)
      PROVE  Named
  BY <1>1, AtNames, PlaceCases
<1>2. ASSUME Named
      PROVE  Somewhere(j)
  BY <1>2, AtNames, PlaceNames DEF Somewhere
<1>3. QED
  BY <1>1, <1>2 DEF Somewhere

\* The step takes j from nowhere, and leaves its record and what befell it.
Kept(j) ==
    /\ Recorded(j)' => Recorded(j)
    /\ jobState'[j] = jobState[j]
    /\ j \in hit => j \in hit'
    /\ CreatorHolds(j) => CreatorHolds(j)'
    /\ InQueue(j) => InQueue(j)'
    /\ j \in nameless => j \in nameless'
    /\ \A q \in Zsets : j \in zset[q] => j \in zset'[q]
    /\ \A w \in Workers : workerJob[w] = j => workerJob'[w] = j
    /\ \A s \in Schedulers, q \in Zsets :
          /\ j \in batch[s][q] => j \in batch'[s][q]
          /\ j \in timers[s][q] => j \in timers'[s][q]
    /\ \A s \in Schedulers : j \in requeue[s] => j \in requeue'[s]

LEMMA KeptAccounted ==
    ASSUME NothingLost, NEW j \in Jobs, Kept(j)
    PROVE  Accounted(j)'
<1>1. Accounted(j)
  BY DEF NothingLost, Accounted, Somewhere
<1>2. SomewhereMeaning'
  BY SomewhereMeaning, PTL
<1>3. Somewhere(j) => Somewhere(j)'
  BY <1>2, SomewhereMeaning DEF Kept
<1>4. QED
  BY <1>1, <1>3 DEF Accounted, Kept

\* blpop takes no other job, rpush leaves all where they are.
LEMMA QueueRest ==
    ASSUME queue \in Seq(Jobs), NEW j \in Jobs, InQueue(j)
    PROVE  /\ queue' = Tail(queue) /\ j # Head(queue) => InQueue(j)'
           /\ \A k \in Jobs : queue' = Append(queue, k) => InQueue(j)'
<1>1. PICK i \in 1 .. Len(queue) : queue[i] = j
  BY DEF InQueue
<1>2. Len(queue) \in Nat /\ queue # <<>>
  BY <1>1, LenProperties, EmptySeq
<1>3. ASSUME queue' = Tail(queue), j # Head(queue)
      PROVE  InQueue(j)'
  <2>1. /\ Head(queue) = queue[1]
        /\ Len(queue') = Len(queue) - 1
        /\ \A k \in 1 .. Len(queue') : queue'[k] = queue[k + 1]
    BY <1>2, <1>3, HeadTailProperties
  <2>2. i # 1
    BY <1>1, <1>3, <2>1
  <2>3. i - 1 \in 1 .. Len(queue') /\ queue'[i - 1] = j
    BY <1>1, <1>2, <2>1, <2>2
  <2>4. QED
    BY <2>3 DEF InQueue
<1>4. ASSUME NEW k \in Jobs, queue' = Append(queue, k)
      PROVE  InQueue(j)'
  <2>1. Len(queue') = Len(queue) + 1 /\ queue'[i] = queue[i]
    BY <1>1, <1>4, AppendProperties
  <2>2. i \in 1 .. Len(queue')
    BY <1>2, <2>1
  <2>3. QED
    BY <1>1, <2>1, <2>2 DEF InQueue
<1>5. QED
  BY <1>3, <1>4

\* rpush puts the job there.
LEMMA QueueLast ==
    ASSUME queue \in Seq(Jobs), NEW j \in Jobs, queue' = Append(queue, j)
    PROVE  InQueue(j)'
<1>1. Len(queue) \in Nat /\ Len(queue') = Len(queue) + 1 /\ queue'[Len(queue) + 1] = j
  BY AppendProperties, LenProperties
<1>2. QED
  BY <1>1 DEF InQueue

LEMMA LostCreator ==
    ASSUME PlaceInv, RecordExists, NothingLost, NEW j \in Jobs,
           Create(j) \/ CreatorStep(j) \/ CreatorAborts(j)
    PROVE  \A k \in Jobs : Accounted(k)'
<1> USE DEF records, places, creatorVars, workerVars, schedVars, history
<1>1. TypeOK /\ FreshRecord /\ SomewhereMeaning'
  BY SomewhereMeaning, PTL DEF PlaceInv, TypeInv
<1>2. \A k \in Jobs \ {j} : Kept(k)
  <2>1. /\ \A k \in Jobs \ {j} : /\ jobState'[k] = jobState[k] /\ itemData'[k] = itemData[k]
                                 /\ creator'[k] = creator[k]
        /\ UNCHANGED <<nameless, workerJob, batch, timers, requeue>> /\ hit \subseteq hit'
    <3>1. CASE CreateRecord(j) \/ ResaveDelayedJob(j)
      <4>1. NewItem \in JobItem
        BY DEF NewItem, JobItem
      <4>2. \A k \in Jobs \ {j} : jobState'[k] = jobState[k] /\ itemData'[k] = itemData[k]
        BY <1>1, <3>1, <4>1, SavedRecord DEF CreateRecord, ResaveDelayedJob
      <4>3. QED
        BY <1>1, <3>1, <4>2 DEF CreateRecord, ResaveDelayedJob, TypeOK
    <3>2. CASE \/ Create(j) \/ CreateState(j) \/ CreateTimeIndex(j) \/ QueueNewJob(j)
               \/ ScheduleDelayedJob(j) \/ SaveTimeIndex(j) \/ CreatorAborts(j)
      BY <1>1, <3>2 DEF Create, CreateState, CreateTimeIndex, QueueNewJob, ScheduleDelayedJob,
         SaveTimeIndex, CreatorAborts, TypeOK
    <3>3. QED
      BY <3>1, <3>2 DEF CreatorStep
  <2>2. \A k \in Jobs, q \in Zsets : k \in zset[q] => k \in zset'[q]
    BY <1>1 DEF CreatorStep, Create, CreateRecord, CreateState, CreateTimeIndex, QueueNewJob,
       ResaveDelayedJob, ScheduleDelayedJob, SaveTimeIndex, CreatorAborts, TypeOK
  <2>3. queue' = queue \/ queue' = Append(queue, j)
    BY DEF CreatorStep, Create, CreateRecord, CreateState, CreateTimeIndex, QueueNewJob,
       ResaveDelayedJob, ScheduleDelayedJob, SaveTimeIndex, CreatorAborts
  <2>4. \A k \in Jobs : InQueue(k) => InQueue(k)'
    BY <1>1, <2>3, QueueRest DEF InQueue, TypeOK
  <2>5. QED
    BY <2>1, <2>2, <2>4 DEF Kept, Recorded, CreatorHolds
<1>3. CASE CreateRecord(j) \/ CreateState(j) \/ CreateTimeIndex(j) \/ ResaveDelayedJob(j)
  <2>1. CreatorHolds(j)'
    BY <1>1, <1>3 DEF CreateRecord, CreateState, CreateTimeIndex, ResaveDelayedJob, CreatorHolds,
       TypeOK
  <2>2. QED
    BY <1>1, <1>2, <2>1, KeptAccounted DEF Accounted
<1>4. CASE QueueNewJob(j)
  <2>1. InQueue(j)'
    BY <1>1, <1>4, QueueLast DEF QueueNewJob, TypeOK
  <2>2. QED
    BY <1>1, <1>2, <2>1, KeptAccounted DEF Accounted
<1>5. CASE ScheduleDelayedJob(j)
  <2>1. "scheduled" \in Zsets /\ j \in zset'["scheduled"]
    BY <1>1, <1>5 DEF ScheduleDelayedJob, TypeOK, Zsets
  <2>2. QED
    BY <1>1, <1>2, <2>1, KeptAccounted DEF Accounted
<1>6. CASE SaveTimeIndex(j) \/ Create(j)
  <2>1. Kept(j)
    BY <1>1, <1>6 DEF SaveTimeIndex, Create, Kept, Recorded, CreatorHolds, InQueue, TypeOK
  <2>2. QED
    BY <1>2, <2>1, KeptAccounted
<1>7. CASE CreatorAborts(j)
  <2>1. CASE CreatorHolds(j)
    BY <1>2, <1>7, <2>1, KeptAccounted DEF CreatorAborts, Accounted
  <2>2. CASE ~CreatorHolds(j)
    <3>1. Kept(j)
      BY <1>1, <1>7, <2>2 DEF CreatorAborts, Kept, Recorded, CreatorHolds, InQueue
    <3>2. QED
      BY <1>2, <3>1, KeptAccounted
  <2>3. QED
    BY <2>1, <2>2
<1>8. QED
  BY <1>3, <1>4, <1>5, <1>6, <1>7 DEF CreatorStep

LEMMA LostWorker ==
    ASSUME PlaceInv, RecordExists, NothingLost, NEW w \in Workers,
           WorkerStep(w) \/ LateAnswer(w) \/ WorkerAborts(w)
    PROVE  \A k \in Jobs : Accounted(k)'
<1> USE DEF records, places, creatorVars, workerVars, schedVars, history
<1>1. TypeOK /\ WorkerShape /\ SomewhereMeaning'
  BY SomewhereMeaning, PTL DEF PlaceInv, TypeInv
<1>2. UNCHANGED <<nameless, creator, batch, timers, requeue>> /\ hit \subseteq hit'
  BY DEF WorkerStep, Pop, Fetch, SetProcessing, WorkStart, Processed, SaveProcessed,
     Resave, Schedule, LateAnswer, WorkerAborts
<1>3. CASE Pop(w)
  <2>1. /\ queue \in Seq(Jobs) /\ queue' = Tail(queue)
        /\ workerJob[w] = NoJob /\ workerJob'[w] = Head(queue)
        /\ \A v \in Workers \ {w} : workerJob'[v] = workerJob[v]
        /\ UNCHANGED <<jobState, itemData, zset, hit>>
    BY <1>1, <1>3 DEF Pop, TypeOK, WorkerShape
  <2>2. \A k \in Jobs : k # Head(queue) => Kept(k)
    BY <1>2, <2>1, QueueRest, NullAssumption DEF Kept, Recorded, CreatorHolds
  <2>3. \A k \in Jobs : k = Head(queue) => Accounted(k)'
    BY <1>1, <2>1 DEF Accounted
  <2>4. QED
    BY <2>2, <2>3, KeptAccounted
<1>4. CASE \/ Fetch(w) \/ SetProcessing(w) \/ WorkStart(w)
           \/ (\E report \in Report : Processed(w, report))
           \/ SaveProcessed(w) \/ Resave(w) \/ LateAnswer(w)
  <2>1. PICK j \in Jobs : j = workerJob[w]
    BY <1>4, WorkerOwns DEF Fetch, SetProcessing, WorkStart, Processed, SaveProcessed,
       Resave, LateAnswer
  <2>2. /\ UNCHANGED <<queue, zset, workerJob>>
        /\ \A k \in Jobs \ {j} : jobState'[k] = jobState[k] /\ itemData'[k] = itemData[k]
    <3>1. CASE \/ Fetch(w) \/ SetProcessing(w) \/ WorkStart(w) \/ LateAnswer(w)
               \/ (\E report \in Report : Processed(w, report))
      BY <1>1, <2>1, <3>1 DEF Fetch, SetProcessing, SetState, WorkStart, Processed,
         LateAnswer, TypeOK
    <3>2. CASE SaveProcessed(w) \/ Resave(w)
      <4>1. workerItem[w] \in JobItem
        BY <1>1, <3>2 DEF SaveProcessed, Resave, WorkerShape
      <4>2. \A k \in Jobs \ {j} : jobState'[k] = jobState[k] /\ itemData'[k] = itemData[k]
        BY <1>1, <2>1, <3>2, <4>1, SavedRecord DEF SaveProcessed, Resave
      <4>3. QED
        BY <3>2, <4>2 DEF SaveProcessed, Resave
    <3>3. QED
      BY <1>4, <3>1, <3>2
  <2>3. \A k \in Jobs \ {j} : Kept(k)
    BY <1>2, <2>2 DEF Kept, Recorded, CreatorHolds, InQueue
  <2>4. Accounted(j)'
    BY <1>1, <2>1, <2>2 DEF Accounted
  <2>5. QED
    BY <2>3, <2>4, KeptAccounted
<1>5. CASE Schedule(w) \/ WorkerAborts(w)
  <2>1. PICK j \in Jobs : j = workerJob[w]
    BY <1>5, WorkerOwns DEF Schedule, WorkerAborts
  <2>2. /\ UNCHANGED <<queue, jobState, itemData>>
        /\ \A q \in Zsets : zset[q] \subseteq zset'[q]
        /\ \A v \in Workers \ {w} : workerJob'[v] = workerJob[v]
        /\ \/ j \in hit'
           \/ \E q \in Zsets : j \in zset'[q]
    <3>1. CASE Schedule(w)
      <4>1. PICK q \in Zsets : zset' = [zset EXCEPT ![q] = @ \union {j}]
        BY <2>1, <3>1 DEF Schedule, Zsets
      <4>2. QED
        BY <1>1, <3>1, <4>1 DEF Schedule, Release, TypeOK
    <3>2. CASE WorkerAborts(w)
      BY <1>1, <2>1, <3>2 DEF WorkerAborts, Release, TypeOK
    <3>3. QED
      BY <1>5, <3>1, <3>2
  <2>3. \A k \in Jobs \ {j} : Kept(k)
    BY <1>2, <2>1, <2>2 DEF Kept, Recorded, CreatorHolds, InQueue
  <2>4. Accounted(j)'
    BY <1>1, <2>2 DEF Accounted
  <2>5. QED
    BY <2>3, <2>4, KeptAccounted
<1>6. QED
  BY <1>3, <1>4, <1>5 DEF WorkerStep

LEMMA LostScheduler ==
    ASSUME PlaceInv, NothingLost, NEW s \in Schedulers,
           \/ SchedulerStep(s)
           \/ \E q \in Zsets : BatchFails(s, q)
           \/ \E j \in Jobs : TaskFails(s, j)
           \/ SchedulerCrashes(s)
    PROVE  \A k \in Jobs : Accounted(k)'
<1> USE DEF records, places, creatorVars, workerVars, schedVars, history
<1> DEFINE Goal == \A k \in Jobs : Accounted(k)'
<1>1. TypeOK /\ SomewhereMeaning' /\ "scheduled" \in Zsets /\ "scheduled-purge" \in Zsets
  <2>1. SomewhereMeaning'
    BY SomewhereMeaning, PTL
  <2>2. QED
    BY <2>1 DEF PlaceInv, TypeInv, Zsets
<1>2. ASSUME NEW due \in DueBatches, Ping(s, due)
      PROVE  Goal
  <2>1. /\ \A q \in Zsets : batch[s][q] = {} /\ batch'[s][q] = due[q] /\ zset'[q] = zset[q] \ due[q]
        /\ \A t \in Schedulers \ {s} : batch'[t] = batch[t]
        /\ UNCHANGED <<jobState, itemData, queue, nameless, creator, workerJob, timers, requeue, hit>>
    BY <1>1, <1>2 DEF Ping, TypeOK
  <2>2. ASSUME NEW k \in Jobs
        PROVE  Accounted(k)'
    <3>1. CASE \E q \in Zsets : k \in due[q]
      BY <1>1, <2>1, <3>1 DEF Accounted
    <3>2. CASE \A q \in Zsets : k \notin due[q]
      <4>1. Kept(k)
        BY <2>1, <3>2 DEF Kept, Recorded, CreatorHolds, InQueue
      <4>2. QED
        BY <4>1, KeptAccounted
    <3>3. QED
      BY <3>1, <3>2
  <2>3. QED
    BY <2>2
<1>3. ASSUME NEW q \in Zsets, NEW j \in Jobs, FetchScheduled(s, q, j)
      PROVE  Goal
  <2>1. UNCHANGED <<jobState, itemData, queue, nameless, zset, creator, workerJob, batch, timers,
                   requeue, hit>>
    BY <1>3 DEF FetchScheduled
  <2>2. \A k \in Jobs : Kept(k)
    BY <2>1 DEF Kept, Recorded, CreatorHolds, InQueue
  <2>3. QED
    BY <2>2, KeptAccounted
<1>4. ASSUME NEW q \in Zsets, Lineup(s, q)
      PROVE  Goal
  <2>1. /\ timers' = [timers EXCEPT ![s] = [timers[s] EXCEPT ![q] = @ \union batch[s][q]]]
        /\ batch' = [batch EXCEPT ![s] = [batch[s] EXCEPT ![q] = {}]]
        /\ UNCHANGED <<jobState, itemData, queue, nameless, zset, creator, workerJob, requeue, hit>>
    BY <1>4 DEF Lineup
  <2>2. /\ timers'[s][q] = timers[s][q] \union batch[s][q]
        /\ \A t \in Schedulers, r \in Zsets :
              /\ timers[t][r] \subseteq timers'[t][r]
              /\ ~(t = s /\ r = q) => batch'[t][r] = batch[t][r]
    BY <1>1, <2>1 DEF TypeOK
  <2>3. ASSUME NEW k \in Jobs
        PROVE  Accounted(k)'
    <3>1. CASE k \in batch[s][q]
      BY <1>1, <2>2, <3>1 DEF Accounted
    <3>2. CASE k \notin batch[s][q]
      <4>1. Kept(k)
        BY <2>1, <2>2, <3>2 DEF Kept, Recorded, CreatorHolds, InQueue
      <4>2. QED
        BY <4>1, KeptAccounted
    <3>3. QED
      BY <3>1, <3>2
  <2>4. QED
    BY <2>3
<1>5. ASSUME NEW q \in Zsets, NEW j \in Jobs, j \in timers[s][q],
             timers' = [timers EXCEPT ![s][q] = @ \ {j}],
             \A k \in Jobs \ {j} : jobState'[k] = jobState[k] /\ itemData'[k] = itemData[k],
             UNCHANGED <<queue, nameless, zset, creator, workerJob, batch, hit>>,
             \A t \in Schedulers : requeue[t] \subseteq requeue'[t]
      PROVE  \A k \in Jobs \ {j} : Accounted(k)'
  <2>1. timers' = [timers EXCEPT ![s] = [timers[s] EXCEPT ![q] = @ \ {j}]]
    BY <1>5
  <2>2. \A t \in Schedulers, r \in Zsets : timers[t][r] \ {j} \subseteq timers'[t][r]
    BY <1>1, <2>1 DEF TypeOK
  <2>3. \A k \in Jobs \ {j} : Kept(k)
    BY <1>5, <2>2 DEF Kept, Recorded, CreatorHolds, InQueue
  <2>4. QED
    BY <2>3, KeptAccounted
<1>6. ASSUME NEW j \in Jobs, AddToProcessQueue(s, j)
      PROVE  Goal
  <2>1. /\ \A k \in Jobs \ {j} : jobState'[k] = jobState[k] /\ itemData'[k] = itemData[k]
        /\ \A t \in Schedulers : requeue[t] \subseteq requeue'[t]
        /\ j \in requeue'[s]
    BY <1>1, <1>6 DEF AddToProcessQueue, SetState, TypeOK
  <2>2. \A k \in Jobs \ {j} : Accounted(k)'
    BY <1>1, <1>5, <1>6, <2>1 DEF AddToProcessQueue
  <2>3. Accounted(j)'
    BY <1>1, <2>1 DEF Accounted
  <2>4. QED
    BY <2>2, <2>3
<1>7. ASSUME NEW j \in Jobs, PurgeJob(s, j)
      PROVE  Goal
  <2>1. \A k \in Jobs \ {j} : jobState'[k] = jobState[k] /\ itemData'[k] = itemData[k]
    BY <1>1, <1>7 DEF PurgeJob, DeleteItem, TypeOK
  <2>2. \A k \in Jobs \ {j} : Accounted(k)'
    BY <1>1, <1>5, <1>7, <2>1 DEF PurgeJob
  <2>3. Accounted(j)'
    <3>1. jobState[j] \in FinalState
      BY <1>1, <1>7, TimerKnows DEF PurgeJob
    <3>2. CASE PurgeJobs
      BY <1>1, <1>7, <3>2 DEF PurgeJob, DeleteItem, Accounted, Recorded, TypeOK
    <3>3. CASE ~PurgeJobs
      BY <1>7, <3>1, <3>3 DEF PurgeJob, Accounted
    <3>4. QED
      BY <3>2, <3>3
  <2>4. QED
    BY <2>2, <2>3
<1>8. ASSUME NEW j \in Jobs, Enqueue(s, j)
      PROVE  Goal
  <2>1. /\ \A t \in Schedulers : requeue[t] \ {j} \subseteq requeue'[t]
        /\ UNCHANGED <<jobState, itemData, zset, creator, workerJob, batch, timers, hit>>
    BY <1>1, <1>8 DEF Enqueue, TypeOK
  <2>2. \/ queue \in Seq(Jobs) /\ queue' = Append(queue, j) /\ nameless' = nameless
        \/ nameless' = nameless \union {j} /\ queue' = queue
    BY <1>1, <1>8 DEF Enqueue, TypeOK
  <2>3. /\ \A k \in Jobs : InQueue(k) => InQueue(k)'
        /\ nameless \subseteq nameless'
        /\ InQueue(j)' \/ j \in nameless'
    <3>1. CASE queue \in Seq(Jobs) /\ queue' = Append(queue, j) /\ nameless' = nameless
      BY <3>1, QueueRest, QueueLast
    <3>2. CASE nameless' = nameless \union {j} /\ queue' = queue
      BY <3>2 DEF InQueue
    <3>3. QED
      BY <2>2, <3>1, <3>2
  <2>4. \A k \in Jobs \ {j} : Kept(k)
    BY <2>1, <2>3 DEF Kept, Recorded, CreatorHolds
  <2>5. Accounted(j)'
    BY <1>1, <2>3 DEF Accounted
  <2>6. QED
    BY <2>4, <2>5, KeptAccounted
<1>9. ASSUME NEW dropped \in SUBSET Jobs, hit' = hit \union dropped,
             UNCHANGED <<jobState, itemData, queue, nameless, zset, creator, workerJob>>,
             \A t \in Schedulers, r \in Zsets :
                /\ batch[t][r] \ dropped \subseteq batch'[t][r]
                /\ timers[t][r] \ dropped \subseteq timers'[t][r]
                /\ requeue[t] \ dropped \subseteq requeue'[t]
      PROVE  Goal
  <2>1. \A k \in Jobs \ dropped : Kept(k)
    BY <1>1, <1>9 DEF Kept, Recorded, CreatorHolds, InQueue
  <2>2. \A k \in dropped : Accounted(k)'
    BY <1>9 DEF Accounted
  <2>3. QED
    BY <2>1, <2>2, KeptAccounted
<1>10. ASSUME NEW q \in Zsets, BatchFails(s, q)
       PROVE  Goal
  <2>1. \A t \in Schedulers, r \in Zsets : batch[t][r] \ batch[s][q] \subseteq batch'[t][r]
    BY <1>1, <1>10 DEF BatchFails, TypeOK
  <2>2. batch[s][q] \in SUBSET Jobs
    BY <1>1 DEF TypeOK
  <2>3. QED
    BY <1>9, <1>10, <2>1, <2>2 DEF BatchFails
<1>11. ASSUME NEW j \in Jobs, TaskFails(s, j)
       PROVE  Goal
  <2>1. \A t \in Schedulers, r \in Zsets : /\ timers[t][r] \ {j} \subseteq timers'[t][r]
                                          /\ requeue[t] \ {j} \subseteq requeue'[t]
    BY <1>1, <1>11 DEF TaskFails, TypeOK
  <2>2. {j} \in SUBSET Jobs
    OBVIOUS
  <2>3. QED
    BY <1>9, <1>11, <2>1, <2>2 DEF TaskFails
<1>12. ASSUME SchedulerCrashes(s)
       PROVE  Goal
  <2>1. SchedulerHolds(s) \in SUBSET Jobs
    BY <1>1 DEF SchedulerHolds, TypeOK
  <2>2. \A r \in Zsets : /\ batch[s][r] \subseteq SchedulerHolds(s)
                         /\ timers[s][r] \subseteq SchedulerHolds(s)
                         /\ requeue[s] \subseteq SchedulerHolds(s)
    BY DEF SchedulerHolds, Zsets
  <2>3. \A t \in Schedulers \ {s} :
           batch'[t] = batch[t] /\ timers'[t] = timers[t] /\ requeue'[t] = requeue[t]
    BY <1>1, <1>12 DEF SchedulerCrashes, TypeOK
  <2>4. \A t \in Schedulers, r \in Zsets :
           /\ batch[t][r] \ SchedulerHolds(s) \subseteq batch'[t][r]
           /\ timers[t][r] \ SchedulerHolds(s) \subseteq timers'[t][r]
           /\ requeue[t] \ SchedulerHolds(s) \subseteq requeue'[t]
    BY <2>2, <2>3
  <2>5. QED
    BY <1>9, <1>12, <2>1, <2>4 DEF SchedulerCrashes
<1>13. QED
  BY <1>2, <1>3, <1>4, <1>6, <1>7, <1>8, <1>10, <1>11, <1>12 DEF SchedulerStep

LEMMA LostStep == PlaceInv /\ IndexInv /\ NothingLost /\ [Next]_vars => NothingLost'
<1> SUFFICES ASSUME PlaceInv, RecordExists, NothingLost, [Next]_vars
             PROVE  \A k \in Jobs : Accounted(k)'
  BY DEF IndexInv, NothingLost, Accounted, Somewhere
<1>1. CASE UNCHANGED vars
  BY <1>1, KeptAccounted DEF vars, Kept, Recorded, CreatorHolds, InQueue
<1>2. ASSUME NEW j \in Jobs, FallsBehind(j)
      PROVE  \A k \in Jobs : Accounted(k)'
  <2>1. \A k \in Jobs : Kept(k)
    BY <1>2, BehindRest DEF creatorVars, workerVars, schedVars, history, Kept, Recorded,
       CreatorHolds, InQueue
  <2>2. QED
    BY <2>1, KeptAccounted
<1>3. CASE Next
  BY <1>2, <1>3, LostCreator, LostWorker, LostScheduler DEF Next, Fault
<1>4. QED
  BY <1>1, <1>3

\* A job that was recorded stays in a list or a sorted set of redis or with a
\* process that holds it, unless a fault struck that process, or the job is
\* complete and purging is switched off. Whether the others go on with it is
\* not part of this.
THEOREM NoJobIsLost == Spec => []NothingLost
<1>1. Init => NothingLost
  BY DEF Init, NothingLost, Recorded
<1>2. PlaceInv /\ IndexInv /\ NothingLost /\ [Next]_vars => NothingLost'
  BY LostStep
<1>3. QED
  BY <1>1, <1>2, PlacesAlways, IndexAlways, PTL DEF Spec
=============================================================================
