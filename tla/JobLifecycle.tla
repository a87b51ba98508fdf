----------------------------- MODULE JobLifecycle -----------------------------
(***************************************************************************)
(* The life of kickq jobs, from kickq.create to the purge: the creators,   *)
(* workers and schedulers of any number of node processes that share one   *)
(* redis server.                                                           *)
(*                                                                         *)
(* Granularity.  One action is one handler of the code together with the   *)
(* one redis command (or multi) that it issues; the process then waits for *)
(* the reply, and the next action of that process is the handler of the    *)
(* reply.  Between issue and reply a process changes nothing but its own   *)
(* memory, so executing the command when it is issued loses no behaviour.  *)
(* The state of a process names the last thing it issued.                  *)
(*                                                                         *)
(* Abstracted: clock values (a due date is "some time later"; process      *)
(* timeouts and RAM timers fire at any time), job names (one queue per     *)
(* name, one name here), pub/sub messages and logging.                     *)
(***************************************************************************)
EXTENDS JobStates, Sequences, FiniteSets

CONSTANTS
    Jobs,        \* the jobs that may be created
    Workers,     \* instances of the Worker controller, of all processes
    Schedulers,  \* instances of the Scheduler, one per process that has one
    JobOptions,  \* the option records jobs are created with
    PurgeJobs,   \* the configuration option purgeJobs
    Circular,    \* whether data and errors of a job may be ones that
                 \* JSON.stringify throws on, at any save
    LongOutages, \* whether redis may be down, or no scheduler may run, for
                 \* longer than schedulerLookAhead
    MaxLate,     \* bound: late callbacks per job that the model follows
    NoJob,       \* "no job", in a worker that has none
    NoItem,      \* "no record", in redis or in a worker
    NoOptions    \* the options of a job not created yet

ASSUME OptionsAssumption == JobOptions \subseteq OptionRecord
ASSUME SwitchAssumption == /\ PurgeJobs \in BOOLEAN
                           /\ Circular \in BOOLEAN
                           /\ LongOutages \in BOOLEAN
ASSUME MaxLateAssumption == MaxLate \in Nat
ASSUME NullAssumption == /\ NoJob \notin Jobs
                         /\ NoItem \notin JobItem
                         /\ NoOptions \notin JobOptions

\* Scheduler.queues: the sorted sets of due dates in redis.
Zsets == {"scheduled", "scheduled-purge"}

VARIABLES
    \* -- redis --
    jobState,    \* field "state" of the hash of each job
    itemData,    \* field "itemData" of the hash of each job
    stateSet,    \* the sets kickq:state:<state>
    timeIndex,   \* the sorted set kickq:time-index
    queue,       \* the list kickq:queue:<name>
    nameless,    \* the list kickq:queue: of an empty name, which no worker pops
    zset,        \* the sorted sets kickq:scheduled, kickq:scheduled-purge
    behind,      \* their entries that are out of the window of every later ping
    \* -- the creator of each job (Create, JobModel.create) --
    opts,        \* options of the job
    creator,     \* the last thing the creator issued
    \* -- each worker (Worker, PopJob, JobModel.processed) --
    pc,          \* the last thing the worker issued
    workerJob,   \* id of jobItem
    workerState, \* jobItem.state
    workerItem,  \* the rest of jobItem
    workerRun,   \* processItem.state, "none" when there is no processItem
    \* -- each scheduler --
    batch,       \* per sorted set, popped ids whose batch is being fetched
    cached,      \* jobItem.state of each fetched job, "none" when not fetched
    blank,       \* fetched jobs whose jobItem.name is empty
    timers,      \* per sorted set, jobs waiting for their RAM timer
    requeue,     \* jobs set to "queued" whose rpush is not issued yet
    \* -- history, read by no action's guard but the bound on late --
    hit,         \* jobs whose holder crashed, or dropped them on an error
    late,        \* per job, late callbacks that rewrote a timed out run
    relisted     \* jobs the creator added to the time index after the purge

records     == <<jobState, itemData, stateSet>>
places      == <<timeIndex, queue, nameless, zset, behind>>
creatorVars == <<opts, creator>>
workerVars  == <<pc, workerJob, workerState, workerItem, workerRun>>
schedVars   == <<batch, cached, blank, timers, requeue>>
history     == <<hit, late, relisted>>
vars == <<jobState, itemData, stateSet, timeIndex, queue, nameless, zset, behind,
          opts, creator, pc, workerJob, workerState, workerItem, workerRun,
          batch, cached, blank, timers, requeue, hit, late, relisted>>

CreatorState == {"none", "numbered", "saved", "indexed", "timed", "resaved",
                 "handed", "done", "failed"}
WorkerState  == {"idle", "popped", "fetched", "claimed", "running",
                 "stated", "saved", "resaved"}

-----------------------------------------------------------------------------
(***************************************************************************)
(* Operations of JobItem on redis.                                         *)
(***************************************************************************)

\* save: hmset of the record. The hash exists afterwards, whatever was there.
\* getPublicJSON falls back on the id alone when JSON.stringify throws, be it on
\* the data of the job or on the error of one of its runs.
SaveItem(j, state, item) ==
    /\ jobState' = [jobState EXCEPT ![j] = state]
    /\ \E saved \in IF Circular THEN {item, IdOnly} ELSE {item} :
          itemData' = [itemData EXCEPT ![j] = saved]

\* A mistake in SetState: the id stays in the set of the old state.
SetStateNoRemoval(j, old, new) ==
    /\ jobState' = [jobState EXCEPT ![j] = new]
    /\ stateSet' = [stateSet EXCEPT ![new] = @ \union {j}]

\* setState: hset of the field and move between the state sets. When smove
\* moves nothing, the reply's handler adds the id to the new set: either way
\* the id ends in the new set only.
SetState(j, old, new) ==
    /\ jobState' = [jobState EXCEPT ![j] = new]
    /\ stateSet' = [stateSet EXCEPT ![old] = @ \ {j}, ![new] = @ \union {j}]

\* A mistake in DeleteItem: the time index is forgotten.
DeleteItemNoTimeIndex(j, state) ==
    /\ jobState' = [jobState EXCEPT ![j] = "none"]
    /\ itemData' = [itemData EXCEPT ![j] = NoItem]
    /\ stateSet' = [stateSet EXCEPT ![state] = @ \ {j}]
    /\ UNCHANGED timeIndex

\* delete: one multi that removes the hash, the time index entry and the
\* entry in the set of the state the caller knows.
DeleteItem(j, state) ==
    /\ jobState' = [jobState EXCEPT ![j] = "none"]
    /\ itemData' = [itemData EXCEPT ![j] = NoItem]
    /\ stateSet' = [stateSet EXCEPT ![state] = @ \ {j}]
    /\ timeIndex' = timeIndex \ {j}

-----------------------------------------------------------------------------
(***************************************************************************)
(* Creating a job: INCR, save, createState, createTimeIndex, then          *)
(* QueueModel.save by state, then _saveTimeIndex.                          *)
(***************************************************************************)

\* Create and JobModel.create: options and state are settled, INCR issued.
Create(j) ==
    /\ creator[j] = "none"
    /\ \E o \in JobOptions : opts' = [opts EXCEPT ![j] = o]
    /\ creator' = [creator EXCEPT ![j] = "numbered"]
    /\ UNCHANGED <<records, places, workerVars, schedVars, history>>

CreateRecord(j) ==
    /\ creator[j] = "numbered"
    /\ SaveItem(j, InitialState(opts[j]), NewItem)
    /\ creator' = [creator EXCEPT ![j] = "saved"]
    /\ UNCHANGED <<stateSet, places, opts, workerVars, schedVars, history>>

CreateState(j) ==
    /\ creator[j] = "saved"
    /\ stateSet' = [stateSet EXCEPT ![InitialState(opts[j])] = @ \union {j}]
    /\ creator' = [creator EXCEPT ![j] = "indexed"]
    /\ UNCHANGED <<jobState, itemData, places, opts, workerVars, schedVars, history>>

CreateTimeIndex(j) ==
    /\ creator[j] = "indexed"
    /\ timeIndex' = timeIndex \union {j}
    /\ creator' = [creator EXCEPT ![j] = "timed"]
    /\ UNCHANGED <<records, queue, nameless, zset, behind, opts, workerVars, schedVars,
                   history>>

\* _saveQueue of a new job: rpush. From here on workers may have the job.
QueueNewJob(j) ==
    /\ creator[j] = "timed"
    /\ InitialState(opts[j]) = "new"
    /\ queue' = Append(queue, j)
    /\ creator' = [creator EXCEPT ![j] = "handed"]
    /\ UNCHANGED <<records, timeIndex, nameless, zset, behind, opts, workerVars, schedVars,
                   history>>

\* _saveQueue of a delayed job: _scheduleRedis saves the record once more ...
ResaveDelayedJob(j) ==
    /\ creator[j] = "timed"
    /\ InitialState(opts[j]) = "delayed"
    /\ SaveItem(j, "delayed", NewItem)
    /\ creator' = [creator EXCEPT ![j] = "resaved"]
    /\ UNCHANGED <<stateSet, places, opts, workerVars, schedVars, history>>

\* ... and, whether or not that save succeeded, adds it to the sorted set.
ScheduleDelayedJob(j) ==
    /\ creator[j] = "resaved"
    /\ zset' = [zset EXCEPT !["scheduled"] = @ \union {j}]
    /\ creator' = [creator EXCEPT ![j] = "handed"]
    /\ UNCHANGED <<records, timeIndex, queue, nameless, behind, opts, workerVars, schedVars,
                   history>>

\* _saveTimeIndex: the time index once more, after the job was handed over.
SaveTimeIndex(j) ==
    /\ creator[j] = "handed"
    /\ timeIndex' = timeIndex \union {j}
    /\ relisted' = IF itemData[j] = NoItem THEN relisted \union {j} ELSE relisted
    /\ creator' = [creator EXCEPT ![j] = "done"]
    /\ UNCHANGED <<records, queue, nameless, zset, behind, opts, workerVars, schedVars,
                   hit, late>>

\* The creator holds the job: its record exists and nobody else knows its id.
CreatorHolds(j) == creator[j] \in {"saved", "indexed", "timed", "resaved"}

\* A command of the creator fails, which rejects the promise of create, or
\* its process crashes.
CreatorAborts(j) ==
    /\ creator[j] \notin {"none", "done", "failed"}
    /\ creator' = [creator EXCEPT ![j] = "failed"]
    /\ hit' = IF CreatorHolds(j) THEN hit \union {j} ELSE hit
    /\ UNCHANGED <<records, places, opts, workerVars, schedVars, late, relisted>>

-----------------------------------------------------------------------------
(***************************************************************************)
(* A worker: blocking pop, fetch of the record, setState("processing"),    *)
(* the consumer, then setState, save and scheduling of the outcome.        *)
(***************************************************************************)

\* A mistake in Pop: the id is read and stays in the queue.
PopNoRemoval(w) ==
    /\ pc[w] = "idle"
    /\ queue # <<>>
    /\ workerJob' = [workerJob EXCEPT ![w] = Head(queue)]
    /\ pc' = [pc EXCEPT ![w] = "popped"]
    /\ UNCHANGED <<records, places, creatorVars, workerState, workerItem, workerRun,
                   schedVars, history>>

\* startWorker, PopModel.fetch: blpop removes the id from the queue.
Pop(w) ==
    /\ pc[w] = "idle"
    /\ queue # <<>>
    /\ workerJob' = [workerJob EXCEPT ![w] = Head(queue)]
    /\ queue' = Tail(queue)
    /\ pc' = [pc EXCEPT ![w] = "popped"]
    /\ UNCHANGED <<records, timeIndex, nameless, zset, behind, creatorVars, workerState,
                   workerItem, workerRun, schedVars, history>>

\* JobModel.fetch: the record is read, its state field trumps itemData.
Fetch(w) ==
    LET j == workerJob[w] IN
    /\ pc[w] = "popped"
    /\ itemData[j] # NoItem
    /\ workerItem' = [workerItem EXCEPT ![w] = itemData[j]]
    /\ workerState' = [workerState EXCEPT ![w] = jobState[j]]
    /\ pc' = [pc EXCEPT ![w] = "fetched"]
    /\ UNCHANGED <<records, places, creatorVars, workerJob, workerRun, schedVars, history>>

\* A mistake in SetProcessing: the job item keeps the state it was fetched with.
SetProcessingForgotten(w) ==
    /\ pc[w] = "fetched"
    /\ SetState(workerJob[w], workerState[w], "processing")
    /\ pc' = [pc EXCEPT ![w] = "claimed"]
    /\ UNCHANGED <<itemData, places, creatorVars, workerJob, workerState, workerItem,
                   workerRun, schedVars, history>>

\* PopModel._onJobItemFetch.
SetProcessing(w) ==
    /\ pc[w] = "fetched"
    /\ SetState(workerJob[w], workerState[w], "processing")
    /\ workerState' = [workerState EXCEPT ![w] = "processing"]
    /\ pc' = [pc EXCEPT ![w] = "claimed"]
    /\ UNCHANGED <<itemData, places, creatorVars, workerJob, workerItem, workerRun,
                   schedVars, history>>

\* _workStart: a process item, its timeout and the call of the consumer.
WorkStart(w) ==
    /\ pc[w] = "claimed"
    /\ workerRun' = [workerRun EXCEPT ![w] = "processing"]
    /\ pc' = [pc EXCEPT ![w] = "running"]
    /\ UNCHANGED <<records, places, creatorVars, workerJob, workerState, workerItem,
                   schedVars, history>>

\* The consumer answers (callback, exception or promise) or processTimeout
\* fires first: _saveWorker adds the run, JobModel.processed decides the next
\* state and issues setState.
Processed(w, report) ==
    LET j     == workerJob[w]
        item  == AddRun(workerItem[w], report)
        state == NextState(OptionsIn(workerItem[w], opts[j]), item, report)
    IN
    /\ pc[w] = "running"
    /\ workerRun' = [workerRun EXCEPT ![w] = RunState(report)]
    /\ workerItem' = [workerItem EXCEPT ![w] = Finish(item, state)]
    /\ SetState(j, workerState[w], state)
    /\ workerState' = [workerState EXCEPT ![w] = state]
    /\ pc' = [pc EXCEPT ![w] = "stated"]
    /\ UNCHANGED <<itemData, places, creatorVars, workerJob, schedVars, history>>

\* A mistake in LateAnswer: an answer that came in time is taken for a late one.
LateAnswerAnyRun(w) ==
    LET j == workerJob[w] IN
    /\ pc[w] \in {"stated", "saved"}
    /\ late[j] < MaxLate
    /\ \E run \in {"success", "fail"} :
          workerRun' = [workerRun EXCEPT ![w] = run]
    /\ workerItem' = [workerItem EXCEPT ![w] = OverwriteGhost(@)]
    /\ late' = [late EXCEPT ![j] = @ + 1]
    /\ UNCHANGED <<records, places, creatorVars, pc, workerJob, workerState,
                   schedVars, hit, relisted>>

\* The consumer answers after its timeout, while the outcome is being saved:
\* processCount still matches, so the state of the process item, which the
\* record already lists, is overwritten; _saveWorker then returns early
\* because savingJobItem is set.
LateAnswer(w) ==
    LET j == workerJob[w] IN
    /\ pc[w] \in {"stated", "saved"}
    /\ workerRun[w] = "ghost"
    /\ late[j] < MaxLate
    /\ \E run \in {"success", "fail"} :
          workerRun' = [workerRun EXCEPT ![w] = run]
    /\ workerItem' = [workerItem EXCEPT ![w] = OverwriteGhost(@)]
    /\ late' = [late EXCEPT ![j] = @ + 1]
    /\ UNCHANGED <<records, places, creatorVars, pc, workerJob, workerState,
                   schedVars, hit, relisted>>

\* processed: the reply of setState, save.
SaveProcessed(w) ==
    /\ pc[w] = "stated"
    /\ SaveItem(workerJob[w], workerState[w], workerItem[w])
    /\ pc' = [pc EXCEPT ![w] = "saved"]
    /\ UNCHANGED <<stateSet, places, creatorVars, workerJob, workerState, workerItem,
                   workerRun, schedVars, history>>

\* A mistake in Resave: then() for finally(), so that a failed save goes back to
\* startWorker without the zadd.
ResaveThen(w) ==
    /\ pc[w] = "saved"
    /\ \/ /\ SaveItem(workerJob[w], workerState[w], workerItem[w])
          /\ pc' = [pc EXCEPT ![w] = "resaved"]
          /\ UNCHANGED <<workerJob, workerState, workerItem, workerRun>>
       \/ /\ pc' = [pc EXCEPT ![w] = "idle"]
          /\ workerJob' = [workerJob EXCEPT ![w] = NoJob]
          /\ workerState' = [workerState EXCEPT ![w] = "none"]
          /\ workerItem' = [workerItem EXCEPT ![w] = NoItem]
          /\ workerRun' = [workerRun EXCEPT ![w] = "none"]
          /\ UNCHANGED <<jobState, itemData>>
    /\ UNCHANGED <<stateSet, places, creatorVars, schedVars, history>>

\* QueueModel.save, _scheduleRedis: the record is saved with scheduledFor.
\* If this save fails, finally() goes on to the zadd all the same.
Resave(w) ==
    /\ pc[w] = "saved"
    /\ \/ SaveItem(workerJob[w], workerState[w], workerItem[w])
       \/ UNCHANGED <<jobState, itemData>>
    /\ pc' = [pc EXCEPT ![w] = "resaved"]
    /\ UNCHANGED <<stateSet, places, creatorVars, workerJob, workerState, workerItem,
                   workerRun, schedVars, history>>

\* The worker forgets its job; its reply handler calls startWorker.
Release(w) ==
    /\ pc' = [pc EXCEPT ![w] = "idle"]
    /\ workerJob' = [workerJob EXCEPT ![w] = NoJob]
    /\ workerState' = [workerState EXCEPT ![w] = "none"]
    /\ workerItem' = [workerItem EXCEPT ![w] = NoItem]
    /\ workerRun' = [workerRun EXCEPT ![w] = "none"]

\* The zadd: "scheduled" for another run, "scheduled-purge" at the end.
Schedule(w) ==
    LET q == IF workerState[w] \in FinalState THEN "scheduled-purge" ELSE "scheduled" IN
    /\ pc[w] = "resaved"
    /\ zset' = [zset EXCEPT ![q] = @ \union {workerJob[w]}]
    /\ Release(w)
    /\ UNCHANGED <<records, timeIndex, queue, nameless, behind, creatorVars, schedVars,
                   history>>

\* A mistake in WorkerAborts: the job is pushed back as it is.
WorkerAbortsPushBack(w) ==
    /\ pc[w] # "idle"
    /\ queue' = Append(queue, workerJob[w])
    /\ hit' = hit \union {workerJob[w]}
    /\ Release(w)
    /\ UNCHANGED <<records, timeIndex, nameless, zset, behind, creatorVars, schedVars,
                   late, relisted>>

\* A command of the worker fails, which rejects the promise and sends the
\* worker back to startWorker; its process crashes and is started again; or a
\* second startWorker, after a reconnect, makes it drop the job it runs.
WorkerAborts(w) ==
    /\ pc[w] # "idle"
    /\ hit' = hit \union {workerJob[w]}
    /\ Release(w)
    /\ UNCHANGED <<records, places, creatorVars, schedVars, late, relisted>>

-----------------------------------------------------------------------------
(***************************************************************************)
(* A scheduler: pops what is due from both sorted sets, fetches the        *)
(* records of each batch, waits for the due date of each job in RAM, then  *)
(* sets it to "queued" and pushes it, or deletes it.                       *)
(***************************************************************************)

\* _ping, _zpop: pops the entries in its time window, here any of them. The
\* next ping comes after both batches have been fetched (finally(_pong)).
Ping(s, due) ==
    /\ \A q \in Zsets : batch[s][q] = {}
    /\ zset' = [q \in Zsets |-> zset[q] \ due[q]]
    /\ behind' = behind \ UNION {due[q] : q \in Zsets}
    /\ batch' = [batch EXCEPT ![s] = due]
    /\ UNCHANGED <<records, timeIndex, queue, nameless, creatorVars, workerVars, cached,
                   blank, timers, requeue, history>>

\* The batches a ping may pop.
DueBatches == {due \in [Zsets -> SUBSET Jobs] :
                  /\ \A q \in Zsets : due[q] \subseteq zset[q]
                  /\ \E q \in Zsets : due[q] # {}}

\* _onZpopResponse: one fetch per popped id. A record that is but an id makes a
\* job item without a name.
FetchScheduled(s, q, j) ==
    /\ j \in batch[s][q]
    /\ cached[s][j] = "none"
    /\ itemData[j] # NoItem
    /\ cached' = [cached EXCEPT ![s][j] = jobState[j]]
    /\ blank' = IF itemData[j].named THEN blank ELSE [blank EXCEPT ![s] = @ \union {j}]
    /\ UNCHANGED <<records, places, creatorVars, workerVars, batch, timers, requeue, history>>

\* _lineupForQueue, for each job once all fetches of the batch are answered.
Lineup(s, q) ==
    /\ batch[s][q] # {}
    /\ \A j \in batch[s][q] : cached[s][j] # "none"
    /\ timers' = [timers EXCEPT ![s][q] = @ \union batch[s][q]]
    /\ batch' = [batch EXCEPT ![s][q] = {}]
    /\ UNCHANGED <<records, places, creatorVars, workerVars, cached, blank, requeue, history>>

\* A mistake in AddToProcessQueue: the job goes to the queue in its old state.
AddToProcessQueueAsIs(s, j) ==
    /\ j \in timers[s]["scheduled"]
    /\ timers' = [timers EXCEPT ![s]["scheduled"] = @ \ {j}]
    /\ cached' = [cached EXCEPT ![s][j] = "none"]
    /\ requeue' = [requeue EXCEPT ![s] = @ \union {j}]
    /\ UNCHANGED <<records, places, creatorVars, workerVars, batch, blank, history>>

\* _addToProcessQueue: the RAM timer fires, setState("queued") is issued.
AddToProcessQueue(s, j) ==
    /\ j \in timers[s]["scheduled"]
    /\ timers' = [timers EXCEPT ![s]["scheduled"] = @ \ {j}]
    /\ SetState(j, cached[s][j], "queued")
    /\ cached' = [cached EXCEPT ![s][j] = "none"]
    /\ requeue' = [requeue EXCEPT ![s] = @ \union {j}]
    /\ UNCHANGED <<itemData, places, creatorVars, workerVars, batch, blank, history>>

\* A mistake in Enqueue: QueueModel.save has no case for "queued".
EnqueueNoCase(s, j) ==
    /\ j \in requeue[s]
    /\ requeue' = [requeue EXCEPT ![s] = @ \ {j}]
    /\ blank' = [blank EXCEPT ![s] = @ \ {j}]
    /\ UNCHANGED <<records, places, creatorVars, workerVars, batch, cached, timers, history>>

\* The reply of setState: QueueModel.save of a queued job, rpush to the list of
\* the name its job item has.
Enqueue(s, j) ==
    /\ j \in requeue[s]
    /\ requeue' = [requeue EXCEPT ![s] = @ \ {j}]
    /\ blank' = [blank EXCEPT ![s] = @ \ {j}]
    /\ IF j \in blank[s]
       THEN nameless' = nameless \union {j} /\ UNCHANGED queue
       ELSE queue' = Append(queue, j) /\ UNCHANGED nameless
    /\ UNCHANGED <<records, timeIndex, zset, behind, creatorVars, workerVars, batch,
                   cached, timers, history>>

\* A mistake in PurgeJob: the option is read the wrong way round.
PurgeJobInverted(s, j) ==
    /\ j \in timers[s]["scheduled-purge"]
    /\ timers' = [timers EXCEPT ![s]["scheduled-purge"] = @ \ {j}]
    /\ cached' = [cached EXCEPT ![s][j] = "none"]
    /\ blank' = [blank EXCEPT ![s] = @ \ {j}]
    /\ IF ~PurgeJobs THEN DeleteItem(j, cached[s][j])
                     ELSE UNCHANGED <<records, timeIndex>>
    /\ UNCHANGED <<queue, nameless, zset, behind, creatorVars, workerVars, batch, requeue,
                   history>>

\* _purgeJob: the RAM timer fires, the job is deleted if purging is on.
PurgeJob(s, j) ==
    /\ j \in timers[s]["scheduled-purge"]
    /\ timers' = [timers EXCEPT ![s]["scheduled-purge"] = @ \ {j}]
    /\ cached' = [cached EXCEPT ![s][j] = "none"]
    /\ blank' = [blank EXCEPT ![s] = @ \ {j}]
    /\ IF PurgeJobs THEN DeleteItem(j, cached[s][j])
                    ELSE UNCHANGED <<records, timeIndex>>
    /\ UNCHANGED <<queue, nameless, zset, behind, creatorVars, workerVars, batch, requeue,
                   history>>

\* The jobs a scheduler holds in RAM.
SchedulerHolds(s) == batch[s]["scheduled"] \union batch[s]["scheduled-purge"]
                     \union timers[s]["scheduled"] \union timers[s]["scheduled-purge"]
                     \union requeue[s]

\* One fetch of a batch fails: the batch is dropped, all its jobs with it.
BatchFails(s, q) ==
    /\ batch[s][q] # {}
    /\ hit' = hit \union batch[s][q]
    /\ cached' = [cached EXCEPT ![s] =
                     [j \in Jobs |-> IF j \in batch[s][q] THEN "none" ELSE @[j]]]
    /\ blank' = [blank EXCEPT ![s] = @ \ batch[s][q]]
    /\ batch' = [batch EXCEPT ![s][q] = {}]
    /\ UNCHANGED <<records, places, creatorVars, workerVars, timers, requeue, late, relisted>>

\* setState, rpush or delete fails for one job; nothing handles the error.
TaskFails(s, j) ==
    /\ j \in timers[s]["scheduled"] \union timers[s]["scheduled-purge"] \union requeue[s]
    /\ hit' = hit \union {j}
    /\ timers' = [timers EXCEPT ![s] = [q \in Zsets |-> @[q] \ {j}]]
    /\ requeue' = [requeue EXCEPT ![s] = @ \ {j}]
    /\ cached' = [cached EXCEPT ![s][j] = "none"]
    /\ blank' = [blank EXCEPT ![s] = @ \ {j}]
    /\ UNCHANGED <<records, places, creatorVars, workerVars, batch, late, relisted>>

\* The process of a scheduler crashes; a new one starts with empty hands.
SchedulerCrashes(s) ==
    /\ SchedulerHolds(s) # {}
    /\ hit' = hit \union SchedulerHolds(s)
    /\ batch' = [batch EXCEPT ![s] = [q \in Zsets |-> {}]]
    /\ timers' = [timers EXCEPT ![s] = [q \in Zsets |-> {}]]
    /\ requeue' = [requeue EXCEPT ![s] = {}]
    /\ cached' = [cached EXCEPT ![s] = [j \in Jobs |-> "none"]]
    /\ blank' = [blank EXCEPT ![s] = {}]
    /\ UNCHANGED <<records, places, creatorVars, workerVars, late, relisted>>

\* Redis is down, or no scheduler runs, until the due date of an entry is longer
\* ago than a ping looks back: _zpop's range starts at now - schedulerLookAhead.
FallsBehind(j) ==
    /\ LongOutages
    /\ j \in UNION {zset[q] : q \in Zsets} \ behind
    /\ behind' = behind \union {j}
    /\ UNCHANGED <<records, timeIndex, queue, nameless, zset, creatorVars, workerVars,
                   schedVars, history>>

-----------------------------------------------------------------------------
Init ==
    /\ jobState = [j \in Jobs |-> "none"]
    /\ itemData = [j \in Jobs |-> NoItem]
    /\ stateSet = [s \in JobState |-> {}]
    /\ timeIndex = {}
    /\ queue = <<>>
    /\ nameless = {}
    /\ zset = [q \in Zsets |-> {}]
    /\ behind = {}
    /\ opts = [j \in Jobs |-> NoOptions]
    /\ creator = [j \in Jobs |-> "none"]
    /\ pc = [w \in Workers |-> "idle"]
    /\ workerJob = [w \in Workers |-> NoJob]
    /\ workerState = [w \in Workers |-> "none"]
    /\ workerItem = [w \in Workers |-> NoItem]
    /\ workerRun = [w \in Workers |-> "none"]
    /\ batch = [s \in Schedulers |-> [q \in Zsets |-> {}]]
    /\ cached = [s \in Schedulers |-> [j \in Jobs |-> "none"]]
    /\ blank = [s \in Schedulers |-> {}]
    /\ timers = [s \in Schedulers |-> [q \in Zsets |-> {}]]
    /\ requeue = [s \in Schedulers |-> {}]
    /\ hit = {}
    /\ late = [j \in Jobs |-> 0]
    /\ relisted = {}

CreatorStep(j) ==
    \/ CreateRecord(j)
    \/ CreateState(j)
    \/ CreateTimeIndex(j)
    \/ QueueNewJob(j)
    \/ ResaveDelayedJob(j)
    \/ ScheduleDelayedJob(j)
    \/ SaveTimeIndex(j)

WorkerStep(w) ==
    \/ Pop(w)
    \/ Fetch(w)
    \/ SetProcessing(w)
    \/ WorkStart(w)
    \/ \E report \in Report : Processed(w, report)
    \/ SaveProcessed(w)
    \/ Resave(w)
    \/ Schedule(w)

SchedulerStep(s) ==
    \/ \E due \in DueBatches : Ping(s, due)
    \/ \E q \in Zsets, j \in Jobs : FetchScheduled(s, q, j)
    \/ \E q \in Zsets : Lineup(s, q)
    \/ \E j \in Jobs : AddToProcessQueue(s, j)
    \/ \E j \in Jobs : Enqueue(s, j)
    \/ \E j \in Jobs : PurgeJob(s, j)

Fault ==
    \/ \E j \in Jobs : CreatorAborts(j)
    \/ \E w \in Workers : WorkerAborts(w)
    \/ \E s \in Schedulers, q \in Zsets : BatchFails(s, q)
    \/ \E s \in Schedulers, j \in Jobs : TaskFails(s, j)
    \/ \E s \in Schedulers : SchedulerCrashes(s)
    \/ \E j \in Jobs : FallsBehind(j)

Next ==
    \/ \E j \in Jobs : Create(j) \/ CreatorStep(j)
    \/ \E w \in Workers : WorkerStep(w) \/ LateAnswer(w)
    \/ \E s \in Schedulers : SchedulerStep(s)
    \/ Fault

Spec == Init /\ [][Next]_vars

-----------------------------------------------------------------------------
(***************************************************************************)
(* Fairness.  Node runs every callback that is due, so a process that has  *)
(* not crashed goes on; blpop serves the list as long as a worker waits;   *)
(* the timer of processTimeout fires unless a report cancels it, so a run  *)
(* ends.  The ping loop goes on, and pops an entry as long as that is in   *)
(* its window: SchedulerClock shows which pace keeps every due entry there *)
(* (OnTime), and that an outage longer than schedulerLookAhead leaves some *)
(* behind (NothingStranded), of which nothing is assumed: a ping may pop   *)
(* them, if the configuration widens the window, and need not.  Nothing is *)
(* assumed of Create, of an answer of the consumer, or of a fault.         *)
(***************************************************************************)
PingFor(s, j) ==
    /\ j \notin behind
    /\ \E due \in DueBatches : j \in UNION {due[q] : q \in Zsets} /\ Ping(s, due)

TimerFires(s, j) == AddToProcessQueue(s, j) \/ Enqueue(s, j) \/ PurgeJob(s, j)

WorkerMoves(w) ==
    \/ Pop(w)
    \/ Fetch(w)
    \/ SetProcessing(w)
    \/ WorkStart(w)
    \/ Processed(w, "timeout")
    \/ SaveProcessed(w)
    \/ Resave(w)
    \/ Schedule(w)

Fairness ==
    /\ \A j \in Jobs : WF_vars(CreatorStep(j))
    /\ \A w \in Workers : WF_vars(WorkerMoves(w))
    /\ \A s \in Schedulers, j \in Jobs :
          /\ WF_vars(PingFor(s, j))
          /\ WF_vars(\E q \in Zsets : FetchScheduled(s, q, j))
          /\ WF_vars(TimerFires(s, j))
    /\ \A s \in Schedulers, q \in Zsets : WF_vars(Lineup(s, q))

FairSpec == Spec /\ Fairness

-----------------------------------------------------------------------------
(***************************************************************************)
(* Where a job can be.                                                     *)
(***************************************************************************)
InQueue(j) == \E i \in 1 .. Len(queue) : queue[i] = j

\* A place is a kind, a sorted set where that matters, and who it belongs to.
Place == ({"creator", "queue", "nameless"} \X {"any"} \X {NoJob})
         \union ({"zset"} \X Zsets \X {NoJob})
         \union ({"worker"} \X {"any"} \X Workers)
         \union ({"batch", "timers"} \X Zsets \X Schedulers)
         \union ({"requeue"} \X {"any"} \X Schedulers)

\* Job j is at place p.
At(j, p) ==
    \/ p[1] = "creator" /\ CreatorHolds(j)
    \/ p[1] = "queue"   /\ InQueue(j)
    \/ p[1] = "nameless" /\ j \in nameless
    \/ p[1] = "zset"    /\ j \in zset[p[2]]
    \/ p[1] = "worker"  /\ workerJob[p[3]] = j
    \/ p[1] = "batch"   /\ j \in batch[p[3]][p[2]]
    \/ p[1] = "timers"  /\ j \in timers[p[3]][p[2]]
    \/ p[1] = "requeue" /\ j \in requeue[p[3]]

\* The states of the record of a job that is at place p.
StatesAt(p) ==
    CASE p[1] = "creator" -> {"new", "delayed"}
      [] p[1] = "queue"   -> ReadyState
      [] p[1] \in {"requeue", "nameless"} -> {"queued"}
      [] p[1] = "worker" /\ pc[p[3]] \in {"popped", "fetched"}  -> ReadyState
      [] p[1] = "worker" /\ pc[p[3]] \in {"claimed", "running"} -> {"processing"}
      [] p[1] = "worker" /\ pc[p[3]] \notin {"popped", "fetched", "claimed", "running"}
            -> FinalState \union {"retry", "ghost"}
      [] p[2] = "scheduled"       -> ScheduledState
      [] p[2] = "scheduled-purge" -> FinalState

Recorded(j) == itemData[j] # NoItem

-----------------------------------------------------------------------------
(***************************************************************************)
(* Properties.                                                             *)
(***************************************************************************)

TypeOK ==
    /\ jobState \in [Jobs -> JobState \union {"none"}]
    /\ itemData \in [Jobs -> JobItem \union {NoItem}]
    /\ stateSet \in [JobState -> SUBSET Jobs]
    /\ timeIndex \subseteq Jobs
    /\ queue \in Seq(Jobs)
    /\ nameless \subseteq Jobs
    /\ zset \in [Zsets -> SUBSET Jobs]
    /\ behind \subseteq Jobs
    /\ opts \in [Jobs -> JobOptions \union {NoOptions}]
    /\ creator \in [Jobs -> CreatorState]
    /\ pc \in [Workers -> WorkerState]
    /\ workerJob \in [Workers -> Jobs \union {NoJob}]
    /\ workerState \in [Workers -> JobState \union {"none"}]
    /\ workerItem \in [Workers -> JobItem \union {NoItem}]
    /\ workerRun \in [Workers -> ProcessState \union {"none"}]
    /\ batch \in [Schedulers -> [Zsets -> SUBSET Jobs]]
    /\ cached \in [Schedulers -> [Jobs -> JobState \union {"none"}]]
    /\ blank \in [Schedulers -> SUBSET Jobs]
    /\ timers \in [Schedulers -> [Zsets -> SUBSET Jobs]]
    /\ requeue \in [Schedulers -> SUBSET Jobs]
    /\ hit \subseteq Jobs
    /\ late \in [Jobs -> 0 .. MaxLate]
    /\ relisted \subseteq Jobs

\* A job is never in two places: not twice in the queue, not with two workers
\* or two schedulers, not queued while scheduled or about to be purged,
\* whatever crashes and however the processes interleave. The code keeps no
\* lock: blpop and the zpop multi hand each id to one taker, and every taker
\* must be through with an id before it passes it on.
OnePlace ==
    /\ \A j \in Jobs : \A p, r \in Place : At(j, p) /\ At(j, r) => p = r
    /\ \A i, k \in 1 .. Len(queue) : queue[i] = queue[k] => i = k

\* Wherever a job is, the record in redis is in a state that the code of that
\* place can deal with. In particular it exists: no worker or scheduler ever
\* fetches the record of a job that was purged (NoRecord).
PlaceMatchesState ==
    \A j \in Jobs : \A p \in Place : At(j, p) => jobState[j] \in StatesAt(p)

\* The state a worker or a scheduler remembers from its fetch is still the
\* state in redis when setState and delete use it to find the old state set.
NoStaleState ==
    /\ \A w \in Workers : pc[w] \notin {"idle", "popped"} =>
          workerState[w] = jobState[workerJob[w]]
    /\ \A s \in Schedulers, j \in Jobs : cached[s][j] # "none" =>
          cached[s][j] = jobState[j]

\* The sets kickq:state:* agree with the state field of the records: an id is
\* in the set of its state and in no other, a purged id in none. The exception
\* is a job whose creator saved it and did not get to createState.
IndexAgrees ==
    \A j \in Jobs, s \in JobState :
        /\ j \in stateSet[s] => jobState[j] = s
        /\ jobState[j] = s =>
              \/ j \in stateSet[s]
              \/ creator[j] = "saved"
              \/ creator[j] = "failed" /\ j \in hit /\ s = InitialState(opts[j])

\* The time index lists every record from createTimeIndex on, and delete takes
\* the id out of it: it is listed without a record only if the creator's second
\* zadd came after the purge, which happens to jobs that end very early.
TimeIndexAgrees ==
    \A j \in Jobs :
        /\ j \in timeIndex => Recorded(j) \/ j \in relisted
        /\ Recorded(j) => \/ j \in timeIndex
                          \/ creator[j] \in {"saved", "indexed"}
                          \/ creator[j] = "failed" /\ j \in hit

\* The flags complete and success inside itemData never contradict the state
\* field, and agree with it as soon as the worker has saved the record, unless
\* the record could not be serialized and was cut down to its id.
OutcomeAgrees ==
    \A j \in Jobs : Recorded(j) =>
        /\ itemData[j].outcome # "none" => jobState[j] = itemData[j].outcome
        /\ jobState[j] \in FinalState =>
              \/ itemData[j].outcome = jobState[j]
              \/ Circular /\ itemData[j] = IdOnly
              \/ j \in hit
              \/ \E w \in Workers : workerJob[w] = j /\ pc[w] = "stated"

\* A job does not run for ever: its record never lists more runs than its
\* options allow, plus one for each late answer that hid a timed out run. The
\* options are those in the record: one cut down to its id has the defaults.
RunsBounded ==
    \A j \in Jobs : Recorded(j) =>
        itemData[j].runs <= RunBudget(OptionsIn(itemData[j], opts[j])) + late[j]

\* A job that was recorded is always somewhere, unless a fault struck its
\* holder, or it is complete and purging is switched off. The price of a fault
\* is at most the jobs held in memory. To be somewhere is not yet to go on: an
\* entry that fell behind the pings, and a job in the list of the empty name,
\* are still in redis, where a person can find them. That the others go on is
\* EveryJobFinishes and FinishedJobIsPurged.
NothingLost ==
    \A j \in Jobs : Recorded(j) =>
        \/ \E p \in Place : At(j, p)
        \/ j \in hit
        \/ ~PurgeJobs /\ jobState[j] \in FinalState

\* The workers that run a job: from setState("processing") to the report.
RunnersOf(j) == {w \in Workers : workerJob[w] = j /\ pc[w] \in {"claimed", "running"}}

\* What clients see of the life of a job: JobContract, with the state field of
\* the record for its state.
Contract == INSTANCE JobContract WITH
    status <- jobState,
    runner <- [j \in Jobs |-> RunnersOf(j)],
    born   <- {j \in Jobs : creator[j] \notin {"none", "numbered"}}

\* Every behaviour of the system is one that JobContract allows: a job is run
\* by one worker at a time, is settled by that worker only, and once complete
\* or purged never comes back.
ImplementsContract == Contract!Spec

-----------------------------------------------------------------------------
(***************************************************************************)
(* What a comment says, and the code does not do.                          *)
(***************************************************************************)

\* ghostTimes is "How many times to retry a ghost job" (job.item.js:72): with
\* one run, the retries after errors and that many after timeouts, the record
\* lists at most RunBudget runs. A late answer hides a ghost run, which is
\* then not counted.
GhostTimesRespected ==
    \A j \in Jobs : Recorded(j) => itemData[j].runs <= RunBudget(opts[j])

\* retryTimes is "How many times to retry" (job.item.js:57): a job that fails
\* although it retries has had its first run and that many more, if all of them
\* ended in an error. The code counts the first run as one of them.
RetryTimesRespected ==
    \A j \in Jobs :
        /\ Recorded(j)
        /\ opts[j].retry
        /\ itemData[j].outcome = "fail"
        /\ itemData[j].ghosts = 0
        /\ late[j] = 0
        => itemData[j].runs >= 1 + opts[j].retryTimes

\* "Delete now removes all traces of job item" (README.md:98): once a job that
\* was handed over has no record, no index lists it. The creator's second zadd
\* may come after the delete.
NoTraceOfDeleted ==
    \A j \in Jobs :
        creator[j] \in {"handed", "done"} /\ ~Recorded(j) =>
            j \notin timeIndex /\ \A s \in JobState : j \notin stateSet[s]

-----------------------------------------------------------------------------
(***************************************************************************)
(* Liveness.                                                               *)
(***************************************************************************)

\* A job that was recorded gets a final state, unless a fault struck it, its
\* record was cut down to an id, which sends it to the list of the empty name,
\* or its due date fell behind the pings and is never popped.
EveryJobFinishes ==
    \A j \in Jobs : (creator[j] = "saved") ~>
        \/ jobState[j] \in FinalState
        \/ j \in hit \union nameless
        \/ [](j \in behind)

\* A job that is complete leaves redis, unless a fault struck it, or the date of
\* its purge fell behind the pings and is never popped.
FinishedJobIsPurged ==
    \A j \in Jobs : (jobState[j] \in FinalState) ~>
        \/ jobState[j] = "none"
        \/ j \in hit
        \/ [](j \in behind)
=============================================================================
