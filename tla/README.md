# kickq in TLA+

kickq is a job queue for node.js on top of one redis server. Jobs are created by
any process, run by workers in any process, retried, put off, and finally purged.
There is no lock and no transaction that spans two commands: that a job is run
by one worker at a time, that it is not lost, and that its indexes are right all
rest on the order in which each process issues its commands. This directory
holds models of that and of what happens inside a process (timers, callbacks,
subscriptions, lost connections), the model checking of small instances with
TLC, and proofs with TLAPS for every instance.

## The system

| Component | State it keeps | Operations | Interacts with |
|---|---|---|---|
| Create controller (`create.ctrl.js`) | the new job item, the callback | `save`, `_onSuccess`, `_onFail`, `dispose` | calls JobModel |
| Job model (`job.model.js`) | the job item | `create`, `fetch`, `processed`, `_processedError`, `_processedTimeout`, `_finishJob`, `_saveTimeIndex` | redis hash, time index; QueueModel |
| Job item (`job.item.js`) | options, state, runs, flags | `save`, `setState`, `createState`, `createTimeIndex`, `delete`, `addProcessItem` | redis hash, state sets, time index |
| Queue model (`queue.model.js`) | none | `save` by state: rpush, or save and zadd; `_publish` | queue list, sorted sets, channels; Hotjob |
| Pop model (`popjob.model.js`) | one blocking client | `fetch`: blpop, fetch, `setState("processing")`; `dispose` | queue list; called by Worker |
| Worker (`worker.ctrl.js`) | `state`, `jobItem`, `processItem`, `processCount`, `savingJobItem` | `startWorker`, `_workStart`, the four report handlers, `processTimeout`, `_saveWorker`, `dispose` | consumer callback, timers, Pop model, Job model |
| Worker manager (`worker-manager.ctrl.js`) | its workers, `waitingToConnect` | `start`, `_onRedisDisconnect`, `_startWorkers`, `dispose` | Worker, redis watcher |
| Redis watcher (`redis.ctrl.js`) | `connected` | `init`, `_handleConnect`, `_handleError` | the shared client; managers, Scheduler |
| Scheduler (`scheduler.model.js`) | RAM timers, `_pongTimeout`, its settings, `waitingToConnect` | `run`, `_ping`, `_pong`, `_zpop`, `_onZpopResponse`, `_lineupForQueue`, `_addToProcessQueue`, `_purgeJob`, `_onConfigChange`, `_noRedisConnection` | sorted sets; Job model, Queue model |
| Hotjob (`hotjob.model.js`) | a subscription, a timeout, a promise | `check`, `_onMessage`, `_complete` | channels of the outcome |
| Metrics (`metrics.ctrl.js`, `metrics.model.js`) | counts of listeners, a subscription | `on`, `once`, `removeListener`, `start`, `stop` | channels |
| Configuration (`config.js`) | global and per job options | `set`, `get`, `getJob`, `reset` | job item, Scheduler |
| Main (`kickq.main.js`) | the instances, `hasBooted` | `create`, `process`, `get`, `reset` | all of the above |

What is hard here, and what makes each part correct:

* **Interleaving.** Creators, workers and schedulers of several processes share
  the lists and sets of redis. An id must be in one place at a time.
* **Remembered state.** Workers and schedulers read a record and use what they
  read seconds later, for instance to leave the old state set.
* **Crashes and failed commands.** Popping destroys the entry before anything
  else is recorded; due jobs live in timers. A fault may cost the jobs that were
  held at that moment, and no other.
* **Timeouts against late answers.** The report of a consumer races its timeout,
  and answers of a run that is over must not count for the next one.
* **Numbers.** Two limits (`retryTimes`, `ghostTimes`), counted differently,
  bound the same runs. Delays are cut to 32 bits.
* **Liveness.** A rerun and a purge take a chain of five hand-overs each. The
  ping loop hangs on one timer or reply at a time.
* **Connection loss.** Workers and schedulers go to sleep by returning early and
  count on an event to wake them.
* **Records that cannot be serialised.** `getPublicJSON` then saves the id alone:
  name, options, runs and outcome are gone, and the job goes on.
* **Messages** are not kept for who subscribes too late.
* **`kickq.reset`** ends clients under timers and replies that are under way.

`PROJECT.json` lists each hazard at its line, with the properties that cover it.

## Modules

| Module | What it holds |
|---|---|
| `JobStates` | states, options, and the decision of `JobModel.processed` as pure operators |
| `JobLifecycle` | the jobs: every redis command that moves one, in every process |
| `JobContract` | the abstract specification of what clients see of a job |
| `RedisCtrl` | the connection and the watcher's flag, shared by the next two |
| `WorkerPool` | the workers of one process: every callback, timer and event |
| `SchedulerClock` | the scheduler of one process against a clock |
| `Channels`, `Hotjob`, `CreateJob` | messages; hotjobs; what creators report |
| `PubSub` | composition of the three with creators, workers and schedulers that publish |
| `Metrics` | listeners of `kickq.metrics` and the subscription |
| `MCJobLifecycle`, `MCWorkerPool`, `MCSchedulerClock`, `MCPubSub` | constants for TLC |
| `JobLifecycleTypes` | proof of the types of `JobLifecycle` |
| `JobLifecyclePlaces` | proofs of where a job is, and of what is remembered of it |
| `JobLifecycleRecords` | proofs about indexes, outcomes and numbers of runs, and that no job is lost |
| `JobLifecycleContract` | proof that `JobLifecycle` implements `JobContract` |
| `WorkerPoolProofs`, `SchedulerClockProofs`, `PubSubProofs`, `MetricsProofs` | proofs about the module each is named for |

The three views of a worker or scheduler fit together as follows. `JobLifecycle`
has no clocks, connections or callbacks of one process: it lets a worker or
scheduler drop what it holds at any time (`WorkerAborts`, `TaskFails`,
`BatchFails`), and lets any number of them run. `WorkerPool` and
`SchedulerClock` have no redis: they show which callbacks meet which state, and
hence when such a drop happens. `PubSub` keeps of a job only what its messages
depend on.

### JobLifecycle and the code

One action is one handler together with the redis command (or `multi`) it
issues. The process then waits for the reply, and its next action is the handler
of that reply. A process changes only its own memory between issue and reply, so
executing a command when it is issued loses no behaviour. A name such as
`pc[w] = "saved"` says what was issued last.

* **Redis**: `jobState` and `itemData` are the two fields of the hash,
  `stateSet` the sets `kickq:state:*`, `timeIndex`, `queue` and `zset` the other
  keys. `jobState[j] = "none"` and `itemData[j] = NoItem` mean there is no hash.
* **Creators**: `Create` (INCR issued), `CreateRecord`, `CreateState`,
  `CreateTimeIndex`, then `QueueNewJob`, or `ResaveDelayedJob` and
  `ScheduleDelayedJob`, then `SaveTimeIndex`. `CreatorAborts` is a failed
  command or a crash between any two.
* **Workers**: `Pop` (blpop), `Fetch`, `SetProcessing`, `WorkStart`,
  `Processed(w, report)` for an answer, an exception or a timeout,
  `SaveProcessed`, `Resave` (save with `scheduledFor`, which may fail without
  stopping the next step), `Schedule` (zadd, and back to `startWorker`).
  `LateAnswer` is the answer that comes while the timed out run is being saved.
  `WorkerAborts` is a failed command or a crash at any point.
* **Schedulers**: `Ping(s, due)` pops any part of both sorted sets,
  `FetchScheduled` reads one record, `Lineup` turns a batch into timers,
  `AddToProcessQueue` and `Enqueue`, or `PurgeJob`, run when a timer fires.
  `BatchFails`, `TaskFails` and `SchedulerCrashes` are the faults.
* `SaveItem` is `save`, with `getPublicJSON` before it: when `JSON.stringify`
  throws, on the data of the job or on the error of a run, what is saved is
  `IdOnly`. If `Circular`, that may happen at any save. Who fetches such a record
  gets a job item with the defaults of the constructor (`OptionsIn`) and the
  empty name; a scheduler then pushes the id to the list of that name
  (`nameless`), which no worker pops. `blank` are the job items of that kind a
  scheduler holds. A worker goes on with what it has in memory.
* `FallsBehind`: a ping looks back only `lookAhead`, so an entry that came due
  longer ago, while redis was down or no scheduler ran, is out of the window of
  every later ping (`behind`), unless the window is widened.
* `hit`, `late` and `relisted` are history: the jobs a fault struck, the number
  of late answers, and the jobs whose second zadd found no record any more. No
  guard reads `hit` or `relisted`; `late` only bounds the model.

A command that fails without having been executed is a fault before the action;
one that was executed but whose reply was lost is a fault after it.

Abstractions:

* Clocks. A due date is "some time later", a timer fires at any time after it is
  set, `Ping` may pop any of the scheduled ids. This allows more orders than
  real clocks do, so the safety results hold for any delays. An entry may fall
  behind at any time, and one that is behind may still be popped.
* A record is reduced to the number of runs, the number of ghost runs, the
  complete / success flags as one outcome, and whether it is more than its id:
  all that the code ever decides on.
* One queue. A worker with several names pops several lists with one blpop, and
  a job is only ever in the list of its own name.
* `setState` falls back to `sadd` when its `smove` moved nothing. The model ends
  with the id in the new set either way. `IndexAgrees` says that the id is in
  the old set whenever anybody calls `setState`, so the fallback is not needed.
* Both pops of `_ping` are one action. They touch different keys, and an entry
  popped by one is out of everyone's reach until the batch is lined up.

### RedisCtrl, WorkerPool and the code

One action is one callback that node runs to its end: a reply, a timer, an event
of the client, an answer of a consumer, or a call of `kickq.process` or
`kickq.reset`. `startWorker`, which other handlers call last, is the operator
`StartWorkers`. A job is known by the `processCount` of the fetch that got it.

* `up` is the truth about the connection, `connected` the flag of the watcher,
  which is late in both directions (`Drop`, `Disconnect`, `Reconnect`).
* `Process`, `Boot`, `Reset`: managers are never told of a reset and go on
  listening to the watcher, which is a singleton.
* `BlpopReply`, `PopFetchFail`, `WorkStart`, `WorkStartFails` are the fetch and
  its ends. A consumer may return a value whose `then` throws (`OddReturns`).
* `Answer(w, k, answer, optDone)`: the consumer called in fetch `k` answers,
  once, twice or never, early or late, with or without an `optDone`. What bluebird makes of `Promise.try(promise)` is
  left open, like everything else about consumers.
* `StaleTimeout`, `ProcessTimeout`, `RetryTimer`, and `Saved`: the end of a save
  unregisters the job (`Unregister`), calls `optDone`, then `startWorker`. A
  consumer that answers once more from within `optDone` meets no process item:
  the state of the worker changes (`DoneStates`), and the exception ends in the
  `try` around `cb()`.
* `settled`, `raised`, `downStart` are history.

### SchedulerClock and the code

The clock ticks (`Tick`), but never past a timer by more than `MaxLag`, nor past
an unanswered ping by more than that while redis is up. `pong` is the timer that
`_pongTimeout` refers to, `stale` says that the reference is to a timer that has
fired, `loose` holds pending timers without a reference, `pings` the pings
without a reply. A ping is the time and the `lookAhead` it was issued with:
`_zpop` computes its window before redis answers, whatever is configured
meanwhile. `PingWith` is `_ping`, `Pong` is `_pong`, `Window` and `Lineup`
compute with the same numbers as `_zpop` and `_lineupForQueue`. Both sorted sets
are popped alike, so there is one. `Schedule` and `SchedulePurge` both go through
`ScheduleRedis`, which puts `Fallback` (the 300000 ms) for a delay that is not a
number; only `Schedule` cuts the delay to 32 bits. `Word` stands for 2^32.

`PaceAssumption` states the proportions of the default configuration: interval,
fuzz and lag together stay within `lookAhead` (1000 + 300 against 1500 ms).
`halved` is history. When `lookAhead` is lowered to less than half between a ping
and its reply, `_lineupForQueue` takes due dates of what was popped for extreme,
and starts those jobs early: the model does this too, and `NeverEarly` excepts it.

`dispose` of the scheduler is not modelled: it stops nothing, and its
`removeListener` calls name functions that were never added.

### PubSub, Hotjob, CreateJob, Metrics and the code

A message goes to the clients redis has subscribed at that moment (`Deliver`)
and stays in `inbox` until it is handled. `Check` is called at the reply to the
push, `Subscribe` is redis executing the two subscriptions, and workers publish
at any time after the push. `job`, `runs`, `told` and `owed` are what messages
depend on; a job may be left in any state for ever. `OnSuccess` and `OnFail` are
the callback protocol of `create`, with callbacks that throw. `Reset` disposes
creators and ends clients, without telling hotjobs. JSON that does not parse is
left out: `getPublicJSON` always returns JSON.

`Metrics` counts the listeners of `metrics` (`ons`, `onces`, against `count`),
has both switches (`metricsOn`, `isOn`) and the client. `careless` is history:
some caller removed what was not there, or used `removeAllListeners`, which is
not overridden.

## What is checked

Deadlock is not checked where the system may really stop: the supply of jobs is
finite, a process may end, and the clock and counters are bounded. `Metrics`
never stops, and there it is checked.

| Run | Instance | Shows |
|---|---|---|
| `lifecycle` | a plain and a delayed job in any mix, 2 workers, 2 schedulers, crashes, failed commands, records that cannot be serialised | `OnePlace`, `PlaceMatchesState`, `IndexAgrees`, `TimeIndexAgrees`, `NoStaleState`, `NothingLost`; `ImplementsContract`: every behaviour is one of `JobContract` |
| `lifecycle_reruns` | 1 job, all 96 combinations of retry and ghost options up to 3 and 2, 2 workers, 2 schedulers, a late answer, the same faults, long outages | `RunsBounded`, `OutcomeAgrees`, `EveryJobFinishes`, `FinishedJobIsPurged` |
| `worker` | 2 calls of `process`, 1 worker, 3 fetches, odd returns, answers from `optDone` | `OneOutcomePerJob`, `SleeperIsAwaited`, `DisposedIsQuiet`, `LateAnswerIsHarmless`, `ReachesNextFetch` |
| `scheduler_clock` | 1 job, a negative delay and one that fits, a purge timeout beyond the word and one that is no number, 2 intervals, 2 lookAheads, 1 drop, 2 changes, 10 ticks | `LoopLives`, `OneLoop`, `OnTime`, `NeverEarly` |
| `pubsub` | 1 job of this process, 1 foreign job of the same name, 2 runs | `VerdictIsTrue`, `HotjobCleansUp`, `CreateComesFirst`, `ReportsAreReliable`, `HotjobSettles` |
| `metrics` | up to 2 listeners of each kind | `SwitchesAgree`, `OnWhileListening` |

Each run but the first also checks the type invariant of its module.

Six runs show where the code departs from its own comments and documents:

* `ghost_times`: an answer that comes while the timeout of its run is being
  saved rewrites the run, `_processedTimeout` no longer counts it, and the job
  gets more runs than `ghostTimes` allows. `RunsBounded` states how many more:
  one per late answer.
* `retry_times`: `retryTimes` is "How many times to retry" in its comment, and is
  compared with the number of all runs so far: a job with `retryTimes` 2 is
  retried once. `RunsBounded` takes both comments at their word.
* `deleted_traces`: "Delete now removes all traces", and the second zadd of the
  creator may come after the delete. `TimeIndexAgrees` shows that this is the
  only way an id without a record gets into the time index or stays there.
* `double_invocation`: `startWorker` guards only `POP_WAIT`. After an outage
  during a run the worker fetches another job; `OneOutcomePerJob` shows that the
  outcome of the first is dropped rather than given to the second.
* `process_while_down`: the workers of a `process` call made while the watcher
  says "disconnected" are not woken by the reconnect. `SleeperIsAwaited` shows
  that this is the only case.
* `stranded`: entries that fell due more than `lookAhead` before the reconnect
  stay in the sorted set. `OnTime` shows that nothing is stranded, or late, while
  the connection holds.

Two more departures are part of the models without a run of their own. The
"minimum viable object" of `job.item.js:278` has no name, so its job ends in the
list of the empty name; `EveryJobFinishes` excepts those jobs, and shows that
nothing else gets stuck. And after `kickq.reset`, which `kickq.main.js:137` says
disposes all subscriptions, the switches of metrics still say that a
subscription is on, whose client was ended: a new listener hears nothing.
`SwitchesAgree` shows that only a reset brings this about.

**Bounds.**

* *lifecycle*: two jobs are enough for an id to be confused with another and for
  the queue to have an order; two workers, or two schedulers, for a competition.
  Each action involves one job and one process, and the proofs cover any number.
  Runs per job are bounded by the options, which is what `RunsBounded` says.
  The jobs, the workers and the schedulers of `lifecycle` are symmetric, which is
  sound there because it checks invariants and action properties only.
  Long outages only matter to what must happen, and not to these properties: an
  entry that falls behind is still in the sorted set.
  `MaxLate` bounds the late answers (0 where they do not matter, 1 elsewhere).
  One job is enough where the property is about its options alone, as in
  `lifecycle_reruns`, or where one counterexample is wanted. For the liveness
  properties it makes all hand-overs, in any mix of delays, retries and ghosts,
  and two workers and two schedulers may take it at each. Jobs only wait for each
  other in the queue, which is first in first out, and in a batch, whose reads
  always find a record (`PlaceMatchesState`).
* *worker*: `MaxCount` 3 lets an answer or timer of the first fetch meet the
  second and the third. Workers of one process share nothing but the watcher,
  so one is enough; the second manager (without workers) is for a `process`
  after a reset.
* *scheduler_clock*: an interval of 1 and 2 ticks, a window of 6 to both sides
  and lag 1 are the default proportions; the other window, 13, is more than twice
  as large, and the purge timeout is so long that it is extreme for the smaller
  one, and longer than `Word`. 10 ticks let an outage and both changes fall
  anywhere around the other due dates and let an entry leave the window. The
  delays are a short one and a negative one that wraps to another short one; the
  proofs cover all others, and more outages.
* *pubsub*: two runs give a retry between creation and end; two foreign messages
  can come before and after the job's own. Jobs meet only through `inbox`, where
  a foreign job and an own one are told apart alike.
* *metrics*: with two listeners of each kind the count can be above, at and
  below the number of listeners.

**Fairness.**

* `JobLifecycle!FairSpec`: weak fairness of the creator's steps, the worker's
  steps and the scheduler's fetches, timers and pushes: node runs a callback
  that is due, and redis answers. Of the outcomes of a run only the timeout is
  fair, since its timer is always set; answers of consumers are not assumed.
  Weak fairness of popping each given id that is not `behind` says that some
  ping pops an entry in its window: `OnTime` shows that every due entry is there
  while the connection holds, and `stranded` that an outage longer than
  `lookAhead` leaves some behind. Nothing is assumed of those, of faults, or of
  how a record is saved. So the liveness properties except jobs that a fault
  struck, entries that fall behind and are never popped, and, for finishing, jobs
  cut down to their id that ended in the list of the empty name.
* `WorkerPool!FairSpec`: timers that are due run, and a read of a record or the
  saving of an outcome succeeds or fails. Nothing is assumed of consumers, of the
  connection, or of a pop, since a queue may stay empty: `ReachesNextFetch`
  promises the next fetch, not the next job, and only if the connection is not
  down for ever.
* `PubSub!FairSpec`: only the timer of a hotjob is fair. Neither jobs nor
  messages are assumed to go on.

## What is proved

Every safety property and every action property of the passing runs is a theorem,
for every value of the constants that satisfies the named assumptions, and so is
the refinement of the contract. Each proof module has the same layout: the parts
of the inductive invariant with a comment each, one lemma per action or group of
actions, and the theorems at the end of their section. Each invariant was
model-checked on the instance of its run before it was proved.

### Jobs

Assumptions: options are option records, `PurgeJobs`, `Circular` and
`LongOutages` are Booleans, `MaxLate` is a number, the null values are not real
values. The sets of jobs, workers and schedulers are any sets.

* `TypeCorrect`: `Spec => [](TypeOK /\ WorkerShape)`. `TypeOK` alone is not
  inductive: that `SaveProcessed` writes a record needs `WorkerShape`, which says
  that a worker has a job, a record and a run exactly where its code has them,
  and that the ghost runs it may rewrite are there.
* `JobInOnePlace`, `PlaceFitsState`, `MemoryIsFresh`: `OnePlace`,
  `PlaceMatchesState` and `NoStaleState` are invariants. None is inductive by
  itself. Why a popped id is in no other place depends on nobody having pushed
  it twice; that nobody pushes it depends on who holds it; and that a record is
  not created anew under a holder depends on the creator being the only one who
  knows an id without a record. Their conjunction `PlaceInv`, with `FreshRecord`
  (what the creator knows of the record) and `CacheHeld` (a scheduler remembers
  the state of the jobs it holds and of no other), is inductive. The proof names
  the places, and shows that each step takes at most its own jobs to one new
  place (`PlacesStep`: each job is untouched, gone, or moved to one place where
  its state fits); the queue needs that `rpush` adds an id that is not in it and
  that `blpop` takes the only entry (`QueueAppend`, `QueueTail`).

The rest is proved relative to `PlaceInv`.

* `StateSetsAgree`, `TimeIndexIsRight`: `IndexAgrees` and `TimeIndexAgrees` are
  inductive together with `RecordExists` (a hash has both fields or neither).
  That `setState` removes the id from the right set is `NoStaleState`: it
  removes it from the set of the state it remembers. An id without a record is in
  the time index only if it is `relisted`, which the creator's last command sets
  when it finds no record, and nothing else does.
* `OutcomeIsConsistent`: `OutcomeAgrees` needs `OutcomeKept`, which says what
  outcome the worker's copy of the record has at each of its steps. A worker that
  is about to save is the only one that has the job (`OnePlace`), so nobody
  writes the record between its read and its save. A record cut down to its id
  has no outcome: it never contradicts the state, and is the one case, besides
  faults, in which a saved final state comes without an outcome.
* `RunsAreBounded`: the bound of `RunsBounded` is not inductive, since it says
  nothing of how many runs may still come. `RunsInv` says that a record whose
  state is not final has room for one more: every run so far was a ghost, or an
  error worth a retry, or a run that a late answer hid; and it says so of the
  copy a worker has as well. The options are those in the record: one that is cut
  down to its id starts again from no runs and the default options.
* `NoJobIsLost`: `NothingLost`. For each step and each job: if the step takes the
  job from its place it puts it in another, or strikes it, or completes it with
  purging off, or deletes its record. Rests on places as `JobLifecyclePlaces`
  names them, and on the queue giving up no other entry than its head. An entry behind the
  pings and an id in the list of the empty name count as somewhere: they are in
  redis, though nobody takes them. Which jobs go on is what the liveness
  properties say.
* `LifecycleImplementsContract`: `Spec => Contract!Spec`, the refinement that the
  run `lifecycle` checks. The state of the contract is the state field of the
  record, its runner is the set of workers that run the job. Initial states map
  to initial states; under `PlaceInv` each step maps to one action of the
  contract or to a stutter. The contract lets a job have one runner at a time,
  and lets a run start only in a ready state: this is where
  `OnePlace` and `PlaceMatchesState` come in.

### Workers

Assumptions: each worker has a manager, `MaxCount` is a positive number,
`OddReturns` is a Boolean.

* `PoolTypes`, `OutcomeIsUnique`, `NoWorkerSleepsForGood`: `TypeOK`,
  `OneOutcomePerJob` and `SleeperIsAwaited` follow from `PoolInv`. For the
  outcome, `RunsFit` relates the number of the current fetch to the runs with a
  pending timer, with a consumer that was called, and with a saved outcome: the
  job that a worker holds has no outcome yet unless it is being saved, and if
  the consumer of the current fetch was called, it is the one of that fetch.
  For the sleepers, `Wakes` says what is under way while a worker does nothing,
  and `ManagersWait` that every manager started before the connection was lost
  has registered for the next. The step that ends the process leaves
  the workers in any state, so both hold up to that.
* `DisposedStaysQuiet`, `LateAnswerThrowsOnlyWhileDownOrInOptDone`: the action properties
  `DisposedIsQuiet` and `LateAnswerIsHarmless`. The second needs the clause of
  `Wakes` that a worker keeps the job of its current fetch while the watcher says
  "connected"; what is left is the answer from within `optDone`, in the step that
  ends the save.

### Scheduler

Assumptions: delays are integers, purge timeouts are numbers not below zero or no
numbers at all, the settings, lags and bounds are natural
numbers, `None` is no integer; and `PaceAssumption`, explained above, for `JobsAreOnTime`
only.

* `ClockTypes`: `TypeOK`, for any delays; a delay modulo `Word` is a number.
* `TheLoopLives`, `ThereIsOneLoop`: `LoopLives` and `OneLoop` follow from
  `LoopInv`. It names the four places where the only loop can be (`AtTimer`,
  `AtLoose`, `AtPing`, `AtWait`), and adds that before a change of the interval
  during an outage `_pongTimeout` refers to a dead timer only while the scheduler
  waits for "connect": otherwise `_onConfigChange` would take it for the timer
  of the loop, and add one.
* `NoJobIsEarly`: `NeverEarly`, for any settings. `EarlyInv` says that due dates
  and timers are not before the end of the delay. `PingsFit` adds that no ping
  under way looks further ahead than twice the `lookAhead` of now (unless
  `halved`), and with it `LineupDue` that the arithmetic of `_lineupForQueue` does
  not go below the due date of anything a ping can have popped.
* `JobsAreOnTime`: `OnTime`. `OnTimeInv` says of each place where the loop may be
  that the next ping comes before any due date is out of its reach:
  `PongTimely` leaves room for a change of the interval that replaces the timer
  by one `Restart` later, `LooseTimely` and `PingTimely` have less left, and
  `RamTimely` bounds the timers of what was popped.

### Messages and metrics

Assumptions: `Others` and `Jobs` are disjoint, `MaxRuns` is positive,
`MaxForeign` and `MaxListeners` are numbers. `MaxListeners` also bounds the count,
which grows without limit in the code when listeners are added and removed with
`removeAllListeners`; nothing is claimed of that bound.

* `PubSubTypes`: `TypeOK` of `PubSub`, which needs that a job whose end was not
  saved has a run left.
* `HotjobLeavesNothing`: `HotjobCleansUp` is an invariant, together with the
  types of its verdict, timer and client. `_complete` is reached from a message
  and from the timeout; the three have to stay together through each of them,
  late messages and `reset` included.
* `CreateIsFirst`: `CreateComesFirst` is an invariant. It needs `HeardOf`: what
  redis does not know of, nobody but its creator has spoken of or will, and a
  job redis knows of was announced by its creator, unless it is delayed.
* `VerdictsAreTrue`: `VerdictIsTrue`. `MessagesAreTrue` says that each message
  under way to a hotjob that is about its job is about an outcome and true;
  `FactsStay`, that what made it true is never taken back, so that it does not
  matter when it is handled.
* `ReportsCanBeReliedOn`: the action property `ReportsAreReliable`, from
  `CreatorKnows`: a creator at its last command has put its job into redis, and
  has set up the hotjob.
* `MetricsTypes`, `MetricsSwitchesAgree`, `MetricsOnWhileListening`. The second is
  inductive with the types; the third follows from `CountIsRight`, that the
  count is the number of registered listeners as long as no caller was careless,
  together with the second. That invariant rests on the hook being there, and on
  the removals of `once` being counted when an event fires.

### Only model-checked

The liveness properties: `EveryJobFinishes`, `FinishedJobIsPurged`,
`ReachesNextFetch` and `HotjobSettles`. They need fairness and ENABLED, which
are out of the prover's reach. The six properties that the code violates are of
course not proved. That `NothingLost` holds with purging off is proved, and not
checked by a run.

Each property was also checked to fail on a mistaken variant of the code. The
variants stand before the operator they replace, under the comment "A mistake in".

## Not modelled

* The layers of options (`config.js`, `JobItem.initialize`): a lookup. Every
  module takes the resulting options from a constant set.
* Parsing of arguments, `kickq.get` (it only reads), `kickq.delete` (an empty
  function), the creation of clients.
* `Scheduler.dispose`, see above; the old scheduler is one more scheduler.
* What bluebird does with `Promise.try(promise)`, and what the redis library does
  with a command issued on a client that was ended.
* Logging, file output, error classes, class plumbing: no protocol.

## Plan

1. The safety half of the liveness properties as action properties and theorems:
   which step of a job can only be followed by which.
2. A statement that relates `SchedulerClock` and `WorkerPool` to the steps of
   `JobLifecycle` by refinement instead of by the argument given under Modules.

## Running

    tlc -config lifecycle.cfg MCJobLifecycle.tla
    tlapm JobLifecycleRecords.tla
