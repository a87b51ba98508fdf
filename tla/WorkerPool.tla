------------------------------ MODULE WorkerPool ------------------------------
(***************************************************************************)
(* The workers of one node process: Worker (control/worker.ctrl.js), the   *)
(* WorkerManagers that own them, PopModel, kickq.process and kickq.reset,  *)
(* and the redis watcher that puts workers to sleep and wakes them.        *)
(*                                                                         *)
(* JobLifecycle follows the jobs through redis and lets a worker drop its  *)
(* job at any time. This module follows the callbacks of one process, and  *)
(* shows when that happens: which timers, replies and answers of consumers *)
(* meet which state of the worker.                                         *)
(*                                                                         *)
(* One action is one callback that node runs to its end. A job is known by *)
(* the number of the fetch (processCount) that got it.                     *)
(***************************************************************************)
EXTENDS RedisCtrl, Naturals, Sequences

CONSTANTS
    Managers,   \* the calls of kickq.process, each makes a WorkerManager
    Workers,    \* the Worker instances
    ManagerOf,  \* the manager of each worker (concurrentJobs workers each)
    OddReturns, \* may a consumer return a value whose property "then" throws?
    MaxCount    \* bound: fetches per worker that the model follows

ASSUME ManagerAssumption == ManagerOf \in [Workers -> Managers]
ASSUME CountAssumption == MaxCount \in Nat \ {0}
ASSUME ReturnAssumption == OddReturns \in BOOLEAN

Counts == 1 .. MaxCount

VARIABLES
    \* -- kickq.main and the managers --
    booted,    \* hasBooted: the watcher listens to the client
    started,   \* managers that listen to the watcher
    waiting,   \* managers with waitingToConnect, and a listener for "connect"
    \* -- each worker --
    state,     \* Worker.state, "none" before the worker exists
    count,     \* processCount
    item,      \* jobItem and processItem: the number of the job, 0 for null
    run,       \* processItem.state
    saving,    \* the job being saved while savingJobItem, 0 when not
    done,      \* whether that save was asked for with an optDone
    fetching,  \* popModel.fetch: "no", "blpop" issued, "item" being read
    disposed,  \* _disposed
    timers,    \* runs whose processTimeout timer is pending
    retries,   \* pending timers that call startWorker
    called,    \* runs whose consumer was called: it may answer at any time
    \* -- the process --
    crashed,   \* an exception nobody catches has ended the process
    \* -- history --
    settled,   \* per job, the runs whose report was saved as its outcome
    raised,    \* runs whose late answer met a processItem that is null
    downStart  \* managers started while the watcher said "disconnected"

mainVars  == <<booted, started, waiting, downStart>>
asyncVars == <<saving, done, timers, retries, called>>
jobVars   == <<item, run, disposed>>
startVars == <<state, count, fetching>>
vars == <<up, connected, booted, started, waiting, state, count, item, run,
          saving, done, fetching, disposed, timers, retries, called, crashed,
          settled, raised, downStart>>

State == {"init", "pop_wait", "worker_run", "post_worker", "post_worker_error",
          "pop_error", "disposed"}

\* What a consumer can report: callback, exception or promise.
Answers == {"success", "error"}

PostState(answer) == IF answer = "success" THEN "post_worker" ELSE "post_worker_error"

\* ProcessItem.state after an answer.
RunState(answer) == IF answer = "success" THEN "success" ELSE "fail"

MyWorkers(M) == {w \in Workers : ManagerOf[w] \in M}

-----------------------------------------------------------------------------
(***************************************************************************)
(* startWorker, of every worker in W, when their states are st and the     *)
(* watcher says "on". It is called at the end of other handlers.           *)
(***************************************************************************)

StartWorkers(W, st, on) ==
    LET go == {w \in W : on /\ st[w] # "pop_wait"} IN
    /\ \A w \in go : count[w] < MaxCount
    /\ state' = [w \in Workers |-> IF w \in go THEN "pop_wait" ELSE st[w]]
    /\ count' = [w \in Workers |-> IF w \in go THEN count[w] + 1 ELSE count[w]]
    /\ fetching' = [w \in Workers |-> IF w \in go THEN "blpop" ELSE fetching[w]]

\* startWorker as a property of the instance: dispose made it a noop.
StartWorker(w, st) ==
    StartWorkers({w} \ {v \in Workers : disposed[v]}, st, connected)

-----------------------------------------------------------------------------
(***************************************************************************)
(* kickq.main: process and reset.                                          *)
(***************************************************************************)

\* bootKickq: on the first call the watcher begins to listen.
Boot ==
    /\ IF booted THEN UNCHANGED redisVars ELSE Watch
    /\ booted' = TRUE

\* process: a new manager creates and starts its workers.
Process(m) ==
    /\ m \notin started
    /\ Boot
    /\ started' = started \union {m}
    /\ StartWorkers(MyWorkers({m}),
                    [w \in Workers |-> IF ManagerOf[w] = m THEN "init" ELSE state[w]],
                    connected)
    /\ downStart' = IF connected THEN downStart ELSE downStart \union {m}
    /\ UNCHANGED <<waiting, jobVars, asyncVars, crashed, settled, raised>>

\* A mistake in Reset: the managers are forgotten, but go on listening.
ResetForgets ==
    /\ booted
    /\ booted' = FALSE
    /\ started' = {}
    /\ LET Gone(w) == ManagerOf[w] \in started /\ ~disposed[w] IN
       /\ disposed' = [w \in Workers |-> disposed[w] \/ Gone(w)]
       /\ state' = [w \in Workers |-> IF Gone(w) THEN "disposed" ELSE state[w]]
       /\ item' = [w \in Workers |-> IF Gone(w) THEN 0 ELSE item[w]]
       /\ run' = [w \in Workers |-> IF Gone(w) THEN "none" ELSE run[w]]
    /\ UNCHANGED <<redisVars, waiting, downStart, asyncVars, count, fetching,
                   crashed, settled, raised>>

\* reset: the workers since the last one are disposed. Timers and replies stay
\* under way, and the managers go on listening to the watcher, a singleton.
Reset ==
    /\ booted
    /\ booted' = FALSE
    /\ LET Gone(w) == ManagerOf[w] \in started /\ ~disposed[w] IN
       /\ disposed' = [w \in Workers |-> disposed[w] \/ Gone(w)]
       /\ state' = [w \in Workers |-> IF Gone(w) THEN "disposed" ELSE state[w]]
       /\ item' = [w \in Workers |-> IF Gone(w) THEN 0 ELSE item[w]]
       /\ run' = [w \in Workers |-> IF Gone(w) THEN "none" ELSE run[w]]
    /\ UNCHANGED <<redisVars, started, waiting, downStart, asyncVars, count,
                   fetching, crashed, settled, raised>>

-----------------------------------------------------------------------------
(***************************************************************************)
(* The connection.                                                         *)
(***************************************************************************)

Drop ==
    /\ ClientDrops
    /\ UNCHANGED <<mainVars, startVars, jobVars, asyncVars, crashed, settled, raised>>

\* _handleError, and _onRedisDisconnect of every manager that has started.
Disconnect ==
    /\ booted
    /\ HandleError
    /\ waiting' = started
    /\ UNCHANGED <<booted, started, downStart, startVars, jobVars, asyncVars,
                   crashed, settled, raised>>

\* _handleConnect, and onConnect of every manager that waits for it.
Reconnect ==
    /\ booted
    /\ HandleConnect
    /\ IF connected THEN UNCHANGED <<waiting, startVars>>
       ELSE /\ waiting' = {}
            /\ StartWorkers({w \in MyWorkers(waiting) : ~disposed[w]}, state, TRUE)
    /\ UNCHANGED <<booted, started, downStart, jobVars, asyncVars, crashed,
                   settled, raised>>

-----------------------------------------------------------------------------
(***************************************************************************)
(* Fetching a job.                                                         *)
(***************************************************************************)

\* _onResponse: the id is popped. A disposed model drops the reply.
BlpopReply(w) ==
    /\ fetching[w] = "blpop"
    /\ fetching' = [fetching EXCEPT ![w] = IF disposed[w] THEN "no" ELSE "item"]
    /\ UNCHANGED <<redisVars, mainVars, state, count, jobVars, asyncVars, crashed,
                   settled, raised>>

\* A mistake in PopFetchFail: nothing starts the worker again.
PopFetchFailNoRetry(w) ==
    /\ fetching[w] = "item" \/ (fetching[w] = "blpop" /\ ~disposed[w])
    /\ fetching' = [fetching EXCEPT ![w] = "no"]
    /\ state' = [state EXCEPT ![w] = "pop_error"]
    /\ UNCHANGED <<redisVars, mainVars, count, jobVars, asyncVars, crashed,
                   settled, raised>>

\* _onPopFetchFail: blpop, the read of the record or its setState failed. A
\* timer calls startWorker in a second; after dispose it would call a noop.
PopFetchFail(w) ==
    /\ fetching[w] = "item" \/ (fetching[w] = "blpop" /\ ~disposed[w])
    /\ fetching' = [fetching EXCEPT ![w] = "no"]
    /\ state' = [state EXCEPT ![w] = "pop_error"]
    /\ retries' = [retries EXCEPT ![w] = IF disposed[w] THEN @ ELSE @ + 1]
    /\ UNCHANGED <<redisVars, mainVars, count, jobVars, saving, done, timers, called,
                   crashed, settled, raised>>

\* A mistake in WorkStart: the check of _disposed is missing.
WorkStartUnchecked(w) ==
    /\ fetching[w] = "item"
    /\ fetching' = [fetching EXCEPT ![w] = "no"]
    /\ state' = [state EXCEPT ![w] = "worker_run"]
    /\ item' = [item EXCEPT ![w] = count[w]]
    /\ run' = [run EXCEPT ![w] = "processing"]
    /\ timers' = [timers EXCEPT ![w] = @ \union {count[w]}]
    /\ called' = [called EXCEPT ![w] = @ \union {count[w]}]
    /\ UNCHANGED <<redisVars, mainVars, count, disposed, saving, done, retries,
                   crashed, settled, raised>>

\* _workStart: the job becomes the job of the worker, its timer is set, and
\* the consumer is called. A disposed worker lets go of the job.
WorkStart(w) ==
    /\ fetching[w] = "item"
    /\ fetching' = [fetching EXCEPT ![w] = "no"]
    /\ IF disposed[w]
       THEN /\ state' = [state EXCEPT ![w] = "disposed"]
            /\ UNCHANGED <<item, run, timers, called>>
       ELSE /\ state' = [state EXCEPT ![w] = "worker_run"]
            /\ item' = [item EXCEPT ![w] = count[w]]
            /\ run' = [run EXCEPT ![w] = "processing"]
            /\ timers' = [timers EXCEPT ![w] = @ \union {count[w]}]
            /\ called' = [called EXCEPT ![w] = @ \union {count[w]}]
    /\ UNCHANGED <<redisVars, mainVars, count, disposed, saving, done, retries,
                   crashed, settled, raised>>

\* _workStart is rejected after the consumer was called, by what the consumer
\* returned. _onWorkerFail then calls _workFinish, which does not exist: the
\* TypeError ends up in _onPopFetchFail, which calls startWorker in a second.
WorkStartFails(w) ==
    /\ OddReturns
    /\ fetching[w] = "item"
    /\ ~disposed[w]
    /\ fetching' = [fetching EXCEPT ![w] = "no"]
    /\ state' = [state EXCEPT ![w] = "pop_error"]
    /\ item' = [item EXCEPT ![w] = count[w]]
    /\ run' = [run EXCEPT ![w] = "processing"]
    /\ timers' = [timers EXCEPT ![w] = @ \union {count[w]}]
    /\ called' = [called EXCEPT ![w] = @ \union {count[w]}]
    /\ retries' = [retries EXCEPT ![w] = @ + 1]
    /\ UNCHANGED <<redisVars, mainVars, count, disposed, saving, done, crashed,
                   settled, raised>>

-----------------------------------------------------------------------------
(***************************************************************************)
(* The end of a run: an answer, a timeout, and saving the outcome.         *)
(***************************************************************************)

\* _saveWorker, for a report of run k: unless an outcome is being saved, the
\* timer of the process item is cleared and JobModel.processed is called.
SaveWorker(w, k, optDone) ==
    IF saving[w] # 0
    THEN UNCHANGED <<saving, done, settled>> /\ timers' = timers
    ELSE /\ saving' = [saving EXCEPT ![w] = item[w]]
         /\ done' = [done EXCEPT ![w] = optDone]
         /\ timers' = [timers EXCEPT ![w] = @ \ {item[w]}]
         /\ settled' = [settled EXCEPT ![w][item[w]] = Append(@, k)]

\* A mistake in Answer: a late answer is taken for one of the current run.
AnswerAnyRun(w, k, answer, optDone) ==
    /\ k \in called[w]
    /\ ~disposed[w]
    /\ item[w] # 0
    /\ state' = [state EXCEPT ![w] = PostState(answer)]
    /\ run' = [run EXCEPT ![w] = RunState(answer)]
    /\ SaveWorker(w, k, optDone)
    /\ UNCHANGED <<redisVars, mainVars, count, item, disposed, fetching, retries,
                   called, crashed, raised>>

\* _consumerFinishedCb, _consumerThrown, _consumerFinished, _consumerFailed:
\* the consumer of run k answers, for the first time or again. The answer
\* counts while processCount has not moved on. An answer that comes while the
\* outcome is being saved rewrites the process item; one that comes after it,
\* and before the next fetch, meets no process item and throws. Only a callback
\* comes with an optDone.
Answer(w, k, answer, optDone) ==
    /\ k \in called[w]
    /\ IF disposed[w]
       THEN /\ state' = [state EXCEPT ![w] = "disposed"]
            /\ UNCHANGED <<run, saving, done, timers, settled, raised>>
       ELSE /\ k = count[w]
            /\ state' = [state EXCEPT ![w] = PostState(answer)]
            /\ IF item[w] = 0
               THEN /\ raised' = [raised EXCEPT ![w] = @ \union {k}]
                    /\ UNCHANGED <<run, saving, done, timers, settled>>
               ELSE /\ run' = [run EXCEPT ![w] = RunState(answer)]
                    /\ SaveWorker(w, k, optDone)
                    /\ UNCHANGED raised
    /\ UNCHANGED <<redisVars, mainVars, count, item, disposed, fetching, retries,
                   called, crashed>>

\* The timer of processTimeout is up after its run is over: the handler
\* returns, or, when it meets no process item, calls startWorker.
StaleTimeout(w, k) ==
    /\ k \in timers[w]
    /\ timers' = [timers EXCEPT ![w] = @ \ {k}]
    /\ \/ /\ disposed[w]
          /\ state' = [state EXCEPT ![w] = "disposed"]
          /\ UNCHANGED <<count, fetching>>
       \/ /\ ~disposed[w] /\ k # count[w]
          /\ UNCHANGED startVars
       \/ /\ ~disposed[w] /\ k = count[w] /\ item[w] = 0
          /\ StartWorker(w, state)
    /\ UNCHANGED <<redisVars, mainVars, jobVars, saving, done, retries, called,
                   crashed, settled, raised>>

\* processTimeout: the run becomes a ghost, and is saved unless one is being saved.
ProcessTimeout(w, k) ==
    /\ k \in timers[w]
    /\ ~disposed[w]
    /\ k = count[w]
    /\ item[w] # 0
    /\ run' = [run EXCEPT ![w] = "ghost"]
    /\ timers' = [timers EXCEPT ![w] = @ \ {k}]
    /\ IF saving[w] # 0
       THEN UNCHANGED <<saving, done, settled>>
       ELSE /\ saving' = [saving EXCEPT ![w] = item[w]]
            /\ done' = [done EXCEPT ![w] = FALSE]
            /\ settled' = [settled EXCEPT ![w][item[w]] = Append(@, k)]
    /\ UNCHANGED <<redisVars, mainVars, startVars, item, disposed, retries, called,
                   crashed, raised>>

\* Whatever job the worker now has is unregistered.
Unregister(w) ==
    /\ saving' = [saving EXCEPT ![w] = 0]
    /\ done' = [done EXCEPT ![w] = FALSE]
    /\ item' = [item EXCEPT ![w] = 0]
    /\ run' = [run EXCEPT ![w] = "none"]

\* A mistake in Saved: the worker is not started again.
SavedNoRestart(w) ==
    /\ saving[w] # 0
    /\ Unregister(w)
    /\ UNCHANGED <<redisVars, mainVars, startVars, disposed, timers, retries,
                   called, crashed, settled, raised>>

\* A mistake in Saved: the worker is started by a timer.
SavedLater(w) ==
    /\ saving[w] # 0
    /\ Unregister(w)
    /\ retries' = [retries EXCEPT ![w] = @ + 1]
    /\ UNCHANGED <<redisVars, mainVars, startVars, disposed, timers, called,
                   crashed, settled, raised>>

\* The states that a second answer, given from within optDone, leaves the worker
\* in: none unless it is of the run that processCount still stands at.
DoneStates(w) ==
    IF disposed[w] THEN {"disposed"}
    ELSE {PostState(answer) : answer \in {a \in Answers : count[w] \in called[w]}}

\* The end of processed, well or not: the job is unregistered, optDone is called,
\* and then startWorker. If optDone answers once more, it meets no process item,
\* and throws into the try around it.
Saved(w) ==
    /\ saving[w] # 0
    /\ Unregister(w)
    /\ \/ /\ StartWorker(w, state)
          /\ UNCHANGED raised
       \/ /\ done[w]
          /\ \E post \in DoneStates(w) : StartWorker(w, [state EXCEPT ![w] = post])
          /\ raised' = IF disposed[w] THEN raised
                       ELSE [raised EXCEPT ![w] = @ \union {count[w]}]
    /\ UNCHANGED <<redisVars, mainVars, disposed, timers, retries, called, crashed,
                   settled>>

\* The timer set by _onPopFetchFail. It holds the startWorker of before a
\* dispose, whose call of popModel.fetch then throws in a timer callback.
RetryTimer(w) ==
    /\ retries[w] > 0
    /\ retries' = [retries EXCEPT ![w] = @ - 1]
    /\ IF disposed[w]
       THEN /\ IF connected
               THEN /\ crashed' = TRUE
                    /\ state' = [state EXCEPT ![w] = "pop_wait"]
                    /\ count' = [count EXCEPT ![w] = @ + 1]
               ELSE UNCHANGED <<crashed, state, count>>
            /\ UNCHANGED fetching
       ELSE /\ StartWorker(w, state)
            /\ UNCHANGED crashed
    /\ UNCHANGED <<redisVars, mainVars, jobVars, saving, done, timers, called,
                   settled, raised>>

-----------------------------------------------------------------------------
Init ==
    /\ RedisInit
    /\ booted = FALSE
    /\ started = {}
    /\ waiting = {}
    /\ state = [w \in Workers |-> "none"]
    /\ count = [w \in Workers |-> 0]
    /\ item = [w \in Workers |-> 0]
    /\ run = [w \in Workers |-> "none"]
    /\ saving = [w \in Workers |-> 0]
    /\ done = [w \in Workers |-> FALSE]
    /\ fetching = [w \in Workers |-> "no"]
    /\ disposed = [w \in Workers |-> FALSE]
    /\ timers = [w \in Workers |-> {}]
    /\ retries = [w \in Workers |-> 0]
    /\ called = [w \in Workers |-> {}]
    /\ crashed = FALSE
    /\ settled = [w \in Workers |-> [k \in Counts |-> <<>>]]
    /\ raised = [w \in Workers |-> {}]
    /\ downStart = {}

WorkerCallback(w) ==
    \/ BlpopReply(w)
    \/ PopFetchFail(w)
    \/ WorkStart(w)
    \/ WorkStartFails(w)
    \/ \E k \in Counts, answer \in Answers, optDone \in BOOLEAN :
          Answer(w, k, answer, optDone)
    \/ \E k \in Counts : StaleTimeout(w, k)
    \/ \E k \in Counts : ProcessTimeout(w, k)
    \/ Saved(w)
    \/ RetryTimer(w)

Next ==
    /\ ~crashed
    /\ \/ \E m \in Managers : Process(m)
       \/ Reset
       \/ Drop
       \/ Disconnect
       \/ Reconnect
       \/ \E w \in Workers : WorkerCallback(w)

Spec == Init /\ [][Next]_vars

\* Node runs the timers that are due, and redis answers, or the library
\* reports an error. Nothing is assumed of consumers, of the connection, or of
\* a pop: a queue may stay empty.
Fairness ==
    \A w \in Workers :
        /\ WF_vars(fetching[w] = "item" /\ (PopFetchFail(w) \/ WorkStart(w)))
        /\ WF_vars(\E k \in Counts : StaleTimeout(w, k) \/ ProcessTimeout(w, k))
        /\ WF_vars(Saved(w))
        /\ WF_vars(RetryTimer(w))

FairSpec == Spec /\ Fairness

-----------------------------------------------------------------------------
(***************************************************************************)
(* Properties.                                                             *)
(***************************************************************************)

TypeOK ==
    /\ up \in BOOLEAN /\ connected \in BOOLEAN
    /\ booted \in BOOLEAN
    /\ started \subseteq Managers
    /\ waiting \subseteq started
    /\ downStart \subseteq started
    /\ state \in [Workers -> State \union {"none"}]
    /\ count \in [Workers -> Nat]
    /\ item \in [Workers -> 0 .. MaxCount]
    /\ run \in [Workers -> {"none", "processing", "ghost", "success", "fail"}]
    /\ saving \in [Workers -> 0 .. MaxCount]
    /\ done \in [Workers -> BOOLEAN]
    /\ fetching \in [Workers -> {"no", "blpop", "item"}]
    /\ disposed \in [Workers -> BOOLEAN]
    /\ timers \in [Workers -> SUBSET Counts]
    /\ retries \in [Workers -> Nat]
    /\ called \in [Workers -> SUBSET Counts]
    /\ crashed \in BOOLEAN
    /\ settled \in [Workers -> [Counts -> Seq(Counts)]]
    /\ raised \in [Workers -> SUBSET Counts]

\* The outcome of a job is saved at most once, and it is what the run of that
\* very job reported: not the answer of an earlier run of the same worker that
\* comes late, nor a second report of the run. processCount and savingJobItem
\* are there for this; disconnects, retries and double invocations included.
OneOutcomePerJob ==
    \A w \in Workers, k \in Counts : settled[w][k] \in {<<>>, <<k>>}

Live(w) == state[w] # "none" /\ ~disposed[w] /\ ~crashed

\* Something is under way that will make the worker go on by itself.
Stirs(w) ==
    \/ fetching[w] # "no"
    \/ saving[w] # 0
    \/ retries[w] > 0
    \/ item[w] # 0 /\ item[w] = count[w] /\ count[w] \in timers[w]

\* The manager has a listener that will start the worker.
Awaited(w) == ~connected /\ ManagerOf[w] \in waiting

\* A worker that does nothing will be woken: startWorker only returns early
\* when the connection is down, and then the manager waits for it to come
\* back. The exception is a manager that was started while it was down.
SleeperIsAwaited ==
    \A w \in Workers : Live(w) =>
        Stirs(w) \/ Awaited(w) \/ ManagerOf[w] \in downStart

\* After kickq.reset the workers of before call no consumer and save no
\* outcome any more, whatever replies and timers were under way.
DisposedIsQuiet ==
    [][\A w \in Workers : disposed[w] =>
          called'[w] = called[w] /\ settled'[w] = settled[w]]_vars

\* A late answer of a consumer meets a processItem that is null, and throws,
\* only while redis is down, or when it comes from the optDone of the run, where
\* _saveWorker catches it: otherwise a worker that is done with a run has
\* counted up before the answer can come.
LateAnswerIsHarmless ==
    [][\A w \in Workers : raised'[w] # raised[w] =>
          \/ ~connected
          \/ done[w] /\ saving[w] # 0 /\ saving'[w] = 0]_vars

\* Once the connection is there to stay, a worker that was started gets to its
\* next fetch: no consumer, error or connection loss stops it for good.
\* MaxCount ends the model, and a manager started while redis was down is left.
ReachesNextFetch ==
    \A w \in Workers, k \in 1 .. MaxCount - 1 :
        (count[w] = k /\ fetching[w] = "no" /\ Live(w) /\ ManagerOf[w] \notin downStart)
            ~> (count[w] > k \/ ~Live(w) \/ []~connected)

-----------------------------------------------------------------------------
(***************************************************************************)
(* What comments say, and the code does not do.                            *)
(***************************************************************************)

\* "prevent double invocation" (worker.ctrl.js:84): a worker that has a job
\* does not start to fetch another one.
NoDoubleInvocation ==
    \A w \in Workers : Live(w) /\ fetching[w] # "no" => item[w] = 0

\* "wait for manager to wake us up" (worker.ctrl.js:90): the manager of a
\* worker that waits for redis listens for the connection to come back.
ManagerWakesUp ==
    \A w \in Workers : Live(w) => Stirs(w) \/ Awaited(w)
=============================================================================
