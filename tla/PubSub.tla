-------------------------------- MODULE PubSub --------------------------------
(***************************************************************************)
(* Who learns what about a job from kickq: the composition of the creators *)
(* and hotjobs of one process with the messages that creators, workers and *)
(* schedulers of all processes publish (QueueModel).                       *)
(*                                                                         *)
(* How jobs move is the matter of JobLifecycle. Here a job is no more than *)
(* what its messages depend on, and may at any point be left as it is.     *)
(***************************************************************************)
EXTENDS Hotjob, CreateJob, Naturals

CONSTANTS
    Others,     \* ids of jobs of the same name that are created elsewhere
    MaxRuns,    \* bound: runs of a job
    MaxForeign  \* bound: messages about Others

ASSUME OthersAssumption == Others \intersect Jobs = {}
ASSUME BoundAssumption == MaxRuns \in Nat \ {0} /\ MaxForeign \in Nat

VARIABLES
    options,    \* hotjob, and delayed: it has a delay
    job,        \* what redis knows of the job
    lastError,  \* whether the error of its last failed run is truthy
    runs,       \* runs that have ended
    told,       \* its end has been published
    owed,       \* pushes of schedulers whose "queued" is not yet published
    announced,  \* history: the channels of its messages, in order
    foreign,    \* messages about Others so far
    wasReset    \* history: kickq.reset was called

jobVars == <<options, job, lastError, runs, told, owed>>
vars == <<hotjobVars, createVars, jobVars, announced, foreign, wasReset>>

Options == [hotjob : BOOLEAN, delayed : BOOLEAN]

\* "retry" stands for states.Job.RETRY and GHOST.
JobState == {"none", "queued", "delayed", "retry", "success", "fail"}

\* _publish, for a job j of this process.
Publish(channel, j, err) ==
    /\ Deliver(Msg(channel, j, err))
    /\ announced' = [announced EXCEPT ![j] = Append(@, channel)]
    /\ UNCHANGED <<subs, foreign, wasReset>>

\* Nothing is published.
Silently == UNCHANGED <<announced, foreign, wasReset>>

-----------------------------------------------------------------------------
(***************************************************************************)
(* The creators.                                                           *)
(***************************************************************************)

StartCreate(j, opts) ==
    /\ Create(j)
    /\ options' = [options EXCEPT ![j] = opts]
    /\ Silently
    /\ UNCHANGED <<hotjobVars, job, lastError, runs, told, owed>>

\* A mistake in SaveQueue: "create" is not published before the push.
SaveQueueSilently(j) ==
    /\ stage[j] = "saving"
    /\ ~options[j].delayed
    /\ Proceed(j, "pushing")
    /\ Silently
    /\ UNCHANGED <<hotjobVars, jobVars>>

\* The record of a new job is saved: "create" is published, then the job is
\* pushed, by one client.
SaveQueue(j) ==
    /\ stage[j] = "saving"
    /\ ~options[j].delayed
    /\ Proceed(j, "pushing")
    /\ Publish("create", j, FALSE)
    /\ UNCHANGED <<verdict, timer, client, jobVars>>

\* redis executes the push. Workers see the job.
Push(j) ==
    /\ stage[j] = "pushing"
    /\ job[j] = "none"
    /\ job' = [job EXCEPT ![j] = "queued"]
    /\ Silently
    /\ UNCHANGED <<hotjobVars, createVars, options, lastError, runs, told, owed>>

\* A mistake in PushReply: nobody looks for the option hotjob.
PushReplyNoCheck(j) ==
    /\ stage[j] = "pushing"
    /\ job[j] # "none"
    /\ Proceed(j, "indexing")
    /\ Publish("queued", j, FALSE)
    /\ UNCHANGED <<verdict, timer, client, jobVars>>

\* The reply to the push: "queued" is published, the hotjob is set up.
PushReply(j) ==
    /\ stage[j] = "pushing"
    /\ job[j] # "none"
    /\ Proceed(j, "indexing")
    /\ Publish("queued", j, FALSE)
    /\ Check(j, options[j].hotjob)
    /\ UNCHANGED jobVars

\* A delayed job is scheduled instead. Nobody is told, and a hotjob is none.
SaveDelayed(j) ==
    /\ stage[j] = "saving"
    /\ options[j].delayed
    /\ Proceed(j, "indexing")
    /\ job' = [job EXCEPT ![j] = "delayed"]
    /\ Silently
    /\ UNCHANGED <<hotjobVars, options, lastError, runs, told, owed>>

\* The last command of the creation succeeded.
Created(j, throws) ==
    /\ stage[j] = "indexing"
    /\ OnSuccess(j, throws)
    /\ Silently
    /\ UNCHANGED <<hotjobVars, jobVars>>

\* Any of the commands of the creation failed, whether redis has executed it
\* or not.
CreateFails(j) ==
    /\ stage[j] \in {"saving", "pushing", "indexing"}
    /\ OnFail(j)
    /\ Silently
    /\ UNCHANGED <<hotjobVars, jobVars>>

-----------------------------------------------------------------------------
(***************************************************************************)
(* Workers and schedulers.                                                 *)
(***************************************************************************)

\* A run fails and the job is to run again: "fail" is published all the same.
RunFails(j, err) ==
    /\ job[j] = "queued"
    /\ runs[j] < MaxRuns - 1
    /\ job' = [job EXCEPT ![j] = "retry"]
    /\ lastError' = [lastError EXCEPT ![j] = err]
    /\ runs' = [runs EXCEPT ![j] = @ + 1]
    /\ Publish("fail", j, err)
    /\ UNCHANGED <<verdict, timer, client, createVars, options, told, owed>>

\* The last run of a job ends, and is saved.
RunEnds(j, success, err) ==
    /\ job[j] = "queued"
    /\ job' = [job EXCEPT ![j] = IF success THEN "success" ELSE "fail"]
    /\ lastError' = [lastError EXCEPT ![j] = IF success THEN @ ELSE err]
    /\ runs' = [runs EXCEPT ![j] = @ + 1]
    /\ Silently
    /\ UNCHANGED <<hotjobVars, createVars, options, told, owed>>

\* The purge is scheduled: the end is published. When it could not be
\* scheduled this never happens.
TellEnd(j) ==
    /\ job[j] \in {"success", "fail"}
    /\ ~told[j]
    /\ told' = [told EXCEPT ![j] = TRUE]
    /\ Publish(job[j], j, lastError[j])
    /\ UNCHANGED <<verdict, timer, client, createVars, options, job, lastError, runs, owed>>

\* A scheduler pushes the job again, and publishes "queued" after the reply.
Requeue(j) ==
    /\ job[j] \in {"retry", "delayed"}
    /\ job' = [job EXCEPT ![j] = "queued"]
    /\ owed' = [owed EXCEPT ![j] = @ + 1]
    /\ Silently
    /\ UNCHANGED <<hotjobVars, createVars, options, lastError, runs, told>>

\* A mistake in TellQueued: "queued" is published without a push.
TellQueuedAlways(j) ==
    /\ job[j] = "queued"
    /\ owed' = [owed EXCEPT ![j] = @ - 1]
    /\ Publish("queued", j, lastError[j])
    /\ UNCHANGED <<verdict, timer, client, createVars, options, job, lastError, runs, told>>

\* The reply to that push.
TellQueued(j) ==
    /\ owed[j] > 0
    /\ owed' = [owed EXCEPT ![j] = @ - 1]
    /\ Publish("queued", j, lastError[j])
    /\ UNCHANGED <<verdict, timer, client, createVars, options, job, lastError, runs, told>>

-----------------------------------------------------------------------------
(***************************************************************************)
(* Messages about other jobs, hotjobs, and kickq.reset.                    *)
(***************************************************************************)

\* A message about some other job of the name.
ForeignMessage(msg) ==
    /\ foreign < MaxForeign
    /\ foreign' = foreign + 1
    /\ Deliver(msg)
    /\ UNCHANGED <<verdict, timer, client, subs, createVars, jobVars, announced,
                   wasReset>>

HotjobStep(j) ==
    /\ \/ Subscribe(j)
       \/ LoseSubscription(j)
       \/ OnMessage(j)
       \/ HotjobTimeout(j)
    /\ Silently
    /\ UNCHANGED <<createVars, jobVars>>

\* kickq.reset, as far as it matters here: creators are disposed, and all
\* clients are ended.
Reset ==
    /\ ~wasReset
    /\ wasReset' = TRUE
    /\ DisposeCreators
    /\ EndHotjobClients
    /\ UNCHANGED <<jobVars, announced, foreign>>

Init ==
    /\ HotjobInit /\ CreateInit
    /\ options = [j \in Jobs |-> [hotjob |-> FALSE, delayed |-> FALSE]]
    /\ job = [j \in Jobs |-> "none"]
    /\ lastError = [j \in Jobs |-> FALSE]
    /\ runs = [j \in Jobs |-> 0]
    /\ told = [j \in Jobs |-> FALSE]
    /\ owed = [j \in Jobs |-> 0]
    /\ announced = [j \in Jobs |-> <<>>]
    /\ foreign = 0
    /\ wasReset = FALSE

Next ==
    \/ \E j \in Jobs, opts \in Options : StartCreate(j, opts)
    \/ \E j \in Jobs : SaveQueue(j)
    \/ \E j \in Jobs : Push(j)
    \/ \E j \in Jobs : PushReply(j)
    \/ \E j \in Jobs : SaveDelayed(j)
    \/ \E j \in Jobs, throws \in BOOLEAN : Created(j, throws)
    \/ \E j \in Jobs : CreateFails(j)
    \/ \E j \in Jobs, err \in BOOLEAN : RunFails(j, err)
    \/ \E j \in Jobs, success, err \in BOOLEAN : RunEnds(j, success, err)
    \/ \E j \in Jobs : TellEnd(j)
    \/ \E j \in Jobs : Requeue(j)
    \/ \E j \in Jobs : TellQueued(j)
    \/ \E msg \in [channel : Channel, job : Others, lastError : BOOLEAN] : ForeignMessage(msg)
    \/ \E j \in Jobs : HotjobStep(j)
    \/ Reset

Spec == Init /\ [][Next]_vars

\* Node runs the timers that are due. Nothing else is assumed: neither that
\* jobs are processed, nor that messages arrive.
FairSpec == Spec /\ \A j \in Jobs : WF_vars(HotjobTimeout(j) /\ Silently
                                            /\ UNCHANGED <<createVars, jobVars>>)

-----------------------------------------------------------------------------
(***************************************************************************)
(* Properties.                                                             *)
(***************************************************************************)

TypeOK ==
    /\ verdict \in [Jobs -> Settled \union {"none", "pending"}]
    /\ timer \in [Jobs -> BOOLEAN]
    /\ client \in [Jobs -> {"null", "open", "ended"}]
    /\ subs \in [Jobs -> SUBSET {"success", "fail"}]
    /\ inbox \in [Jobs -> Seq([channel : Channel, job : Jobs \union Others, lastError : BOOLEAN])]
    /\ stage \in [Jobs -> {"idle", "saving", "pushing", "indexing", "closed"}]
    /\ calls \in [Jobs -> Seq({"ok", "err"})]
    /\ promise \in [Jobs -> {"pending", "item", "empty", "rejected"}]
    /\ disposed \subseteq Jobs /\ threw \subseteq Jobs
    /\ wasReset \in BOOLEAN
    /\ options \in [Jobs -> Options]
    /\ foreign \in 0 .. MaxForeign
    /\ job \in [Jobs -> JobState]
    /\ lastError \in [Jobs -> BOOLEAN]
    /\ runs \in [Jobs -> 0 .. MaxRuns]
    /\ told \in [Jobs -> BOOLEAN]
    /\ owed \in [Jobs -> Nat]
    /\ announced \in [Jobs -> Seq(Channel)]

\* What the promise of a hotjob says is true of that very job, whatever other
\* jobs of its name publish meanwhile: with the item it is resolved only
\* if redis knows the job as successful and said so; otherwise a run of it has
\* failed. (The run, not the job: the job may be about to be retried.)
VerdictIsTrue ==
    \A j \in Jobs :
        /\ verdict[j] = "item" => job[j] = "success" /\ told[j]
        /\ verdict[j] \in {"error", "nothing"} =>
              job[j] = "fail" \/ runs[j] > (IF job[j] = "success" THEN 1 ELSE 0)

\* A hotjob leaves neither timer nor client behind once its promise is
\* settled; and while it is pending there is a timer, whatever becomes of the
\* client, of its subscriptions, and of kickq.reset.
HotjobCleansUp ==
    \A j \in Jobs :
        /\ timer[j] <=> verdict[j] = "pending"
        /\ client[j] # "null" => verdict[j] = "pending"

\* What a creator reports can be relied on: after "ok" the job is in redis,
\* and the caller of a hotjob has a promise; "err" after "ok" only tells of an
\* exception of the callback itself; and callers that were disposed of hear
\* nothing.
ReportsAreReliable ==
    [][\A j \in Jobs : calls'[j] # calls[j] =>
          /\ j \notin disposed
          /\ calls'[j][1] = "ok" =>
                /\ job[j] # "none"
                /\ options[j].hotjob /\ ~options[j].delayed => verdict[j] # "none"
          /\ Len(calls'[j]) > 1 => calls'[j] = <<"ok", "err">> /\ j \in threw'
      ]_vars

\* The first thing that redis says of a job that is not delayed is "create",
\* and it never says so later, although the messages of creators, workers and
\* schedulers come from different clients. (Such an order does not hold for
\* "queued": a worker may be done with the job before the creator says it.)
CreateComesFirst ==
    \A j \in Jobs : \A i \in DOMAIN announced[j] :
        (announced[j][i] = "create") <=> (i = 1 /\ ~options[j].delayed)

\* The promise that the caller of a hotjob is given does not stay pending:
\* when no message comes, or it was published before redis had the
\* subscription, the timer settles it.
HotjobSettles ==
    \A j \in Jobs : verdict[j] = "pending" ~> verdict[j] \in Settled
===============================================================================
