------------------------------ MODULE JobStates ------------------------------
(***************************************************************************)
(* The states of a job, the options that decide what happens to it, and    *)
(* the pure decision JobModel.processed takes when a run of it has ended.  *)
(*                                                                         *)
(* A job record is abstracted to what that decision reads and writes:      *)
(* how many runs the record lists (runs.length), how many of them are in   *)
(* state "ghost", the complete / success flags, as one outcome, and        *)
(* whether it still has its name and options.                              *)
(***************************************************************************)
EXTENDS Naturals

\* states.Job
JobState == {"new", "queued", "delayed", "processing",
             "retry", "ghost", "success", "fail"}

\* states.Process: the states of one run of a job.
ProcessState == {"processing", "ghost", "success", "fail"}

\* The states in which _finishJob leaves a job.
FinalState == {"success", "fail"}

\* The states QueueModel.save answers by scheduling the job for later.
ScheduledState == {"delayed", "retry", "ghost"}

\* The states in which a job id may sit in a process queue.
ReadyState == {"new", "queued"}

\* How the run of a job can be reported to JobModel.processed.
Report == {"success", "error", "timeout"}

-----------------------------------------------------------------------------

\* The options of a job the life cycle depends on. "delay" says whether the
\* option is a number: its value only matters to the clock.
OptionRecord == [delay : BOOLEAN, retry : BOOLEAN, retryTimes : Nat,
                 ghostRetry : BOOLEAN, ghostTimes : Nat]

\* A job record: number of runs, runs in state "ghost", complete / success, and
\* whether the record has the name and the options the job was created with.
JobItem == [runs : Nat, ghosts : Nat, outcome : FinalState \union {"none"},
            named : BOOLEAN]

\* A record without runs, as the constructor makes it.
NewItem == [runs |-> 0, ghosts |-> 0, outcome |-> "none", named |-> TRUE]

\* The "minimum viable object" {"id": ..} of getPublicJSON, as the constructor
\* completes it when it is fetched: no runs, no outcome, no name.
IdOnly == [NewItem EXCEPT !.named = FALSE]

\* The options the constructor gives a job that has none.
DefaultOptions == [delay |-> FALSE, retry |-> FALSE, retryTimes |-> 3,
                   ghostRetry |-> TRUE, ghostTimes |-> 1]

\* The options a fetched record has, of a job created with opts.
OptionsIn(item, opts) == IF item.named THEN opts ELSE DefaultOptions

\* JobItem.initialize: a numeric delay makes the original state "delayed".
InitialState(opts) == IF opts.delay THEN "delayed" ELSE "new"

-----------------------------------------------------------------------------

\* The state a run has when it is reported.
RunState(report) ==
    CASE report = "success" -> "success"
      [] report = "error"   -> "fail"
      [] report = "timeout" -> "ghost"

\* addProcessItem: the run joins the record.
AddRun(item, report) ==
    [item EXCEPT !.runs = @ + 1,
                 !.ghosts = IF report = "timeout" THEN @ + 1 ELSE @]

\* A late answer turns a listed ghost run into one that succeeded or failed.
OverwriteGhost(item) == [item EXCEPT !.ghosts = @ - 1]

\* _processedError: retry while fewer runs than retryTimes are recorded.
ErrorState(opts, item) ==
    IF opts.retry /\ item.runs < opts.retryTimes THEN "retry" ELSE "fail"

\* A mistake in TimeoutState: the run that has just timed out is not counted.
TimeoutStateBefore(opts, item) ==
    IF opts.ghostRetry /\ item.ghosts <= opts.ghostTimes + 1 THEN "ghost" ELSE "fail"

\* _processedTimeout: ghost until more than ghostTimes runs are ghosts.
TimeoutState(opts, item) ==
    IF opts.ghostRetry /\ item.ghosts <= opts.ghostTimes THEN "ghost" ELSE "fail"

\* processed: the state that follows a run, "item" already listing the run.
NextState(opts, item, report) ==
    CASE report = "success" -> "success"
      [] report = "error"   -> ErrorState(opts, item)
      [] report = "timeout" -> TimeoutState(opts, item)

\* A mistake in Finish: a job that will retry is marked as failed already.
FinishEarly(item, state) ==
    CASE state \in FinalState -> [item EXCEPT !.outcome = state]
      [] state = "retry"      -> [item EXCEPT !.outcome = "fail"]
      [] OTHER                -> item

\* _finishJob: a job in a final state is complete, and records how it ended.
Finish(item, state) ==
    IF state \in FinalState THEN [item EXCEPT !.outcome = state] ELSE item

-----------------------------------------------------------------------------

\* "How many times to retry" (job.item.js:57).
RetryAllowance(opts) == IF opts.retry THEN opts.retryTimes ELSE 0

\* "How many times to retry a ghost job" (job.item.js:72).
GhostAllowance(opts) == IF opts.ghostRetry THEN opts.ghostTimes ELSE 0

\* The largest number of runs a job with these options is meant to get: the
\* first one, and as many more as the two options say.
RunBudget(opts) == 1 + RetryAllowance(opts) + GhostAllowance(opts)
=============================================================================
