----------------------------- MODULE JobContract -----------------------------
(***************************************************************************)
(* What kickq promises about a job, without saying how: the states a job   *)
(* goes through, who may be running it, and that its story is told once.   *)
(* JobLifecycle implements it.                                             *)
(***************************************************************************)
EXTENDS JobStates

CONSTANTS Jobs, Workers

VARIABLES
    status,  \* state of each job, "none" before it is created and once purged
    runner,  \* the workers running each job
    born     \* the jobs whose creation succeeded or failed so far

cvars == <<status, runner, born>>

\* A job is born once, ready to run or delayed.
Create(j) ==
    /\ j \notin born
    /\ \E s \in {"new", "delayed"} : status' = [status EXCEPT ![j] = s]
    /\ born' = born \union {j}
    /\ UNCHANGED runner

\* Creation fails before there is a record: the job will never exist.
GiveUp(j) ==
    /\ j \notin born
    /\ born' = born \union {j}
    /\ UNCHANGED <<status, runner>>

\* A worker takes a job that is ready and that nobody runs.
Claim(j, w) ==
    /\ status[j] \in ReadyState
    /\ runner[j] = {}
    /\ status' = [status EXCEPT ![j] = "processing"]
    /\ runner' = [runner EXCEPT ![j] = {w}]
    /\ UNCHANGED born

\* The only worker that runs the job reports how that ended.
Settle(j, w) ==
    /\ status[j] = "processing"
    /\ runner[j] = {w}
    /\ \E s \in FinalState \union {"retry", "ghost"} :
          status' = [status EXCEPT ![j] = s]
    /\ runner' = [runner EXCEPT ![j] = {}]
    /\ UNCHANGED born

\* The worker goes away: the job stays "processing", and nobody runs it again.
Abandon(j, w) ==
    /\ runner[j] = {w}
    /\ runner' = [runner EXCEPT ![j] = {}]
    /\ UNCHANGED <<status, born>>

\* A job that was put off becomes ready again.
Requeue(j) ==
    /\ status[j] \in ScheduledState
    /\ status' = [status EXCEPT ![j] = "queued"]
    /\ UNCHANGED <<runner, born>>

\* A job that is complete is removed, for ever.
Purge(j) ==
    /\ status[j] \in FinalState
    /\ status' = [status EXCEPT ![j] = "none"]
    /\ UNCHANGED <<runner, born>>

Init ==
    /\ status = [j \in Jobs |-> "none"]
    /\ runner = [j \in Jobs |-> {}]
    /\ born = {}

Next == \E j \in Jobs :
    \/ Create(j)
    \/ GiveUp(j)
    \/ \E w \in Workers : Claim(j, w) \/ Settle(j, w) \/ Abandon(j, w)
    \/ Requeue(j)
    \/ Purge(j)

Spec == Init /\ [][Next]_cvars
=============================================================================
