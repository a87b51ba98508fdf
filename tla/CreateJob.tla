------------------------------- MODULE CreateJob -------------------------------
(***************************************************************************)
(* What the creators of one process report to their callers                *)
(* (control/create.ctrl.js): a callback, and the promise of kickq.create.  *)
(***************************************************************************)
EXTENDS Channels

VARIABLES
    stage,    \* "idle", "saving" the record, "pushing" to the queue,
              \* "indexing" (the last command is under way), "closed"
    calls,    \* the calls of the callback: "ok" or "err"
    promise,  \* the promise of kickq.create: "pending", "item", "empty"
              \* (resolved with undefined), "rejected"
    disposed, \* _disposed
    threw     \* history: the callback threw when called with the job

createVars == <<stage, calls, promise, disposed, threw>>

CreateInit ==
    /\ stage = [j \in Jobs |-> "idle"]
    /\ calls = [j \in Jobs |-> <<>>]
    /\ promise = [j \in Jobs |-> "pending"]
    /\ disposed = {}
    /\ threw = {}

\* kickq.create: the job item is made, save is called.
Create(j) ==
    /\ stage[j] = "idle"
    /\ stage' = [stage EXCEPT ![j] = "saving"]
    /\ UNCHANGED <<calls, promise, disposed, threw>>

\* The creation goes on to the next of its commands.
Proceed(j, next) ==
    /\ stage' = [stage EXCEPT ![j] = next]
    /\ UNCHANGED <<calls, promise, disposed, threw>>

\* _onSuccess: the callback gets the job. When it throws, _onFail calls it
\* again, with its own exception, and the promise is rejected.
OnSuccess(j, throws) ==
    /\ stage' = [stage EXCEPT ![j] = "closed"]
    /\ IF j \in disposed
       THEN /\ promise' = [promise EXCEPT ![j] = "empty"]
            /\ UNCHANGED <<calls, threw>>
       ELSE /\ calls' = [calls EXCEPT ![j] = IF throws THEN <<"ok", "err">> ELSE <<"ok">>]
            /\ promise' = [promise EXCEPT ![j] = IF throws THEN "rejected" ELSE "item"]
            /\ threw' = IF throws THEN threw \union {j} ELSE threw
    /\ UNCHANGED disposed

\* _onFail, for a command that failed. A disposed creator resolves its promise.
OnFail(j) ==
    /\ stage' = [stage EXCEPT ![j] = "closed"]
    /\ IF j \in disposed
       THEN /\ promise' = [promise EXCEPT ![j] = "empty"]
            /\ UNCHANGED calls
       ELSE /\ calls' = [calls EXCEPT ![j] = <<"err">>]
            /\ promise' = [promise EXCEPT ![j] = "rejected"]
    /\ UNCHANGED <<disposed, threw>>

\* dispose, of all creators there are.
DisposeCreators ==
    /\ disposed' = disposed \union {j \in Jobs : stage[j] # "idle"}
    /\ UNCHANGED <<stage, calls, promise, threw>>
================================================================================
