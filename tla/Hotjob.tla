-------------------------------- MODULE Hotjob --------------------------------
(***************************************************************************)
(* The hotjobs of one process (model/hotjob.model.js): a promise per job   *)
(* that is settled by the first message about an outcome of it, or by a    *)
(* timer. Each has a redis client of its own for its two subscriptions.    *)
(***************************************************************************)
EXTENDS Channels

VARIABLES
    verdict,  \* "none": no hotjob. "pending", then what the promise became
    timer,    \* _timeout is pending
    client,   \* clientSub: "null", "open" or "ended"
    subs,     \* the channels redis has subscribed the client to
    inbox     \* messages under way to the client

hotjobVars == <<verdict, timer, client, subs, inbox>>

\* The promise of a hotjob: resolved with the job item, resolved with
\* undefined, rejected with an error, rejected with kError.Timeout.
Settled == {"item", "nothing", "error", "timeout"}

\* subKeySuccess and subKeyFail.
ListenTo == {"success", "fail"}

HotjobInit ==
    /\ verdict = [j \in Jobs |-> "none"]
    /\ timer = [j \in Jobs |-> FALSE]
    /\ client = [j \in Jobs |-> "null"]
    /\ subs = [j \in Jobs |-> {}]
    /\ inbox = [j \in Jobs |-> <<>>]

\* A mistake in Check: the promise is left to the messages.
CheckNoTimer(j, new) ==
    IF new
    THEN /\ verdict' = [verdict EXCEPT ![j] = "pending"]
         /\ client' = [client EXCEPT ![j] = "open"]
         /\ UNCHANGED timer
    ELSE UNCHANGED <<verdict, timer, client>>

\* check, for a job that asks for it and was not delayed (new): the client
\* has issued its subscriptions, redis has not seen them yet.
Check(j, new) ==
    IF new
    THEN /\ verdict' = [verdict EXCEPT ![j] = "pending"]
         /\ timer' = [timer EXCEPT ![j] = TRUE]
         /\ client' = [client EXCEPT ![j] = "open"]
    ELSE UNCHANGED <<verdict, timer, client>>

\* redis sees the next of the subscriptions, "success" first.
Subscribe(j) ==
    /\ client[j] = "open"
    /\ subs[j] # ListenTo
    /\ subs' = [subs EXCEPT ![j] = IF @ = {} THEN {"success"} ELSE ListenTo]
    /\ UNCHANGED <<verdict, timer, client, inbox>>

\* Messages are delivered to the hotjobs that redis knows of.
Deliver(msg) ==
    inbox' = [j \in Jobs |-> IF msg.channel \in subs[j] THEN Append(inbox[j], msg)
                                                        ELSE inbox[j]]

\* The connection of a client is lost with what is under way on it. The redis
\* library connects and subscribes again.
LoseSubscription(j) ==
    /\ client[j] = "open"
    /\ subs[j] # {}
    /\ subs' = [subs EXCEPT ![j] = {}]
    /\ inbox' = [inbox EXCEPT ![j] = <<>>]
    /\ UNCHANGED <<verdict, timer, client>>

\* A mistake in Complete: the timer is not cleared.
CompleteKeepsTimer(j, result) ==
    /\ verdict' = [verdict EXCEPT ![j] = result]
    /\ client' = [client EXCEPT ![j] = "null"]
    /\ subs' = [subs EXCEPT ![j] = {}]
    /\ inbox' = [inbox EXCEPT ![j] = <<>>]
    /\ UNCHANGED timer

\* _complete: the timer is cleared and the client is closed, for good.
Complete(j, result) ==
    /\ verdict' = [verdict EXCEPT ![j] = result]
    /\ timer' = [timer EXCEPT ![j] = FALSE]
    /\ client' = [client EXCEPT ![j] = "null"]
    /\ subs' = [subs EXCEPT ![j] = {}]
    /\ inbox' = [inbox EXCEPT ![j] = <<>>]

\* A mistake in OnMessage: the id is not compared.
OnMessageAnyJob(j) ==
    /\ inbox[j] # <<>>
    /\ LET msg == Head(inbox[j]) IN
       IF msg.channel = "success"
       THEN Complete(j, "item")
       ELSE Complete(j, IF msg.lastError THEN "error" ELSE "nothing")

\* _onMessage: messages about other jobs are skipped. A failure without a
\* (truthy) error resolves the promise, without a value.
OnMessage(j) ==
    /\ inbox[j] # <<>>
    /\ LET msg == Head(inbox[j]) IN
       IF msg.job # j
       THEN /\ inbox' = [inbox EXCEPT ![j] = Tail(@)]
            /\ UNCHANGED <<verdict, timer, client, subs>>
       ELSE IF msg.channel = "success"
       THEN Complete(j, "item")
       ELSE Complete(j, IF msg.lastError THEN "error" ELSE "nothing")

\* The timer is up.
HotjobTimeout(j) ==
    /\ timer[j]
    /\ Complete(j, "timeout")

\* kRedis.dispose ends every client. The hotjob is not told, and its timer
\* stays.
EndHotjobClients ==
    /\ client' = [j \in Jobs |-> IF client[j] = "open" THEN "ended" ELSE client[j]]
    /\ subs' = [j \in Jobs |-> {}]
    /\ inbox' = [j \in Jobs |-> <<>>]
    /\ UNCHANGED <<verdict, timer>>
===============================================================================
