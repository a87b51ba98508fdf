------------------------------ MODULE PubSubProofs ------------------------------
(***************************************************************************)
(* Proofs about PubSub, for any number of jobs, runs and messages: a       *)
(* hotjob leaves nothing behind, and "create" comes first.                 *)
(***************************************************************************)
EXTENDS PubSub, TLAPS

HotjobTypes ==
    /\ verdict \in [Jobs -> Settled \union {"none", "pending"}]
    /\ timer \in [Jobs -> BOOLEAN]
    /\ client \in [Jobs -> {"null", "open", "ended"}]

HotjobInv == HotjobTypes /\ HotjobCleansUp

-----------------------------------------------------------------------------
(***************************************************************************)
(* Hotjobs.                                                                *)
(***************************************************************************)

LEMMA InitHotjob == Init => HotjobInv
<1> SUFFICES ASSUME Init
             PROVE  HotjobInv
  OBVIOUS
<1>1. /\ verdict = [j \in Jobs |-> "none"]
      /\ timer = [j \in Jobs |-> FALSE]
      /\ client = [j \in Jobs |-> "null"]
  BY DEF Init, HotjobInit
<1>2. QED
  BY <1>1 DEF HotjobInv, HotjobTypes, HotjobCleansUp

\* A new hotjob has a timer, a client and a promise, or none of them.
LEMMA CheckKeeps ==
    ASSUME HotjobInv, NEW j \in Jobs, NEW new, Check(j, new)
    PROVE  HotjobInv'
<1>1. CASE new
  <2>1. /\ verdict' = [verdict EXCEPT ![j] = "pending"]
        /\ timer' = [timer EXCEPT ![j] = TRUE]
        /\ client' = [client EXCEPT ![j] = "open"]
    BY <1>1 DEF Check
  <2>2. QED
    BY <2>1 DEF HotjobInv, HotjobTypes, HotjobCleansUp
<1>2. CASE ~new
  <2>1. UNCHANGED <<verdict, timer, client>>
    BY <1>2 DEF Check
  <2>2. QED
    BY <2>1 DEF HotjobInv, HotjobTypes, HotjobCleansUp
<1>3. QED
  BY <1>1, <1>2

\* A settled hotjob has neither.
LEMMA CompleteKeeps ==
    ASSUME HotjobInv, NEW j \in Jobs, NEW result \in Settled, Complete(j, result)
    PROVE  HotjobInv'
<1>1. /\ verdict' = [verdict EXCEPT ![j] = result]
      /\ timer' = [timer EXCEPT ![j] = FALSE]
      /\ client' = [client EXCEPT ![j] = "null"]
  BY DEF Complete
<1>2. result # "pending"
  BY DEF Settled
<1>3. QED
  BY <1>1, <1>2 DEF HotjobInv, HotjobTypes, HotjobCleansUp

LEMMA UnchangedKeeps ==
    ASSUME HotjobInv, UNCHANGED <<verdict, timer, client>>
    PROVE  HotjobInv'
BY DEF HotjobInv, HotjobTypes, HotjobCleansUp

LEMMA HotjobStepKeeps ==
    ASSUME HotjobInv, NEW j \in Jobs, HotjobStep(j)
    PROVE  HotjobInv'
<1>1. CASE Subscribe(j)
  BY <1>1, UnchangedKeeps DEF Subscribe
<1>2. CASE LoseSubscription(j)
  BY <1>2, UnchangedKeeps DEF LoseSubscription
<1>3. CASE OnMessage(j)
  <2>1. \/ UNCHANGED <<verdict, timer, client>>
        \/ \E result \in {"item", "error", "nothing"} : Complete(j, result)
    BY <1>3 DEF OnMessage
  <2>2. QED
    BY <2>1, UnchangedKeeps, CompleteKeeps DEF Settled
<1>4. CASE HotjobTimeout(j)
  BY <1>4, CompleteKeeps DEF HotjobTimeout, Settled
<1>5. QED
  BY <1>1, <1>2, <1>3, <1>4 DEF HotjobStep

LEMMA NextHotjob == HotjobInv /\ [Next]_vars => HotjobInv'
<1> SUFFICES ASSUME HotjobInv, [Next]_vars
             PROVE  HotjobInv'
  OBVIOUS
<1>1. ASSUME NEW j \in Jobs, PushReply(j)
      PROVE  HotjobInv'
  BY <1>1, CheckKeeps DEF PushReply
<1>2. ASSUME NEW j \in Jobs, HotjobStep(j)
      PROVE  HotjobInv'
  BY <1>2, HotjobStepKeeps
<1>3. CASE Reset
  <2>1. /\ client' = [j \in Jobs |-> IF client[j] = "open" THEN "ended" ELSE client[j]]
        /\ UNCHANGED <<verdict, timer>>
    BY <1>3 DEF Reset, EndHotjobClients
  <2>2. QED
    BY <2>1 DEF HotjobInv, HotjobTypes, HotjobCleansUp
<1>4. ASSUME NEW j \in Jobs,
             \/ \E opts \in Options : StartCreate(j, opts)
             \/ SaveQueue(j) \/ Push(j) \/ SaveDelayed(j) \/ CreateFails(j)
             \/ \E throws \in BOOLEAN : Created(j, throws)
      PROVE  UNCHANGED <<verdict, timer, client>>
  BY <1>4 DEF StartCreate, SaveQueue, Push, SaveDelayed, CreateFails, Created, hotjobVars
<1>5. ASSUME NEW j \in Jobs,
             \/ \E err \in BOOLEAN : RunFails(j, err)
             \/ \E success, err \in BOOLEAN : RunEnds(j, success, err)
             \/ TellEnd(j) \/ Requeue(j) \/ TellQueued(j)
      PROVE  UNCHANGED <<verdict, timer, client>>
  BY <1>5 DEF RunFails, RunEnds, TellEnd, Requeue, TellQueued, hotjobVars
<1>6. ASSUME NEW msg, ForeignMessage(msg)
      PROVE  UNCHANGED <<verdict, timer, client>>
  BY <1>6 DEF ForeignMessage
<1>7. CASE UNCHANGED vars
  BY <1>7, UnchangedKeeps DEF vars, hotjobVars
<1>8. QED
  BY <1>1, <1>2, <1>3, <1>4, <1>5, <1>6, <1>7, UnchangedKeeps DEF Next

\* A hotjob leaves neither timer nor client behind when its promise is settled,
\* and has a timer as long as it is pending, for any number of hotjobs.
THEOREM HotjobLeavesNothing == Spec => []HotjobCleansUp
<1>1. HotjobInv => HotjobCleansUp
  BY DEF HotjobInv
<1>2. QED
  BY <1>1, InitHotjob, NextHotjob, PTL DEF Spec

-----------------------------------------------------------------------------
(***************************************************************************)
(* The order of messages.                                                  *)
(***************************************************************************)

AnnounceTypes ==
    /\ announced \in [Jobs -> Seq(Channel)]
    /\ options \in [Jobs -> Options]
    /\ job \in [Jobs -> JobState]
    /\ owed \in [Jobs -> Nat]
    /\ stage \in [Jobs -> {"idle", "saving", "pushing", "indexing", "closed"}]

\* Before its record is saved nobody has heard of a job; nobody but its creator
\* says anything of it before redis knows it; and what is not delayed is
\* announced before it is pushed.
HeardOf ==
    \A j \in Jobs :
        /\ stage[j] \in {"idle", "saving"} => announced[j] = <<>> /\ job[j] = "none"
        /\ stage[j] = "pushing" => announced[j] # <<>> /\ ~options[j].delayed
        /\ job[j] = "none" => owed[j] = 0
        /\ job[j] # "none" => announced[j] # <<>> \/ options[j].delayed

AnnounceInv == AnnounceTypes /\ HeardOf /\ CreateComesFirst

LEMMA InitAnnounce == Init => AnnounceInv
<1> SUFFICES ASSUME Init
             PROVE  AnnounceInv
  OBVIOUS
<1>1. AnnounceTypes
  BY DEF Init, CreateInit, AnnounceTypes, Options, JobState
<1>2. HeardOf
  BY DEF Init, CreateInit, HeardOf
<1>3. CreateComesFirst
  BY DEF Init, CreateComesFirst
<1>4. QED
  BY <1>1, <1>2, <1>3 DEF AnnounceInv

\* One more message about a job: "create" if it is the first of a job that is
\* not delayed, and another one otherwise.
LEMMA MessageAdded ==
    ASSUME AnnounceInv, NEW j \in Jobs, NEW channel \in Channel,
           announced' = [announced EXCEPT ![j] = Append(@, channel)],
           options' = options,
           channel = "create" <=> (announced[j] = <<>> /\ ~options[j].delayed)
    PROVE  /\ announced' \in [Jobs -> Seq(Channel)]
           /\ announced'[j] # <<>>
           /\ \A k \in Jobs \ {j} : announced'[k] = announced[k]
           /\ CreateComesFirst'
<1>1. announced \in [Jobs -> Seq(Channel)] /\ announced[j] \in Seq(Channel)
  BY DEF AnnounceInv, AnnounceTypes
<1>2. /\ announced' \in [Jobs -> Seq(Channel)]
      /\ announced'[j] = Append(announced[j], channel)
      /\ \A k \in Jobs \ {j} : announced'[k] = announced[k]
  BY <1>1
<1>3. /\ announced'[j] # <<>>
      /\ DOMAIN announced'[j] = 1 .. Len(announced[j]) + 1
      /\ \A i \in 1 .. Len(announced[j]) : announced'[j][i] = announced[j][i]
      /\ announced'[j][Len(announced[j]) + 1] = channel
  BY <1>1, <1>2
<1>4. announced[j] = <<>> <=> Len(announced[j]) = 0
  BY <1>1
<1>5. ASSUME NEW i \in DOMAIN announced'[j]
      PROVE  (announced'[j][i] = "create") <=> (i = 1 /\ ~options[j].delayed)
  <2>1. CASE i \in 1 .. Len(announced[j])
    BY <1>1, <1>3, <2>1 DEF AnnounceInv, CreateComesFirst
  <2>2. CASE i = Len(announced[j]) + 1
    <3>1. i = 1 <=> announced[j] = <<>>
      BY <1>1, <1>4, <2>2
    <3>2. QED
      BY <1>3, <2>2, <3>1
  <2>3. QED
    BY <1>1, <1>3, <2>1, <2>2
<1>6. CreateComesFirst'
  BY <1>2, <1>5 DEF AnnounceInv, CreateComesFirst
<1>7. QED
  BY <1>2, <1>3, <1>6

\* Nothing is said.
LEMMA NothingAdded ==
    ASSUME AnnounceInv, announced' = announced,
           \A j \in Jobs : announced[j] # <<>> => options'[j] = options[j]
    PROVE  CreateComesFirst'
<1>1. ASSUME NEW j \in Jobs, NEW i \in DOMAIN announced[j]
      PROVE  (announced[j][i] = "create") <=> (i = 1 /\ ~options'[j].delayed)
  <2>1. announced[j] # <<>>
    BY <1>1 DEF AnnounceInv, AnnounceTypes
  <2>2. QED
    BY <1>1, <2>1 DEF AnnounceInv, CreateComesFirst
<1>2. QED
  BY <1>1 DEF CreateComesFirst

\* The creator.
LEMMA CreatorAnnounces ==
    ASSUME AnnounceInv, NEW j \in Jobs,
           \/ \E opts \in Options : StartCreate(j, opts)
           \/ SaveQueue(j) \/ Push(j) \/ PushReply(j) \/ SaveDelayed(j)
           \/ CreateFails(j) \/ \E throws \in BOOLEAN : Created(j, throws)
    PROVE  AnnounceInv'
<1> USE DEF AnnounceInv, AnnounceTypes
<1>1. ASSUME NEW opts \in Options, StartCreate(j, opts)
      PROVE  AnnounceInv'
  <2>1. /\ stage[j] = "idle"
        /\ stage' = [stage EXCEPT ![j] = "saving"]
        /\ options' = [options EXCEPT ![j] = opts]
        /\ UNCHANGED <<announced, job, owed>>
    BY <1>1 DEF StartCreate, Create, Silently
  <2>2. AnnounceTypes' /\ HeardOf'
    BY <2>1 DEF HeardOf
  <2>3. CreateComesFirst'
    BY <2>1, NothingAdded DEF HeardOf
  <2>4. QED
    BY <2>2, <2>3
<1>2. CASE SaveQueue(j)
  <2>1. /\ stage[j] = "saving" /\ ~options[j].delayed
        /\ stage' = [stage EXCEPT ![j] = "pushing"]
        /\ announced' = [announced EXCEPT ![j] = Append(@, "create")]
        /\ UNCHANGED <<options, job, owed>>
    BY <1>2 DEF SaveQueue, Proceed, Publish, jobVars
  <2>2. announced[j] = <<>> /\ "create" \in Channel
    BY <2>1 DEF HeardOf, Channel
  <2>3. /\ announced' \in [Jobs -> Seq(Channel)] /\ announced'[j] # <<>>
        /\ \A k \in Jobs \ {j} : announced'[k] = announced[k]
        /\ CreateComesFirst'
    BY <2>1, <2>2, MessageAdded
  <2>4. QED
    BY <2>1, <2>3 DEF HeardOf
<1>3. CASE Push(j)
  <2>1. /\ stage[j] = "pushing" /\ job[j] = "none"
        /\ job' = [job EXCEPT ![j] = "queued"]
        /\ UNCHANGED <<announced, options, owed, stage>>
    BY <1>3 DEF Push, Silently, createVars
  <2>2. CreateComesFirst'
    BY <2>1, NothingAdded
  <2>3. QED
    BY <2>1, <2>2 DEF HeardOf, JobState
<1>4. CASE PushReply(j)
  <2>1. /\ stage[j] = "pushing"
        /\ stage' = [stage EXCEPT ![j] = "indexing"]
        /\ announced' = [announced EXCEPT ![j] = Append(@, "queued")]
        /\ UNCHANGED <<options, job, owed>>
    BY <1>4 DEF PushReply, Proceed, Publish, jobVars
  <2>2. announced[j] # <<>> /\ "queued" \in Channel
    BY <2>1 DEF HeardOf, Channel
  <2>3. /\ announced' \in [Jobs -> Seq(Channel)] /\ announced'[j] # <<>>
        /\ \A k \in Jobs \ {j} : announced'[k] = announced[k]
        /\ CreateComesFirst'
    BY <2>1, <2>2, MessageAdded
  <2>4. QED
    BY <2>1, <2>3 DEF HeardOf
<1>5. CASE SaveDelayed(j)
  <2>1. /\ stage[j] = "saving" /\ options[j].delayed
        /\ stage' = [stage EXCEPT ![j] = "indexing"]
        /\ job' = [job EXCEPT ![j] = "delayed"]
        /\ UNCHANGED <<announced, options, owed>>
    BY <1>5 DEF SaveDelayed, Proceed, Silently
  <2>2. CreateComesFirst'
    BY <2>1, NothingAdded
  <2>3. QED
    BY <2>1, <2>2 DEF HeardOf, JobState
<1>6. CASE CreateFails(j) \/ \E throws \in BOOLEAN : Created(j, throws)
  <2>1. /\ stage' = [stage EXCEPT ![j] = "closed"]
        /\ UNCHANGED <<announced, options, job, owed>>
    BY <1>6 DEF CreateFails, Created, OnFail, OnSuccess, Silently, jobVars
  <2>2. CreateComesFirst'
    BY <2>1, NothingAdded
  <2>3. QED
    BY <2>1, <2>2 DEF HeardOf
<1>7. QED
  BY <1>1, <1>2, <1>3, <1>4, <1>5, <1>6

\* Workers and schedulers, of a job that redis knows.
LEMMA OthersAnnounce ==
    ASSUME AnnounceInv, NEW j \in Jobs,
           \/ \E err \in BOOLEAN : RunFails(j, err)
           \/ \E success, err \in BOOLEAN : RunEnds(j, success, err)
           \/ TellEnd(j) \/ Requeue(j) \/ TellQueued(j)
    PROVE  AnnounceInv'
<1> USE DEF AnnounceInv, AnnounceTypes
\* What they have in common.
<1>1. ASSUME NEW channel \in Channel \ {"create"}, job[j] # "none",
             announced' = [announced EXCEPT ![j] = Append(@, channel)],
             NEW s \in JobState \ {"none"}, job' = [job EXCEPT ![j] = s],
             NEW n \in Nat, owed' = [owed EXCEPT ![j] = n],
             UNCHANGED <<options, stage>>
      PROVE  AnnounceInv'
  <2>1. announced[j] # <<>> \/ options[j].delayed
    BY <1>1 DEF HeardOf
  <2>2. /\ announced' \in [Jobs -> Seq(Channel)] /\ announced'[j] # <<>>
        /\ \A k \in Jobs \ {j} : announced'[k] = announced[k]
        /\ CreateComesFirst'
    BY <1>1, <2>1, MessageAdded
  <2>3. HeardOf'
    BY <1>1, <2>2 DEF HeardOf
  <2>4. QED
    BY <1>1, <2>2, <2>3
<1>2. ASSUME job[j] # "none", announced' = announced,
             NEW s \in JobState \ {"none"}, job' = [job EXCEPT ![j] = s],
             NEW n \in Nat, owed' = [owed EXCEPT ![j] = n],
             UNCHANGED <<options, stage>>
      PROVE  AnnounceInv'
  <2>1. CreateComesFirst'
    BY <1>2, NothingAdded
  <2>2. HeardOf'
    BY <1>2 DEF HeardOf
  <2>3. QED
    BY <1>2, <2>1, <2>2
<1>3. owed[j] \in Nat /\ job[j] \in JobState
  OBVIOUS
<1>4. owed = [owed EXCEPT ![j] = owed[j]] /\ job = [job EXCEPT ![j] = job[j]]
  OBVIOUS
<1>5. ASSUME NEW err \in BOOLEAN, RunFails(j, err)
      PROVE  AnnounceInv'
  <2>1. /\ job[j] = "queued" /\ job' = [job EXCEPT ![j] = "retry"]
        /\ announced' = [announced EXCEPT ![j] = Append(@, "fail")]
        /\ UNCHANGED <<options, stage, owed>>
    BY <1>5 DEF RunFails, Publish, createVars
  <2>2. QED
    BY <2>1, <1>1, <1>3, <1>4 DEF Channel, JobState
<1>6. ASSUME NEW success \in BOOLEAN, NEW err \in BOOLEAN, RunEnds(j, success, err)
      PROVE  AnnounceInv'
  <2>1. /\ job[j] = "queued" /\ UNCHANGED <<announced, options, stage, owed>>
        /\ job' = [job EXCEPT ![j] = IF success THEN "success" ELSE "fail"]
    BY <1>6 DEF RunEnds, Silently, createVars
  <2>2. job[j] # "none" /\ owed' = [owed EXCEPT ![j] = owed[j]]
    BY <2>1, <1>4
  <2>3. CASE success
    <3>1. "success" \in JobState \ {"none"} /\ job' = [job EXCEPT ![j] = "success"]
      BY <2>1, <2>3 DEF JobState
    <3>2. QED
      BY <2>1, <2>2, <3>1, <1>2, <1>3
  <2>4. CASE ~success
    <3>1. "fail" \in JobState \ {"none"} /\ job' = [job EXCEPT ![j] = "fail"]
      BY <2>1, <2>4 DEF JobState
    <3>2. announced' = announced /\ owed[j] \in Nat
      BY <2>1, <1>3
    <3>3. UNCHANGED <<options, stage>>
      BY <2>1
    <3>4. QED
      BY <2>2, <3>1, <3>2, <3>3, <1>2
  <2>5. QED
    BY <2>3, <2>4
<1>7. CASE TellEnd(j)
  <2>1. /\ job[j] \in {"success", "fail"} /\ UNCHANGED <<options, stage, owed, job>>
        /\ announced' = [announced EXCEPT ![j] = Append(@, job[j])]
    BY <1>7 DEF TellEnd, Publish, createVars
  <2>2. QED
    BY <2>1, <1>1, <1>3, <1>4 DEF Channel
<1>8. CASE Requeue(j)
  <2>1. /\ job[j] \in {"retry", "delayed"} /\ job' = [job EXCEPT ![j] = "queued"]
        /\ owed' = [owed EXCEPT ![j] = owed[j] + 1]
        /\ UNCHANGED <<announced, options, stage>>
    BY <1>8 DEF Requeue, Silently, createVars
  <2>2. job[j] # "none" /\ "queued" \in JobState \ {"none"} /\ owed[j] + 1 \in Nat
    BY <2>1, <1>3 DEF JobState
  <2>3. QED
    BY <2>1, <2>2, <1>2
<1>9. CASE TellQueued(j)
  <2>1. /\ owed[j] > 0 /\ owed' = [owed EXCEPT ![j] = owed[j] - 1]
        /\ announced' = [announced EXCEPT ![j] = Append(@, "queued")]
        /\ UNCHANGED <<options, stage, job>>
    BY <1>9 DEF TellQueued, Publish, createVars
  <2>2. job[j] # "none" /\ owed[j] - 1 \in Nat
    BY <2>1, <1>3 DEF HeardOf
  <2>3. QED
    BY <2>1, <2>2, <1>1, <1>3, <1>4 DEF Channel
<1>10. QED
  BY <1>5, <1>6, <1>7, <1>8, <1>9

LEMMA NextAnnounce == AnnounceInv /\ [Next]_vars => AnnounceInv'
<1> SUFFICES ASSUME AnnounceInv, [Next]_vars
             PROVE  AnnounceInv'
  OBVIOUS
<1>1. ASSUME UNCHANGED <<announced, options, job, owed, stage>>
      PROVE  AnnounceInv'
  <2>1. CreateComesFirst'
    BY <1>1, NothingAdded
  <2>2. QED
    BY <1>1, <2>1 DEF AnnounceInv, AnnounceTypes, HeardOf
<1>2. ASSUME NEW msg, ForeignMessage(msg)
      PROVE  AnnounceInv'
  BY <1>1, <1>2 DEF ForeignMessage, createVars, jobVars
<1>3. ASSUME NEW j \in Jobs, HotjobStep(j)
      PROVE  AnnounceInv'
  BY <1>1, <1>3 DEF HotjobStep, Silently, createVars, jobVars
<1>4. CASE Reset
  BY <1>1, <1>4 DEF Reset, DisposeCreators, jobVars
<1>5. CASE UNCHANGED vars
  BY <1>1, <1>5 DEF vars, createVars, jobVars
<1>6. QED
  BY <1>2, <1>3, <1>4, <1>5, CreatorAnnounces, OthersAnnounce DEF Next

\* The first message about a job that is not delayed is "create", and no later
\* one is, in whatever order creators, workers and schedulers of any number of
\* jobs publish.
THEOREM CreateIsFirst == Spec => []CreateComesFirst
<1>1. AnnounceInv => CreateComesFirst
  BY DEF AnnounceInv
<1>2. QED
  BY <1>1, InitAnnounce, NextAnnounce, PTL DEF Spec

-----------------------------------------------------------------------------
(***************************************************************************)
(* Types.                                                                  *)
(***************************************************************************)

Message == [channel : Channel, job : Jobs \union Others, lastError : BOOLEAN]

CreatorTypes ==
    /\ stage \in [Jobs -> {"idle", "saving", "pushing", "indexing", "closed"}]
    /\ calls \in [Jobs -> Seq({"ok", "err"})]
    /\ promise \in [Jobs -> {"pending", "item", "empty", "rejected"}]
    /\ disposed \subseteq Jobs /\ threw \subseteq Jobs

JobTypes ==
    /\ options \in [Jobs -> Options]
    /\ job \in [Jobs -> JobState]
    /\ lastError \in [Jobs -> BOOLEAN]
    /\ runs \in [Jobs -> 0 .. MaxRuns]
    /\ told \in [Jobs -> BOOLEAN]
    /\ owed \in [Jobs -> Nat]

MessageTypes ==
    /\ subs \in [Jobs -> SUBSET {"success", "fail"}]
    /\ inbox \in [Jobs -> Seq(Message)]

\* A job whose end is not saved has a run left.
RunsLeft == \A j \in Jobs : job[j] \notin {"success", "fail"} => runs[j] < MaxRuns

\* What TypeOK says beyond HotjobInv and AnnounceInv.
MoreTypes == /\ CreatorTypes /\ JobTypes /\ MessageTypes /\ RunsLeft
             /\ wasReset \in BOOLEAN /\ foreign \in 0 .. MaxForeign

LEMMA InitTypes == Init => MoreTypes
<1> SUFFICES ASSUME Init
             PROVE  MoreTypes
  OBVIOUS
<1>1. CreatorTypes
  BY DEF Init, CreateInit, CreatorTypes
<1>2. 0 \in 0 .. MaxRuns /\ 0 < MaxRuns /\ 0 \in 0 .. MaxForeign
  BY BoundAssumption
<1>3. JobTypes /\ RunsLeft
  BY <1>2 DEF Init, JobTypes, RunsLeft, Options, JobState
<1>4. MessageTypes
  BY DEF Init, HotjobInit, MessageTypes
<1>5. QED
  BY <1>1, <1>2, <1>3, <1>4 DEF Init, MoreTypes

LEMMA MsgType ==
    ASSUME NEW channel \in Channel, NEW j \in Jobs, NEW err \in BOOLEAN
    PROVE  /\ Msg(channel, j, err) \in Message
           /\ Msg(channel, j, err).job = j
           /\ Msg(channel, j, err).channel = channel
BY DEF Msg, Message

LEMMA Delivered ==
    ASSUME MessageTypes, NEW msg \in Message, Deliver(msg)
    PROVE  /\ inbox' \in [Jobs -> Seq(Message)]
           /\ \A j \in Jobs : \/ inbox'[j] = inbox[j]
                              \/ (msg.channel \in subs[j]) /\ (inbox'[j] = Append(inbox[j], msg))
<1>1. ASSUME NEW j \in Jobs
      PROVE  inbox[j] \in Seq(Message) /\ Append(inbox[j], msg) \in Seq(Message)
  BY DEF MessageTypes
<1>2. ASSUME NEW j \in Jobs
      PROVE  inbox'[j] = IF msg.channel \in subs[j] THEN Append(inbox[j], msg) ELSE inbox[j]
  BY DEF Deliver
<1>3. inbox' \in [Jobs -> Seq(Message)]
  <2> DEFINE New(j) == IF msg.channel \in subs[j] THEN Append(inbox[j], msg) ELSE inbox[j]
  <2>1. \A j \in Jobs : New(j) \in Seq(Message)
    BY <1>1
  <2>2. inbox' = [j \in Jobs |-> New(j)]
    BY DEF Deliver
  <2> HIDE DEF New
  <2>3. QED
    BY <2>1, <2>2
<1>4. QED
  BY <1>2, <1>3

\* What a hotjob does to its subscriptions and messages: some go.
LEMMA HotjobMessages ==
    ASSUME MessageTypes, NEW j \in Jobs, HotjobStep(j)
    PROVE  /\ MessageTypes'
           /\ \A k \in Jobs : \/ inbox'[k] \in {inbox[k], <<>>}
                              \/ inbox[k] # <<>> /\ inbox'[k] = Tail(inbox[k])
<1> USE DEF MessageTypes
<1>1. CASE Subscribe(j)
  <2>1. subs' \in [Jobs -> SUBSET {"success", "fail"}] /\ inbox' = inbox
    BY <1>1 DEF Subscribe, ListenTo
  <2>2. QED
    BY <2>1
<1>2. ASSUME subs' = [subs EXCEPT ![j] = {}], inbox' = [inbox EXCEPT ![j] = <<>>]
      PROVE  /\ MessageTypes'
             /\ \A k \in Jobs : inbox'[k] \in {inbox[k], <<>>}
  BY <1>2
<1>3. CASE LoseSubscription(j)
  BY <1>2, <1>3 DEF LoseSubscription
<1>4. CASE OnMessage(j)
  <2>1. inbox[j] \in Seq(Message) /\ inbox[j] # <<>>
    BY <1>4 DEF OnMessage
  <2>2. CASE inbox' = [inbox EXCEPT ![j] = Tail(@)] /\ subs' = subs
    <3>1. Tail(inbox[j]) \in Seq(Message)
      BY <2>1
    <3>2. QED
      BY <2>1, <2>2, <3>1
  <2>3. CASE \E result \in {"item", "error", "nothing"} : Complete(j, result)
    BY <2>3, <1>2 DEF Complete
  <2>4. QED
    BY <1>4, <2>2, <2>3 DEF OnMessage
<1>5. CASE HotjobTimeout(j)
  BY <1>2, <1>5 DEF HotjobTimeout, Complete
<1>6. QED
  BY <1>1, <1>3, <1>4, <1>5 DEF HotjobStep

\* The creator.
LEMMA CreatorTyped ==
    ASSUME MoreTypes, AnnounceInv, NEW j \in Jobs,
           \/ \E opts \in Options : StartCreate(j, opts)
           \/ SaveQueue(j) \/ Push(j) \/ PushReply(j) \/ SaveDelayed(j)
           \/ CreateFails(j) \/ \E throws \in BOOLEAN : Created(j, throws)
    PROVE  MoreTypes'
<1> USE DEF MoreTypes
<1>1. ASSUME NEW next \in {"pushing", "indexing"}, Proceed(j, next)
      PROVE  CreatorTypes'
  BY <1>1 DEF Proceed, CreatorTypes
<1>2. ASSUME NEW channel \in Channel, NEW err \in BOOLEAN, Publish(channel, j, err)
      PROVE  MessageTypes' /\ UNCHANGED <<foreign, wasReset>>
  BY <1>2, MsgType, Delivered DEF Publish, MessageTypes
<1>3. ASSUME NEW s \in JobState, s \notin {"success", "fail"}, job[j] \notin {"success", "fail"},
             job' = [job EXCEPT ![j] = s], UNCHANGED <<options, lastError, runs, told, owed>>
      PROVE  JobTypes' /\ RunsLeft'
  BY <1>3 DEF JobTypes, RunsLeft
<1>4. ASSUME NEW opts \in Options, StartCreate(j, opts)
      PROVE  MoreTypes'
  <2>1. CreatorTypes'
    BY <1>4 DEF StartCreate, Create, CreatorTypes
  <2>2. JobTypes' /\ RunsLeft'
    BY <1>4 DEF StartCreate, JobTypes, RunsLeft
  <2>3. MessageTypes' /\ UNCHANGED <<foreign, wasReset>>
    BY <1>4 DEF StartCreate, hotjobVars, Silently, MessageTypes
  <2>4. QED
    BY <2>1, <2>2, <2>3
<1>5. CASE SaveQueue(j)
  <2>1. CreatorTypes'
    BY <1>1, <1>5 DEF SaveQueue
  <2>2. MessageTypes' /\ UNCHANGED <<foreign, wasReset>>
    BY <1>2, <1>5 DEF SaveQueue, Channel
  <2>3. JobTypes' /\ RunsLeft'
    BY <1>5 DEF SaveQueue, jobVars, JobTypes, RunsLeft
  <2>4. QED
    BY <2>1, <2>2, <2>3
<1>6. CASE Push(j)
  <2>1. CreatorTypes'
    BY <1>6 DEF Push, createVars, CreatorTypes
  <2>2. MessageTypes' /\ UNCHANGED <<foreign, wasReset>>
    BY <1>6 DEF Push, hotjobVars, Silently, MessageTypes
  <2>3. JobTypes' /\ RunsLeft'
    BY <1>3, <1>6 DEF Push, JobState
  <2>4. QED
    BY <2>1, <2>2, <2>3
<1>7. CASE PushReply(j)
  <2>1. CreatorTypes'
    BY <1>1, <1>7 DEF PushReply
  <2>2. MessageTypes' /\ UNCHANGED <<foreign, wasReset>>
    BY <1>2, <1>7 DEF PushReply, Channel
  <2>3. JobTypes' /\ RunsLeft'
    BY <1>7 DEF PushReply, jobVars, JobTypes, RunsLeft
  <2>4. QED
    BY <2>1, <2>2, <2>3
<1>8. CASE SaveDelayed(j)
  <2>1. CreatorTypes'
    BY <1>1, <1>8 DEF SaveDelayed
  <2>2. MessageTypes' /\ UNCHANGED <<foreign, wasReset>>
    BY <1>8 DEF SaveDelayed, hotjobVars, Silently, MessageTypes
  <2>3. job' = [job EXCEPT ![j] = "delayed"] /\ UNCHANGED <<options, lastError, runs, told, owed>>
    BY <1>8 DEF SaveDelayed
  <2>4. job[j] = "none"
    BY <1>8 DEF SaveDelayed, AnnounceInv, HeardOf
  <2>5. JobTypes' /\ RunsLeft'
    BY <1>3, <2>3, <2>4 DEF JobState
  <2>6. QED
    BY <2>1, <2>2, <2>5
<1>9. ASSUME CreateFails(j) \/ \E throws \in BOOLEAN : Created(j, throws)
      PROVE  MoreTypes'
  <2>1. JobTypes' /\ RunsLeft'
    BY <1>9 DEF CreateFails, Created, jobVars, JobTypes, RunsLeft
  <2>2. MessageTypes' /\ UNCHANGED <<foreign, wasReset>>
    BY <1>9 DEF CreateFails, Created, hotjobVars, Silently, MessageTypes
  <2>3. CASE CreateFails(j)
    <3>1. <<"err">> \in Seq({"ok", "err"})
      OBVIOUS
    <3>2. CreatorTypes'
      BY <2>3, <3>1 DEF CreateFails, OnFail, CreatorTypes
    <3>3. QED
      BY <2>1, <2>2, <3>2
  <2>4. ASSUME NEW throws \in BOOLEAN, Created(j, throws)
        PROVE  MoreTypes'
    <3>1. <<"ok", "err">> \in Seq({"ok", "err"}) /\ <<"ok">> \in Seq({"ok", "err"})
      OBVIOUS
    <3>2. CASE j \in disposed
      BY <2>1, <2>2, <2>4, <3>2 DEF Created, OnSuccess, CreatorTypes
    <3>3. CASE j \notin disposed /\ throws
      <4>1. /\ calls' = [calls EXCEPT ![j] = <<"ok", "err">>]
            /\ promise' = [promise EXCEPT ![j] = "rejected"]
            /\ threw' = threw \union {j} /\ disposed' = disposed
            /\ stage' = [stage EXCEPT ![j] = "closed"]
        BY <2>4, <3>3 DEF Created, OnSuccess
      <4>2. QED
        BY <2>1, <2>2, <3>1, <4>1 DEF CreatorTypes
    <3>4. CASE j \notin disposed /\ ~throws
      <4>1. /\ calls' = [calls EXCEPT ![j] = <<"ok">>]
            /\ promise' = [promise EXCEPT ![j] = "item"]
            /\ threw' = threw /\ disposed' = disposed
            /\ stage' = [stage EXCEPT ![j] = "closed"]
        BY <2>4, <3>4 DEF Created, OnSuccess
      <4>2. QED
        BY <2>1, <2>2, <3>1, <4>1 DEF CreatorTypes
    <3>5. QED
      BY <3>2, <3>3, <3>4
  <2>5. QED
    BY <1>9, <2>3, <2>4
<1>10. QED
  BY <1>4, <1>5, <1>6, <1>7, <1>8, <1>9

\* Workers and schedulers.
LEMMA OthersTyped ==
    ASSUME MoreTypes, NEW j \in Jobs,
           \/ \E err \in BOOLEAN : RunFails(j, err)
           \/ \E success, err \in BOOLEAN : RunEnds(j, success, err)
           \/ TellEnd(j) \/ Requeue(j) \/ TellQueued(j)
    PROVE  MoreTypes'
<1> USE DEF MoreTypes
<1>1. CreatorTypes'
  BY DEF RunFails, RunEnds, TellEnd, Requeue, TellQueued, createVars, CreatorTypes
<1>2. ASSUME NEW channel \in Channel, NEW err \in BOOLEAN, Publish(channel, j, err)
      PROVE  MessageTypes' /\ UNCHANGED <<foreign, wasReset>>
  BY <1>2, MsgType, Delivered DEF Publish, MessageTypes
<1>3. ASSUME hotjobVars' = hotjobVars, Silently
      PROVE  MessageTypes' /\ UNCHANGED <<foreign, wasReset>>
  BY <1>3 DEF hotjobVars, Silently, MessageTypes
<1>4. /\ job[j] \in JobState /\ runs[j] \in 0 .. MaxRuns /\ lastError[j] \in BOOLEAN
      /\ MaxRuns \in Nat /\ owed[j] \in Nat
  BY BoundAssumption DEF JobTypes
<1>5. ASSUME NEW err \in BOOLEAN, RunFails(j, err)
      PROVE  MoreTypes'
  <2>1. MessageTypes' /\ UNCHANGED <<foreign, wasReset>>
    BY <1>2, <1>5 DEF RunFails, Channel
  <2>2. /\ runs[j] < MaxRuns - 1
        /\ job' = [job EXCEPT ![j] = "retry"]
        /\ lastError' = [lastError EXCEPT ![j] = err]
        /\ runs' = [runs EXCEPT ![j] = runs[j] + 1]
        /\ UNCHANGED <<options, told, owed>>
    BY <1>5 DEF RunFails
  <2>3. runs[j] + 1 \in 0 .. MaxRuns /\ runs[j] + 1 < MaxRuns
    BY <2>2, <1>4
  <2>4. JobTypes' /\ RunsLeft'
    BY <2>2, <2>3 DEF JobTypes, RunsLeft, JobState
  <2>5. QED
    BY <1>1, <2>1, <2>4
<1>6. ASSUME NEW success \in BOOLEAN, NEW err \in BOOLEAN, RunEnds(j, success, err)
      PROVE  MoreTypes'
  <2>1. MessageTypes' /\ UNCHANGED <<foreign, wasReset>>
    BY <1>3, <1>6 DEF RunEnds
  <2>2. PICK s \in {"success", "fail"} : job' = [job EXCEPT ![j] = s]
    BY <1>6 DEF RunEnds
  <2>3. PICK e \in BOOLEAN : lastError' = [lastError EXCEPT ![j] = e]
    BY <1>4, <1>6 DEF RunEnds
  <2>4. /\ job[j] = "queued"
        /\ runs' = [runs EXCEPT ![j] = runs[j] + 1]
        /\ UNCHANGED <<options, told, owed>>
    BY <1>6 DEF RunEnds
  <2>5. runs[j] + 1 \in 0 .. MaxRuns
    BY <2>4, <1>4 DEF RunsLeft
  <2>6. JobTypes'
    BY <2>2, <2>3, <2>4, <2>5 DEF JobTypes, JobState
  <2>7. RunsLeft'
    BY <2>2, <2>4 DEF RunsLeft, JobTypes
  <2>8. QED
    BY <1>1, <2>1, <2>6, <2>7
<1>7. CASE TellEnd(j)
  <2>1. MessageTypes' /\ UNCHANGED <<foreign, wasReset>>
    BY <1>2, <1>4, <1>7 DEF TellEnd, Channel
  <2>2. JobTypes' /\ RunsLeft'
    BY <1>7 DEF TellEnd, JobTypes, RunsLeft
  <2>3. QED
    BY <1>1, <2>1, <2>2
<1>8. CASE Requeue(j)
  <2>1. MessageTypes' /\ UNCHANGED <<foreign, wasReset>>
    BY <1>3, <1>8 DEF Requeue
  <2>2. JobTypes' /\ RunsLeft'
    BY <1>4, <1>8 DEF Requeue, JobTypes, JobState, RunsLeft
  <2>3. QED
    BY <1>1, <2>1, <2>2
<1>9. CASE TellQueued(j)
  <2>1. MessageTypes' /\ UNCHANGED <<foreign, wasReset>>
    BY <1>2, <1>4, <1>9 DEF TellQueued, Channel
  <2>2. owed[j] - 1 \in Nat
    BY <1>4, <1>9 DEF TellQueued
  <2>3. JobTypes' /\ RunsLeft'
    BY <1>9, <2>2 DEF TellQueued, JobTypes, RunsLeft
  <2>4. QED
    BY <1>1, <2>1, <2>3
<1>10. QED
  BY <1>5, <1>6, <1>7, <1>8, <1>9

LEMMA NextTypes == MoreTypes /\ AnnounceInv /\ [Next]_vars => MoreTypes'
<1> SUFFICES ASSUME MoreTypes, AnnounceInv, [Next]_vars
             PROVE  MoreTypes'
  OBVIOUS
<1> USE DEF MoreTypes
<1>1. ASSUME NEW msg \in [channel : Channel, job : Others, lastError : BOOLEAN],
             ForeignMessage(msg)
      PROVE  MoreTypes'
  <2>1. msg \in Message /\ Deliver(msg) /\ UNCHANGED <<subs, wasReset>>
    BY <1>1 DEF ForeignMessage, Message
  <2>2. MessageTypes'
    BY <2>1, Delivered DEF MessageTypes
  <2>3. CreatorTypes' /\ JobTypes' /\ RunsLeft'
    BY <1>1 DEF ForeignMessage, createVars, jobVars, CreatorTypes, JobTypes, RunsLeft
  <2>4. foreign' \in 0 .. MaxForeign
    BY <1>1, BoundAssumption DEF ForeignMessage
  <2>5. QED
    BY <2>1, <2>2, <2>3, <2>4
<1>2. ASSUME NEW j \in Jobs, HotjobStep(j)
      PROVE  MoreTypes'
  <2>1. CreatorTypes' /\ JobTypes' /\ RunsLeft' /\ UNCHANGED <<foreign, wasReset>>
    BY <1>2 DEF HotjobStep, Silently, createVars, jobVars, CreatorTypes, JobTypes, RunsLeft
  <2>2. QED
    BY <1>2, <2>1, HotjobMessages
<1>3. CASE Reset
  <2>1. CreatorTypes'
    BY <1>3 DEF Reset, DisposeCreators, CreatorTypes
  <2>2. MessageTypes'
    BY <1>3 DEF Reset, EndHotjobClients, MessageTypes
  <2>3. JobTypes' /\ RunsLeft' /\ foreign' = foreign /\ wasReset' \in BOOLEAN
    BY <1>3 DEF Reset, jobVars, JobTypes, RunsLeft
  <2>4. QED
    BY <2>1, <2>2, <2>3
<1>4. CASE UNCHANGED vars
  BY <1>4 DEF vars, hotjobVars, createVars, jobVars,
              CreatorTypes, JobTypes, RunsLeft, MessageTypes
<1>5. QED
  BY <1>1, <1>2, <1>3, <1>4, CreatorTyped, OthersTyped DEF Next

\* Every variable keeps its type, for any numbers of jobs, runs and messages.
THEOREM PubSubTypes == Spec => []TypeOK
<1>1. HotjobInv /\ AnnounceInv /\ MoreTypes => TypeOK
  BY DEF TypeOK, HotjobInv, HotjobTypes, AnnounceInv, AnnounceTypes, MoreTypes,
         CreatorTypes, JobTypes, MessageTypes, Message
<1>2. QED
  BY <1>1, InitHotjob, NextHotjob, InitAnnounce, NextAnnounce, InitTypes, NextTypes,
     PTL DEF Spec

-----------------------------------------------------------------------------
(***************************************************************************)
(* What a hotjob says of its job.                                          *)
(***************************************************************************)

\* redis knows that a job succeeded, and has said so; or a run of it failed.
SaidSuccess(j) == job[j] = "success" /\ told[j]
SomeRunFailed(j) == job[j] = "fail" \/ runs[j] > (IF job[j] = "success" THEN 1 ELSE 0)

\* Neither is ever taken back.
FactsStay ==
    \A j \in Jobs : /\ SaidSuccess(j) => SaidSuccess(j)'
                    /\ SomeRunFailed(j) => SomeRunFailed(j)'

\* The messages under way to the hotjob of k that are about k are about an
\* outcome, and true.
TrueOf(msg, k) ==
    msg.job = k => \/ (msg.channel = "success") /\ SaidSuccess(k)
                   \/ (msg.channel = "fail") /\ SomeRunFailed(k)
MessagesAreTrue == \A k \in Jobs : \A i \in DOMAIN inbox[k] : TrueOf(inbox[k][i], k)

VerdictInv == VerdictIsTrue /\ MessagesAreTrue

LEMMA VerdictTrue ==
    VerdictIsTrue <=> \A j \in Jobs : /\ verdict[j] = "item" => SaidSuccess(j)
                                      /\ verdict[j] \in {"error", "nothing"} => SomeRunFailed(j)
BY DEF VerdictIsTrue, SaidSuccess, SomeRunFailed

LEMMA InitVerdict == Init => VerdictInv
BY DEF Init, HotjobInit, VerdictInv, VerdictIsTrue, MessagesAreTrue

LEMMA FactsAreKept == MoreTypes /\ AnnounceInv /\ [Next]_vars => FactsStay
<1> SUFFICES ASSUME MoreTypes, AnnounceInv, [Next]_vars
             PROVE  FactsStay
  OBVIOUS
<1> USE DEF FactsStay, SaidSuccess, SomeRunFailed
<1>1. /\ job \in [Jobs -> JobState] /\ told \in [Jobs -> BOOLEAN]
      /\ runs \in [Jobs -> 0 .. MaxRuns] /\ \A j \in Jobs : runs[j] \in Nat
  BY BoundAssumption DEF MoreTypes, JobTypes
<1>2. CASE UNCHANGED <<job, told, runs>>
  BY <1>2
\* No step takes a job out of "success" or "fail", or counts runs down.
<1>3. ASSUME NEW j \in Jobs, NEW s \in JobState, job[j] \notin {"success", "fail"},
             job' = [job EXCEPT ![j] = s], s \notin {"success", "fail"},
             NEW n \in Nat, n >= runs[j], runs' = [runs EXCEPT ![j] = n], told' = told
      PROVE  FactsStay
  BY <1>1, <1>3
<1>4. ASSUME NEW j \in Jobs
      PROVE  runs = [runs EXCEPT ![j] = runs[j]] /\ runs[j] \in Nat
  BY <1>1
<1>5. ASSUME NEW j \in Jobs, Push(j) \/ SaveDelayed(j) \/ Requeue(j)
      PROVE  FactsStay
  <2>1. job[j] \notin {"success", "fail"} /\ told' = told /\ runs' = runs
    BY <1>5 DEF Push, SaveDelayed, Requeue, AnnounceInv, HeardOf
  <2>2. PICK s \in {"queued", "delayed"} : job' = [job EXCEPT ![j] = s]
    BY <1>5 DEF Push, SaveDelayed, Requeue
  <2>3. QED
    BY <1>1, <2>1, <2>2
<1>6. ASSUME NEW j \in Jobs, NEW err \in BOOLEAN, RunFails(j, err)
      PROVE  FactsStay
  <2>1. /\ job[j] = "queued" /\ job' = [job EXCEPT ![j] = "retry"] /\ told' = told
        /\ runs' = [runs EXCEPT ![j] = runs[j] + 1]
    BY <1>6 DEF RunFails
  <2>2. QED
    BY <1>1, <2>1
<1>7. ASSUME NEW j \in Jobs, NEW success \in BOOLEAN, NEW err \in BOOLEAN,
             RunEnds(j, success, err)
      PROVE  FactsStay
  <2>1. /\ job[j] = "queued" /\ told' = told
        /\ runs' = [runs EXCEPT ![j] = runs[j] + 1]
    BY <1>7 DEF RunEnds
  <2>2. PICK s \in {"success", "fail"} : job' = [job EXCEPT ![j] = s]
    BY <1>7 DEF RunEnds
  <2>3. QED
    BY <1>1, <2>1, <2>2
<1>8. ASSUME NEW j \in Jobs, TellEnd(j)
      PROVE  FactsStay
  BY <1>1, <1>8 DEF TellEnd
<1>9. ASSUME NEW j \in Jobs,
             \/ \E opts \in Options : StartCreate(j, opts)
             \/ SaveQueue(j) \/ PushReply(j) \/ CreateFails(j)
             \/ \E throws \in BOOLEAN : Created(j, throws)
             \/ TellQueued(j) \/ HotjobStep(j)
      PROVE  UNCHANGED <<job, told, runs>>
  BY <1>9 DEF StartCreate, SaveQueue, PushReply, CreateFails, Created, TellQueued,
              HotjobStep, jobVars
<1>10. ASSUME NEW msg, ForeignMessage(msg)
       PROVE  UNCHANGED <<job, told, runs>>
  BY <1>10 DEF ForeignMessage, jobVars
<1>11. CASE Reset
  BY <1>2, <1>11 DEF Reset, jobVars
<1>12. CASE UNCHANGED vars
  BY <1>2, <1>12 DEF vars, jobVars
<1>13. QED
  BY <1>2, <1>5, <1>6, <1>7, <1>8, <1>9, <1>10, <1>11, <1>12 DEF Next

\* Of the messages of a hotjob some go, or one comes that is about another
\* job, or "create" or "queued", or true. (The former two are not subscribed to.)
LEMMA MessagesKept ==
    ASSUME MoreTypes, FactsStay, MessagesAreTrue,
           \A k \in Jobs :
              \/ inbox'[k] \in {inbox[k], <<>>}
              \/ inbox[k] # <<>> /\ inbox'[k] = Tail(inbox[k])
              \/ \E msg \in Message : inbox'[k] = Append(inbox[k], msg) /\ TrueOf(msg, k)'
    PROVE  MessagesAreTrue'
<1>1. ASSUME NEW k \in Jobs
      PROVE  inbox[k] \in Seq(Message)
  BY DEF MoreTypes, MessageTypes
<1>2. ASSUME NEW k \in Jobs, NEW msg, TrueOf(msg, k)
      PROVE  TrueOf(msg, k)'
  BY <1>2 DEF TrueOf, FactsStay
<1>3. ASSUME NEW k \in Jobs, NEW i \in DOMAIN inbox'[k], NEW msg, msg = inbox'[k][i]
      PROVE  TrueOf(msg, k)'
  <2>1. ASSUME NEW n \in DOMAIN inbox[k], msg = inbox[k][n]
        PROVE  TrueOf(msg, k)'
    <3>1. TrueOf(msg, k)
      BY <2>1 DEF MessagesAreTrue
    <3>2. QED
      BY <1>2, <3>1
  <2>2. CASE inbox'[k] \in {inbox[k], <<>>}
    BY <1>3, <2>1, <2>2
  <2>3. CASE inbox[k] # <<>> /\ inbox'[k] = Tail(inbox[k])
    <3>1. i + 1 \in DOMAIN inbox[k] /\ msg = inbox[k][i + 1]
      BY <1>1, <1>3, <2>3
    <3>2. QED
      BY <2>1, <3>1
  <2>4. ASSUME NEW new \in Message, inbox'[k] = Append(inbox[k], new), TrueOf(new, k)'
        PROVE  TrueOf(msg, k)'
    <3>1. \/ i \in DOMAIN inbox[k] /\ msg = inbox[k][i]
          \/ msg = new
      BY <1>1, <1>3, <2>4
    <3>2. CASE msg = new
      BY <2>4, <3>2
    <3>3. QED
      BY <2>1, <3>1, <3>2
  <2>5. QED
    BY <2>2, <2>3, <2>4
<1>4. QED
  BY <1>3 DEF MessagesAreTrue

\* A message is published that is true if somebody listens to its channel.
LEMMA PublishedTruly ==
    ASSUME MoreTypes, FactsStay, MessagesAreTrue,
           NEW j \in Jobs, NEW channel \in Channel, NEW err \in BOOLEAN,
           Publish(channel, j, err),
           channel = "success" => SaidSuccess(j)',
           channel = "fail" => SomeRunFailed(j)'
    PROVE  MessagesAreTrue'
<1> DEFINE new == Msg(channel, j, err)
<1>1. new \in Message /\ new.job = j /\ new.channel = channel
  BY MsgType
<1>2. Deliver(new) /\ MessageTypes
  BY DEF Publish, MoreTypes
<1> HIDE DEF new
<1>3. ASSUME NEW k \in Jobs, channel \in subs[k]
      PROVE  TrueOf(new, k)'
  <2>1. channel \in {"success", "fail"}
    BY <1>2, <1>3 DEF MessageTypes
  <2>2. CASE k = j
    BY <1>1, <2>1, <2>2 DEF TrueOf, new, Msg
  <2>3. CASE k # j
    BY <1>1, <2>3 DEF TrueOf, new, Msg
  <2>4. QED
    BY <2>2, <2>3
<1>4. \A k \in Jobs : \/ inbox'[k] \in {inbox[k], <<>>}
                      \/ inbox'[k] = Append(inbox[k], new) /\ TrueOf(new, k)'
  BY <1>1, <1>2, <1>3, Delivered
<1>5. \A k \in Jobs :
         \/ inbox'[k] \in {inbox[k], <<>>}
         \/ \E msg \in Message : inbox'[k] = Append(inbox[k], msg) /\ TrueOf(msg, k)'
  BY <1>1, <1>4
<1>6. QED
  BY <1>5, MessagesKept

LEMMA NextMessages ==
    MoreTypes /\ FactsStay /\ MessagesAreTrue /\ [Next]_vars => MessagesAreTrue'
<1> SUFFICES ASSUME MoreTypes, FactsStay, MessagesAreTrue, [Next]_vars
             PROVE  MessagesAreTrue'
  OBVIOUS
<1>1. CASE \A k \in Jobs : inbox'[k] \in {inbox[k], <<>>}
  BY <1>1, MessagesKept
<1>2. ASSUME NEW j \in Jobs, SaveQueue(j)
      PROVE  MessagesAreTrue'
  <2>1. Publish("create", j, FALSE) /\ "create" \in Channel
    BY <1>2 DEF SaveQueue, Channel
  <2>2. QED
    BY <2>1, PublishedTruly
<1>3. ASSUME NEW j \in Jobs, PushReply(j)
      PROVE  MessagesAreTrue'
  <2>1. Publish("queued", j, FALSE) /\ "queued" \in Channel
    BY <1>3 DEF PushReply, Channel
  <2>2. QED
    BY <2>1, PublishedTruly
<1>4. ASSUME NEW j \in Jobs, TellQueued(j)
      PROVE  MessagesAreTrue'
  <2>1. Publish("queued", j, lastError[j]) /\ "queued" \in Channel /\ lastError[j] \in BOOLEAN
    BY <1>4 DEF TellQueued, Channel, MoreTypes, JobTypes
  <2>2. QED
    BY <2>1, PublishedTruly
<1>5. ASSUME NEW j \in Jobs, NEW err \in BOOLEAN, RunFails(j, err)
      PROVE  MessagesAreTrue'
  <2>1. Publish("fail", j, err) /\ "fail" \in Channel
    BY <1>5 DEF RunFails, Channel
  <2>2. SomeRunFailed(j)'
    <3>1. job'[j] = "retry" /\ runs'[j] = runs[j] + 1 /\ runs[j] \in Nat
      BY <1>5, BoundAssumption DEF RunFails, MoreTypes, JobTypes
    <3>2. QED
      BY <3>1 DEF SomeRunFailed
  <2>3. QED
    BY <2>1, <2>2, PublishedTruly
<1>6. ASSUME NEW j \in Jobs, TellEnd(j)
      PROVE  MessagesAreTrue'
  <2>1. /\ Publish(job[j], j, lastError[j]) /\ job[j] \in {"success", "fail"}
        /\ lastError[j] \in BOOLEAN /\ job'[j] = job[j] /\ told'[j] = TRUE
    BY <1>6 DEF TellEnd, MoreTypes, JobTypes
  <2>2. job[j] \in Channel
    BY <2>1 DEF Channel
  <2>3. /\ job[j] = "success" => SaidSuccess(j)'
        /\ job[j] = "fail" => SomeRunFailed(j)'
    BY <2>1 DEF SaidSuccess, SomeRunFailed
  <2>4. QED
    BY <2>1, <2>2, <2>3, PublishedTruly
<1>7. ASSUME NEW msg \in [channel : Channel, job : Others, lastError : BOOLEAN],
             ForeignMessage(msg)
      PROVE  MessagesAreTrue'
  <2>1. msg \in Message /\ Deliver(msg) /\ msg.job \notin Jobs
    BY <1>7, OthersAssumption DEF ForeignMessage, Message
  <2>2. \A k \in Jobs : TrueOf(msg, k)'
    BY <2>1 DEF TrueOf
  <2>3. \A k \in Jobs : inbox'[k] = inbox[k] \/ inbox'[k] = Append(inbox[k], msg)
    BY <2>1, Delivered DEF MoreTypes
  <2>4. QED
    BY <2>1, <2>2, <2>3, MessagesKept
<1>8. ASSUME NEW j \in Jobs, HotjobStep(j)
      PROVE  MessagesAreTrue'
  BY <1>8, HotjobMessages, MessagesKept DEF MoreTypes
<1>9. ASSUME NEW j \in Jobs,
             \/ \E opts \in Options : StartCreate(j, opts)
             \/ Push(j) \/ SaveDelayed(j) \/ CreateFails(j)
             \/ \E throws \in BOOLEAN : Created(j, throws)
             \/ \E success, err \in BOOLEAN : RunEnds(j, success, err)
             \/ Requeue(j)
      PROVE  inbox' = inbox
  BY <1>9 DEF StartCreate, Push, SaveDelayed, CreateFails, Created, RunEnds, Requeue,
              hotjobVars
<1>10. CASE Reset
  BY <1>1, <1>10 DEF Reset, EndHotjobClients
<1>11. CASE UNCHANGED vars
  BY <1>1, <1>11 DEF vars, hotjobVars
<1>12. QED
  BY <1>1, <1>2, <1>3, <1>4, <1>5, <1>6, <1>7, <1>8, <1>9, <1>10, <1>11 DEF Next

\* A verdict is given when a message about the job is handled, or the timer is
\* up; and hotjobs are set up without one.
LEMMA NextVerdict ==
    MoreTypes /\ HotjobInv /\ FactsStay /\ VerdictInv /\ [Next]_vars => VerdictIsTrue'
<1> SUFFICES ASSUME MoreTypes, HotjobInv, FactsStay, VerdictInv, [Next]_vars
             PROVE  VerdictIsTrue'
  OBVIOUS
<1>1. verdict \in [Jobs -> Settled \union {"none", "pending"}]
  BY DEF HotjobInv, HotjobTypes
<1>2. ASSUME NEW j \in Jobs, NEW v, verdict' = [verdict EXCEPT ![j] = v],
             v = "item" => SaidSuccess(j)',
             v \in {"error", "nothing"} => SomeRunFailed(j)'
      PROVE  VerdictIsTrue'
  <2>1. ASSUME NEW k \in Jobs
        PROVE  /\ verdict'[k] = "item" => SaidSuccess(k)'
               /\ verdict'[k] \in {"error", "nothing"} => SomeRunFailed(k)'
    <3>1. CASE k = j
      BY <1>1, <1>2, <3>1
    <3>2. CASE k # j
      BY <1>1, <1>2, <3>2, VerdictTrue DEF VerdictInv, FactsStay
    <3>3. QED
      BY <3>1, <3>2
  <2>2. QED
    BY <2>1 DEF VerdictIsTrue, SaidSuccess, SomeRunFailed
<1>3. CASE verdict' = verdict
  <2>1. ASSUME NEW k \in Jobs
        PROVE  /\ verdict'[k] = "item" => SaidSuccess(k)'
               /\ verdict'[k] \in {"error", "nothing"} => SomeRunFailed(k)'
    BY <1>3, VerdictTrue DEF VerdictInv, FactsStay
  <2>2. QED
    BY <2>1 DEF VerdictIsTrue, SaidSuccess, SomeRunFailed
<1>4. ASSUME NEW j \in Jobs, PushReply(j)
      PROVE  VerdictIsTrue'
  <2>1. verdict' = verdict \/ verdict' = [verdict EXCEPT ![j] = "pending"]
    BY <1>4 DEF PushReply, Check
  <2>2. QED
    BY <2>1, <1>2, <1>3
<1>5. ASSUME NEW j \in Jobs, OnMessage(j)
      PROVE  VerdictIsTrue'
  <2> DEFINE msg == Head(inbox[j])
  <2>1. inbox[j] # <<>> /\ inbox[j] \in Seq(Message)
    BY <1>5 DEF OnMessage, MoreTypes, MessageTypes
  <2>2. TrueOf(msg, j)
    BY <2>1 DEF VerdictInv, MessagesAreTrue
  <2>3. CASE msg.job # j
    BY <1>3, <1>5, <2>3 DEF OnMessage
  <2>4. CASE msg.job = j /\ msg.channel = "success"
    <3>1. verdict' = [verdict EXCEPT ![j] = "item"]
      BY <1>5, <2>4 DEF OnMessage, Complete
    <3>2. SaidSuccess(j)'
      BY <2>2, <2>4 DEF TrueOf, FactsStay
    <3>3. QED
      BY <1>2, <3>1, <3>2
  <2>5. CASE msg.job = j /\ msg.channel # "success"
    <3>1. PICK v \in {"error", "nothing"} : verdict' = [verdict EXCEPT ![j] = v]
      BY <1>5, <2>5 DEF OnMessage, Complete
    <3>2. SomeRunFailed(j)'
      BY <2>2, <2>5 DEF TrueOf, FactsStay
    <3>3. QED
      BY <1>2, <3>1, <3>2
  <2>6. QED
    BY <2>3, <2>4, <2>5
<1>6. ASSUME NEW j \in Jobs, HotjobStep(j)
      PROVE  VerdictIsTrue'
  <2>1. CASE HotjobTimeout(j)
    BY <1>2, <2>1 DEF HotjobTimeout, Complete
  <2>2. CASE Subscribe(j) \/ LoseSubscription(j)
    BY <1>3, <2>2 DEF Subscribe, LoseSubscription
  <2>3. QED
    BY <1>5, <1>6, <2>1, <2>2 DEF HotjobStep
<1>7. ASSUME NEW j \in Jobs,
             \/ \E opts \in Options : StartCreate(j, opts)
             \/ SaveQueue(j) \/ Push(j) \/ SaveDelayed(j) \/ CreateFails(j)
             \/ \E throws \in BOOLEAN : Created(j, throws)
             \/ \E err \in BOOLEAN : RunFails(j, err)
             \/ \E success, err \in BOOLEAN : RunEnds(j, success, err)
             \/ TellEnd(j) \/ Requeue(j) \/ TellQueued(j)
      PROVE  verdict' = verdict
  BY <1>7 DEF StartCreate, SaveQueue, Push, SaveDelayed, CreateFails, Created,
              RunFails, RunEnds, TellEnd, Requeue, TellQueued, hotjobVars
<1>8. ASSUME NEW msg, ForeignMessage(msg)
      PROVE  verdict' = verdict
  BY <1>8 DEF ForeignMessage
<1>9. CASE Reset
  BY <1>3, <1>9 DEF Reset, EndHotjobClients
<1>10. CASE UNCHANGED vars
  BY <1>3, <1>10 DEF vars, hotjobVars
<1>11. QED
  BY <1>3, <1>4, <1>6, <1>7, <1>8, <1>9, <1>10 DEF Next

\* The promise of a hotjob is resolved with the item only if redis knows its
\* job as successful and has said so, and its error is that of a failed run of
\* that job; whatever other jobs of the name publish, in whatever order messages
\* are sent, lost and handled.
THEOREM VerdictsAreTrue == Spec => []VerdictIsTrue
<1> DEFINE Inv == HotjobInv /\ AnnounceInv /\ MoreTypes /\ VerdictInv
<1>1. Init => Inv
  BY InitHotjob, InitAnnounce, InitTypes, InitVerdict
<1>2. Inv /\ [Next]_vars => Inv'
  BY NextHotjob, NextAnnounce, NextTypes, FactsAreKept, NextMessages, NextVerdict
     DEF VerdictInv
<1>3. Inv => VerdictIsTrue
  BY DEF VerdictInv
<1>4. QED
  BY <1>1, <1>2, <1>3, PTL DEF Spec

-----------------------------------------------------------------------------
(***************************************************************************)
(* What a creator reports.                                                 *)
(***************************************************************************)

\* Before its last command a creator has pushed or scheduled its job, and has
\* set up the hotjob that was asked for.
CreatorKnows ==
    \A j \in Jobs : stage[j] = "indexing" =>
        /\ job[j] # "none"
        /\ options[j].hotjob /\ ~options[j].delayed => verdict[j] # "none"

LEMMA InitCreatorKnows == Init => CreatorKnows
BY DEF Init, CreateInit, CreatorKnows

\* Neither a job nor a promise goes back to where it was before it was made.
LEMMA NothingUndone ==
    ASSUME MoreTypes, HotjobInv, [Next]_vars, NEW k \in Jobs
    PROVE  /\ job[k] # "none" => job'[k] # "none"
           /\ verdict[k] # "none" => verdict'[k] # "none"
<1> USE DEF MoreTypes, JobTypes, HotjobInv, HotjobTypes
<1>1. ASSUME NEW j \in Jobs, HotjobStep(j)
      PROVE  verdict[k] # "none" => verdict'[k] # "none"
  <2>1. \/ verdict' = verdict
        \/ \E v \in {"item", "error", "nothing", "timeout"} : verdict' = [verdict EXCEPT ![j] = v]
    BY <1>1 DEF HotjobStep, Subscribe, LoseSubscription, OnMessage, HotjobTimeout, Complete
  <2>2. QED
    BY <2>1
<1>2. ASSUME NEW j \in Jobs, PushReply(j)
      PROVE  verdict[k] # "none" => verdict'[k] # "none"
  <2>1. verdict' = verdict \/ verdict' = [verdict EXCEPT ![j] = "pending"]
    BY <1>2 DEF PushReply, Check
  <2>2. QED
    BY <2>1
<1>3. ASSUME NEW j \in Jobs,
             \/ \E opts \in Options : StartCreate(j, opts)
             \/ SaveQueue(j) \/ Push(j) \/ SaveDelayed(j) \/ CreateFails(j)
             \/ \E throws \in BOOLEAN : Created(j, throws)
             \/ \E err \in BOOLEAN : RunFails(j, err)
             \/ \E success, err \in BOOLEAN : RunEnds(j, success, err)
             \/ TellEnd(j) \/ Requeue(j) \/ TellQueued(j)
      PROVE  verdict' = verdict
  BY <1>3 DEF StartCreate, SaveQueue, Push, SaveDelayed, CreateFails, Created,
              RunFails, RunEnds, TellEnd, Requeue, TellQueued, hotjobVars
<1>4. ASSUME NEW j \in Jobs,
             \/ Push(j) \/ SaveDelayed(j) \/ Requeue(j)
             \/ \E err \in BOOLEAN : RunFails(j, err)
             \/ \E success, err \in BOOLEAN : RunEnds(j, success, err)
      PROVE  job[k] # "none" => job'[k] # "none"
  <2>1. PICK s \in {"queued", "delayed", "retry", "success", "fail"} :
            job' = [job EXCEPT ![j] = s]
    BY <1>4 DEF Push, SaveDelayed, Requeue, RunFails, RunEnds
  <2>2. QED
    BY <2>1
<1>5. ASSUME NEW j \in Jobs,
             \/ \E opts \in Options : StartCreate(j, opts)
             \/ SaveQueue(j) \/ PushReply(j) \/ CreateFails(j)
             \/ \E throws \in BOOLEAN : Created(j, throws)
             \/ TellEnd(j) \/ TellQueued(j) \/ HotjobStep(j)
      PROVE  job' = job
  BY <1>5 DEF StartCreate, SaveQueue, PushReply, CreateFails, Created, TellEnd,
              TellQueued, HotjobStep, jobVars
<1>6. ASSUME (\E msg : ForeignMessage(msg)) \/ Reset \/ UNCHANGED vars
      PROVE  job' = job /\ verdict' = verdict
  BY <1>6 DEF ForeignMessage, Reset, EndHotjobClients, jobVars, vars, hotjobVars
<1>7. QED
  BY <1>1, <1>2, <1>3, <1>4, <1>5, <1>6 DEF Next

LEMMA NextCreatorKnows ==
    MoreTypes /\ HotjobInv /\ CreatorKnows /\ [Next]_vars => CreatorKnows'
<1> SUFFICES ASSUME MoreTypes, HotjobInv, CreatorKnows, [Next]_vars, NEW k \in Jobs,
                    stage'[k] = "indexing"
             PROVE  /\ job'[k] # "none"
                    /\ options'[k].hotjob /\ ~options'[k].delayed => verdict'[k] # "none"
  BY DEF CreatorKnows
<1> USE DEF MoreTypes, CreatorTypes, JobTypes
\* A creator that was there already has the options it had.
<1>1. CASE stage[k] = "indexing" /\ options'[k] = options[k]
  BY <1>1, NothingUndone DEF CreatorKnows
<1>2. ASSUME NEW j \in Jobs, NEW opts \in Options, StartCreate(j, opts)
      PROVE  stage[k] = "indexing" /\ options'[k] = options[k]
  <2>1. /\ stage' = [stage EXCEPT ![j] = "saving"]
        /\ options' = [options EXCEPT ![j] = opts]
    BY <1>2 DEF StartCreate, Create
  <2>2. QED
    BY <2>1
<1>3. ASSUME NEW j \in Jobs, PushReply(j)
      PROVE  \/ stage[k] = "indexing" /\ options'[k] = options[k]
             \/ /\ job'[k] # "none"
                /\ options'[k].hotjob /\ ~options'[k].delayed => verdict'[k] # "none"
  <2>1. /\ stage' = [stage EXCEPT ![j] = "indexing"] /\ job' = job /\ options' = options
        /\ job[j] # "none" /\ Check(j, options[j].hotjob)
    BY <1>3 DEF PushReply, Proceed, jobVars
  <2>2. CASE k = j
    <3>1. options[j].hotjob => verdict'[j] = "pending"
      BY <2>1 DEF Check, HotjobInv, HotjobTypes
    <3>2. QED
      BY <2>1, <2>2, <3>1
  <2>3. CASE k # j
    BY <2>1, <2>3
  <2>4. QED
    BY <2>2, <2>3
<1>4. ASSUME NEW j \in Jobs, SaveDelayed(j)
      PROVE  \/ stage[k] = "indexing" /\ options'[k] = options[k]
             \/ /\ job'[k] # "none"
                /\ options'[k].hotjob /\ ~options'[k].delayed => verdict'[k] # "none"
  <2>1. /\ stage' = [stage EXCEPT ![j] = "indexing"] /\ options' = options
        /\ job' = [job EXCEPT ![j] = "delayed"] /\ options[j].delayed
    BY <1>4 DEF SaveDelayed, Proceed
  <2>2. QED
    BY <2>1
<1>5. ASSUME NEW j \in Jobs, SaveQueue(j) \/ CreateFails(j)
                             \/ \E throws \in BOOLEAN : Created(j, throws)
      PROVE  stage[k] = "indexing" /\ options'[k] = options[k]
  <2>1. options' = options /\ \E s \in {"pushing", "closed"} : stage' = [stage EXCEPT ![j] = s]
    BY <1>5 DEF SaveQueue, CreateFails, Created, Proceed, OnFail, OnSuccess, jobVars
  <2>2. QED
    BY <2>1
<1>6. ASSUME NEW j \in Jobs,
             \/ Push(j) \/ TellEnd(j) \/ Requeue(j) \/ TellQueued(j) \/ HotjobStep(j)
             \/ \E err \in BOOLEAN : RunFails(j, err)
             \/ \E success, err \in BOOLEAN : RunEnds(j, success, err)
      PROVE  stage' = stage /\ options' = options
  BY <1>6 DEF Push, TellEnd, Requeue, TellQueued, HotjobStep, RunFails, RunEnds,
              createVars, jobVars
<1>7. ASSUME (\E msg : ForeignMessage(msg)) \/ Reset \/ UNCHANGED vars
      PROVE  stage' = stage /\ options' = options
  BY <1>7 DEF ForeignMessage, Reset, DisposeCreators, createVars, jobVars, vars
<1>8. QED
  BY <1>1, <1>2, <1>3, <1>4, <1>5, <1>6, <1>7 DEF Next

\* A step reports to the caller of j only when the creator is done with it.
Reliable(j) ==
    calls'[j] # calls[j] =>
        /\ j \notin disposed
        /\ calls'[j][1] = "ok" =>
              /\ job[j] # "none"
              /\ options[j].hotjob /\ ~options[j].delayed => verdict[j] # "none"
        /\ Len(calls'[j]) > 1 => calls'[j] = <<"ok", "err">> /\ j \in threw'

LEMMA ReportStep ==
    ASSUME MoreTypes, CreatorKnows, [Next]_vars, NEW k \in Jobs
    PROVE  Reliable(k)
<1> USE DEF MoreTypes, CreatorTypes
<1>1. ASSUME NEW j \in Jobs, NEW throws \in BOOLEAN, Created(j, throws)
      PROVE  Reliable(k)
  <2>1. CASE j \in disposed
    BY <1>1, <2>1 DEF Created, OnSuccess, Reliable
  <2>2. CASE j \notin disposed /\ throws
    <3>1. /\ calls' = [calls EXCEPT ![j] = <<"ok", "err">>]
          /\ threw' = threw \union {j} /\ stage[j] = "indexing"
      BY <1>1, <2>2 DEF Created, OnSuccess
    <3>2. QED
      BY <2>2, <3>1 DEF Reliable, CreatorKnows
  <2>3. CASE j \notin disposed /\ ~throws
    <3>1. calls' = [calls EXCEPT ![j] = <<"ok">>] /\ stage[j] = "indexing"
      BY <1>1, <2>3 DEF Created, OnSuccess
    <3>2. QED
      BY <2>3, <3>1 DEF Reliable, CreatorKnows
  <2>4. QED
    BY <2>1, <2>2, <2>3
<1>2. ASSUME NEW j \in Jobs, CreateFails(j)
      PROVE  Reliable(k)
  <2>1. CASE j \in disposed
    BY <1>2, <2>1 DEF CreateFails, OnFail, Reliable
  <2>2. CASE j \notin disposed
    <3>1. calls' = [calls EXCEPT ![j] = <<"err">>]
      BY <1>2, <2>2 DEF CreateFails, OnFail
    <3>2. Len(<<"err">>) = 1 /\ <<"err">>[1] = "err"
      OBVIOUS
    <3>3. QED
      BY <2>2, <3>1, <3>2 DEF Reliable
  <2>3. QED
    BY <2>1, <2>2
<1>3. ASSUME NEW j \in Jobs,
             \/ \E opts \in Options : StartCreate(j, opts)
             \/ SaveQueue(j) \/ Push(j) \/ PushReply(j) \/ SaveDelayed(j)
             \/ TellEnd(j) \/ Requeue(j) \/ TellQueued(j) \/ HotjobStep(j)
             \/ \E err \in BOOLEAN : RunFails(j, err)
             \/ \E success, err \in BOOLEAN : RunEnds(j, success, err)
      PROVE  calls' = calls
  BY <1>3 DEF StartCreate, Create, SaveQueue, Push, PushReply, SaveDelayed, Proceed,
              TellEnd, Requeue, TellQueued, HotjobStep, RunFails, RunEnds, createVars
<1>4. ASSUME (\E msg : ForeignMessage(msg)) \/ Reset \/ UNCHANGED vars
      PROVE  calls' = calls
  BY <1>4 DEF ForeignMessage, Reset, DisposeCreators, createVars, vars
<1>5. CASE calls' = calls
  BY <1>5 DEF Reliable
<1>6. QED
  BY <1>1, <1>2, <1>3, <1>4, <1>5 DEF Next

\* After "ok" the job is in redis and the caller of a hotjob has a promise;
\* "err" after "ok" only tells of an exception of the callback; and a caller
\* that was disposed of hears nothing. In each step, for any number of creators,
\* whatever command fails and whenever kickq.reset is called.
THEOREM ReportsCanBeReliedOn == Spec => ReportsAreReliable
<1> DEFINE Inv == HotjobInv /\ AnnounceInv /\ MoreTypes /\ CreatorKnows
           Step == \A j \in Jobs : Reliable(j)
<1>1. Init => Inv
  BY InitHotjob, InitAnnounce, InitTypes, InitCreatorKnows
<1>2. Inv /\ [Next]_vars => Inv'
  BY NextHotjob, NextAnnounce, NextTypes, NextCreatorKnows
<1>3. Inv /\ [Next]_vars => [Step]_vars
  BY ReportStep
<1>4. [][Step]_vars => ReportsAreReliable
  BY PTL DEF ReportsAreReliable, Reliable
<1>5. QED
  BY <1>1, <1>2, <1>3, <1>4, PTL DEF Spec
================================================================================
