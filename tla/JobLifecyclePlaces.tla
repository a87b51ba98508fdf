------------------------- MODULE JobLifecyclePlaces -------------------------
(***************************************************************************)
(* Proof that a job is never in two places, that its record always has a   *)
(* state which fits the place, and that no process acts on a stale state.  *)
(***************************************************************************)
EXTENDS JobLifecycleTypes, SequenceTheorems

\* The places by name.
AtCreator      == <<"creator", "any", NoJob>>
AtQueue        == <<"queue", "any", NoJob>>
AtNameless     == <<"nameless", "any", NoJob>>
AtZset(q)      == <<"zset", q, NoJob>>
AtWorker(w)    == <<"worker", "any", w>>
AtBatch(s, q)  == <<"batch", q, s>>
AtTimers(s, q) == <<"timers", q, s>>
AtRequeue(s)   == <<"requeue", "any", s>>

\* Job j is at no place but p.
NotElsewhere(j, p) ==
    /\ p # AtCreator => ~CreatorHolds(j)
    /\ p # AtQueue => ~InQueue(j)
    /\ p # AtNameless => j \notin nameless
    /\ \A q \in Zsets : p # AtZset(q) => j \notin zset[q]
    /\ \A w \in Workers : p # AtWorker(w) => workerJob[w] # j
    /\ \A s \in Schedulers, q \in Zsets :
          /\ p # AtBatch(s, q) => j \notin batch[s][q]
          /\ p # AtTimers(s, q) => j \notin timers[s][q]
    /\ \A s \in Schedulers : p # AtRequeue(s) => j \notin requeue[s]

NoDuplicates == \A i, k \in 1 .. Len(queue) : queue[i] = queue[k] => i = k

\* Before the creator's first save a job has no record, and while the creator
\* holds it the record has its original state.
FreshRecord ==
    \A j \in Jobs :
        /\ creator[j] \in {"none", "numbered"} => jobState[j] = "none"
        /\ CreatorHolds(j) => jobState[j] = InitialState(opts[j])
        /\ creator[j] = "resaved" => InitialState(opts[j]) = "delayed"

\* A scheduler remembers the state of the jobs it holds and of no other, and
\* knows it when a timer runs.
CacheHeld ==
    \A s \in Schedulers, j \in Jobs :
        /\ cached[s][j] # "none" => \E q \in Zsets : j \in batch[s][q] \union timers[s][q]
        /\ \A q \in Zsets : j \in timers[s][q] => cached[s][j] # "none"

PlaceInv == /\ TypeInv
            /\ OnePlace
            /\ PlaceMatchesState
            /\ NoStaleState
            /\ FreshRecord
            /\ CacheHeld

-----------------------------------------------------------------------------
(***************************************************************************)
(* Facts about places.                                                     *)
(***************************************************************************)

LEMMA PlaceNames ==
    /\ AtCreator \in Place /\ AtQueue \in Place /\ AtNameless \in Place
    /\ \A q \in Zsets : AtZset(q) \in Place
    /\ \A w \in Workers : AtWorker(w) \in Place
    /\ \A s \in Schedulers, q \in Zsets : AtBatch(s, q) \in Place /\ AtTimers(s, q) \in Place
    /\ \A s \in Schedulers : AtRequeue(s) \in Place
BY DEF Place, AtCreator, AtQueue, AtNameless, AtZset, AtWorker, AtBatch, AtTimers, AtRequeue

LEMMA PlaceCases ==
    ASSUME NEW p \in Place
    PROVE  \/ p = AtCreator
           \/ p = AtQueue
           \/ p = AtNameless
           \/ \E q \in Zsets : p = AtZset(q)
           \/ \E w \in Workers : p = AtWorker(w)
           \/ \E s \in Schedulers, q \in Zsets : p = AtBatch(s, q)
           \/ \E s \in Schedulers, q \in Zsets : p = AtTimers(s, q)
           \/ \E s \in Schedulers : p = AtRequeue(s)
BY DEF Place, AtCreator, AtQueue, AtNameless, AtZset, AtWorker, AtBatch, AtTimers, AtRequeue

LEMMA AtNames ==
    \A j \in Jobs :
        /\ At(j, AtCreator) <=> CreatorHolds(j)
        /\ At(j, AtQueue) <=> InQueue(j)
        /\ At(j, AtNameless) <=> j \in nameless
        /\ \A q \in Zsets : At(j, AtZset(q)) <=> j \in zset[q]
        /\ \A w \in Workers : At(j, AtWorker(w)) <=> workerJob[w] = j
        /\ \A s \in Schedulers, q \in Zsets :
              /\ At(j, AtBatch(s, q)) <=> j \in batch[s][q]
              /\ At(j, AtTimers(s, q)) <=> j \in timers[s][q]
        /\ \A s \in Schedulers : At(j, AtRequeue(s)) <=> j \in requeue[s]
BY DEF At, AtCreator, AtQueue, AtNameless, AtZset, AtWorker, AtBatch, AtTimers, AtRequeue

\* The states that go with each place.
LEMMA StatesAtNames ==
    /\ StatesAt(AtCreator) = {"new", "delayed"}
    /\ StatesAt(AtQueue) = ReadyState
    /\ StatesAt(AtNameless) = {"queued"}
    /\ \A w \in Workers :
          /\ pc[w] \in {"popped", "fetched"} => StatesAt(AtWorker(w)) = ReadyState
          /\ pc[w] \in {"claimed", "running"} => StatesAt(AtWorker(w)) = {"processing"}
          /\ pc[w] \notin {"popped", "fetched", "claimed", "running"} =>
                StatesAt(AtWorker(w)) = FinalState \union {"retry", "ghost"}
    /\ StatesAt(AtZset("scheduled")) = ScheduledState
    /\ StatesAt(AtZset("scheduled-purge")) = FinalState
    /\ \A s \in Schedulers :
          /\ StatesAt(AtBatch(s, "scheduled")) = ScheduledState
          /\ StatesAt(AtBatch(s, "scheduled-purge")) = FinalState
          /\ StatesAt(AtTimers(s, "scheduled")) = ScheduledState
          /\ StatesAt(AtTimers(s, "scheduled-purge")) = FinalState
          /\ StatesAt(AtRequeue(s)) = {"queued"}
BY DEF StatesAt, AtCreator, AtQueue, AtNameless, AtZset, AtWorker, AtBatch, AtTimers, AtRequeue

\* Being at p and at no other place, by name.
LEMMA NotElsewhereMeaning ==
    \A j \in Jobs, p \in Place :
        NotElsewhere(j, p) <=> \A r \in Place : At(j, r) => r = p
<1> SUFFICES ASSUME NEW j \in Jobs, NEW p \in Place
             PROVE  NotElsewhere(j, p) <=> \A r \in Place : At(j, r) => r = p
  OBVIOUS
<1>1. ASSUME NotElsewhere(j, p), NEW r \in Place, At(j, r)
      PROVE  r = p
  BY <1>1, PlaceCases, AtNames DEF NotElsewhere
<1>2. ASSUME \A r \in Place : At(j, r) => r = p
      PROVE  NotElsewhere(j, p)
  BY <1>2, PlaceNames, AtNames DEF NotElsewhere
<1>3. QED
  BY <1>1, <1>2

\* OnePlace, by name.
LEMMA OnePlaceMeaning ==
    OnePlace <=> /\ \A j \in Jobs, p \in Place : At(j, p) => NotElsewhere(j, p)
                 /\ NoDuplicates
BY NotElsewhereMeaning DEF OnePlace, NoDuplicates

\* What follows of a job from the place where it is.
LEMMA Whereabouts ==
    ASSUME PlaceInv, NEW j \in Jobs, NEW p \in Place, At(j, p)
    PROVE  NotElsewhere(j, p) /\ jobState[j] \in StatesAt(p)
BY OnePlaceMeaning DEF PlaceInv, PlaceMatchesState

-----------------------------------------------------------------------------
(***************************************************************************)
(* How a step may change where jobs are.                                   *)
(***************************************************************************)

\* The step takes j nowhere new, and its record and its worker stay as they are.
Untouched(j) ==
    /\ jobState'[j] = jobState[j]
    /\ CreatorHolds(j)' => CreatorHolds(j)
    /\ InQueue(j)' => InQueue(j)
    /\ j \in nameless' => j \in nameless
    /\ \A q \in Zsets : j \in zset'[q] => j \in zset[q]
    /\ \A w \in Workers : workerJob'[w] = j => workerJob[w] = j /\ pc'[w] = pc[w]
    /\ \A s \in Schedulers, q \in Zsets :
          /\ j \in batch'[s][q] => j \in batch[s][q]
          /\ j \in timers'[s][q] => j \in timers[s][q]
    /\ \A s \in Schedulers : j \in requeue'[s] => j \in requeue[s]

\* After the step j is at p if anywhere, in a state that fits.
MovedTo(j, p) == NotElsewhere(j, p)' /\ jobState'[j] \in StatesAt(p)'

LEMMA UntouchedStays ==
    ASSUME PlaceInv, NEW j \in Jobs, Untouched(j), NEW r \in Place, At(j, r)'
    PROVE  At(j, r) /\ jobState'[j] \in StatesAt(r)'
<1>1. AtNames'
  BY AtNames, PTL
<1>2. At(j, r)
  BY <1>1, AtNames, PlaceCases DEF Untouched
<1>3. StatesAt(r)' = StatesAt(r)
  <2>1. CASE \E w \in Workers : r = AtWorker(w)
    <3>1. PICK w \in Workers : r = AtWorker(w)
      BY <2>1
    <3>2. pc'[w] = pc[w]
      BY <1>1, <3>1 DEF Untouched
    <3>3. QED
      BY <3>1, <3>2 DEF StatesAt, AtWorker
  <2>2. CASE r[1] # "worker"
    BY <2>2 DEF StatesAt
  <2>3. QED
    BY <2>1, <2>2, PlaceCases DEF AtCreator, AtQueue, AtNameless, AtZset, AtBatch, AtTimers, AtRequeue
<1>4. QED
  BY <1>2, <1>3 DEF Untouched, PlaceInv, PlaceMatchesState

\* After the step j is nowhere: at no other place than one that is none.
Nobody  == <<"nobody", "any", NoJob>>
Gone(j) == NotElsewhere(j, Nobody)'

LEMMA NobodyMeaning ==
    \A j \in Jobs : NotElsewhere(j, Nobody) => \A p \in Place : ~At(j, p)
<1> SUFFICES ASSUME NEW j \in Jobs, NotElsewhere(j, Nobody), NEW p \in Place, At(j, p)
             PROVE  FALSE
  OBVIOUS
<1>1. /\ Nobody # AtCreator /\ Nobody # AtQueue /\ Nobody # AtNameless
      /\ \A q \in Zsets : Nobody # AtZset(q)
      /\ \A w \in Workers : Nobody # AtWorker(w)
      /\ \A s \in Schedulers, q \in Zsets : Nobody # AtBatch(s, q) /\ Nobody # AtTimers(s, q)
      /\ \A s \in Schedulers : Nobody # AtRequeue(s)
  BY DEF Nobody, AtCreator, AtQueue, AtNameless, AtZset, AtWorker, AtBatch, AtTimers, AtRequeue
<1>2. QED
  BY <1>1, AtNames, PlaceCases DEF NotElsewhere

\* It is enough to account for each job and for the queue.
LEMMA PlacesStep ==
    ASSUME PlaceInv, NoDuplicates',
           \A j \in Jobs : Untouched(j) \/ Gone(j) \/ \E p \in Place : MovedTo(j, p)
    PROVE  OnePlace' /\ PlaceMatchesState'
<1>1. OnePlaceMeaning' /\ NotElsewhereMeaning' /\ NobodyMeaning'
  BY OnePlaceMeaning, NotElsewhereMeaning, NobodyMeaning, PTL
<1>2. ASSUME NEW j \in Jobs, NEW r \in Place, At(j, r)'
      PROVE  NotElsewhere(j, r)' /\ jobState'[j] \in StatesAt(r)'
  <2>1. CASE Untouched(j)
    <3>1. At(j, r) /\ jobState'[j] \in StatesAt(r)'
      BY <1>2, <2>1, UntouchedStays
    <3>2. \A p \in Place : At(j, p)' => p = r
      BY <2>1, <3>1, UntouchedStays DEF PlaceInv, OnePlace
    <3>3. QED
      BY <1>1, <3>1, <3>2
  <2>2. CASE \E p \in Place : MovedTo(j, p)
    BY <1>1, <1>2, <2>2 DEF MovedTo
  <2>3. ~Gone(j)
    BY <1>1, <1>2 DEF Gone
  <2>4. QED
    BY <2>1, <2>2, <2>3
<1>3. QED
  BY <1>1, <1>2 DEF PlaceMatchesState

\* blpop takes the only entry of its job.
LEMMA QueueTail ==
    ASSUME queue \in Seq(Jobs), queue # <<>>, NoDuplicates, queue' = Tail(queue)
    PROVE  /\ NoDuplicates'
           /\ Head(queue) \in Jobs
           /\ InQueue(Head(queue))
           /\ \A j \in Jobs : InQueue(j)' => InQueue(j) /\ j # Head(queue)
<1>1. /\ Len(queue) \in Nat \ {0}
      /\ Head(queue) = queue[1]
      /\ Len(Tail(queue)) = Len(queue) - 1
      /\ \A i \in 1 .. Len(Tail(queue)) : Tail(queue)[i] = queue[i + 1]
  BY HeadTailProperties, EmptySeq
<1>2. \A i \in 1 .. Len(queue) : queue[i] \in Jobs
  BY ElementOfSeq
<1>3. \A i \in 1 .. Len(queue') : i + 1 \in 1 .. Len(queue) /\ queue'[i] = queue[i + 1]
  BY <1>1
<1>4. NoDuplicates'
  BY <1>1, <1>3 DEF NoDuplicates
<1>5. 1 \in 1 .. Len(queue)
  BY <1>1
<1>6. \A j \in Jobs : InQueue(j)' => InQueue(j) /\ j # Head(queue)
  BY <1>1, <1>3, <1>5 DEF InQueue, NoDuplicates
<1>7. QED
  BY <1>1, <1>2, <1>4, <1>5, <1>6 DEF InQueue

\* rpush adds the only entry of its job.
LEMMA QueueAppend ==
    ASSUME queue \in Seq(Jobs), NoDuplicates,
           NEW j \in Jobs, ~InQueue(j), queue' = Append(queue, j)
    PROVE  /\ NoDuplicates'
           /\ \A k \in Jobs \ {j} : InQueue(k)' => InQueue(k)
<1>1. /\ Len(queue) \in Nat
      /\ Len(queue') = Len(queue) + 1
      /\ \A i \in 1 .. Len(queue) : queue'[i] = queue[i]
      /\ queue'[Len(queue) + 1] = j
  BY AppendProperties, LenProperties
<1>2. \A i \in 1 .. Len(queue') : i \in 1 .. Len(queue) \/ i = Len(queue) + 1
  BY <1>1
<1>3. NoDuplicates'
  BY <1>1, <1>2 DEF NoDuplicates, InQueue
<1>4. QED
  BY <1>1, <1>2, <1>3 DEF InQueue

\* A queue that stays as it is.
LEMMA QueueSame ==
    ASSUME NoDuplicates, UNCHANGED queue
    PROVE  NoDuplicates' /\ \A j \in Jobs : InQueue(j)' <=> InQueue(j)
BY DEF NoDuplicates, InQueue

\* A job without a record is nowhere.
LEMMA Nowhere ==
    ASSUME PlaceInv, NEW j \in Jobs, jobState[j] = "none", NEW p \in Place
    PROVE  NotElsewhere(j, p)
<1>1. \A r \in Place : "none" \notin StatesAt(r)
  <2>1. \A w \in Workers : "none" \notin StatesAt(AtWorker(w))
    BY StatesAtNames DEF ReadyState, FinalState
  <2>2. \A s \in Schedulers, q \in Zsets :
           "none" \notin StatesAt(AtBatch(s, q)) /\ "none" \notin StatesAt(AtTimers(s, q))
    BY StatesAtNames DEF ScheduledState, FinalState, Zsets
  <2>3. \A q \in Zsets : "none" \notin StatesAt(AtZset(q))
    BY StatesAtNames DEF ScheduledState, FinalState, Zsets
  <2>4. QED
    BY <2>1, <2>2, <2>3, PlaceCases, StatesAtNames DEF ReadyState
<1>2. QED
  BY <1>1, NotElsewhereMeaning DEF PlaceInv, PlaceMatchesState

\* A scheduler that does not hold a job remembers no state of it.
LEMMA NotCached ==
    ASSUME PlaceInv, NEW j \in Jobs, NEW p, NotElsewhere(j, p), NEW s \in Schedulers,
           \A q \in Zsets : p # AtBatch(s, q) /\ p # AtTimers(s, q)
    PROVE  cached[s][j] = "none"
BY DEF PlaceInv, CacheHeld, NotElsewhere

\* Memories that stay as they are remain good while no record changes state.
LEMMA MemoriesKept ==
    ASSUME PlaceInv, UNCHANGED <<pc, workerJob, workerState, cached, jobState>>
    PROVE  NoStaleState'
BY DEF PlaceInv, NoStaleState

\* ... and when the only record that does is remembered by nobody.
LEMMA MemoriesKeptBut ==
    ASSUME PlaceInv, NEW j \in Jobs,
           UNCHANGED <<pc, workerJob, workerState, cached>>,
           \A k \in Jobs \ {j} : jobState'[k] = jobState[k],
           \A w \in Workers : workerJob[w] # j,
           \A s \in Schedulers : cached[s][j] = "none"
    PROVE  NoStaleState'
<1>1. \A w \in Workers : pc[w] # "idle" => workerJob[w] \in Jobs
  BY WorkerHasJob DEF PlaceInv
<1>2. QED
  BY <1>1 DEF PlaceInv, NoStaleState

-----------------------------------------------------------------------------
(***************************************************************************)
(* Steps of the creators.                                                  *)
(***************************************************************************)

LEMMA PlaceCreator ==
    ASSUME PlaceInv, NEW j \in Jobs,
           Create(j) \/ CreatorStep(j) \/ CreatorAborts(j)
    PROVE  OnePlace' /\ PlaceMatchesState' /\ NoStaleState' /\ FreshRecord' /\ CacheHeld'
<1> USE DEF records, places, creatorVars, workerVars, schedVars, history
<1>1. NoDuplicates /\ TypeInv /\ TypeOK
  BY OnePlaceMeaning DEF PlaceInv, TypeInv
<1>2. CacheHeld'
  BY DEF PlaceInv, CacheHeld, CreatorStep, Create, CreateRecord, CreateState, CreateTimeIndex,
         QueueNewJob, ResaveDelayedJob, ScheduleDelayedJob, SaveTimeIndex, CreatorAborts
<1>3. PlaceNames /\ StatesAtNames'
  BY PlaceNames, StatesAtNames, PTL
<1>4. CASE Create(j) \/ CreateState(j) \/ CreateTimeIndex(j) \/ SaveTimeIndex(j)
           \/ CreatorAborts(j)
  <2>1. NoDuplicates' /\ \A k \in Jobs : InQueue(k)' <=> InQueue(k)
    BY <1>1, <1>4, QueueSame
       DEF Create, CreateState, CreateTimeIndex, SaveTimeIndex, CreatorAborts
  <2>2. \A k \in Jobs : Untouched(k)
    BY <1>1, <1>4, <2>1 DEF Untouched, CreatorHolds, TypeOK,
       Create, CreateState, CreateTimeIndex, SaveTimeIndex, CreatorAborts
  <2>3. NoStaleState'
    BY <1>4, MemoriesKept
       DEF Create, CreateState, CreateTimeIndex, SaveTimeIndex, CreatorAborts
  <2>4. FreshRecord'
    BY <1>1, <1>4 DEF PlaceInv, FreshRecord, CreatorHolds, TypeOK,
       Create, CreateState, CreateTimeIndex, SaveTimeIndex, CreatorAborts
  <2>5. QED
    BY <1>2, <2>1, <2>2, <2>3, <2>4, PlacesStep
<1>5. CASE CreateRecord(j)
  <2>1. jobState[j] = "none"
    BY <1>5 DEF CreateRecord, PlaceInv, FreshRecord
  <2>2. NotElsewhere(j, AtCreator) /\ NotElsewhere(j, AtQueue)
    BY <1>3, <2>1, Nowhere
  <2>3. NoDuplicates' /\ \A k \in Jobs : InQueue(k)' <=> InQueue(k)
    BY <1>1, <1>5, QueueSame DEF CreateRecord
  <2>4. jobState'[j] \in StatesAt(AtCreator)'
    BY <1>1, <1>3, <1>5, InitialStateType DEF CreateRecord, SaveItem, TypeOK
  <2>5. MovedTo(j, AtCreator)
    BY <1>5, <2>2, <2>3, <2>4 DEF CreateRecord, MovedTo, NotElsewhere, SaveItem
  <2>6. \A k \in Jobs \ {j} : Untouched(k)
    BY <1>1, <1>5, <2>3 DEF Untouched, CreatorHolds, TypeOK, CreateRecord, SaveItem
  <2>7. \A s \in Schedulers : cached[s][j] = "none"
    BY <2>2, NotCached DEF AtCreator, AtBatch, AtTimers
  <2>8. \A w \in Workers : workerJob[w] # j
    BY <2>2 DEF NotElsewhere, AtCreator, AtWorker
  <2>9. NoStaleState'
    <3>1. \A k \in Jobs \ {j} : jobState'[k] = jobState[k]
      BY <1>1, <1>5 DEF CreateRecord, SaveItem, TypeOK
    <3>2. QED
      BY <1>5, <2>7, <2>8, <3>1, MemoriesKeptBut DEF CreateRecord
  <2>10. FreshRecord'
    BY <1>1, <1>5 DEF PlaceInv, FreshRecord, CreatorHolds, TypeOK, CreateRecord, SaveItem
  <2>11. QED
    BY <1>2, <1>3, <2>3, <2>5, <2>6, <2>9, <2>10, PlacesStep
<1>6. ASSUME QueueNewJob(j) \/ ResaveDelayedJob(j) \/ ScheduleDelayedJob(j)
      PROVE  OnePlace' /\ PlaceMatchesState' /\ NoStaleState' /\ FreshRecord'
  <2>1. CreatorHolds(j) /\ jobState[j] = InitialState(opts[j])
    BY <1>6 DEF QueueNewJob, ResaveDelayedJob, ScheduleDelayedJob, CreatorHolds,
                PlaceInv, FreshRecord
  <2>2. NotElsewhere(j, AtCreator)
    BY <1>3, <2>1, AtNames, Whereabouts
  <2>3. UNCHANGED jobState
    <3>1. CASE ResaveDelayedJob(j)
      BY <1>1, <2>1, <3>1 DEF ResaveDelayedJob, SaveItem, TypeOK
    <3>2. QED
      BY <1>6, <3>1 DEF QueueNewJob, ScheduleDelayedJob
  <2>4. NoStaleState'
    BY <1>6, <2>3, MemoriesKept DEF QueueNewJob, ResaveDelayedJob, ScheduleDelayedJob
  <2>5. FreshRecord'
    BY <1>1, <1>6, <2>1, <2>3 DEF PlaceInv, FreshRecord, CreatorHolds, TypeOK,
       QueueNewJob, ResaveDelayedJob, ScheduleDelayedJob
  <2>6. CASE QueueNewJob(j)
    <3>1. ~InQueue(j)
      BY <2>2 DEF NotElsewhere, AtCreator, AtQueue
    <3>2. NoDuplicates' /\ \A k \in Jobs \ {j} : InQueue(k)' => InQueue(k)
      BY <1>1, <2>6, <3>1, QueueAppend DEF QueueNewJob, TypeOK
    <3>3. jobState'[j] \in StatesAt(AtQueue)'
      BY <1>3, <2>1, <2>3, <2>6 DEF QueueNewJob, ReadyState
    <3>4. ~CreatorHolds(j)'
      BY <1>1, <2>6 DEF QueueNewJob, CreatorHolds, TypeOK
    <3>5. MovedTo(j, AtQueue)
      BY <2>2, <2>6, <3>3, <3>4 DEF QueueNewJob, MovedTo, NotElsewhere, AtCreator, AtQueue, AtNameless,
         AtZset, AtWorker, AtBatch, AtTimers, AtRequeue
    <3>6. \A k \in Jobs \ {j} : Untouched(k)
      BY <1>1, <2>3, <2>6, <3>2 DEF Untouched, CreatorHolds, TypeOK, QueueNewJob
    <3>7. QED
      BY <1>3, <2>4, <2>5, <3>2, <3>5, <3>6, PlacesStep
  <2>7. CASE ResaveDelayedJob(j)
    <3>1. NoDuplicates' /\ \A k \in Jobs : InQueue(k)' <=> InQueue(k)
      BY <1>1, <2>7, QueueSame DEF ResaveDelayedJob
    <3>2. \A k \in Jobs : Untouched(k)
      BY <1>1, <2>3, <2>7, <3>1 DEF Untouched, CreatorHolds, TypeOK, ResaveDelayedJob
    <3>3. QED
      BY <2>4, <2>5, <3>1, <3>2, PlacesStep
  <2>8. CASE ScheduleDelayedJob(j)
    <3>1. NoDuplicates' /\ \A k \in Jobs : InQueue(k)' <=> InQueue(k)
      BY <1>1, <2>8, QueueSame DEF ScheduleDelayedJob
    <3>2. jobState'[j] \in StatesAt(AtZset("scheduled"))'
      BY <1>3, <2>1, <2>3, <2>8 DEF ScheduleDelayedJob, PlaceInv, FreshRecord, ScheduledState
    <3>3. ~CreatorHolds(j)'
      BY <1>1, <2>8 DEF ScheduleDelayedJob, CreatorHolds, TypeOK
    <3>4. "scheduled" \in Zsets /\ AtZset("scheduled") \in Place
      BY <1>3 DEF Zsets
    <3>5. MovedTo(j, AtZset("scheduled"))
      BY <1>1, <2>2, <2>8, <3>1, <3>2, <3>3 DEF ScheduleDelayedJob, MovedTo, NotElsewhere,
         AtCreator, AtQueue, AtNameless, AtZset, AtWorker, AtBatch, AtTimers, AtRequeue, TypeOK
    <3>6. \A k \in Jobs \ {j} : Untouched(k)
      BY <1>1, <2>3, <2>8, <3>1 DEF Untouched, CreatorHolds, TypeOK, ScheduleDelayedJob
    <3>7. QED
      BY <2>4, <2>5, <3>1, <3>4, <3>5, <3>6, PlacesStep
  <2>9. QED
    BY <1>6, <2>6, <2>7, <2>8
<1>7. QED
  BY <1>2, <1>4, <1>5, <1>6 DEF CreatorStep

-----------------------------------------------------------------------------
(***************************************************************************)
(* Steps of the workers.                                                   *)
(***************************************************************************)

\* The job of a worker is with that worker only, and has a fitting state.
LEMMA WorkerOwns ==
    ASSUME PlaceInv, NEW w \in Workers, pc[w] # "idle"
    PROVE  /\ workerJob[w] \in Jobs
           /\ AtWorker(w) \in Place
           /\ NotElsewhere(workerJob[w], AtWorker(w))
           /\ jobState[workerJob[w]] \in StatesAt(AtWorker(w))
           /\ \A s \in Schedulers : cached[s][workerJob[w]] = "none"
           /\ ~CreatorHolds(workerJob[w])
           /\ \A v \in Workers \ {w} : workerJob[v] # workerJob[w]
           /\ jobState[workerJob[w]] # "none"
           /\ creator[workerJob[w]] \notin {"none", "numbered"}
<1> DEFINE j == workerJob[w]
<1>1. j \in Jobs
  BY WorkerHasJob DEF PlaceInv
<1>2. AtWorker(w) \in Place /\ At(j, AtWorker(w))
  BY <1>1, PlaceNames, AtNames
<1>3. NotElsewhere(j, AtWorker(w)) /\ jobState[j] \in StatesAt(AtWorker(w))
  BY <1>1, <1>2, Whereabouts
<1>4. \A s \in Schedulers : cached[s][j] = "none"
  BY <1>1, <1>3, NotCached DEF AtWorker, AtBatch, AtTimers
<1>5. ~CreatorHolds(j) /\ \A v \in Workers \ {w} : workerJob[v] # j
  BY <1>3 DEF NotElsewhere, AtWorker, AtCreator
<1>6. jobState[j] # "none"
  BY <1>3, StatesAtNames DEF ReadyState, FinalState
<1>7. creator[j] \notin {"none", "numbered"}
  BY <1>1, <1>6 DEF PlaceInv, FreshRecord
<1>8. QED
  BY <1>1, <1>2, <1>3, <1>4, <1>5, <1>6, <1>7

\* A worker goes on with its job, whose record may change state.
LEMMA WorkerKeeps ==
    ASSUME PlaceInv, NEW w \in Workers, pc[w] # "idle",
           NEW c \in WorkerState \ {"idle", "popped"}, pc' = [pc EXCEPT ![w] = c],
           UNCHANGED <<queue, nameless, zset, opts, creator, workerJob, batch, cached,
                       timers, requeue>>,
           \A v \in Workers \ {w} : workerState'[v] = workerState[v],
           \A k \in Jobs \ {workerJob[w]} : jobState'[k] = jobState[k],
           workerState'[w] = jobState'[workerJob[w]],
           jobState'[workerJob[w]] \in StatesAt(AtWorker(w))'
    PROVE  OnePlace' /\ PlaceMatchesState' /\ NoStaleState' /\ FreshRecord' /\ CacheHeld'
<1> DEFINE j == workerJob[w]
<1>1. NoDuplicates /\ TypeInv /\ TypeOK /\ WorkerShape
  BY OnePlaceMeaning DEF PlaceInv, TypeInv
<1>2. NoDuplicates' /\ \A k \in Jobs : InQueue(k)' <=> InQueue(k)
  BY <1>1, QueueSame
<1>3. j \in Jobs /\ AtWorker(w) \in Place
  BY WorkerOwns
<1>4. MovedTo(j, AtWorker(w))
  BY <1>2, <1>3, WorkerOwns DEF MovedTo, NotElsewhere, CreatorHolds
<1>5. \A k \in Jobs \ {j} : Untouched(k)
  BY <1>1, <1>2 DEF Untouched, CreatorHolds, TypeOK
<1>6. OnePlace' /\ PlaceMatchesState'
  BY <1>2, <1>3, <1>4, <1>5, PlacesStep
<1>7. CacheHeld'
  BY DEF PlaceInv, CacheHeld
<1>8. FreshRecord'
  BY <1>3, WorkerOwns DEF PlaceInv, FreshRecord, CreatorHolds
<1>9. NoStaleState'
  <2>1. ASSUME NEW v \in Workers, pc'[v] \notin {"idle", "popped"}, v # w
        PROVE  workerState'[v] = jobState'[workerJob'[v]]
    <3>1. pc[v] \notin {"idle", "popped"} /\ workerJob[v] \in Jobs /\ workerJob[v] # j
      BY <1>1, <2>1, WorkerOwns DEF TypeOK, WorkerShape
    <3>2. QED
      BY <2>1, <3>1 DEF PlaceInv, NoStaleState
  <2>2. ASSUME NEW s \in Schedulers, NEW k \in Jobs, cached'[s][k] # "none"
        PROVE  cached'[s][k] = jobState'[k]
    BY <1>3, <2>2, WorkerOwns DEF PlaceInv, NoStaleState
  <2>3. QED
    BY <2>1, <2>2 DEF NoStaleState
<1>10. QED
  BY <1>6, <1>7, <1>8, <1>9

\* What a worker remembers once it has fetched its job is the state in redis.
LEMMA WorkerKnows ==
    ASSUME PlaceInv, NEW w \in Workers, pc[w] \notin {"idle", "popped"}
    PROVE  workerState[w] = jobState[workerJob[w]]
BY DEF PlaceInv, NoStaleState

LEMMA PlaceWorker ==
    ASSUME PlaceInv, NEW w \in Workers,
           WorkerStep(w) \/ LateAnswer(w) \/ WorkerAborts(w)
    PROVE  OnePlace' /\ PlaceMatchesState' /\ NoStaleState' /\ FreshRecord' /\ CacheHeld'
<1> USE DEF records, places, creatorVars, workerVars, schedVars, history
<1> DEFINE Goal == OnePlace' /\ PlaceMatchesState' /\ NoStaleState' /\ FreshRecord' /\ CacheHeld'
<1>1. NoDuplicates /\ TypeInv /\ TypeOK /\ WorkerShape
  BY OnePlaceMeaning DEF PlaceInv, TypeInv
<1>2. PlaceNames /\ StatesAtNames /\ StatesAtNames'
  BY PlaceNames, StatesAtNames, PTL
<1>3. CASE Pop(w)
  <2>1. PICK j \in Jobs :
           /\ j = Head(queue)
           /\ NoDuplicates' /\ InQueue(j)
           /\ \A k \in Jobs : InQueue(k)' => InQueue(k) /\ k # j
    BY <1>1, <1>3, QueueTail DEF Pop, TypeOK
  <2>2. NotElsewhere(j, AtQueue) /\ jobState[j] \in ReadyState
    BY <1>2, <2>1, AtNames, Whereabouts
  <2>3. j # NoJob
    BY <2>1, NullAssumption
  <2>4. /\ workerJob' = [workerJob EXCEPT ![w] = j]
        /\ pc' = [pc EXCEPT ![w] = "popped"]
        /\ UNCHANGED <<records, nameless, zset, creatorVars, workerState, schedVars>>
    BY <1>3, <2>1 DEF Pop
  <2>5. jobState'[j] \in StatesAt(AtWorker(w))'
    BY <1>1, <1>2, <2>2, <2>4 DEF TypeOK
  <2>6. NotElsewhere(j, AtWorker(w))'
    <3>1. /\ ~CreatorHolds(j) /\ j \notin nameless
          /\ \A q \in Zsets : j \notin zset[q]
          /\ \A v \in Workers : workerJob[v] # j
          /\ \A s \in Schedulers, q \in Zsets : j \notin batch[s][q] /\ j \notin timers[s][q]
          /\ \A s \in Schedulers : j \notin requeue[s]
      BY <2>2 DEF NotElsewhere,
         AtCreator, AtQueue, AtNameless, AtZset, AtWorker, AtBatch, AtTimers, AtRequeue
    <3>2. \A v \in Workers : AtWorker(w) # AtWorker(v) => workerJob'[v] # j
      BY <1>1, <2>4, <3>1 DEF TypeOK
    <3>3. QED
      BY <2>1, <2>4, <3>1, <3>2 DEF NotElsewhere, CreatorHolds
  <2>7. \A k \in Jobs \ {j} : Untouched(k)
    BY <1>1, <2>1, <2>4 DEF Untouched, CreatorHolds, TypeOK
  <2>8. OnePlace' /\ PlaceMatchesState'
    <3>1. MovedTo(j, AtWorker(w))
      BY <2>5, <2>6 DEF MovedTo
    <3>2. QED
      BY <1>2, <2>1, <2>7, <3>1, PlacesStep
  <2>9. NoStaleState'
    BY <1>1, <2>4 DEF PlaceInv, NoStaleState, TypeOK
  <2>10. FreshRecord' /\ CacheHeld'
    BY <2>4 DEF PlaceInv, FreshRecord, CreatorHolds, CacheHeld
  <2>11. QED
    BY <2>8, <2>9, <2>10
<1>4. CASE Fetch(w)
  <2>1. jobState[workerJob[w]] \in ReadyState
    BY <1>2, <1>4, WorkerOwns DEF Fetch
  <2>2. jobState'[workerJob[w]] \in StatesAt(AtWorker(w))'
    BY <1>1, <1>2, <1>4, <2>1 DEF Fetch, TypeOK
  <2>3. QED
    BY <1>1, <1>4, <2>2, WorkerKeeps DEF Fetch, TypeOK, WorkerState
<1>5. CASE SetProcessing(w)
  <2>1. workerJob[w] \in Jobs
    BY <1>5, WorkerOwns DEF SetProcessing
  <2>2. jobState'[workerJob[w]] \in StatesAt(AtWorker(w))'
    BY <1>1, <1>2, <1>5, <2>1 DEF SetProcessing, SetState, TypeOK
  <2>3. QED
    BY <1>1, <1>5, <2>1, <2>2, WorkerKeeps DEF SetProcessing, SetState, TypeOK, WorkerState
<1>6. CASE WorkStart(w)
  <2>1. jobState[workerJob[w]] = "processing"
    BY <1>2, <1>6, WorkerOwns DEF WorkStart
  <2>2. jobState'[workerJob[w]] \in StatesAt(AtWorker(w))'
    BY <1>1, <1>2, <1>6, <2>1 DEF WorkStart, TypeOK
  <2>3. QED
    BY <1>1, <1>6, <2>2, WorkerKeeps, WorkerKnows DEF WorkStart, TypeOK, WorkerState
<1>7. ASSUME NEW report \in Report, Processed(w, report)
      PROVE  Goal
  <2> DEFINE j == workerJob[w]
             state == NextState(OptionsIn(workerItem[w], opts[j]), AddRun(workerItem[w], report), report)
  <2>1. j \in Jobs /\ workerItem[w] \in JobItem
    BY <1>1, <1>7, WorkerOwns DEF Processed, WorkerShape
  <2>2. state \in FinalState \union {"retry", "ghost"}
    BY <2>1, DecisionTypes
  <2>3. /\ jobState' = [jobState EXCEPT ![j] = state]
        /\ workerState' = [workerState EXCEPT ![w] = state]
        /\ pc' = [pc EXCEPT ![w] = "stated"]
        /\ UNCHANGED <<queue, nameless, zset, opts, creator, workerJob, batch, cached,
                       timers, requeue>>
    BY <1>7 DEF Processed, SetState
  <2> HIDE DEF state
  <2>4. jobState'[j] \in StatesAt(AtWorker(w))'
    BY <1>1, <1>2, <2>1, <2>2, <2>3 DEF TypeOK
  <2>5. QED
    BY <1>1, <1>7, <2>1, <2>3, <2>4, WorkerKeeps DEF Processed, TypeOK, WorkerState
<1>8. CASE SaveProcessed(w) \/ Resave(w)
  <2>1. /\ workerJob[w] \in Jobs
        /\ jobState[workerJob[w]] \in FinalState \union {"retry", "ghost"}
        /\ workerState[w] = jobState[workerJob[w]]
    BY <1>2, <1>8, WorkerOwns, WorkerKnows DEF SaveProcessed, Resave
  <2>2. jobState' = jobState
    BY <1>1, <1>8, <2>1 DEF SaveProcessed, Resave, SaveItem, TypeOK
  <2>3. jobState'[workerJob[w]] \in StatesAt(AtWorker(w))'
    BY <1>1, <1>2, <1>8, <2>1, <2>2 DEF SaveProcessed, Resave, TypeOK
  <2>4. CASE SaveProcessed(w)
    BY <1>1, <2>1, <2>2, <2>3, <2>4, WorkerKeeps DEF SaveProcessed, TypeOK, WorkerState
  <2>5. CASE Resave(w)
    BY <1>1, <2>1, <2>2, <2>3, <2>5, WorkerKeeps DEF Resave, TypeOK, WorkerState
  <2>6. QED
    BY <1>8, <2>4, <2>5
<1>9. CASE LateAnswer(w)
  <2>1. jobState' = jobState /\ StatesAt(AtWorker(w))' = StatesAt(AtWorker(w))
    BY <1>9 DEF LateAnswer, StatesAt
  <2>2. pc' = [pc EXCEPT ![w] = pc[w]]
    BY <1>1, <1>9 DEF LateAnswer, TypeOK
  <2>3. pc[w] \in WorkerState \ {"idle", "popped"}
    BY <1>9 DEF LateAnswer, WorkerState
  <2>4. /\ workerState' = workerState
        /\ UNCHANGED <<queue, nameless, zset, opts, creator, workerJob, batch, cached,
                       timers, requeue>>
    BY <1>9 DEF LateAnswer
  <2>5. /\ workerState'[w] = jobState'[workerJob[w]]
        /\ jobState'[workerJob[w]] \in StatesAt(AtWorker(w))'
    BY <2>1, <2>3, <2>4, WorkerOwns, WorkerKnows
  <2>6. QED
    BY <2>1, <2>2, <2>3, <2>4, <2>5, WorkerKeeps
<1>10. CASE Schedule(w) \/ WorkerAborts(w)
  <2>1. NoDuplicates' /\ \A k \in Jobs : InQueue(k)' <=> InQueue(k)
    BY <1>1, <1>10, QueueSame DEF Schedule, WorkerAborts
  <2>2. NoStaleState' /\ FreshRecord' /\ CacheHeld'
    <3>1. Release(w) /\ UNCHANGED <<records, creatorVars, schedVars>>
      BY <1>10 DEF Schedule, WorkerAborts
    <3>2. QED
      BY <1>1, <3>1 DEF Release, TypeOK, PlaceInv, NoStaleState, FreshRecord, CreatorHolds,
                        CacheHeld
  <2>3. \A k \in Jobs \ {workerJob[w]} : Untouched(k)
    <3>1. /\ Release(w)
          /\ UNCHANGED <<jobState, creator, nameless, schedVars>>
          /\ \A k \in Jobs \ {workerJob[w]}, q \in Zsets : k \in zset'[q] => k \in zset[q]
      BY <1>1, <1>10 DEF Schedule, WorkerAborts, TypeOK
    <3>2. QED
      BY <1>1, <2>1, <3>1, NullAssumption DEF Untouched, Release, CreatorHolds, TypeOK
  <2>4. CASE WorkerAborts(w)
    <3>1. \A k \in Jobs : Untouched(k)
      BY <1>1, <2>1, <2>4, NullAssumption
         DEF Untouched, WorkerAborts, Release, CreatorHolds, TypeOK
    <3>2. QED
      BY <2>1, <2>2, <3>1, PlacesStep
  <2>5. CASE Schedule(w)
    <3>1. PICK j \in Jobs :
             /\ j = workerJob[w] /\ NotElsewhere(j, AtWorker(w))
             /\ jobState[j] \in FinalState \union {"retry", "ghost"}
             /\ workerState[w] = jobState[j]
      BY <1>2, <2>5, WorkerOwns, WorkerKnows DEF Schedule
    <3>2. PICK q \in Zsets :
             /\ q = IF workerState[w] \in FinalState THEN "scheduled-purge" ELSE "scheduled"
             /\ AtZset(q) \in Place
      BY <1>2 DEF Zsets
    <3>3. jobState[j] \in StatesAt(AtZset(q))'
      <4>1. CASE jobState[j] \in FinalState
        BY <1>2, <3>1, <3>2, <4>1
      <4>2. CASE jobState[j] \in {"retry", "ghost"}
        <5>1. q = "scheduled"
          BY <3>1, <3>2, <4>2 DEF FinalState
        <5>2. QED
          BY <1>2, <4>2, <5>1 DEF ScheduledState
      <4>3. QED
        BY <3>1, <4>1, <4>2
    <3>4. /\ zset' = [zset EXCEPT ![q] = @ \union {j}]
          /\ Release(w)
          /\ UNCHANGED <<records, queue, nameless, creatorVars, schedVars>>
      BY <2>5, <3>1, <3>2 DEF Schedule
    <3>5. NotElsewhere(j, AtZset(q))'
      <4>1. /\ ~CreatorHolds(j) /\ ~InQueue(j) /\ j \notin nameless
            /\ \A r \in Zsets : j \notin zset[r]
            /\ \A v \in Workers \ {w} : workerJob[v] # j
            /\ \A s \in Schedulers, r \in Zsets : j \notin batch[s][r] /\ j \notin timers[s][r]
            /\ \A s \in Schedulers : j \notin requeue[s]
        BY <3>1 DEF NotElsewhere,
           AtCreator, AtQueue, AtNameless, AtZset, AtWorker, AtBatch, AtTimers, AtRequeue
      <4>2. \A r \in Zsets : AtZset(q) # AtZset(r) => j \notin zset'[r]
        BY <1>1, <3>4, <4>1 DEF TypeOK
      <4>3. \A v \in Workers : workerJob'[v] # j
        BY <1>1, <3>1, <3>4, <4>1, NullAssumption DEF Release, TypeOK
      <4>4. QED
        BY <2>1, <3>1, <3>4, <4>1, <4>2, <4>3 DEF NotElsewhere, CreatorHolds
    <3>6. MovedTo(j, AtZset(q))
      BY <3>3, <3>4, <3>5 DEF MovedTo
    <3>7. QED
      BY <2>1, <2>2, <2>3, <3>1, <3>2, <3>6, PlacesStep
  <2>6. QED
    BY <1>10, <2>4, <2>5
<1>11. QED
  BY <1>3, <1>4, <1>5, <1>6, <1>7, <1>8, <1>9, <1>10 DEF WorkerStep

-----------------------------------------------------------------------------
(***************************************************************************)
(* Steps of the schedulers.                                                *)
(***************************************************************************)

\* A job that a scheduler holds is with that scheduler only.
LEMMA SchedulerOwns ==
    ASSUME PlaceInv, NEW s \in Schedulers, NEW j \in Jobs, NEW p \in Place, At(j, p),
           p = AtRequeue(s) \/ \E q \in Zsets : p = AtBatch(s, q) \/ p = AtTimers(s, q)
    PROVE  /\ NotElsewhere(j, p)
           /\ jobState[j] \in StatesAt(p)
           /\ jobState[j] # "none"
           /\ ~CreatorHolds(j) /\ ~InQueue(j) /\ j \notin nameless
           /\ creator[j] \notin {"none", "numbered"}
           /\ \A q \in Zsets : j \notin zset[q]
           /\ \A w \in Workers : workerJob[w] # j
           /\ \A t \in Schedulers \ {s} : cached[t][j] = "none"
           /\ \A t \in Schedulers, q \in Zsets :
                 /\ p # AtBatch(t, q) => j \notin batch[t][q]
                 /\ p # AtTimers(t, q) => j \notin timers[t][q]
           /\ \A t \in Schedulers : p # AtRequeue(t) => j \notin requeue[t]
<1>1. NotElsewhere(j, p) /\ jobState[j] \in StatesAt(p)
  BY Whereabouts
<1>2. jobState[j] # "none"
  BY <1>1, StatesAtNames DEF ScheduledState, FinalState, Zsets
<1>3. creator[j] \notin {"none", "numbered"}
  BY <1>2 DEF PlaceInv, FreshRecord
<1>4. p # AtCreator /\ p # AtQueue /\ p # AtNameless /\ \A q \in Zsets : p # AtZset(q)
  BY DEF AtCreator, AtQueue, AtNameless, AtZset, AtBatch, AtTimers, AtRequeue
<1>5. \A w \in Workers : p # AtWorker(w)
  BY DEF AtWorker, AtBatch, AtTimers, AtRequeue
<1>6. \A t \in Schedulers \ {s}, q \in Zsets : p # AtBatch(t, q) /\ p # AtTimers(t, q)
  BY DEF AtBatch, AtTimers, AtRequeue
<1>7. \A t \in Schedulers \ {s} : cached[t][j] = "none"
  BY <1>1, <1>6, NotCached
<1>8. QED
  BY <1>1, <1>2, <1>3, <1>4, <1>5, <1>7 DEF NotElsewhere

LEMMA PlacePing ==
    ASSUME PlaceInv, NEW s \in Schedulers, NEW due \in DueBatches, Ping(s, due)
    PROVE  OnePlace' /\ PlaceMatchesState' /\ NoStaleState' /\ FreshRecord' /\ CacheHeld'
<1> USE DEF records, places, creatorVars, workerVars, schedVars, history
<1>1. NoDuplicates /\ TypeInv /\ TypeOK
  BY OnePlaceMeaning DEF PlaceInv, TypeInv
<1>2. PlaceNames /\ StatesAtNames'
  BY PlaceNames, StatesAtNames, PTL
<1>3. NoDuplicates' /\ \A k \in Jobs : InQueue(k)' <=> InQueue(k)
  BY <1>1, QueueSame DEF Ping
<1>4. NoStaleState'
  BY MemoriesKept DEF Ping
<1>5. FreshRecord'
  BY DEF Ping, PlaceInv, FreshRecord, CreatorHolds
<1>6. CacheHeld'
  BY <1>1 DEF Ping, PlaceInv, CacheHeld, TypeOK
<1>7. /\ due \in [Zsets -> SUBSET Jobs]
      /\ \A q \in Zsets : due[q] \subseteq zset[q]
      /\ zset' = [q \in Zsets |-> zset[q] \ due[q]]
      /\ batch' = [batch EXCEPT ![s] = due]
      /\ UNCHANGED <<records, queue, nameless, creatorVars, workerVars, cached, timers,
                     requeue>>
  BY DEF DueBatches, Ping
<1>8. ASSUME NEW j \in Jobs, NEW q \in Zsets, j \in due[q]
      PROVE  MovedTo(j, AtBatch(s, q))
  <2>1. j \in zset[q] /\ At(j, AtZset(q))
    BY <1>7, <1>8, AtNames
  <2>2. NotElsewhere(j, AtZset(q)) /\ jobState[j] \in StatesAt(AtZset(q))
    BY <1>2, <2>1, Whereabouts
  <2>3. /\ ~CreatorHolds(j) /\ ~InQueue(j) /\ j \notin nameless
        /\ \A r \in Zsets \ {q} : j \notin zset[r]
        /\ \A w \in Workers : workerJob[w] # j
        /\ \A t \in Schedulers, r \in Zsets : j \notin batch[t][r] /\ j \notin timers[t][r]
        /\ \A t \in Schedulers : j \notin requeue[t]
    BY <2>2 DEF NotElsewhere,
       AtCreator, AtQueue, AtNameless, AtZset, AtWorker, AtBatch, AtTimers, AtRequeue
  <2>4. \A r \in Zsets : j \notin zset'[r]
    BY <1>7, <1>8, <2>3
  <2>5. \A t \in Schedulers, r \in Zsets : j \in batch'[t][r] => t = s /\ r = q
    BY <1>1, <1>7, <2>3 DEF TypeOK
  <2>6. NotElsewhere(j, AtBatch(s, q))'
    BY <1>3, <1>7, <2>3, <2>4, <2>5 DEF NotElsewhere, CreatorHolds
  <2>7. jobState'[j] \in StatesAt(AtBatch(s, q))'
    BY <1>2, <1>7, <2>2, StatesAtNames DEF Zsets
  <2>8. QED
    BY <2>6, <2>7 DEF MovedTo
<1>9. ASSUME NEW j \in Jobs, \A q \in Zsets : j \notin due[q]
      PROVE  Untouched(j)
  BY <1>1, <1>3, <1>7, <1>9 DEF Untouched, CreatorHolds, TypeOK
<1>10. OnePlace' /\ PlaceMatchesState'
  BY <1>2, <1>3, <1>8, <1>9, PlacesStep
<1>11. QED
  BY <1>4, <1>5, <1>6, <1>10

\* A scheduler drops jobs, or only reads: no job gets to a new place.
LEMMA PlaceDrop ==
    ASSUME PlaceInv, NEW s \in Schedulers,
           \/ \E q \in Zsets, j \in Jobs : FetchScheduled(s, q, j)
           \/ \E q \in Zsets : BatchFails(s, q)
           \/ \E j \in Jobs : TaskFails(s, j)
           \/ SchedulerCrashes(s)
    PROVE  OnePlace' /\ PlaceMatchesState' /\ NoStaleState' /\ FreshRecord' /\ CacheHeld'
<1> USE DEF records, places, creatorVars, workerVars, schedVars, history
<1>1. NoDuplicates /\ TypeInv /\ TypeOK
  BY OnePlaceMeaning DEF PlaceInv, TypeInv
<1>2. NoDuplicates' /\ \A k \in Jobs : InQueue(k)' <=> InQueue(k)
  BY <1>1, QueueSame DEF FetchScheduled, BatchFails, TaskFails, SchedulerCrashes
<1>3. FreshRecord'
  BY DEF FetchScheduled, BatchFails, TaskFails, SchedulerCrashes,
         PlaceInv, FreshRecord, CreatorHolds
<1>4. \A k \in Jobs : Untouched(k)
  <2>1. UNCHANGED <<jobState, creator, workerJob, pc, nameless, zset>>
    BY DEF FetchScheduled, BatchFails, TaskFails, SchedulerCrashes
  <2> DEFINE Fewer == \A t \in Schedulers :
                         /\ requeue'[t] \subseteq requeue[t]
                         /\ \A q \in Zsets : /\ batch'[t][q] \subseteq batch[t][q]
                                             /\ timers'[t][q] \subseteq timers[t][q]
  <2>2. ASSUME NEW q \in Zsets, BatchFails(s, q)
        PROVE  Fewer
    BY <1>1, <2>2 DEF BatchFails, TypeOK
  <2>3. ASSUME NEW j \in Jobs, TaskFails(s, j)
        PROVE  Fewer
    BY <1>1, <2>3 DEF TaskFails, TypeOK
  <2>4. ASSUME SchedulerCrashes(s)
        PROVE  Fewer
    BY <1>1, <2>4 DEF SchedulerCrashes, TypeOK
  <2>5. ASSUME NEW q \in Zsets, NEW j \in Jobs, FetchScheduled(s, q, j)
        PROVE  Fewer
    BY <2>5 DEF FetchScheduled
  <2>6. Fewer
    BY <2>2, <2>3, <2>4, <2>5
  <2>7. QED
    BY <1>2, <2>1, <2>6 DEF Untouched, CreatorHolds
<1>5. OnePlace' /\ PlaceMatchesState'
  BY <1>2, <1>4, PlacesStep
<1>6. ASSUME NEW q \in Zsets, NEW j \in Jobs, FetchScheduled(s, q, j)
      PROVE  NoStaleState' /\ CacheHeld'
  BY <1>1, <1>6 DEF FetchScheduled, PlaceInv, NoStaleState, CacheHeld, TypeOK
<1>7. ASSUME NEW q \in Zsets, BatchFails(s, q)
      PROVE  NoStaleState' /\ CacheHeld'
  <2>1. NoStaleState'
    BY <1>1, <1>7 DEF BatchFails, PlaceInv, NoStaleState, TypeOK
  <2>2. ASSUME NEW j \in Jobs, NEW r \in Zsets, j \in timers[s][r]
        PROVE  j \notin batch[s][q]
    <3>1. At(j, AtTimers(s, r)) /\ AtTimers(s, r) \in Place
      BY <2>2, AtNames, PlaceNames
    <3>2. AtTimers(s, r) # AtBatch(s, q)
      BY DEF AtTimers, AtBatch
    <3>3. QED
      BY <3>1, <3>2, SchedulerOwns
  <2>3. CacheHeld'
    BY <1>1, <1>7, <2>2 DEF BatchFails, PlaceInv, CacheHeld, TypeOK
  <2>4. QED
    BY <2>1, <2>3
<1>8. ASSUME NEW j \in Jobs, TaskFails(s, j)
      PROVE  NoStaleState' /\ CacheHeld'
  BY <1>1, <1>8 DEF TaskFails, PlaceInv, NoStaleState, CacheHeld, TypeOK
<1>9. ASSUME SchedulerCrashes(s)
      PROVE  NoStaleState' /\ CacheHeld'
  <2>1. /\ \A t \in Schedulers \ {s} :
              batch'[t] = batch[t] /\ timers'[t] = timers[t] /\ cached'[t] = cached[t]
        /\ \A q \in Zsets : timers'[s][q] = {}
        /\ \A j \in Jobs : cached'[s][j] = "none"
        /\ UNCHANGED <<jobState, pc, workerJob, workerState>>
    BY <1>1, <1>9 DEF SchedulerCrashes, TypeOK
  <2>2. QED
    BY <2>1 DEF PlaceInv, NoStaleState, CacheHeld
<1>10. QED
  BY <1>3, <1>5, <1>6, <1>7, <1>8, <1>9

LEMMA PlaceLineup ==
    ASSUME PlaceInv, NEW s \in Schedulers, NEW q \in Zsets, Lineup(s, q)
    PROVE  OnePlace' /\ PlaceMatchesState' /\ NoStaleState' /\ FreshRecord' /\ CacheHeld'
<1> USE DEF records, places, creatorVars, workerVars, schedVars, history
<1>1. NoDuplicates /\ TypeInv /\ TypeOK
  BY OnePlaceMeaning DEF PlaceInv, TypeInv
<1>2. PlaceNames /\ StatesAtNames'
  BY PlaceNames, StatesAtNames, PTL
<1>3. NoDuplicates' /\ \A k \in Jobs : InQueue(k)' <=> InQueue(k)
  BY <1>1, QueueSame DEF Lineup
<1>4. NoStaleState'
  BY MemoriesKept DEF Lineup
<1>5. FreshRecord'
  BY DEF Lineup, PlaceInv, FreshRecord, CreatorHolds
<1>6. /\ \A j \in batch[s][q] : cached[s][j] # "none"
      /\ timers' = [timers EXCEPT ![s] = [timers[s] EXCEPT ![q] = @ \union batch[s][q]]]
      /\ batch' = [batch EXCEPT ![s] = [batch[s] EXCEPT ![q] = {}]]
      /\ UNCHANGED <<records, places, creatorVars, workerVars, cached, requeue, history>>
  BY DEF Lineup
<1>7. /\ \A t \in Schedulers, r \in Zsets : ~(t = s /\ r = q) =>
            timers'[t][r] = timers[t][r] /\ batch'[t][r] = batch[t][r]
      /\ timers'[s][q] = timers[s][q] \union batch[s][q]
      /\ batch'[s][q] = {}
  BY <1>1, <1>6 DEF TypeOK
<1>8. CacheHeld'
  BY <1>6, <1>7 DEF PlaceInv, CacheHeld
<1>9. ASSUME NEW j \in Jobs, j \in batch[s][q]
      PROVE  MovedTo(j, AtTimers(s, q))
  <2>1. At(j, AtBatch(s, q)) /\ AtBatch(s, q) \in Place
    BY <1>2, <1>9, AtNames
  <2>2. \A t \in Schedulers, r \in Zsets :
           /\ AtBatch(s, q) # AtTimers(t, r)
           /\ AtBatch(s, q) # AtRequeue(t)
           /\ AtBatch(s, q) = AtBatch(t, r) => t = s /\ r = q
    BY DEF AtBatch, AtTimers, AtRequeue
  <2>3. /\ ~CreatorHolds(j) /\ ~InQueue(j) /\ j \notin nameless
        /\ \A r \in Zsets : j \notin zset[r]
        /\ \A w \in Workers : workerJob[w] # j
        /\ \A t \in Schedulers, r \in Zsets :
              /\ j \notin timers[t][r]
              /\ ~(t = s /\ r = q) => j \notin batch[t][r]
        /\ \A t \in Schedulers : j \notin requeue[t]
        /\ jobState[j] \in StatesAt(AtBatch(s, q))
    BY <2>1, <2>2, SchedulerOwns DEF Zsets
  <2>4. NotElsewhere(j, AtTimers(s, q))'
    BY <1>3, <1>6, <1>7, <2>3 DEF NotElsewhere, CreatorHolds
  <2>5. jobState'[j] \in StatesAt(AtTimers(s, q))'
    BY <1>2, <1>6, <2>3, StatesAtNames DEF Zsets
  <2>6. QED
    BY <2>4, <2>5 DEF MovedTo
<1>10. ASSUME NEW j \in Jobs, j \notin batch[s][q]
       PROVE  Untouched(j)
  BY <1>3, <1>6, <1>7, <1>10 DEF Untouched, CreatorHolds
<1>11. OnePlace' /\ PlaceMatchesState'
  BY <1>2, <1>3, <1>9, <1>10, PlacesStep
<1>12. QED
  BY <1>4, <1>5, <1>8, <1>11

\* A timer of a scheduler ends, and the scheduler forgets the job.
LEMMA TimerEnds ==
    ASSUME PlaceInv, NEW s \in Schedulers, NEW q \in Zsets, NEW j \in timers[s][q],
           timers' = [timers EXCEPT ![s][q] = @ \ {j}],
           cached' = [cached EXCEPT ![s][j] = "none"],
           UNCHANGED <<batch, pc, workerJob, workerState, creator, opts>>,
           \A k \in Jobs \ {j} : jobState'[k] = jobState[k]
    PROVE  /\ NoStaleState' /\ FreshRecord' /\ CacheHeld'
           /\ j \in Jobs
           /\ \A t \in Schedulers, r \in Zsets :
                 /\ timers'[t][r] \subseteq timers[t][r]
                 /\ j \notin timers'[t][r] /\ j \notin batch'[t][r]
<1>1. TypeInv /\ TypeOK
  BY DEF PlaceInv, TypeInv
<1>2. j \in Jobs
  BY <1>1 DEF TypeOK
<1>3. At(j, AtTimers(s, q)) /\ AtTimers(s, q) \in Place
  BY <1>2, AtNames, PlaceNames
<1>4. \A t \in Schedulers, r \in Zsets :
         /\ AtTimers(s, q) # AtBatch(t, r)
         /\ AtTimers(s, q) = AtTimers(t, r) => t = s /\ r = q
  BY DEF AtTimers, AtBatch
<1>5. /\ \A w \in Workers : workerJob[w] # j
      /\ creator[j] \notin {"none", "numbered"} /\ ~CreatorHolds(j)
      /\ \A t \in Schedulers \ {s} : cached[t][j] = "none"
      /\ \A t \in Schedulers, r \in Zsets :
            /\ j \notin batch[t][r]
            /\ ~(t = s /\ r = q) => j \notin timers[t][r]
  BY <1>2, <1>3, <1>4, SchedulerOwns
<1>6. timers' = [timers EXCEPT ![s] = [timers[s] EXCEPT ![q] = @ \ {j}]]
  OBVIOUS
<1>7. \A t \in Schedulers, r \in Zsets :
         timers'[t][r] = IF t = s /\ r = q THEN timers[t][r] \ {j} ELSE timers[t][r]
  <2>1. timers[s] \in [Zsets -> SUBSET Jobs]
    BY <1>1 DEF TypeOK
  <2>2. timers'[s] = [timers[s] EXCEPT ![q] = @ \ {j}]
    BY <1>1, <1>6 DEF TypeOK
  <2>3. \A t \in Schedulers \ {s} : timers'[t] = timers[t]
    BY <1>1, <1>6 DEF TypeOK
  <2>4. \A r \in Zsets : timers'[s][r] = IF r = q THEN timers[s][r] \ {j} ELSE timers[s][r]
    BY <2>1, <2>2
  <2>5. QED
    BY <2>3, <2>4
<1>8. cached' = [cached EXCEPT ![s] = [cached[s] EXCEPT ![j] = "none"]]
  OBVIOUS
<1>9. \A t \in Schedulers, k \in Jobs :
         cached'[t][k] = IF t = s /\ k = j THEN "none" ELSE cached[t][k]
  BY <1>1, <1>8 DEF TypeOK
<1>10. CacheHeld'
  BY <1>2, <1>5, <1>7, <1>9 DEF PlaceInv, CacheHeld
<1>11. FreshRecord'
  BY <1>5 DEF PlaceInv, FreshRecord, CreatorHolds
<1>12. NoStaleState'
  <2>1. \A w \in Workers : pc[w] # "idle" => workerJob[w] \in Jobs \ {j}
    BY <1>1, <1>5, WorkerHasJob
  <2>2. \A t \in Schedulers, k \in Jobs : cached'[t][k] # "none" => k # j /\ cached'[t][k] = cached[t][k]
    BY <1>5, <1>9
  <2>3. QED
    BY <2>1, <2>2 DEF PlaceInv, NoStaleState
<1>13. QED
  BY <1>2, <1>5, <1>7, <1>10, <1>11, <1>12

\* The facts about a job whose timer ends.
LEMMA TimerOwns ==
    ASSUME PlaceInv, NEW s \in Schedulers, NEW q \in Zsets, NEW j \in Jobs, j \in timers[s][q]
    PROVE  /\ ~CreatorHolds(j) /\ ~InQueue(j) /\ j \notin nameless
           /\ \A r \in Zsets : j \notin zset[r]
           /\ \A w \in Workers : workerJob[w] # j
           /\ \A t \in Schedulers : j \notin requeue[t]
<1>1. At(j, AtTimers(s, q)) /\ AtTimers(s, q) \in Place
  BY AtNames, PlaceNames
<1>2. \A t \in Schedulers : AtTimers(s, q) # AtRequeue(t)
  BY DEF AtTimers, AtRequeue
<1>3. QED
  BY <1>1, <1>2, SchedulerOwns

LEMMA PlaceAddToProcessQueue ==
    ASSUME PlaceInv, NEW s \in Schedulers, NEW j \in Jobs, AddToProcessQueue(s, j)
    PROVE  OnePlace' /\ PlaceMatchesState' /\ NoStaleState' /\ FreshRecord' /\ CacheHeld'
<1> USE DEF records, places, creatorVars, workerVars, schedVars, history
<1>1. NoDuplicates /\ TypeInv /\ TypeOK
  BY OnePlaceMeaning DEF PlaceInv, TypeInv
<1>2. PlaceNames /\ StatesAtNames' /\ "scheduled" \in Zsets
  <2>1. PlaceNames /\ StatesAtNames'
    BY PlaceNames, StatesAtNames, PTL
  <2>2. QED
    BY <2>1 DEF Zsets
<1>3. NoDuplicates' /\ \A k \in Jobs : InQueue(k)' <=> InQueue(k)
  BY <1>1, QueueSame DEF AddToProcessQueue
<1>4. /\ j \in timers[s]["scheduled"]
      /\ timers' = [timers EXCEPT ![s]["scheduled"] = @ \ {j}]
      /\ jobState' = [jobState EXCEPT ![j] = "queued"]
      /\ cached' = [cached EXCEPT ![s][j] = "none"]
      /\ requeue' = [requeue EXCEPT ![s] = @ \union {j}]
      /\ UNCHANGED <<places, creatorVars, workerVars, batch>>
  BY DEF AddToProcessQueue, SetState
<1>5. /\ jobState'[j] = "queued"
      /\ \A k \in Jobs \ {j} : jobState'[k] = jobState[k]
      /\ \A t \in Schedulers :
            requeue'[t] = IF t = s THEN requeue[t] \union {j} ELSE requeue[t]
  BY <1>1, <1>4 DEF TypeOK
<1>6. /\ NoStaleState' /\ FreshRecord' /\ CacheHeld'
      /\ \A t \in Schedulers, r \in Zsets :
            /\ timers'[t][r] \subseteq timers[t][r]
            /\ j \notin timers'[t][r] /\ j \notin batch'[t][r]
  BY <1>2, <1>4, <1>5, TimerEnds
<1>7. MovedTo(j, AtRequeue(s))
  <2>1. NotElsewhere(j, AtRequeue(s))'
    <3>1. /\ ~CreatorHolds(j) /\ ~InQueue(j) /\ j \notin nameless
          /\ \A r \in Zsets : j \notin zset[r]
          /\ \A w \in Workers : workerJob[w] # j
          /\ \A t \in Schedulers : j \notin requeue[t]
      BY <1>2, <1>4, TimerOwns
    <3>2. QED
      BY <1>3, <1>4, <1>5, <1>6, <3>1 DEF NotElsewhere, CreatorHolds
  <2>2. jobState'[j] \in StatesAt(AtRequeue(s))'
    BY <1>2, <1>5
  <2>3. QED
    BY <2>1, <2>2 DEF MovedTo
<1>8. \A k \in Jobs \ {j} : Untouched(k)
  BY <1>3, <1>4, <1>5, <1>6 DEF Untouched, CreatorHolds
<1>9. OnePlace' /\ PlaceMatchesState'
  BY <1>2, <1>3, <1>7, <1>8, PlacesStep
<1>10. QED
  BY <1>6, <1>9

LEMMA PlacePurgeJob ==
    ASSUME PlaceInv, NEW s \in Schedulers, NEW j \in Jobs, PurgeJob(s, j)
    PROVE  OnePlace' /\ PlaceMatchesState' /\ NoStaleState' /\ FreshRecord' /\ CacheHeld'
<1> USE DEF records, places, creatorVars, workerVars, schedVars, history
<1>1. NoDuplicates /\ TypeInv /\ TypeOK
  BY OnePlaceMeaning DEF PlaceInv, TypeInv
<1>2. "scheduled-purge" \in Zsets
  BY DEF Zsets
<1>3. NoDuplicates' /\ \A k \in Jobs : InQueue(k)' <=> InQueue(k)
  BY <1>1, QueueSame DEF PurgeJob
<1>4. /\ j \in timers[s]["scheduled-purge"]
      /\ timers' = [timers EXCEPT ![s]["scheduled-purge"] = @ \ {j}]
      /\ cached' = [cached EXCEPT ![s][j] = "none"]
      /\ UNCHANGED <<queue, nameless, zset, creatorVars, workerVars, batch, requeue>>
  BY DEF PurgeJob
<1>5. \A k \in Jobs \ {j} : jobState'[k] = jobState[k]
  BY <1>1 DEF PurgeJob, DeleteItem, TypeOK
<1>6. /\ NoStaleState' /\ FreshRecord' /\ CacheHeld'
      /\ \A t \in Schedulers, r \in Zsets :
            /\ timers'[t][r] \subseteq timers[t][r]
            /\ j \notin timers'[t][r] /\ j \notin batch'[t][r]
  BY <1>2, <1>4, <1>5, TimerEnds
<1>7. Gone(j)
  <2>1. /\ ~CreatorHolds(j) /\ ~InQueue(j) /\ j \notin nameless
        /\ \A r \in Zsets : j \notin zset[r]
        /\ \A w \in Workers : workerJob[w] # j
        /\ \A t \in Schedulers : j \notin requeue[t]
    BY <1>2, <1>4, TimerOwns
  <2>2. NotElsewhere(j, Nobody)'
    BY <1>3, <1>4, <1>6, <2>1 DEF NotElsewhere, CreatorHolds
  <2>3. QED
    BY <2>2 DEF Gone
<1>8. \A k \in Jobs \ {j} : Untouched(k)
  BY <1>3, <1>4, <1>5, <1>6 DEF Untouched, CreatorHolds
<1>9. OnePlace' /\ PlaceMatchesState'
  BY <1>3, <1>7, <1>8, PlacesStep
<1>10. QED
  BY <1>6, <1>9

LEMMA PlaceEnqueue ==
    ASSUME PlaceInv, NEW s \in Schedulers, NEW j \in Jobs, Enqueue(s, j)
    PROVE  OnePlace' /\ PlaceMatchesState' /\ NoStaleState' /\ FreshRecord' /\ CacheHeld'
<1> USE DEF records, places, creatorVars, workerVars, schedVars, history
<1>1. NoDuplicates /\ TypeInv /\ TypeOK
  BY OnePlaceMeaning DEF PlaceInv, TypeInv
<1>2. PlaceNames /\ StatesAtNames /\ StatesAtNames'
  BY PlaceNames, StatesAtNames, PTL
<1>3. At(j, AtRequeue(s)) /\ AtRequeue(s) \in Place
  BY <1>2, AtNames DEF Enqueue
<1>4. \A t \in Schedulers :
         /\ \A r \in Zsets : AtRequeue(s) # AtBatch(t, r) /\ AtRequeue(s) # AtTimers(t, r)
         /\ AtRequeue(s) = AtRequeue(t) => t = s
  BY DEF AtRequeue, AtBatch, AtTimers
<1>5. /\ ~CreatorHolds(j) /\ ~InQueue(j) /\ j \notin nameless
      /\ \A r \in Zsets : j \notin zset[r]
      /\ \A w \in Workers : workerJob[w] # j
      /\ \A t \in Schedulers, r \in Zsets : j \notin batch[t][r] /\ j \notin timers[t][r]
      /\ \A t \in Schedulers \ {s} : j \notin requeue[t]
      /\ jobState[j] = "queued"
  BY <1>2, <1>3, <1>4, SchedulerOwns
<1>6. /\ \A t \in Schedulers :
            requeue'[t] = IF t = s THEN requeue[t] \ {j} ELSE requeue[t]
      /\ UNCHANGED <<records, zset, creatorVars, workerVars, batch, cached, timers>>
  BY <1>1 DEF Enqueue, TypeOK
<1>7. NoStaleState'
  BY <1>6, MemoriesKept
<1>8. FreshRecord' /\ CacheHeld'
  BY <1>6 DEF PlaceInv, FreshRecord, CreatorHolds, CacheHeld
<1>9. CASE j \in blank[s]
  <2>1. nameless' = nameless \union {j} /\ UNCHANGED queue
    BY <1>9 DEF Enqueue
  <2>2. NoDuplicates' /\ \A k \in Jobs : InQueue(k)' <=> InQueue(k)
    BY <1>1, <2>1, QueueSame
  <2>3. NotElsewhere(j, AtNameless)'
    BY <1>5, <1>6, <2>1, <2>2 DEF NotElsewhere, CreatorHolds
  <2>4. jobState'[j] \in StatesAt(AtNameless)'
    BY <1>2, <1>5, <1>6
  <2>5. MovedTo(j, AtNameless)
    BY <2>3, <2>4 DEF MovedTo
  <2>6. \A k \in Jobs \ {j} : Untouched(k)
    BY <1>6, <2>1, <2>2 DEF Untouched, CreatorHolds
  <2>7. OnePlace' /\ PlaceMatchesState'
    BY <1>2, <2>2, <2>5, <2>6, PlacesStep
  <2>8. QED
    BY <1>7, <1>8, <2>7
<1>10. CASE j \notin blank[s]
  <2>1. queue' = Append(queue, j) /\ UNCHANGED nameless
    BY <1>10 DEF Enqueue
  <2>2. NoDuplicates' /\ \A k \in Jobs \ {j} : InQueue(k)' => InQueue(k)
    BY <1>1, <1>5, <2>1, QueueAppend DEF TypeOK
  <2>3. NotElsewhere(j, AtQueue)'
    BY <1>5, <1>6, <2>1 DEF NotElsewhere, CreatorHolds
  <2>4. jobState'[j] \in StatesAt(AtQueue)'
    BY <1>2, <1>5, <1>6 DEF ReadyState
  <2>5. MovedTo(j, AtQueue)
    BY <2>3, <2>4 DEF MovedTo
  <2>6. \A k \in Jobs \ {j} : Untouched(k)
    BY <1>6, <2>1, <2>2 DEF Untouched, CreatorHolds
  <2>7. OnePlace' /\ PlaceMatchesState'
    BY <1>2, <2>2, <2>5, <2>6, PlacesStep
  <2>8. QED
    BY <1>7, <1>8, <2>7
<1>11. QED
  BY <1>9, <1>10

\* An entry that falls behind stays where it is.
LEMMA PlaceBehind ==
    ASSUME PlaceInv, NEW j \in Jobs, FallsBehind(j)
    PROVE  OnePlace' /\ PlaceMatchesState' /\ NoStaleState' /\ FreshRecord' /\ CacheHeld'
<1> USE DEF records, places, creatorVars, workerVars, schedVars, history
<1>1. NoDuplicates
  BY OnePlaceMeaning DEF PlaceInv
<1>2. UNCHANGED <<records, queue, nameless, zset, creatorVars, workerVars, schedVars>>
  BY DEF FallsBehind
<1>3. NoDuplicates' /\ \A k \in Jobs : InQueue(k)' <=> InQueue(k)
  BY <1>1, <1>2, QueueSame
<1>4. \A k \in Jobs : Untouched(k)
  BY <1>2, <1>3 DEF Untouched, CreatorHolds
<1>5. NoStaleState' /\ FreshRecord' /\ CacheHeld'
  BY <1>2 DEF PlaceInv, NoStaleState, FreshRecord, CreatorHolds, CacheHeld
<1>6. QED
  BY <1>3, <1>4, <1>5, PlacesStep

-----------------------------------------------------------------------------

LEMMA PlaceInit == Init => PlaceInv
<1> SUFFICES ASSUME Init PROVE PlaceInv
  OBVIOUS
<1>1. TypeInv
  BY TypeInit
<1>2. ASSUME NEW j \in Jobs, NEW p \in Place, At(j, p)
      PROVE  FALSE
  <2>1. /\ ~CreatorHolds(j) /\ ~InQueue(j) /\ j \notin nameless
        /\ \A q \in Zsets : j \notin zset[q]
        /\ \A w \in Workers : workerJob[w] # j
        /\ \A s \in Schedulers, q \in Zsets : j \notin batch[s][q] /\ j \notin timers[s][q]
        /\ \A s \in Schedulers : j \notin requeue[s]
    BY NullAssumption DEF Init, CreatorHolds, InQueue
  <2>2. QED
    BY <1>2, <2>1, AtNames, PlaceCases
<1>3. OnePlace /\ PlaceMatchesState
  BY <1>2 DEF OnePlace, PlaceMatchesState, Init
<1>4. NoStaleState /\ FreshRecord /\ CacheHeld
  BY DEF Init, NoStaleState, FreshRecord, CreatorHolds, CacheHeld
<1>5. QED
  BY <1>1, <1>3, <1>4 DEF PlaceInv

LEMMA PlaceStep == PlaceInv /\ [Next]_vars => PlaceInv'
<1> SUFFICES ASSUME PlaceInv, [Next]_vars PROVE PlaceInv'
  OBVIOUS
<1>1. TypeInv'
  BY TypeStep DEF PlaceInv
<1> DEFINE Rest == OnePlace' /\ PlaceMatchesState' /\ NoStaleState' /\ FreshRecord' /\ CacheHeld'
<1>2. CASE UNCHANGED vars
  <2>1. (\A j \in Jobs : Untouched(j)) /\ NoDuplicates'
    BY <1>2, OnePlaceMeaning DEF PlaceInv, vars, Untouched, CreatorHolds, InQueue, NoDuplicates
  <2>2. NoStaleState' /\ FreshRecord' /\ CacheHeld'
    BY <1>2 DEF PlaceInv, vars, NoStaleState, FreshRecord, CreatorHolds, CacheHeld
  <2>3. Rest
    BY <2>1, <2>2, PlacesStep
  <2>4. QED
    BY <1>1, <2>3 DEF PlaceInv
<1>3. ASSUME NEW s \in Schedulers, SchedulerStep(s)
      PROVE  Rest
  BY <1>3, PlacePing, PlaceDrop, PlaceLineup, PlaceAddToProcessQueue, PlacePurgeJob,
     PlaceEnqueue DEF SchedulerStep
<1>4. ASSUME Fault
      PROVE  Rest
  BY <1>4, PlaceCreator, PlaceWorker, PlaceDrop, PlaceBehind DEF Fault
<1>5. CASE Next
  <2>1. Rest
    BY <1>3, <1>4, <1>5, PlaceCreator, PlaceWorker DEF Next
  <2>2. QED
    BY <1>1, <2>1 DEF PlaceInv
<1>6. QED
  BY <1>2, <1>5

\* PlaceInv is an inductive invariant.
LEMMA PlacesAlways == Spec => []PlaceInv
BY PlaceInit, PlaceStep, PTL DEF Spec

\* A job is never in two places: whatever crashes, and however creators,
\* workers and schedulers interleave, no id is queued twice, popped twice or
\* queued while it is scheduled.
THEOREM JobInOnePlace == Spec => []OnePlace
<1>1. PlaceInv => OnePlace
  BY DEF PlaceInv
<1>2. QED
  BY <1>1, PlacesAlways, PTL

\* The record of a job that somebody holds exists and is in a state that the
\* code of its holder handles: a popped job is ready to run, a job whose purge
\* is due is complete.
THEOREM PlaceFitsState == Spec => []PlaceMatchesState
<1>1. PlaceInv => PlaceMatchesState
  BY DEF PlaceInv
<1>2. QED
  BY <1>1, PlacesAlways, PTL

\* The state that a worker or a scheduler fetched earlier is still the state
\* in redis whenever it is used to leave the old state set.
THEOREM MemoryIsFresh == Spec => []NoStaleState
<1>1. PlaceInv => NoStaleState
  BY DEF PlaceInv
<1>2. QED
  BY <1>1, PlacesAlways, PTL
=============================================================================
