--------------------------- MODULE WorkerPoolProofs ---------------------------
(***************************************************************************)
(* Proofs about the workers of one process, for any number of managers,    *)
(* workers and fetches: a run is settled at most once and by its own       *)
(* report, a disposed worker is quiet, and no worker sleeps that nothing   *)
(* will wake.                                                              *)
(*                                                                         *)
(* The invariant has two parts for each worker. RunsFit relates the number *)
(* of the current fetch to the runs whose timer is pending, whose consumer *)
(* was called and whose outcome was saved. Wakes says what is under way,   *)
(* or who listens, while the worker does nothing.                          *)
(***************************************************************************)
EXTENDS WorkerPool, TLAPS

\* The runs of a worker: a consumer is called once per fetch, at the end of
\* it, and the job that a worker holds has no outcome before it is saved.
RunsFit(w) ==
    /\ timers[w] \subseteq called[w]
    /\ called[w] \subseteq 1 .. count[w]
    /\ fetching[w] # "no" => count[w] \in Counts \ called[w]
    /\ item[w] # 0 => item[w] \in called[w]
    /\ item[w] # 0 /\ count[w] \in called[w] => item[w] = count[w]
    /\ item[w] # 0 /\ saving[w] = 0 => settled[w][item[w]] = <<>>
    /\ \A k \in Counts : settled[w][k] \in {<<>>, <<k>>}
    /\ \A k \in Counts : settled[w][k] # <<>> => k \in called[w]

\* How a worker goes on. While the watcher says "connected" it is busy by
\* itself; a worker whose manager does not wait for "connect" has not begun.
Wakes(w) ==
    /\ state[w] = "none" <=> ManagerOf[w] \notin started
    /\ state[w] = "none" => count[w] = 0 /\ saving[w] = 0 /\ retries[w] = 0
    /\ state[w] = "pop_wait" /\ ~disposed[w] => fetching[w] # "no"
    /\ connected /\ ~disposed[w] /\ count[w] \in called[w] => item[w] # 0
    /\ ~connected /\ ManagerOf[w] \notin waiting => count[w] = 0
    /\ connected /\ Live(w) /\ ManagerOf[w] \notin downStart => Stirs(w)

\* The managers that were there when the connection was lost wait for it.
ManagersWait == ~connected => started \subseteq waiting \union downStart

\* The step that ends the process is the last one: what it leaves does not matter.
PoolInv ==
    /\ TypeOK
    /\ OneOutcomePerJob
    /\ ~crashed => ManagersWait /\ \A w \in Workers : RunsFit(w) /\ Wakes(w)

\* The parts of a worker that its callbacks change stay as they are.
Unmoved(v) ==
    /\ state'[v] = state[v] /\ count'[v] = count[v] /\ fetching'[v] = fetching[v]
    /\ item'[v] = item[v] /\ disposed'[v] = disposed[v] /\ saving'[v] = saving[v]
    /\ timers'[v] = timers[v] /\ retries'[v] = retries[v] /\ called'[v] = called[v]
    /\ settled'[v] = settled[v]

-----------------------------------------------------------------------------

\* The state of a worker after an answer, and that of its process item.
LEMMA AnswerTypes ==
    ASSUME NEW answer \in Answers
    PROVE  /\ PostState(answer) \in State \ {"pop_wait"}
           /\ RunState(answer) \in {"success", "fail"}
BY DEF Answers, PostState, RunState, State

\* What startWorker does: its worker begins a fetch, or nothing happens.
LEMMA Starting ==
    ASSUME TypeOK, NEW w \in Workers,
           NEW st \in [Workers -> State \union {"none"}], StartWorker(w, st)
    PROVE  /\ state' \in [Workers -> State \union {"none"}]
           /\ count' \in [Workers -> Nat]
           /\ fetching' \in [Workers -> {"no", "blpop", "item"}]
           /\ \A v \in Workers \ {w} : /\ state'[v] = st[v] /\ count'[v] = count[v]
                                       /\ fetching'[v] = fetching[v]
           /\ IF ~disposed[w] /\ connected /\ st[w] # "pop_wait"
              THEN /\ count[w] < MaxCount /\ count'[w] = count[w] + 1
                   /\ state'[w] = "pop_wait" /\ fetching'[w] = "blpop"
              ELSE /\ state'[w] = st[w] /\ count'[w] = count[w]
                   /\ fetching'[w] = fetching[w]
<1> DEFINE go == {v \in {w} \ {u \in Workers : disposed[u]} :
                     connected /\ st[v] # "pop_wait"}
<1>1. /\ \A v \in go : count[v] < MaxCount
      /\ state' = [v \in Workers |-> IF v \in go THEN "pop_wait" ELSE st[v]]
      /\ count' = [v \in Workers |-> IF v \in go THEN count[v] + 1 ELSE count[v]]
      /\ fetching' = [v \in Workers |-> IF v \in go THEN "blpop" ELSE fetching[v]]
  BY DEF StartWorker, StartWorkers
<1>2. \A v \in Workers : v \in go <=>
         v = w /\ ~disposed[w] /\ connected /\ st[w] # "pop_wait"
  OBVIOUS
<1> HIDE DEF go
<1>3. /\ count \in [Workers -> Nat]
      /\ fetching \in [Workers -> {"no", "blpop", "item"}]
  BY DEF TypeOK
<1>4. /\ state' \in [Workers -> State \union {"none"}]
      /\ count' \in [Workers -> Nat]
      /\ fetching' \in [Workers -> {"no", "blpop", "item"}]
  BY <1>1, <1>3 DEF State
<1>5. QED
  BY <1>1, <1>2, <1>4

\* A worker of which nothing changes fits as before.
LEMMA UnmovedFits ==
    ASSUME NEW v \in Workers, Unmoved(v), ~crashed,
           UNCHANGED <<connected, started, waiting, downStart>>
    PROVE  /\ RunsFit(v) => RunsFit(v)'
           /\ Wakes(v) => Wakes(v)'
<1>1. RunsFit(v) => RunsFit(v)'
  BY DEF Unmoved, RunsFit
<1>2. Wakes(v) => Wakes(v)'
  BY DEF Unmoved, Wakes, Live, Stirs
<1>3. QED
  BY <1>1, <1>2

\* A worker that starts is fetching, under a number that no run had before.
LEMMA StartedFits ==
    ASSUME TypeOK, NEW w \in Workers, RunsFit(w), ~disposed'[w],
           count[w] < MaxCount, count'[w] = count[w] + 1, state'[w] = "pop_wait",
           fetching'[w] = "blpop", item'[w] \in {0, item[w]},
           saving'[w] = saving[w] \/ item'[w] = 0,
           timers'[w] \subseteq timers[w], called'[w] = called[w],
           settled'[w] = settled[w], connected', ManagerOf[w] \in started'
    PROVE  RunsFit(w)' /\ Wakes(w)'
<1> USE CountAssumption
<1>1. count[w] \in Nat /\ count'[w] \in Counts /\ count'[w] \notin called[w]
  BY DEF TypeOK, RunsFit, Counts
<1>2. called[w] \subseteq 1 .. count'[w]
  BY <1>1 DEF TypeOK, RunsFit, Counts
<1>3. RunsFit(w)'
  BY <1>1, <1>2 DEF RunsFit
<1>4. Wakes(w)'
  BY <1>1 DEF Wakes, Stirs
<1>5. QED
  BY <1>3, <1>4

-----------------------------------------------------------------------------
LEMMA PoolInit == Init => PoolInv
<1> SUFFICES ASSUME Init PROVE PoolInv
  OBVIOUS
<1>1. TypeOK
  <2>1. settled \in [Workers -> [Counts -> Seq(Counts)]]
    BY DEF Init
  <2>2. /\ item \in [Workers -> 0 .. MaxCount] /\ saving \in [Workers -> 0 .. MaxCount]
        /\ count \in [Workers -> Nat] /\ retries \in [Workers -> Nat]
    BY CountAssumption DEF Init
  <2>3. /\ timers \in [Workers -> SUBSET Counts] /\ called \in [Workers -> SUBSET Counts]
        /\ raised \in [Workers -> SUBSET Counts]
    BY DEF Init
  <2>3a. disposed \in [Workers -> BOOLEAN] /\ done \in [Workers -> BOOLEAN]
    BY DEF Init
  <2>4. /\ state \in [Workers -> State \union {"none"}]
        /\ run \in [Workers -> {"none", "processing", "ghost", "success", "fail"}]
        /\ fetching \in [Workers -> {"no", "blpop", "item"}]
    BY DEF Init
  <2>5. /\ up \in BOOLEAN /\ connected \in BOOLEAN /\ booted \in BOOLEAN
        /\ crashed \in BOOLEAN
        /\ started = {} /\ waiting = {} /\ downStart = {}
    BY DEF Init, RedisInit
  <2>6. QED
    BY <2>1, <2>2, <2>3, <2>4, <2>5, <2>3a DEF TypeOK
<1>2. \A w \in Workers, k \in Counts : settled[w][k] = <<>>
  BY DEF Init
<1>3. ASSUME NEW w \in Workers PROVE RunsFit(w) /\ Wakes(w)
  <2>1. RunsFit(w)
    BY <1>2 DEF Init, RunsFit
  <2>2. Wakes(w)
    BY ManagerAssumption DEF Init, RedisInit, Wakes, Live
  <2>3. QED
    BY <2>1, <2>2
<1>4. QED
  BY <1>1, <1>2, <1>3 DEF PoolInv, OneOutcomePerJob, ManagersWait, Init

-----------------------------------------------------------------------------
(***************************************************************************)
(* Steps of the process: its calls of kickq, and the connection.           *)
(***************************************************************************)

LEMMA PoolProcess ==
    ASSUME PoolInv, ~crashed, NEW m \in Managers, Process(m)
    PROVE  PoolInv'
<1> USE DEF PoolInv
<1> DEFINE st == [w \in Workers |-> IF ManagerOf[w] = m THEN "init" ELSE state[w]]
<1>1. /\ connected' = connected /\ booted' \in BOOLEAN /\ up' \in BOOLEAN
      /\ started' = started \union {m} /\ m \notin started
      /\ downStart' = IF connected THEN downStart ELSE downStart \union {m}
      /\ UNCHANGED <<waiting, jobVars, asyncVars, crashed, settled, raised>>
  BY DEF Process, Boot, Watch, redisVars, TypeOK
<1>2. st \in [Workers -> State \union {"none"}]
  BY DEF TypeOK, State
<1>3. StartWorkers(MyWorkers({m}), st, connected)
  BY DEF Process
<1>4. MyWorkers({m}) \in SUBSET Workers /\ connected \in BOOLEAN
  BY DEF MyWorkers, TypeOK
<1> HIDE DEF st
<1>5. /\ state' \in [Workers -> State \union {"none"}]
      /\ count' \in [Workers -> Nat]
      /\ fetching' \in [Workers -> {"no", "blpop", "item"}]
      /\ \A w \in Workers :
            IF w \in MyWorkers({m}) /\ connected /\ st[w] # "pop_wait"
            THEN /\ count[w] < MaxCount /\ count'[w] = count[w] + 1
                 /\ state'[w] = "pop_wait" /\ fetching'[w] = "blpop"
            ELSE /\ count'[w] = count[w]
                 /\ state'[w] = st[w] /\ fetching'[w] = fetching[w]
  <2>1. count \in [Workers -> Nat] /\ fetching \in [Workers -> {"no", "blpop", "item"}]
    BY DEF TypeOK
  <2> DEFINE go == {w \in MyWorkers({m}) : connected /\ st[w] # "pop_wait"}
  <2>2. /\ \A w \in go : count[w] < MaxCount
        /\ state' = [w \in Workers |-> IF w \in go THEN "pop_wait" ELSE st[w]]
        /\ count' = [w \in Workers |-> IF w \in go THEN count[w] + 1 ELSE count[w]]
        /\ fetching' = [w \in Workers |-> IF w \in go THEN "blpop" ELSE fetching[w]]
    BY <1>3 DEF StartWorkers
  <2>3. \A w \in Workers : w \in go <=>
           w \in MyWorkers({m}) /\ connected /\ st[w] # "pop_wait"
    OBVIOUS
  <2>4. go \in SUBSET Workers
    BY <1>4
  <2> HIDE DEF go
  <2>5. /\ state' \in [Workers -> State \union {"none"}]
        /\ count' \in [Workers -> Nat]
        /\ fetching' \in [Workers -> {"no", "blpop", "item"}]
    BY <2>1, <2>2, <1>2 DEF State
  <2>6. QED
    BY <2>2, <2>3, <2>4, <2>5
<1>6. TypeOK'
  BY <1>1, <1>5 DEF TypeOK, jobVars, asyncVars
<1>7. OneOutcomePerJob'
  BY <1>1 DEF OneOutcomePerJob
<1>8. ManagersWait'
  BY <1>1 DEF ManagersWait
<1>9. ASSUME NEW w \in Workers PROVE RunsFit(w)' /\ Wakes(w)'
  <2>1. RunsFit(w) /\ Wakes(w)
    OBVIOUS
  <2>2. CASE ManagerOf[w] # m
    <3>1. Unmoved(w)
      BY <1>1, <1>5, <2>2 DEF Unmoved, jobVars, asyncVars, MyWorkers, st
    <3>2. RunsFit(w)'
      BY <3>1, <2>1 DEF Unmoved, RunsFit
    <3>3. Wakes(w)'
      BY <3>1, <2>1, <2>2, <1>1, ManagerAssumption DEF Unmoved, Wakes, Live, Stirs
    <3>4. QED
      BY <3>2, <3>3
  <2>3. CASE ManagerOf[w] = m
    <3>1. state[w] = "none" /\ count[w] = 0 /\ saving[w] = 0 /\ st[w] = "init"
          /\ w \in MyWorkers({m})
      BY <2>1, <2>3, <1>1 DEF Wakes, MyWorkers, st
    <3>2. called[w] = {} /\ timers[w] = {} /\ fetching[w] = "no" /\ item[w] = 0
      BY <3>1, <2>1 DEF RunsFit, Counts
    <3>3. CASE connected
      <4>1. /\ count'[w] = 1 /\ state'[w] = "pop_wait" /\ fetching'[w] = "blpop"
        BY <1>5, <3>1, <3>3
      <4>2. RunsFit(w)'
        BY <4>1, <3>2, <2>1, <1>1, CountAssumption
           DEF RunsFit, jobVars, asyncVars, Counts
      <4>3. Wakes(w)'
        BY <4>1, <3>2, <3>3, <2>1, <2>3, <1>1
           DEF Wakes, Live, Stirs, jobVars, asyncVars
      <4>4. QED
        BY <4>2, <4>3
    <3>4. CASE ~connected
      <4>1. /\ count'[w] = 0 /\ state'[w] = "init" /\ fetching'[w] = "no"
        BY <1>5, <3>1, <3>2, <3>4
      <4>2. RunsFit(w)'
        BY <4>1, <3>1, <3>2, <2>1, <1>1 DEF RunsFit, jobVars, asyncVars
      <4>3. Wakes(w)'
        BY <4>1, <3>2, <3>4, <2>1, <2>3, <1>1
           DEF Wakes, Live, Stirs, jobVars, asyncVars
      <4>4. QED
        BY <4>2, <4>3
    <3>5. QED
      BY <3>3, <3>4
  <2>4. QED
    BY <2>2, <2>3
<1>10. QED
  BY <1>6, <1>7, <1>8, <1>9

LEMMA PoolReset ==
    ASSUME PoolInv, ~crashed, Reset
    PROVE  PoolInv'
<1> USE DEF PoolInv
<1>1. UNCHANGED <<redisVars, started, waiting, downStart, asyncVars, count,
                  fetching, crashed, settled, raised>>
  BY DEF Reset
<1>2. \A w \in Workers :
         IF ManagerOf[w] \in started /\ ~disposed[w]
         THEN disposed'[w] /\ state'[w] = "disposed" /\ item'[w] = 0
         ELSE disposed'[w] = disposed[w] /\ state'[w] = state[w] /\ item'[w] = item[w]
  BY DEF Reset, TypeOK
<1>3. TypeOK'
  <2>1. /\ disposed' \in [Workers -> BOOLEAN]
        /\ state' \in [Workers -> State \union {"none"}]
        /\ item' \in [Workers -> 0 .. MaxCount]
        /\ run' \in [Workers -> {"none", "processing", "ghost", "success", "fail"}]
        /\ booted' = FALSE
    BY CountAssumption DEF Reset, TypeOK, State
  <2>2. QED
    BY <2>1, <1>1 DEF TypeOK, redisVars, asyncVars
<1>4. OneOutcomePerJob'
  BY <1>1 DEF OneOutcomePerJob
<1>5. ManagersWait'
  BY <1>1 DEF ManagersWait, redisVars
<1>6. ASSUME NEW w \in Workers PROVE RunsFit(w)' /\ Wakes(w)'
  <2>1. RunsFit(w) /\ Wakes(w)
    OBVIOUS
  <2>2. RunsFit(w)'
    BY <2>1, <1>1, <1>2 DEF RunsFit, asyncVars
  <2>3. CASE ManagerOf[w] \in started /\ ~disposed[w]
    <3>1. Wakes(w)'
      BY <2>1, <2>3, <1>1, <1>2 DEF Wakes, Live, asyncVars, redisVars
    <3>2. QED
      BY <2>2, <3>1
  <2>4. CASE ~(ManagerOf[w] \in started /\ ~disposed[w])
    <3>1. Wakes(w)'
      BY <2>1, <2>4, <1>1, <1>2 DEF Wakes, Live, Stirs, asyncVars, redisVars
    <3>2. QED
      BY <2>2, <3>1
  <2>5. QED
    BY <2>3, <2>4
<1>7. QED
  BY <1>3, <1>4, <1>5, <1>6

LEMMA PoolDrop ==
    ASSUME PoolInv, ~crashed, Drop
    PROVE  PoolInv'
<1> USE DEF PoolInv, mainVars, startVars, jobVars, asyncVars
<1>1. TypeOK'
  BY DEF Drop, ClientDrops, TypeOK
<1>2. OneOutcomePerJob' /\ ManagersWait'
  BY DEF Drop, ClientDrops, OneOutcomePerJob, ManagersWait
<1>3. ASSUME NEW w \in Workers PROVE RunsFit(w)' /\ Wakes(w)'
  <2>1. Unmoved(w) /\ UNCHANGED <<connected, started, waiting, downStart>>
    BY DEF Drop, ClientDrops, Unmoved
  <2>2. QED
    BY <2>1, UnmovedFits
<1>4. QED
  BY <1>1, <1>2, <1>3

LEMMA PoolDisconnect ==
    ASSUME PoolInv, ~crashed, Disconnect
    PROVE  PoolInv'
<1> USE DEF PoolInv, startVars, jobVars, asyncVars
<1>1. connected' = FALSE /\ waiting' = started
      /\ UNCHANGED <<up, booted, started, downStart, startVars, jobVars, asyncVars,
                     crashed, settled, raised>>
  BY DEF Disconnect, HandleError, TypeOK
<1>2. TypeOK'
  BY <1>1 DEF TypeOK
<1>3. OneOutcomePerJob' /\ ManagersWait'
  BY <1>1 DEF OneOutcomePerJob, ManagersWait
<1>4. ASSUME NEW w \in Workers PROVE RunsFit(w)' /\ Wakes(w)'
  <2>1. RunsFit(w) /\ Wakes(w)
    OBVIOUS
  <2>2. RunsFit(w)'
    BY <2>1, <1>1 DEF RunsFit
  <2>3. Wakes(w)'
    BY <2>1, <1>1 DEF Wakes
  <2>4. QED
    BY <2>2, <2>3
<1>5. QED
  BY <1>2, <1>3, <1>4

LEMMA PoolReconnect ==
    ASSUME PoolInv, ~crashed, Reconnect
    PROVE  PoolInv'
<1> USE DEF PoolInv
<1>1. /\ connected' = TRUE /\ up' = TRUE
      /\ UNCHANGED <<booted, started, downStart, jobVars, asyncVars, crashed,
                     settled, raised>>
  BY DEF Reconnect, HandleConnect
<1>2. OneOutcomePerJob' /\ ManagersWait'
  BY <1>1 DEF OneOutcomePerJob, ManagersWait
<1>3. CASE connected
  <2>1. UNCHANGED <<connected, waiting, startVars>>
    BY <1>3, <1>1 DEF Reconnect, TypeOK
  <2>2. TypeOK'
    BY <2>1, <1>1 DEF TypeOK, jobVars, asyncVars, startVars
  <2>3. ASSUME NEW w \in Workers PROVE RunsFit(w)' /\ Wakes(w)'
    <3>1. Unmoved(w)
      BY <2>1, <1>1 DEF Unmoved, jobVars, asyncVars, startVars
    <3>2. QED
      BY <3>1, <2>1, <1>1, UnmovedFits
  <2>4. QED
    BY <1>2, <2>2, <2>3
<1>4. CASE ~connected
  <2> DEFINE W == {w \in MyWorkers(waiting) : ~disposed[w]}
  <2>1. waiting' = {} /\ StartWorkers(W, state, TRUE)
    BY <1>4 DEF Reconnect
  <2>2. W \in SUBSET Workers /\ state \in [Workers -> State \union {"none"}]
    BY DEF MyWorkers, TypeOK
  <2>3. \A w \in Workers : w \in W <=> ManagerOf[w] \in waiting /\ ~disposed[w]
    BY DEF MyWorkers
  <2> HIDE DEF W
  <2>4. /\ state' \in [Workers -> State \union {"none"}]
        /\ count' \in [Workers -> Nat]
        /\ fetching' \in [Workers -> {"no", "blpop", "item"}]
        /\ \A w \in Workers :
              IF w \in W /\ state[w] # "pop_wait"
              THEN /\ count[w] < MaxCount /\ count'[w] = count[w] + 1
                   /\ state'[w] = "pop_wait" /\ fetching'[w] = "blpop"
              ELSE /\ count'[w] = count[w]
                   /\ state'[w] = state[w] /\ fetching'[w] = fetching[w]
    BY <2>1, <2>2 DEF StartWorkers, TypeOK, State
  <2>5. TypeOK'
    BY <1>1, <2>1, <2>4 DEF TypeOK, jobVars, asyncVars
  <2>6. ASSUME NEW w \in Workers PROVE RunsFit(w)' /\ Wakes(w)'
    <3>1. RunsFit(w) /\ Wakes(w)
      OBVIOUS
    <3>2. UNCHANGED <<item[w], disposed[w], saving[w], timers[w], retries[w],
                      called[w], settled[w]>>
      BY <1>1 DEF jobVars, asyncVars
    <3>3. CASE w \in W /\ state[w] # "pop_wait"
      <4>1. ~disposed'[w] /\ ManagerOf[w] \in started'
        BY <3>2, <3>3, <2>3, <1>1 DEF TypeOK
      <4>2. QED
        BY <4>1, <3>1, <3>2, <3>3, <2>4, <1>1, StartedFits
    <3>4. CASE ~(w \in W /\ state[w] # "pop_wait")
      <4>1. count'[w] = count[w] /\ state'[w] = state[w] /\ fetching'[w] = fetching[w]
        BY <3>4, <2>4
      <4>2. RunsFit(w)'
        BY <4>1, <3>1, <3>2 DEF RunsFit
      <4>3. ManagerOf[w] \in waiting \/ count[w] = 0
        BY <3>1, <1>4 DEF Wakes
      <4>4. ManagerOf[w] \in waiting /\ ~disposed[w] => fetching[w] # "no"
        BY <3>1, <3>4, <2>3 DEF Wakes
      <4>5. count[w] \in called[w] => count[w] # 0 /\ fetching[w] = "no"
        BY <3>1 DEF RunsFit, TypeOK, Counts
      <4>6. ManagerOf[w] \in started /\ ManagerOf[w] \notin downStart
               => ManagerOf[w] \in waiting
        BY <1>4 DEF ManagersWait
      <4>7. Wakes(w)'
        BY <4>1, <4>3, <4>4, <4>5, <4>6, <3>1, <3>2, <1>1 DEF Wakes, Live, Stirs
      <4>8. QED
        BY <4>2, <4>7
    <3>5. QED
      BY <3>3, <3>4
  <2>7. QED
    BY <1>2, <2>5, <2>6
<1>5. QED
  BY <1>3, <1>4
-----------------------------------------------------------------------------
(***************************************************************************)
(* Callbacks of one worker. The others do not notice.                      *)
(***************************************************************************)

\* For a callback of w it is enough to look at w.
LEMMA OnlyOneMoves ==
    ASSUME PoolInv, ~crashed, NEW w \in Workers,
           UNCHANGED <<connected, started, waiting, downStart>>,
           \A v \in Workers \ {w} : Unmoved(v),
           TypeOK', \A k \in Counts : settled'[w][k] \in {<<>>, <<k>>},
           ~crashed' => RunsFit(w)' /\ Wakes(w)'
    PROVE  PoolInv'
<1>1. ASSUME NEW v \in Workers \ {w} PROVE RunsFit(v)' /\ Wakes(v)'
  <2>1. RunsFit(v) /\ Wakes(v)
    BY <1>1 DEF PoolInv
  <2>2. QED
    BY <2>1, <1>1, UnmovedFits
<1>2. OneOutcomePerJob'
  <2>1. ASSUME NEW v \in Workers, NEW k \in Counts
        PROVE  settled'[v][k] \in {<<>>, <<k>>}
    <3>1. settled[v][k] \in {<<>>, <<k>>}
      BY DEF PoolInv, OneOutcomePerJob
    <3>2. v # w => settled'[v] = settled[v]
      BY DEF Unmoved
    <3>3. QED
      BY <3>1, <3>2
  <2>2. QED
    BY <2>1 DEF OneOutcomePerJob
<1>3. ManagersWait'
  BY DEF PoolInv, ManagersWait
<1>4. QED
  BY <1>1, <1>2, <1>3 DEF PoolInv

LEMMA PoolBlpopReply ==
    ASSUME PoolInv, ~crashed, NEW w \in Workers, BlpopReply(w)
    PROVE  PoolInv'
<1> USE DEF redisVars, mainVars, jobVars, asyncVars
<1>1. TypeOK /\ RunsFit(w) /\ Wakes(w) /\ OneOutcomePerJob
  BY DEF PoolInv
<1>2. fetching[w] = "blpop" /\ fetching'[w] = IF disposed[w] THEN "no" ELSE "item"
  BY <1>1 DEF BlpopReply, TypeOK
<1>3. TypeOK'
  BY <1>1 DEF BlpopReply, TypeOK
<1>4. \A v \in Workers \ {w} : Unmoved(v)
  BY <1>1 DEF BlpopReply, TypeOK, Unmoved
<1>5. RunsFit(w)'
  BY <1>1, <1>2 DEF BlpopReply, RunsFit
<1>6. Wakes(w)'
  BY <1>1, <1>2 DEF BlpopReply, Wakes, Live, Stirs
<1>7. QED
  BY <1>1, <1>3, <1>4, <1>5, <1>6, OnlyOneMoves DEF BlpopReply, OneOutcomePerJob

LEMMA PoolPopFetchFail ==
    ASSUME PoolInv, ~crashed, NEW w \in Workers, PopFetchFail(w)
    PROVE  PoolInv'
<1> USE DEF redisVars, mainVars
<1>1. TypeOK /\ RunsFit(w) /\ Wakes(w) /\ OneOutcomePerJob
  BY DEF PoolInv
<1>2. /\ fetching[w] # "no" /\ fetching'[w] = "no" /\ state'[w] = "pop_error"
      /\ retries'[w] = IF disposed[w] THEN retries[w] ELSE retries[w] + 1
  BY <1>1 DEF PopFetchFail, TypeOK
<1>3. TypeOK'
  <2>1. retries' \in [Workers -> Nat]
    BY <1>1 DEF PopFetchFail, TypeOK
  <2>2. /\ state' \in [Workers -> State \union {"none"}]
        /\ fetching' \in [Workers -> {"no", "blpop", "item"}]
    BY <1>1 DEF PopFetchFail, TypeOK, State
  <2>3. QED
    BY <1>1, <2>1, <2>2 DEF PopFetchFail, TypeOK, jobVars
<1>4. \A v \in Workers \ {w} : Unmoved(v)
  BY <1>1 DEF PopFetchFail, TypeOK, Unmoved, jobVars
<1>5. RunsFit(w)'
  BY <1>1, <1>2 DEF PopFetchFail, RunsFit, jobVars
<1>6. count[w] # 0 /\ state[w] # "none" /\ count[w] \notin called[w]
  BY <1>1, <1>2 DEF RunsFit, Wakes, Counts
<1>7. retries[w] \in Nat
  BY <1>1 DEF TypeOK
<1>8. Wakes(w)'
  BY <1>1, <1>2, <1>6, <1>7 DEF PopFetchFail, Wakes, Live, Stirs, jobVars
<1>9. QED
  BY <1>1, <1>3, <1>4, <1>5, <1>8, OnlyOneMoves DEF PopFetchFail, OneOutcomePerJob

\* A worker whose consumer has just been called, or who lets go of the job.
LEMMA PoolWorkStart ==
    ASSUME PoolInv, ~crashed, NEW w \in Workers, WorkStart(w) \/ WorkStartFails(w)
    PROVE  PoolInv'
<1> USE DEF redisVars, mainVars
<1>1. TypeOK /\ RunsFit(w) /\ Wakes(w) /\ OneOutcomePerJob
  BY DEF PoolInv
<1>2. /\ fetching[w] # "no" /\ fetching' = [fetching EXCEPT ![w] = "no"]
      /\ UNCHANGED <<redisVars, mainVars, count, disposed, saving, done, crashed,
                     settled, raised>>
  BY DEF WorkStart, WorkStartFails
<1>3. count[w] \in Counts \ called[w] /\ state[w] # "none"
  BY <1>1, <1>2 DEF RunsFit, Wakes, Counts
<1>4. count[w] \in 0 .. MaxCount
  BY <1>3 DEF Counts
<1>5. CASE disposed[w]
  <2>1. /\ state' = [state EXCEPT ![w] = "disposed"]
        /\ UNCHANGED <<item, run, timers, called, retries>>
    BY <1>5 DEF WorkStart, WorkStartFails
  <2>2. TypeOK'
    BY <1>1, <1>2, <2>1 DEF TypeOK, State
  <2>3. \A v \in Workers \ {w} : Unmoved(v)
    BY <1>1, <1>2, <2>1 DEF TypeOK, Unmoved
  <2>4. state'[w] = "disposed" /\ fetching'[w] = "no"
    BY <1>1, <1>2, <2>1 DEF TypeOK
  <2>5. RunsFit(w)'
    BY <1>1, <1>2, <2>1, <2>4 DEF RunsFit
  <2>6. Wakes(w)'
    BY <1>1, <1>2, <1>3, <1>5, <2>1, <2>4 DEF Wakes, Live
  <2>7. QED
    BY <1>1, <1>2, <2>2, <2>3, <2>5, <2>6, OnlyOneMoves DEF OneOutcomePerJob
<1>6. CASE ~disposed[w]
  <2>1. \/ /\ state' = [state EXCEPT ![w] = "worker_run"]
           /\ retries' = retries
        \/ /\ state' = [state EXCEPT ![w] = "pop_error"]
           /\ retries' = [retries EXCEPT ![w] = @ + 1]
    BY <1>6 DEF WorkStart, WorkStartFails
  <2>2. /\ item' = [item EXCEPT ![w] = count[w]]
        /\ run' = [run EXCEPT ![w] = "processing"]
        /\ timers' = [timers EXCEPT ![w] = @ \union {count[w]}]
        /\ called' = [called EXCEPT ![w] = @ \union {count[w]}]
    BY <1>6 DEF WorkStart, WorkStartFails
  <2>3. /\ state' \in [Workers -> State \union {"none"}]
        /\ retries' \in [Workers -> Nat]
        /\ state'[w] \notin {"none", "pop_wait"}
        /\ \A v \in Workers \ {w} : state'[v] = state[v] /\ retries'[v] = retries[v]
    <3>1. state \in [Workers -> State \union {"none"}] /\ retries \in [Workers -> Nat]
      BY <1>1 DEF TypeOK
    <3>2. CASE state' = [state EXCEPT ![w] = "worker_run"] /\ retries' = retries
      BY <3>1, <3>2 DEF State
    <3>3. CASE /\ state' = [state EXCEPT ![w] = "pop_error"]
               /\ retries' = [retries EXCEPT ![w] = @ + 1]
      BY <3>1, <3>3 DEF State
    <3>4. QED
      BY <2>1, <3>2, <3>3
  <2>4. /\ item' \in [Workers -> 0 .. MaxCount]
        /\ timers' \in [Workers -> SUBSET Counts]
        /\ called' \in [Workers -> SUBSET Counts]
        /\ run' \in [Workers -> {"none", "processing", "ghost", "success", "fail"}]
        /\ fetching' \in [Workers -> {"no", "blpop", "item"}]
    BY <1>1, <1>2, <1>3, <1>4, <2>2 DEF TypeOK
  <2>5. TypeOK'
    BY <1>1, <1>2, <2>3, <2>4 DEF TypeOK
  <2>6. \A v \in Workers \ {w} : Unmoved(v)
    BY <1>1, <1>2, <2>2, <2>3 DEF TypeOK, Unmoved
  <2>7. /\ item'[w] = count[w] /\ fetching'[w] = "no"
        /\ timers'[w] = timers[w] \union {count[w]}
        /\ called'[w] = called[w] \union {count[w]}
    BY <1>1, <1>2, <2>2 DEF TypeOK
  <2>8. count[w] \in 1 .. count[w] /\ settled[w][count[w]] = <<>>
    BY <1>1, <1>3 DEF RunsFit, Counts
  <2>9. RunsFit(w)'
    <3>1. timers'[w] \subseteq called'[w] /\ called'[w] \subseteq 1 .. count'[w]
      BY <1>1, <1>2, <2>7, <2>8 DEF RunsFit
    <3>2. item'[w] \in called'[w] /\ item'[w] = count'[w]
      BY <1>2, <2>7
    <3>3. settled'[w] = settled[w] /\ settled'[w][item'[w]] = <<>>
      BY <1>2, <2>7, <2>8
    <3>4. ASSUME NEW k \in Counts
          PROVE  /\ settled'[w][k] \in {<<>>, <<k>>}
                 /\ settled'[w][k] # <<>> => k \in called'[w]
      BY <1>1, <2>7, <3>3 DEF RunsFit
    <3>5. QED
      BY <3>1, <3>2, <3>3, <3>4, <2>7 DEF RunsFit
  <2>10. Wakes(w)'
    BY <1>1, <1>2, <1>3, <2>3, <2>7, <2>8 DEF Wakes, Live, Stirs
  <2>11. QED
    BY <1>1, <1>2, <2>5, <2>6, <2>9, <2>10, OnlyOneMoves DEF OneOutcomePerJob
<1>7. QED
  BY <1>5, <1>6

\* Nothing but the state of the worker is set, and it does not start with it.
LEMMA OnlyStateMoves ==
    ASSUME NEW w \in Workers, RunsFit(w), Wakes(w), ~crashed, state[w] # "none",
           state'[w] \notin {"none", "pop_wait"},
           count'[w] = count[w], fetching'[w] = fetching[w], item'[w] = item[w],
           disposed'[w] = disposed[w], saving'[w] = saving[w], timers'[w] = timers[w],
           retries'[w] = retries[w], called'[w] = called[w], settled'[w] = settled[w],
           UNCHANGED <<connected, started, waiting, downStart>>
    PROVE  RunsFit(w)' /\ Wakes(w)'
<1>1. RunsFit(w)'
  BY DEF RunsFit
<1>2. Wakes(w)'
  BY DEF Wakes, Live, Stirs
<1>3. QED
  BY <1>1, <1>2

\* A report of the current run k, by an answer or by the timeout: unless some
\* outcome is being saved already, it is saved as the outcome of job k, which
\* has none.
LEMMA Reporting ==
    ASSUME TypeOK, NEW w \in Workers, RunsFit(w), Wakes(w), ~crashed,
           NEW k \in called[w], k = count[w], ~disposed[w], item[w] # 0,
           state'[w] \in {state[w], "post_worker", "post_worker_error"},
           count'[w] = count[w], fetching'[w] = fetching[w], item'[w] = item[w],
           disposed'[w] = disposed[w], retries'[w] = retries[w],
           called'[w] = called[w], timers'[w] \subseteq timers[w],
           IF saving[w] # 0
           THEN saving'[w] = saving[w] /\ settled'[w] = settled[w]
           ELSE /\ saving'[w] = item[w]
                /\ settled'[w] = [settled[w] EXCEPT ![item[w]] = Append(@, k)],
           UNCHANGED <<connected, started, waiting, downStart>>
    PROVE  /\ RunsFit(w)' /\ Wakes(w)'
           /\ settled'[w] \in [Counts -> Seq(Counts)]
<1>1. item[w] = k /\ k \in Counts /\ saving'[w] # 0
  BY DEF RunsFit, TypeOK
<1>2. fetching[w] = "no" /\ state[w] \notin {"none"} /\ count[w] # 0
  BY <1>1 DEF RunsFit, Wakes, Counts
<1>3. state'[w] # "none" /\ (state'[w] = "pop_wait" => state[w] = "pop_wait")
  BY <1>2
<1>4. /\ settled'[w] \in [Counts -> Seq(Counts)]
      /\ \A n \in Counts : n # k => settled'[w][n] = settled[w][n]
      /\ settled'[w][k] \in {<<>>, <<k>>}
  <2>1. settled[w] \in [Counts -> Seq(Counts)] /\ settled[w][k] \in {<<>>, <<k>>}
    BY <1>1 DEF TypeOK, RunsFit
  <2>2. CASE saving[w] # 0
    BY <2>1, <2>2
  <2>3. CASE saving[w] = 0
    <3>1. settled[w][k] = <<>>
      BY <1>1, <2>3 DEF RunsFit
    <3>2. settled'[w] = [settled[w] EXCEPT ![k] = <<k>>]
      <4>1. settled'[w] = [settled[w] EXCEPT ![k] = Append(settled[w][k], k)]
        BY <1>1, <2>3
      <4>2. Append(<<>>, k) = <<k>>
        OBVIOUS
      <4>3. QED
        BY <3>1, <4>1, <4>2
    <3>3. <<k>> \in Seq(Counts)
      BY <1>1
    <3>4. QED
      BY <1>1, <2>1, <3>2, <3>3
  <2>4. QED
    BY <2>2, <2>3
<1>5. RunsFit(w)'
  <2>1. ASSUME NEW n \in Counts
        PROVE  /\ settled'[w][n] \in {<<>>, <<n>>}
               /\ settled'[w][n] # <<>> => n \in called'[w]
    BY <1>1, <1>4 DEF RunsFit
  <2>2. /\ timers'[w] \subseteq called'[w] /\ called'[w] \subseteq 1 .. count'[w]
        /\ fetching'[w] = "no" /\ item'[w] \in called'[w] /\ item'[w] = count'[w]
    BY <1>1, <1>2 DEF RunsFit
  <2>3. QED
    BY <1>1, <2>1, <2>2 DEF RunsFit
<1>6. Wakes(w)'
  BY <1>1, <1>2, <1>3 DEF Wakes, Live, Stirs
<1>7. QED
  BY <1>4, <1>5, <1>6

LEMMA PoolAnswer ==
    ASSUME PoolInv, ~crashed, NEW w \in Workers, NEW k \in Counts,
           NEW answer \in Answers, NEW optDone \in BOOLEAN,
           Answer(w, k, answer, optDone)
    PROVE  PoolInv'
<1> USE DEF redisVars, mainVars
<1>1. TypeOK /\ RunsFit(w) /\ Wakes(w) /\ OneOutcomePerJob
  BY DEF PoolInv
<1>2. /\ k \in called[w]
      /\ UNCHANGED <<redisVars, mainVars, count, item, disposed, fetching, retries,
                     called, crashed>>
  BY DEF Answer
<1>3. state[w] # "none"
  BY <1>1, <1>2 DEF RunsFit, Wakes, Counts
<1>4. ASSUME disposed[w] \/ item[w] = 0 PROVE PoolInv'
  <2>1. UNCHANGED <<run, saving, done, timers, settled>>
    BY <1>4 DEF Answer
  <2>2. /\ state' \in [Workers -> State \union {"none"}]
        /\ state'[w] \notin {"none", "pop_wait"}
        /\ \A v \in Workers \ {w} : state'[v] = state[v]
    <3>1. PICK s \in State \ {"pop_wait"} : state' = [state EXCEPT ![w] = s]
      <4>1. CASE disposed[w]
        BY <4>1 DEF Answer, State
      <4>2. CASE ~disposed[w]
        BY <4>2, AnswerTypes DEF Answer
      <4>3. QED
        BY <4>1, <4>2
    <3>2. QED
      BY <1>1, <3>1 DEF TypeOK, State
  <2>3. raised' \in [Workers -> SUBSET Counts]
    <3>1. CASE disposed[w]
      BY <1>1, <3>1 DEF Answer, TypeOK
    <3>2. CASE ~disposed[w]
      <4>1. raised' = [raised EXCEPT ![w] = @ \union {k}]
        BY <1>4, <3>2 DEF Answer
      <4>2. QED
        BY <1>1, <4>1 DEF TypeOK
    <3>3. QED
      BY <3>1, <3>2
  <2>4. TypeOK'
    BY <1>1, <1>2, <2>1, <2>2, <2>3 DEF TypeOK
  <2>5. \A v \in Workers \ {w} : Unmoved(v)
    BY <1>2, <2>1, <2>2 DEF Unmoved
  <2>6. RunsFit(w)' /\ Wakes(w)'
    BY <1>1, <1>2, <1>3, <2>1, <2>2, OnlyStateMoves
  <2>7. QED
    BY <1>1, <1>2, <2>1, <2>4, <2>5, <2>6, OnlyOneMoves DEF OneOutcomePerJob
<1>5. ASSUME ~disposed[w], item[w] # 0 PROVE PoolInv'
  <2>1. /\ k = count[w] /\ raised' = raised
        /\ state' = [state EXCEPT ![w] = PostState(answer)]
        /\ run' = [run EXCEPT ![w] = RunState(answer)]
        /\ SaveWorker(w, k, optDone)
    BY <1>5 DEF Answer
  <2>2. /\ state' \in [Workers -> State \union {"none"}]
        /\ state'[w] \in {"post_worker", "post_worker_error"}
        /\ \A v \in Workers \ {w} : state'[v] = state[v]
    BY <1>1, <2>1 DEF TypeOK, State, PostState
  <2>3. run' \in [Workers -> {"none", "processing", "ghost", "success", "fail"}]
    BY <1>1, <2>1, AnswerTypes DEF TypeOK
  <2>4. /\ saving' \in [Workers -> 0 .. MaxCount]
        /\ timers' \in [Workers -> SUBSET Counts]
        /\ timers'[w] \subseteq timers[w]
        /\ \A v \in Workers \ {w} : /\ saving'[v] = saving[v] /\ timers'[v] = timers[v]
                                    /\ settled'[v] = settled[v]
        /\ IF saving[w] # 0
           THEN saving'[w] = saving[w] /\ settled' = settled
           ELSE /\ saving'[w] = item[w]
                /\ settled' = [settled EXCEPT ![w] =
                                  [settled[w] EXCEPT ![item[w]] = Append(@, k)]]
    <3>1. CASE saving[w] # 0
      BY <1>1, <2>1, <3>1 DEF TypeOK, SaveWorker
    <3>2. CASE saving[w] = 0
      <4>1. /\ saving' = [saving EXCEPT ![w] = item[w]]
            /\ timers' = [timers EXCEPT ![w] = @ \ {item[w]}]
            /\ settled' = [settled EXCEPT ![w] =
                              [settled[w] EXCEPT ![item[w]] = Append(@, k)]]
        BY <2>1, <3>2 DEF SaveWorker
      <4>2. item[w] \in 0 .. MaxCount
        BY <1>1 DEF TypeOK
      <4>3. QED
        BY <1>1, <3>2, <4>1, <4>2 DEF TypeOK
    <3>3. QED
      BY <3>1, <3>2
  <2>5. IF saving[w] # 0
        THEN saving'[w] = saving[w] /\ settled'[w] = settled[w]
        ELSE /\ saving'[w] = item[w]
             /\ settled'[w] = [settled[w] EXCEPT ![item[w]] = Append(@, k)]
    BY <1>1, <2>4 DEF TypeOK
  <2>6. /\ RunsFit(w)' /\ Wakes(w)'
        /\ settled'[w] \in [Counts -> Seq(Counts)]
    BY <1>1, <1>2, <1>5, <2>1, <2>2, <2>4, <2>5, Reporting
  <2>7. settled' \in [Workers -> [Counts -> Seq(Counts)]]
    BY <1>1, <2>4, <2>6 DEF TypeOK
  <2>7a. done' \in [Workers -> BOOLEAN]
    BY <1>1, <2>1 DEF TypeOK, SaveWorker
  <2>8. TypeOK'
    BY <1>1, <1>2, <2>1, <2>2, <2>3, <2>4, <2>7, <2>7a DEF TypeOK
  <2>9. \A v \in Workers \ {w} : Unmoved(v)
    BY <1>2, <2>2, <2>4 DEF Unmoved
  <2>10. \A n \in Counts : settled'[w][n] \in {<<>>, <<n>>}
    BY <2>6 DEF RunsFit
  <2>11. QED
    BY <1>1, <1>2, <2>6, <2>8, <2>9, <2>10, OnlyOneMoves
<1>6. QED
  BY <1>4, <1>5

LEMMA PoolProcessTimeout ==
    ASSUME PoolInv, ~crashed, NEW w \in Workers, NEW k \in Counts, ProcessTimeout(w, k)
    PROVE  PoolInv'
<1> USE DEF redisVars, mainVars, startVars
<1>1. TypeOK /\ RunsFit(w) /\ Wakes(w) /\ OneOutcomePerJob
  BY DEF PoolInv
<1>2. /\ k \in called[w] /\ k = count[w] /\ ~disposed[w] /\ item[w] # 0
      /\ run' = [run EXCEPT ![w] = "ghost"]
      /\ timers' = [timers EXCEPT ![w] = @ \ {k}]
      /\ UNCHANGED <<redisVars, mainVars, startVars, item, disposed, retries, called,
                     crashed, raised>>
  BY <1>1 DEF ProcessTimeout, RunsFit
<1>3. /\ saving' \in [Workers -> 0 .. MaxCount]
      /\ \A v \in Workers \ {w} : saving'[v] = saving[v] /\ settled'[v] = settled[v]
      /\ IF saving[w] # 0
         THEN saving'[w] = saving[w] /\ settled' = settled
         ELSE /\ saving'[w] = item[w]
              /\ settled' = [settled EXCEPT ![w] =
                                [settled[w] EXCEPT ![item[w]] = Append(@, k)]]
  BY <1>1 DEF TypeOK, ProcessTimeout
<1>3a. done' \in [Workers -> BOOLEAN]
  BY <1>1 DEF TypeOK, ProcessTimeout
<1>4. IF saving[w] # 0
      THEN saving'[w] = saving[w] /\ settled'[w] = settled[w]
      ELSE /\ saving'[w] = item[w]
           /\ settled'[w] = [settled[w] EXCEPT ![item[w]] = Append(@, k)]
  BY <1>1, <1>3 DEF TypeOK
<1>5. /\ timers' \in [Workers -> SUBSET Counts] /\ timers'[w] \subseteq timers[w]
      /\ run' \in [Workers -> {"none", "processing", "ghost", "success", "fail"}]
      /\ \A v \in Workers \ {w} : timers'[v] = timers[v]
  BY <1>1, <1>2 DEF TypeOK
<1>6. /\ RunsFit(w)' /\ Wakes(w)'
      /\ settled'[w] \in [Counts -> Seq(Counts)]
  BY <1>1, <1>2, <1>4, <1>5, Reporting
<1>7. settled' \in [Workers -> [Counts -> Seq(Counts)]]
  BY <1>1, <1>3, <1>6 DEF TypeOK
<1>8. TypeOK'
  BY <1>1, <1>2, <1>3, <1>5, <1>7, <1>3a DEF TypeOK
<1>9. \A v \in Workers \ {w} : Unmoved(v)
  BY <1>2, <1>3, <1>5 DEF Unmoved
<1>10. \A n \in Counts : settled'[w][n] \in {<<>>, <<n>>}
  BY <1>6 DEF RunsFit
<1>11. QED
  BY <1>1, <1>2, <1>6, <1>8, <1>9, <1>10, OnlyOneMoves

\* A handler that ends with startWorker: the worker is fetching, or it is
\* disposed, or it waits for the connection. The state of the worker is s before.
LEMMA StartingFits ==
    ASSUME TypeOK, NEW w \in Workers, RunsFit(w), Wakes(w), ~crashed,
           state[w] # "none", NEW s, s \in {state[w]} \union (State \ {"pop_wait"}),
           IF ~disposed[w] /\ connected /\ s # "pop_wait"
           THEN /\ count[w] < MaxCount /\ count'[w] = count[w] + 1
                /\ state'[w] = "pop_wait" /\ fetching'[w] = "blpop"
           ELSE /\ state'[w] = s /\ count'[w] = count[w]
                /\ fetching'[w] = fetching[w],
           item'[w] \in {0, item[w]}, saving'[w] = saving[w] \/ item'[w] = 0,
           timers'[w] \subseteq timers[w],
           UNCHANGED <<connected, started, waiting, downStart>>,
           disposed'[w] = disposed[w], called'[w] = called[w], settled'[w] = settled[w]
    PROVE  RunsFit(w)' /\ Wakes(w)'
<1>1. ManagerOf[w] \in started
  BY DEF Wakes
<1>2. CASE ~disposed[w] /\ connected /\ s # "pop_wait"
  BY <1>1, <1>2, StartedFits
<1>3. CASE ~(~disposed[w] /\ connected /\ s # "pop_wait")
  <2>1. RunsFit(w)'
    BY <1>3 DEF RunsFit
  <2>2. connected /\ ~disposed[w] => fetching[w] # "no" /\ count[w] \notin called[w]
    BY <1>3 DEF Wakes, RunsFit
  <2>2a. s # "none" /\ (s = "pop_wait" => state[w] = "pop_wait")
    BY DEF State
  <2>3. Wakes(w)'
    BY <1>3, <2>2, <2>2a DEF Wakes, Live, Stirs
  <2>4. QED
    BY <2>1, <2>3
<1>4. QED
  BY <1>2, <1>3

LEMMA PoolStaleTimeout ==
    ASSUME PoolInv, ~crashed, NEW w \in Workers, NEW k \in Counts, StaleTimeout(w, k)
    PROVE  PoolInv'
<1> USE DEF redisVars, mainVars, jobVars
<1>1. TypeOK /\ RunsFit(w) /\ Wakes(w) /\ OneOutcomePerJob
  BY DEF PoolInv
<1>2. /\ k \in timers[w] /\ timers' = [timers EXCEPT ![w] = @ \ {k}]
      /\ UNCHANGED <<redisVars, mainVars, jobVars, saving, done, retries, called,
                     crashed, settled, raised>>
  BY DEF StaleTimeout
<1>3. /\ timers' \in [Workers -> SUBSET Counts]
      /\ timers'[w] = timers[w] \ {k}
      /\ \A v \in Workers \ {w} : timers'[v] = timers[v]
  BY <1>1, <1>2 DEF TypeOK
<1>4. state[w] # "none"
  BY <1>1, <1>2 DEF RunsFit, Wakes, Counts
<1>5. CASE disposed[w]
  <2>1. state' = [state EXCEPT ![w] = "disposed"] /\ UNCHANGED <<count, fetching>>
    BY <1>5 DEF StaleTimeout
  <2>2. /\ state' \in [Workers -> State \union {"none"}] /\ state'[w] = "disposed"
        /\ \A v \in Workers \ {w} : state'[v] = state[v]
    BY <1>1, <2>1 DEF TypeOK, State
  <2>3. TypeOK'
    BY <1>1, <1>2, <1>3, <2>1, <2>2 DEF TypeOK
  <2>4. \A v \in Workers \ {w} : Unmoved(v)
    BY <1>2, <1>3, <2>1, <2>2 DEF Unmoved
  <2>5. RunsFit(w)'
    BY <1>1, <1>2, <1>3, <2>1 DEF RunsFit
  <2>6. Wakes(w)'
    BY <1>1, <1>2, <1>4, <1>5, <2>1, <2>2 DEF Wakes, Live
  <2>7. QED
    BY <1>1, <1>2, <2>3, <2>4, <2>5, <2>6, OnlyOneMoves DEF OneOutcomePerJob
<1>6. ASSUME ~disposed[w], k # count[w] PROVE PoolInv'
  <2>1. UNCHANGED startVars
    BY <1>6 DEF StaleTimeout
  <2>2. TypeOK'
    BY <1>1, <1>2, <1>3, <2>1 DEF TypeOK, startVars
  <2>3. \A v \in Workers \ {w} : Unmoved(v)
    BY <1>2, <1>3, <2>1 DEF Unmoved, startVars
  <2>4. RunsFit(w)'
    BY <1>1, <1>2, <1>3, <2>1 DEF RunsFit, startVars
  <2>5. Wakes(w)'
    BY <1>1, <1>2, <1>3, <1>6, <2>1 DEF Wakes, Live, Stirs, startVars
  <2>6. QED
    BY <1>1, <1>2, <2>2, <2>3, <2>4, <2>5, OnlyOneMoves DEF OneOutcomePerJob
<1>7. ASSUME ~disposed[w], k = count[w] PROVE PoolInv'
  <2>1. StartWorker(w, state)
    BY <1>7 DEF StaleTimeout
  <2>2. /\ state' \in [Workers -> State \union {"none"}]
        /\ count' \in [Workers -> Nat]
        /\ fetching' \in [Workers -> {"no", "blpop", "item"}]
        /\ \A v \in Workers \ {w} : /\ state'[v] = state[v] /\ count'[v] = count[v]
                                    /\ fetching'[v] = fetching[v]
        /\ IF ~disposed[w] /\ connected /\ state[w] # "pop_wait"
           THEN /\ count[w] < MaxCount /\ count'[w] = count[w] + 1
                /\ state'[w] = "pop_wait" /\ fetching'[w] = "blpop"
           ELSE /\ state'[w] = state[w] /\ count'[w] = count[w]
                /\ fetching'[w] = fetching[w]
    BY <1>1, <2>1, Starting DEF TypeOK
  <2>3. TypeOK'
    BY <1>1, <1>2, <1>3, <2>2 DEF TypeOK
  <2>4. \A v \in Workers \ {w} : Unmoved(v)
    BY <1>2, <1>3, <2>2 DEF Unmoved
  <2>5. RunsFit(w)' /\ Wakes(w)'
    BY <1>1, <1>2, <1>3, <1>4, <2>2, StartingFits
  <2>6. QED
    BY <1>1, <1>2, <2>3, <2>4, <2>5, OnlyOneMoves DEF OneOutcomePerJob
<1>8. QED
  BY <1>5, <1>6, <1>7

\* The worker starts with its state, or, when optDone answered once more, with
\* the one which that answer left: in either case it can start.
LEMMA PoolSaved ==
    ASSUME PoolInv, ~crashed, NEW w \in Workers, Saved(w)
    PROVE  PoolInv'
<1> USE DEF redisVars, mainVars
<1>1. TypeOK /\ RunsFit(w) /\ Wakes(w) /\ OneOutcomePerJob
  BY DEF PoolInv
<1>2. /\ saving[w] # 0 /\ Unregister(w)
      /\ UNCHANGED <<redisVars, mainVars, disposed, timers, retries, called, crashed,
                     settled>>
  BY DEF Saved
<1>3. /\ saving' \in [Workers -> 0 .. MaxCount] /\ item' \in [Workers -> 0 .. MaxCount]
      /\ run' \in [Workers -> {"none", "processing", "ghost", "success", "fail"}]
      /\ done' \in [Workers -> BOOLEAN]
      /\ item'[w] = 0
      /\ \A v \in Workers \ {w} : item'[v] = item[v] /\ saving'[v] = saving[v]
  BY <1>1, <1>2, CountAssumption DEF TypeOK, Unregister
<1>4. state[w] # "none"
  BY <1>1, <1>2 DEF Wakes
<1>5. PICK s \in {state[w]} \union (State \ {"pop_wait"}) :
         StartWorker(w, [state EXCEPT ![w] = s])
  <2>1. CASE StartWorker(w, state)
    <3>1. [state EXCEPT ![w] = state[w]] = state
      BY <1>1 DEF TypeOK
    <3>2. StartWorker(w, [state EXCEPT ![w] = state[w]])
      BY <2>1, <3>1
    <3>3. QED
      BY <3>2
  <2>2. ASSUME NEW post \in DoneStates(w), StartWorker(w, [state EXCEPT ![w] = post])
        PROVE  \E s \in {state[w]} \union (State \ {"pop_wait"}) :
                  StartWorker(w, [state EXCEPT ![w] = s])
    <3>1. post \in State \ {"pop_wait"}
      BY AnswerTypes DEF DoneStates, State
    <3>2. QED
      BY <2>2, <3>1
  <2>3. QED
    BY <2>1, <2>2 DEF Saved
<1>6. raised' \in [Workers -> SUBSET Counts]
  <2>1. CASE raised' = raised
    BY <1>1, <2>1 DEF TypeOK
  <2>2. ASSUME DoneStates(w) # {}, ~disposed[w],
               raised' = [raised EXCEPT ![w] = @ \union {count[w]}]
        PROVE  raised' \in [Workers -> SUBSET Counts]
    <3>1. count[w] \in called[w]
      BY <2>2 DEF DoneStates
    <3>2. count[w] \in Counts
      BY <1>1, <3>1 DEF TypeOK
    <3>3. QED
      BY <1>1, <2>2, <3>2 DEF TypeOK
  <2>3. QED
    BY <2>1, <2>2 DEF Saved
<1>7. PICK st \in [Workers -> State \union {"none"}] :
         /\ StartWorker(w, st)
         /\ st[w] = s
         /\ \A v \in Workers \ {w} : st[v] = state[v]
  <2>1. state \in [Workers -> State \union {"none"}] /\ s \in State \union {"none"}
    BY <1>1 DEF TypeOK
  <2>2. /\ [state EXCEPT ![w] = s] \in [Workers -> State \union {"none"}]
        /\ [state EXCEPT ![w] = s][w] = s
        /\ \A v \in Workers \ {w} : [state EXCEPT ![w] = s][v] = state[v]
    BY <2>1
  <2>3. QED
    BY <1>5, <2>2
<1>8. /\ state' \in [Workers -> State \union {"none"}]
      /\ count' \in [Workers -> Nat]
      /\ fetching' \in [Workers -> {"no", "blpop", "item"}]
      /\ \A v \in Workers \ {w} : /\ state'[v] = state[v] /\ count'[v] = count[v]
                                  /\ fetching'[v] = fetching[v]
      /\ IF ~disposed[w] /\ connected /\ s # "pop_wait"
         THEN /\ count[w] < MaxCount /\ count'[w] = count[w] + 1
              /\ state'[w] = "pop_wait" /\ fetching'[w] = "blpop"
         ELSE /\ state'[w] = s /\ count'[w] = count[w]
              /\ fetching'[w] = fetching[w]
  BY <1>1, <1>7, Starting
<1>9. TypeOK'
  BY <1>1, <1>2, <1>3, <1>6, <1>8 DEF TypeOK
<1>10. \A v \in Workers \ {w} : Unmoved(v)
  BY <1>2, <1>3, <1>8 DEF Unmoved
<1>11. RunsFit(w)' /\ Wakes(w)'
  BY <1>1, <1>2, <1>3, <1>4, <1>8, StartingFits
<1>12. QED
  BY <1>1, <1>2, <1>9, <1>10, <1>11, OnlyOneMoves DEF OneOutcomePerJob

LEMMA PoolRetryTimer ==
    ASSUME PoolInv, ~crashed, NEW w \in Workers, RetryTimer(w)
    PROVE  PoolInv'
<1> USE DEF redisVars, mainVars, jobVars
<1>1. TypeOK /\ RunsFit(w) /\ Wakes(w) /\ OneOutcomePerJob
  BY DEF PoolInv
<1>2. /\ retries[w] > 0 /\ retries' = [retries EXCEPT ![w] = @ - 1]
      /\ UNCHANGED <<redisVars, mainVars, jobVars, saving, done, timers, called,
                     settled, raised>>
  BY DEF RetryTimer
<1>3. /\ retries' \in [Workers -> Nat]
      /\ \A v \in Workers \ {w} : retries'[v] = retries[v]
  BY <1>1, <1>2 DEF TypeOK
<1>4. state[w] # "none"
  BY <1>1, <1>2 DEF Wakes
<1>5. ASSUME disposed[w], connected PROVE PoolInv'
  <2>1. /\ crashed' = TRUE /\ fetching' = fetching
        /\ state' = [state EXCEPT ![w] = "pop_wait"]
        /\ count' = [count EXCEPT ![w] = @ + 1]
    BY <1>5 DEF RetryTimer
  <2>2. /\ state' \in [Workers -> State \union {"none"}]
        /\ count' \in [Workers -> Nat]
    BY <1>1, <2>1 DEF TypeOK, State
  <2>3. TypeOK'
    BY <1>1, <1>2, <1>3, <2>1, <2>2 DEF TypeOK
  <2>4. OneOutcomePerJob'
    BY <1>1, <1>2 DEF OneOutcomePerJob
  <2>5. QED
    BY <2>1, <2>3, <2>4 DEF PoolInv
<1>6. ASSUME disposed[w], ~connected PROVE PoolInv'
  <2>1. UNCHANGED <<crashed, state, count, fetching>>
    BY <1>6 DEF RetryTimer
  <2>2. TypeOK'
    BY <1>1, <1>2, <1>3, <2>1 DEF TypeOK
  <2>3. \A v \in Workers \ {w} : Unmoved(v)
    BY <1>2, <1>3, <2>1 DEF Unmoved
  <2>4. RunsFit(w)'
    BY <1>1, <1>2, <2>1 DEF RunsFit
  <2>5. Wakes(w)'
    BY <1>1, <1>2, <1>4, <1>6, <2>1 DEF Wakes, Live
  <2>6. QED
    BY <1>1, <1>2, <2>2, <2>3, <2>4, <2>5, OnlyOneMoves DEF OneOutcomePerJob
<1>7. ASSUME ~disposed[w] PROVE PoolInv'
  <2>1. StartWorker(w, state) /\ crashed' = crashed
    BY <1>7 DEF RetryTimer
  <2>2. /\ state' \in [Workers -> State \union {"none"}]
        /\ count' \in [Workers -> Nat]
        /\ fetching' \in [Workers -> {"no", "blpop", "item"}]
        /\ \A v \in Workers \ {w} : /\ state'[v] = state[v] /\ count'[v] = count[v]
                                    /\ fetching'[v] = fetching[v]
        /\ IF ~disposed[w] /\ connected /\ state[w] # "pop_wait"
           THEN /\ count[w] < MaxCount /\ count'[w] = count[w] + 1
                /\ state'[w] = "pop_wait" /\ fetching'[w] = "blpop"
           ELSE /\ state'[w] = state[w] /\ count'[w] = count[w]
                /\ fetching'[w] = fetching[w]
    BY <1>1, <2>1, Starting DEF TypeOK
  <2>3. TypeOK'
    BY <1>1, <1>2, <1>3, <2>1, <2>2 DEF TypeOK
  <2>4. \A v \in Workers \ {w} : Unmoved(v)
    BY <1>2, <1>3, <2>2 DEF Unmoved
  <2>5. RunsFit(w)' /\ Wakes(w)'
    BY <1>1, <1>2, <1>4, <2>2, StartingFits
  <2>6. QED
    BY <1>1, <1>2, <2>3, <2>4, <2>5, OnlyOneMoves DEF OneOutcomePerJob
<1>8. QED
  BY <1>5, <1>6, <1>7

-----------------------------------------------------------------------------
(***************************************************************************)
(* The theorems.                                                           *)
(***************************************************************************)

LEMMA PoolStep == PoolInv /\ [Next]_vars => PoolInv'
<1> SUFFICES ASSUME PoolInv, [Next]_vars PROVE PoolInv'
  OBVIOUS
<1>1. CASE UNCHANGED vars
  <2>1. TypeOK' /\ OneOutcomePerJob' /\ (ManagersWait => ManagersWait')
    BY <1>1 DEF PoolInv, vars, TypeOK, OneOutcomePerJob, ManagersWait
  <2>2. ASSUME ~crashed, NEW w \in Workers PROVE RunsFit(w)' /\ Wakes(w)'
    <3>1. Unmoved(w) /\ UNCHANGED <<connected, started, waiting, downStart>>
      BY <1>1 DEF vars, Unmoved
    <3>2. QED
      BY <3>1, <2>2, UnmovedFits DEF PoolInv
  <2>3. crashed' = crashed
    BY <1>1 DEF vars
  <2>4. QED
    BY <2>1, <2>2, <2>3 DEF PoolInv
<1>2. ASSUME ~crashed, NEW w \in Workers, WorkerCallback(w) PROVE PoolInv'
  BY <1>2, PoolBlpopReply, PoolPopFetchFail, PoolWorkStart, PoolAnswer,
     PoolStaleTimeout, PoolProcessTimeout, PoolSaved, PoolRetryTimer
     DEF WorkerCallback
<1>3. CASE Next
  BY <1>2, <1>3, PoolProcess, PoolReset, PoolDrop, PoolDisconnect, PoolReconnect
     DEF Next
<1>4. QED
  BY <1>1, <1>3

\* The invariant holds in every reachable state.
LEMMA PoolInvariant == Spec => []PoolInv
<1>1. QED
  BY PoolInit, PoolStep, PTL DEF Spec

\* The variables of the process and of its workers keep their types: no fetch,
\* retry or answer takes a counter, a timer or a job out of its range, also
\* when consumers answer twice or return what makes _workStart fail.
THEOREM PoolTypes == Spec => []TypeOK
<1>1. PoolInv => TypeOK
  BY DEF PoolInv
<1>2. QED
  BY <1>1, PoolInvariant, PTL

\* processCount and savingJobItem do their work: whatever late, repeated and
\* missing answers, timeouts, errors, resets and lost connections there are,
\* a job gets at most one outcome from its worker, by a report of its own run.
THEOREM OutcomeIsUnique == Spec => []OneOutcomePerJob
<1>1. PoolInv => OneOutcomePerJob
  BY DEF PoolInv
<1>2. QED
  BY <1>1, PoolInvariant, PTL

\* A worker that is neither disposed nor the worker of a manager started while
\* redis was down always has something under way, or its manager waits for
\* "connect": startWorker never returns early without somebody to call it again.
THEOREM NoWorkerSleepsForGood == Spec => []SleeperIsAwaited
<1>1. PoolInv => SleeperIsAwaited
  <2> SUFFICES ASSUME PoolInv, NEW w \in Workers, Live(w), ManagerOf[w] \notin downStart
               PROVE  Stirs(w) \/ Awaited(w)
    BY DEF SleeperIsAwaited
  <2>1. Wakes(w) /\ ManagersWait /\ ManagerOf[w] \in started
    BY DEF PoolInv, Live, Wakes
  <2>2. CASE connected
    BY <2>1, <2>2 DEF Wakes
  <2>3. CASE ~connected
    BY <2>1, <2>3 DEF ManagersWait, Awaited
  <2>4. QED
    BY <2>2, <2>3
<1>2. QED
  BY <1>1, PoolInvariant, PTL

\* dispose is enough: whatever replies and timers are still under way, a
\* disposed worker calls no consumer and saves no outcome.
THEOREM DisposedStaysQuiet == Spec => DisposedIsQuiet
<1> DEFINE Quiet == \A w \in Workers : disposed[w] =>
                       called'[w] = called[w] /\ settled'[w] = settled[w]
<1>1. TypeOK /\ [Next]_vars => Quiet
  <2> SUFFICES ASSUME TypeOK, [Next]_vars, NEW w \in Workers, disposed[w]
               PROVE  called'[w] = called[w] /\ settled'[w] = settled[w]
    OBVIOUS
  <2> USE DEF redisVars, asyncVars
  <2>1. CASE UNCHANGED vars
    BY <2>1 DEF vars
  <2>2. CASE \/ \E m \in Managers : Process(m)
             \/ Reset \/ Drop \/ Disconnect \/ Reconnect
    BY <2>2 DEF Process, Reset, Drop, Disconnect, Reconnect
  <2>3. ASSUME NEW v \in Workers, WorkerCallback(v)
        PROVE  called'[w] = called[w] /\ settled'[w] = settled[w]
    <3>1. ASSUME \/ BlpopReply(v) \/ PopFetchFail(v) \/ Saved(v) \/ RetryTimer(v)
                 \/ \E k \in Counts : StaleTimeout(v, k)
          PROVE  called' = called /\ settled' = settled
      BY <3>1 DEF BlpopReply, PopFetchFail, Saved, RetryTimer, StaleTimeout
    <3>2. ASSUME WorkStart(v) \/ WorkStartFails(v)
          PROVE  called'[w] = called[w] /\ settled' = settled
      BY <3>2 DEF WorkStart, WorkStartFails, TypeOK
    <3>3. ASSUME NEW k \in Counts, NEW answer \in Answers, NEW optDone \in BOOLEAN,
                 Answer(v, k, answer, optDone)
          PROVE  called' = called /\ settled'[w] = settled[w]
      BY <3>3 DEF Answer, SaveWorker, TypeOK
    <3>4. ASSUME NEW k \in Counts, ProcessTimeout(v, k)
          PROVE  called' = called /\ settled'[w] = settled[w]
      BY <3>4 DEF ProcessTimeout, TypeOK
    <3>5. QED
      BY <2>3, <3>1, <3>2, <3>3, <3>4 DEF WorkerCallback
  <2>4. QED
    BY <2>1, <2>2, <2>3 DEF Next
<1>2. QED
  BY <1>1, PoolTypes, PTL DEF Spec, DisposedIsQuiet

\* A late answer meets a worker without process item only while redis is down,
\* as the fetch that follows the end of a run has raised processCount by then,
\* or when optDone gives it: startWorker comes after optDone, and the exception
\* ends in the try around it.
THEOREM LateAnswerThrowsOnlyWhileDownOrInOptDone == Spec => LateAnswerIsHarmless
<1> DEFINE Harmless == \A w \in Workers : raised'[w] # raised[w] =>
                          \/ ~connected
                          \/ done[w] /\ saving[w] # 0 /\ saving'[w] = 0
<1>1. PoolInv /\ [Next]_vars => Harmless
  <2> SUFFICES ASSUME PoolInv, [Next]_vars, NEW w \in Workers, raised'[w] # raised[w]
               PROVE  ~connected \/ (done[w] /\ saving[w] # 0 /\ saving'[w] = 0)
    OBVIOUS
  <2>1. ~crashed /\ TypeOK /\ \E v \in Workers : WorkerCallback(v)
    BY DEF PoolInv, Next, vars, Process, Reset, Drop, Disconnect, Reconnect
  <2>2. PICK v \in Workers :
           \/ \E k \in Counts, answer \in Answers, optDone \in BOOLEAN :
                 Answer(v, k, answer, optDone)
           \/ Saved(v)
    BY <2>1 DEF WorkerCallback, BlpopReply, PopFetchFail, WorkStart, WorkStartFails,
                StaleTimeout, ProcessTimeout, RetryTimer
  <2>3. ASSUME NEW k \in Counts, NEW answer \in Answers, NEW optDone \in BOOLEAN,
               Answer(v, k, answer, optDone)
        PROVE  ~connected
    <3>1. /\ ~disposed[v] /\ item[v] = 0 /\ count[v] \in called[v]
          /\ raised' = [raised EXCEPT ![v] = @ \union {k}]
      BY <2>3 DEF Answer
    <3>2. QED
      BY <2>1, <3>1 DEF PoolInv, Wakes
  <2>4. ASSUME Saved(v) PROVE done[w] /\ saving[w] # 0 /\ saving'[w] = 0
    <3>1. /\ done[v] /\ saving[v] # 0
          /\ raised' = [raised EXCEPT ![v] = @ \union {count[v]}]
          /\ saving' = [saving EXCEPT ![v] = 0]
      BY <2>4 DEF Saved, Unregister
    <3>2. v = w
      BY <2>1, <3>1 DEF TypeOK
    <3>3. QED
      BY <2>1, <3>1, <3>2 DEF TypeOK
  <2>5. QED
    BY <2>2, <2>3, <2>4
<1>2. QED
  BY <1>1, PoolInvariant, PTL DEF Spec, LateAnswerIsHarmless
=============================================================================
