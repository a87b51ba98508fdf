---------------------------- MODULE SchedulerClock ----------------------------
(***************************************************************************)
(* The Scheduler of one process against the clock: the ping loop and what  *)
(* starts, doubles or stops it (timers, replies, the watcher of redis,     *)
(* configuration changes), the window of due dates that each ping pops,    *)
(* and the RAM timers from which jobs return to the process queue.         *)
(*                                                                         *)
(* JobLifecycle follows the jobs of any number of schedulers without       *)
(* clocks, and assumes that a ping pops every due entry that has not       *)
(* fallen behind. This module has the clocks, and shows when none does.    *)
(*                                                                         *)
(* Times are ticks of a discrete clock. Both sorted sets are popped alike, *)
(* so there is one here. The pops of one ping and the reads of their       *)
(* batches end together, in ZpopReply.                                     *)
(***************************************************************************)
EXTENDS RedisCtrl, Integers, Bags

CONSTANTS
    Jobs,        \* ids that get scheduled, once each
    Delays,      \* the delays they may be scheduled with
    Word,        \* 2^32: these delays are taken modulo this by >>> 0
    PurgeTimeouts, \* the values of purgeTimeout, None when it is not a number
    Fallback,    \* the 300000 ms for a delay that is not a number
    Intervals,   \* the values schedulerInterval may be set to
    Fuzzes,      \* the values schedulerFuzz may be set to
    LookAheads,  \* the values schedulerLookAhead may be set to
    Restart,     \* the 50 ms after which a changed interval pings again
    MaxLag,      \* how late node runs a timer, and redis replies while it is up
    MaxTime,     \* bound: the clock stops here
    MaxDrops,    \* bound on lost connections
    MaxChanges,  \* bound on changes of the configuration
    None         \* null

Config == [interval : Intervals, fuzz : Fuzzes, lookAhead : LookAheads]

ASSUME DelayAssumption == Delays \subseteq Int /\ Word \in Nat \ {0}
\* A purgeTimeout below zero is not considered.
ASSUME PurgeAssumption == PurgeTimeouts \subseteq Nat \union {None} /\ Fallback \in Nat
ASSUME ConfigAssumption == Intervals \union Fuzzes \union LookAheads \subseteq Nat
ASSUME LagAssumption == {Restart, MaxLag, MaxTime, MaxDrops, MaxChanges} \subseteq Nat /\ None \notin Int
\* The proportions of the default configuration (1000 + 300 against 1500 ms):
\* pings come so often that what falls due in between is still in the window.
ASSUME PaceAssumption ==
    \A c \in Config : c.interval + c.fuzz + Restart + 3 * MaxLag <= c.lookAhead

VARIABLES
    now,         \* Date.now()
    \* -- each job --
    place,       \* where it is: see Places
    due,         \* its score in the sorted set
    kept,        \* whether the record was saved with scheduledFor = due
    fire,        \* when its RAM timer is due
    \* -- the scheduler --
    config,      \* intervalTime, fuzz, lookAhead
    pong,        \* due time of the pending timer _pongTimeout refers to, or None
    stale,       \* _pongTimeout refers to a timer that has fired
    loose,       \* due times of the pending timers that ping and have no reference
    pings,       \* pings without a reply: when they were issued, and how far they look
    waitingToConnect,
    \* -- history --
    notBefore,   \* each job: the end of the delay it was scheduled with
    began,       \* when run() was called, or None
    drops,       \* how often the connection has been lost
    changes,     \* how often the configuration has changed
    changedDown, \* the interval was changed while the watcher said "disconnected"
    halved       \* lookAhead was set to less than half of that of a ping under way

jobVars  == <<place, due, kept, fire, notBefore>>
loopVars == <<pong, stale, loose, pings, waitingToConnect>>
history  == <<began, drops, changes, changedDown, halved>>
vars == <<up, connected, now, place, due, kept, fire, notBefore, config,
          pong, stale, loose, pings, waitingToConnect, began, drops, changes, changedDown,
          halved>>

\* "saving": _scheduleRedis waits for the save before its zadd. "zset": in the
\* sorted set. "ram": waiting for the timer of _lineupForQueue.
Places == {"none", "saving", "zset", "ram"}

Larger(x, y) == IF x < y THEN y ELSE x

-----------------------------------------------------------------------------
(***************************************************************************)
(* Scheduling a job (QueueModel).                                          *)
(***************************************************************************)

\* A mistake in ToUint32: the delay is used as it is.
ToUint32Not(delay) == delay

\* delay >>> 0
ToUint32(delay) == delay % Word

FitsWord(delay) == delay \in 0 .. Word - 1

\* What _scheduleRedis waits for: a delay that is not a number becomes 300000.
Wait(delay) == IF delay = None THEN Fallback ELSE delay

\* _scheduleRedis: the due date is settled and the record is saved, with it or,
\* when the save fails or the record cannot be serialised, without.
ScheduleRedis(j, delay, ok) ==
    /\ place[j] = "none"
    /\ place' = [place EXCEPT ![j] = "saving"]
    /\ due' = [due EXCEPT ![j] = now + Wait(delay)]
    /\ kept' = [kept EXCEPT ![j] = ok]
    /\ UNCHANGED <<redisVars, now, fire, config, loopVars, history>>

\* schedule: of a job that is delayed, to be retried, or a ghost.
Schedule(j, delay, ok) ==
    /\ ScheduleRedis(j, ToUint32(delay), ok)
    /\ notBefore' = [notBefore EXCEPT ![j] = now + IF FitsWord(delay) THEN delay ELSE 0]

\* purgeSchedule: of a job that is complete. The timeout is not cut to 32 bits.
SchedulePurge(j, timeout, ok) ==
    /\ ScheduleRedis(j, timeout, ok)
    /\ notBefore' = [notBefore EXCEPT ![j] = now + Wait(timeout)]

\* The finally of _scheduleRedis: zadd, whether or not the save succeeded.
Zadd(j) ==
    /\ place[j] = "saving"
    /\ up
    /\ place' = [place EXCEPT ![j] = "zset"]
    /\ UNCHANGED <<redisVars, now, due, kept, fire, notBefore, config, loopVars,
                   history>>

-----------------------------------------------------------------------------
(***************************************************************************)
(* The ping loop.                                                          *)
(***************************************************************************)

\* What the multi of _zpop is issued with: Date.now() and the lookAhead of then.
NewPing == [at |-> now, look |-> config.lookAhead]

\* _ping, called when the timers pongNow and looseNow are still pending and
\* _pongTimeout refers to a dead timer if staleNow. Without a connection the
\* scheduler registers for "connect", once, and this loop ends.
PingWith(pongNow, staleNow, looseNow) ==
    /\ loose' = looseNow
    /\ IF connected
       THEN /\ pong' = None
            /\ stale' = FALSE
            /\ pings' = pings (+) SetToBag({NewPing})
            /\ UNCHANGED waitingToConnect
       ELSE /\ pong' = pongNow
            /\ stale' = staleNow
            /\ waitingToConnect' = TRUE
            /\ UNCHANGED pings

\* run: the first ping.
Run ==
    /\ began = None
    /\ began' = now
    /\ PingWith(pong, stale, loose)
    /\ UNCHANGED <<redisVars, now, jobVars, config, drops, changes, changedDown, halved>>

\* The timer of the last _pong is up.
PongTimer ==
    /\ pong # None /\ pong <= now
    /\ PingWith(None, TRUE, loose)
    /\ UNCHANGED <<redisVars, now, jobVars, config, history>>

\* Another timer is up that pings: of a changed interval, or of an earlier
\* _pong. The ping clears the timer that _pongTimeout refers to.
LooseTimer(t) ==
    /\ BagIn(t, loose) /\ t <= now
    /\ PingWith(pong, stale, loose (-) SetToBag({t}))
    /\ UNCHANGED <<redisVars, now, jobVars, config, history>>

\* _pong: the next ping, after interval and fuzz. A timer that _pongTimeout
\* still refers to stays pending, without a reference.
Pong(f) ==
    /\ pong' = now + config.interval + f
    /\ stale' = FALSE
    /\ loose' = IF pong = None THEN loose ELSE loose (+) SetToBag({pong})
    /\ UNCHANGED waitingToConnect

\* _zpop: the ids whose due dates are at most lookAhead from the time of the
\* ping, to either side.
Window(p) == {j \in Jobs : /\ place[j] = "zset"
                           /\ p.at - p.look <= due[j]
                           /\ due[j] <= p.at + p.look}

\* A mistake in Lineup: the terms of timediff are swapped.
LineupSwapped(j) == now + Larger(now - due[j], 0)

\* _lineupForQueue: when the RAM timer of a popped job is due. A record
\* without scheduledFor counts as overdue, and a due date that is too far away
\* for the lookAhead of now as invalid.
Lineup(j) ==
    LET timediff == IF kept[j] THEN due[j] - now ELSE -now IN
    now + (IF timediff > 2 * config.lookAhead THEN config.lookAhead
                                              ELSE Larger(timediff, 0))

\* A mistake in ZpopReply: the window does not reach back.
ZpopReplyAhead(p, f) ==
    /\ BagIn(p, pings)
    /\ up
    /\ LET popped == {j \in Window(p) : p.at <= due[j]} IN
       /\ place' = [j \in Jobs |-> IF j \in popped THEN "ram" ELSE place[j]]
       /\ fire' = [j \in Jobs |-> IF j \in popped THEN Lineup(j) ELSE fire[j]]
    /\ pings' = pings (-) SetToBag({p})
    /\ Pong(f)
    /\ UNCHANGED <<redisVars, now, due, kept, notBefore, config, history>>

\* The reply to a ping: what it popped is lined up, then _pong.
ZpopReply(p, f) ==
    /\ BagIn(p, pings)
    /\ up
    /\ place' = [j \in Jobs |-> IF j \in Window(p) THEN "ram" ELSE place[j]]
    /\ fire' = [j \in Jobs |-> IF j \in Window(p) THEN Lineup(j) ELSE fire[j]]
    /\ pings' = pings (-) SetToBag({p})
    /\ Pong(f)
    /\ UNCHANGED <<redisVars, now, due, kept, notBefore, config, history>>

\* A mistake in ZpopFails: the loop is not continued after an error.
ZpopFailsStop(p, f) ==
    /\ BagIn(p, pings)
    /\ drops > 0
    /\ pings' = pings (-) SetToBag({p})
    /\ UNCHANGED <<redisVars, now, jobVars, config, pong, stale, loose,
                   waitingToConnect, history>>

\* _onZpopError: the connection broke under the ping; the loop goes on.
ZpopFails(p, f) ==
    /\ BagIn(p, pings)
    /\ drops > 0
    /\ pings' = pings (-) SetToBag({p})
    /\ Pong(f)
    /\ UNCHANGED <<redisVars, now, jobVars, config, history>>

\* _addToProcessQueue or _purgeJob: the RAM timer of a job is up, and the
\* scheduler is done with it. It may be scheduled again.
RamTimer(j) ==
    /\ place[j] = "ram"
    /\ fire[j] <= now
    /\ place' = [place EXCEPT ![j] = "none"]
    /\ due' = [due EXCEPT ![j] = 0]
    /\ kept' = [kept EXCEPT ![j] = FALSE]
    /\ fire' = [fire EXCEPT ![j] = 0]
    /\ notBefore' = [notBefore EXCEPT ![j] = 0]
    /\ UNCHANGED <<redisVars, now, config, loopVars, history>>

-----------------------------------------------------------------------------
(***************************************************************************)
(* Configuration, connection, and the clock.                               *)
(***************************************************************************)

\* A mistake in ConfigChange: the pending timer is not cleared.
ConfigChangeAdds(c) ==
    /\ c # config
    /\ changes < MaxChanges
    /\ changes' = changes + 1
    /\ config' = c
    /\ changedDown' = (changedDown \/ (c.interval # config.interval /\ ~connected))
    /\ halved' = (halved \/ \E p \in BagToSet(pings) : p.look > 2 * c.lookAhead)
    /\ loose' = IF c.interval # config.interval THEN loose (+) SetToBag({now + Restart})
                ELSE loose
    /\ UNCHANGED <<redisVars, now, jobVars, pong, stale, pings, waitingToConnect,
                   began, drops>>

\* _onConfigChange: a new interval replaces the timer _pongTimeout refers to,
\* alive or not, by one that pings soon. A new fuzz or lookAhead is noted.
ConfigChange(c) ==
    /\ c # config
    /\ changes < MaxChanges
    /\ changes' = changes + 1
    /\ config' = c
    /\ changedDown' = (changedDown \/ (c.interval # config.interval /\ ~connected))
    /\ halved' = (halved \/ \E p \in BagToSet(pings) : p.look > 2 * c.lookAhead)
    /\ IF c.interval # config.interval /\ (pong # None \/ stale)
       THEN /\ pong' = None
            /\ stale' = FALSE
            /\ loose' = loose (+) SetToBag({now + Restart})
       ELSE UNCHANGED <<pong, stale, loose>>
    /\ UNCHANGED <<redisVars, now, jobVars, pings, waitingToConnect, began, drops>>

Drop ==
    /\ ClientDrops
    /\ drops < MaxDrops
    /\ drops' = drops + 1
    /\ UNCHANGED <<now, jobVars, config, loopVars, began, changes, changedDown, halved>>

Disconnect ==
    /\ HandleError
    /\ UNCHANGED <<now, jobVars, config, loopVars, history>>

\* _handleConnect, and onConnect of the scheduler if it has registered: it
\* pings, as connected by now, and waits no more.
Reconnect ==
    /\ HandleConnect
    /\ IF waitingToConnect /\ ~connected
       THEN /\ pong' = None
            /\ stale' = FALSE
            /\ pings' = pings (+) SetToBag({NewPing})
            /\ waitingToConnect' = FALSE
            /\ UNCHANGED loose
       ELSE UNCHANGED loopVars
    /\ UNCHANGED <<now, jobVars, config, history>>

\* Time passes, but no timer is later than MaxLag, nor the reply to a ping
\* while redis is up. A job is saved at once, then.
Tick ==
    /\ now < MaxTime
    /\ pong # None => now < pong + MaxLag
    /\ \A t \in BagToSet(loose) : now < t + MaxLag
    /\ \A j \in Jobs : place[j] = "ram" => now < fire[j] + MaxLag
    /\ up => /\ \A p \in BagToSet(pings) : now < p.at + MaxLag
             /\ \A j \in Jobs : place[j] # "saving"
    /\ now' = now + 1
    /\ UNCHANGED <<redisVars, jobVars, config, loopVars, history>>

Init ==
    /\ up = TRUE /\ connected = TRUE
    /\ now = 0
    /\ place = [j \in Jobs |-> "none"]
    /\ due = [j \in Jobs |-> 0]
    /\ kept = [j \in Jobs |-> FALSE]
    /\ fire = [j \in Jobs |-> 0]
    /\ notBefore = [j \in Jobs |-> 0]
    /\ config \in Config
    /\ pong = None
    /\ stale = FALSE
    /\ loose = EmptyBag
    /\ pings = EmptyBag
    /\ waitingToConnect = FALSE
    /\ began = None
    /\ drops = 0
    /\ changes = 0
    /\ changedDown = FALSE
    /\ halved = FALSE

Next ==
    \/ \E j \in Jobs, delay \in Delays, ok \in BOOLEAN : Schedule(j, delay, ok)
    \/ \E j \in Jobs, timeout \in PurgeTimeouts, ok \in BOOLEAN :
          SchedulePurge(j, timeout, ok)
    \/ \E j \in Jobs : Zadd(j)
    \/ Run
    \/ PongTimer
    \/ \E t \in BagToSet(loose) : LooseTimer(t)
    \/ \E p \in BagToSet(pings), f \in 0 .. config.fuzz : ZpopReply(p, f)
    \/ \E p \in BagToSet(pings), f \in 0 .. config.fuzz : ZpopFails(p, f)
    \/ \E j \in Jobs : RamTimer(j)
    \/ \E c \in Config : ConfigChange(c)
    \/ Drop
    \/ Disconnect
    \/ Reconnect
    \/ Tick

Spec == Init /\ [][Next]_vars

-----------------------------------------------------------------------------
(***************************************************************************)
(* Properties.                                                             *)
(***************************************************************************)

Times == 0 .. MaxTime

TypeOK ==
    /\ up \in BOOLEAN /\ connected \in BOOLEAN
    /\ now \in Times
    /\ place \in [Jobs -> Places]
    /\ due \in [Jobs -> Nat]
    /\ kept \in [Jobs -> BOOLEAN]
    /\ fire \in [Jobs -> Nat]
    /\ notBefore \in [Jobs -> Nat]
    /\ config \in Config
    /\ pong \in Nat \union {None}
    /\ stale \in BOOLEAN
    /\ IsABag(loose) /\ BagToSet(loose) \subseteq Nat
    /\ IsABag(pings) /\ BagToSet(pings) \subseteq [at : Times, look : LookAheads]
    /\ waitingToConnect \in BOOLEAN
    /\ began \in Times \union {None}
    /\ drops \in 0 .. MaxDrops
    /\ changes \in 0 .. MaxChanges
    /\ changedDown \in BOOLEAN /\ halved \in BOOLEAN

\* The pending timers that ping, by their due times.
Timers == IF pong = None THEN loose ELSE loose (+) SetToBag({pong})

\* The scheduler always goes on: by a timer, by the reply to a ping, or by the
\* next connect. Errors, lost connections and changes of the configuration
\* never end the last loop, and a registration never outlives the outage.
LoopLives ==
    began # None =>
        /\ Timers # EmptyBag \/ pings # EmptyBag \/ waitingToConnect
        /\ waitingToConnect => ~connected

Single(bag) == \E x \in BagToSet(bag) : bag = SetToBag({x})

\* There is one loop, however the connection comes and goes, as long as nobody
\* changes the interval while it is down: one pending timer, one ping without
\* a reply, or a registration for "connect". (A change then replaces a timer
\* that is dead by one that pings.)
OneLoop == began # None /\ ~changedDown =>
    \/ Single(Timers) /\ pings = EmptyBag /\ ~waitingToConnect
    \/ Timers = EmptyBag /\ Single(pings) /\ ~waitingToConnect
    \/ Timers = EmptyBag /\ pings = EmptyBag /\ waitingToConnect

\* The window of no ping that is under way or still to come reaches the entry.
Stranded(j) ==
    /\ place[j] = "zset"
    /\ \A p \in BagToSet(pings) \union {NewPing} : due[j] < p.at - p.look

\* No lookAhead that may be configured is too short for the job: it was not
\* long overdue when the scheduler was started.
InReach(j) == \A l \in LookAheads : began <= due[j] + l

\* At the pace of the default configuration a job is never out of reach of all
\* pings, and returns to the queue at most a lookAhead and two lags after it is
\* due, as long as the connection holds; unless it was due more than lookAhead
\* before the scheduler was started. In particular changes of the interval do
\* not add up to a longer pause.
OnTime ==
    began # None /\ drops = 0 => \A j \in Jobs : InReach(j) =>
        /\ ~Stranded(j)
        /\ place[j] \in {"zset", "ram"} =>
              \A l \in LookAheads : now <= due[j] + l + 2 * MaxLag

\* A job does not return to the queue before its delay is over, although it
\* is popped up to lookAhead early. Exceptions: delays that do not fit 32 bits;
\* a record saved without its due date, which returns as soon as it is popped; and a
\* lookAhead that is lowered under a ping to less than half, by which due dates
\* that the ping has popped are too far away to be taken for valid.
NeverEarly ==
    [][\A j \in Jobs : RamTimer(j) /\ kept[j] /\ ~halved => now >= notBefore[j]]_vars

-----------------------------------------------------------------------------
\* "Kickq now handles disconnects way more gracefully, and will restore
\* operations when Redis re-connection occures" (README.md:76): no scheduled
\* job is left behind for good.
NothingStranded ==
    began # None /\ up /\ connected =>
        \A j \in Jobs : began <= due[j] => ~Stranded(j)
=============================================================================
