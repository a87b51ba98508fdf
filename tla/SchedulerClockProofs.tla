------------------------- MODULE SchedulerClockProofs -------------------------
(***************************************************************************)
(* Proofs about the scheduler against the clock, for any jobs, delays,     *)
(* intervals, lags and numbers of outages: the ping loop goes on, there is *)
(* one as long as nobody changes the interval during an outage, and jobs   *)
(* return to the queue neither early nor late.                             *)
(***************************************************************************)
EXTENDS SchedulerClock, TLAPS

-----------------------------------------------------------------------------
(***************************************************************************)
(* Bags, words and numbers.                                                *)
(***************************************************************************)

\* One copy more of an element.
LEMMA AddOne ==
    ASSUME NEW bag, IsABag(bag), NEW x
    PROVE  /\ IsABag(bag (+) SetToBag({x}))
           /\ BagToSet(bag (+) SetToBag({x})) = BagToSet(bag) \union {x}
           /\ bag (+) SetToBag({x}) # EmptyBag
BY DEF IsABag, BagToSet, SetToBag, EmptyBag, (+)

\* A bag of elements of S stays one when one of S is added.
LEMMA AddOneOf ==
    ASSUME NEW S, NEW bag, IsABag(bag), BagToSet(bag) \subseteq S, NEW x \in S
    PROVE  /\ IsABag(bag (+) SetToBag({x}))
           /\ BagToSet(bag (+) SetToBag({x})) \subseteq S
<1>1. /\ IsABag(bag (+) SetToBag({x}))
      /\ BagToSet(bag (+) SetToBag({x})) = BagToSet(bag) \union {x}
  BY AddOne
<1>2. QED
  BY <1>1

\* One copy less of an element.
LEMMA RemoveOne ==
    ASSUME NEW bag, IsABag(bag), NEW x
    PROVE  /\ IsABag(bag (-) SetToBag({x}))
           /\ BagToSet(bag (-) SetToBag({x})) \subseteq BagToSet(bag)
BY DEF IsABag, BagToSet, SetToBag, (-)

\* Bags of one element, and the one of none.
LEMMA OneElement ==
    ASSUME NEW x
    PROVE  /\ EmptyBag (+) SetToBag({x}) = SetToBag({x})
           /\ SetToBag({x}) (-) SetToBag({x}) = EmptyBag
           /\ BagToSet(SetToBag({x})) = {x}
           /\ BagToSet(EmptyBag) = {}
           /\ IsABag(EmptyBag) /\ IsABag(SetToBag({x}))
           /\ SetToBag({x}) # EmptyBag
           /\ Single(SetToBag({x}))
BY DEF IsABag, BagToSet, SetToBag, EmptyBag, (-), (+), Single

\* A bag of one element has no other.
LEMMA SingleElement ==
    ASSUME NEW bag, Single(bag), NEW x \in BagToSet(bag)
    PROVE  bag = SetToBag({x})
<1>1. PICK y \in BagToSet(bag) : bag = SetToBag({y})
  BY DEF Single
<1>2. BagToSet(bag) = {y}
  BY <1>1, OneElement
<1>3. QED
  BY <1>1, <1>2

\* A delay that fits the word survives >>> 0, any other becomes one that fits.
LEMMA WordDelay ==
    ASSUME NEW delay \in Delays
    PROVE  /\ ToUint32(delay) \in Nat
           /\ FitsWord(delay) => ToUint32(delay) = delay /\ delay \in Nat
BY DelayAssumption DEF ToUint32, FitsWord

\* A job is scheduled, to be queued or to be purged.
Schedules(j) ==
    \/ \E delay \in Delays, ok \in BOOLEAN : Schedule(j, delay, ok)
    \/ \E timeout \in PurgeTimeouts, ok \in BOOLEAN : SchedulePurge(j, timeout, ok)

\* In either case its due date is not before the end of the delay that was meant.
LEMMA Scheduling ==
    ASSUME NEW j \in Jobs, Schedules(j)
    PROVE  /\ UNCHANGED <<redisVars, now, fire, config, loopVars, history>>
           /\ place' = [place EXCEPT ![j] = "saving"]
           /\ \E ok \in BOOLEAN : kept' = [kept EXCEPT ![j] = ok]
           /\ \E wait \in Nat, least \in Nat :
                 /\ least <= wait
                 /\ due' = [due EXCEPT ![j] = now + wait]
                 /\ notBefore' = [notBefore EXCEPT ![j] = now + least]
<1>1. ASSUME NEW delay \in Delays, NEW ok \in BOOLEAN, Schedule(j, delay, ok)
      PROVE  \E wait \in Nat, least \in Nat :
                /\ least <= wait
                /\ due' = [due EXCEPT ![j] = now + wait]
                /\ notBefore' = [notBefore EXCEPT ![j] = now + least]
  <2>1. PICK wait \in Nat : wait = ToUint32(delay) /\ wait # None
    BY WordDelay, LagAssumption
  <2>2. PICK least \in Nat : least = (IF FitsWord(delay) THEN delay ELSE 0) /\ least <= wait
    BY <2>1, WordDelay
  <2>3. due' = [due EXCEPT ![j] = now + wait]
    BY <1>1, <2>1 DEF Schedule, ScheduleRedis, Wait
  <2>4. notBefore' = [notBefore EXCEPT ![j] = now + least]
    BY <1>1, <2>2 DEF Schedule
  <2>5. QED
    BY <2>2, <2>3, <2>4
<1>2. ASSUME NEW timeout \in PurgeTimeouts, NEW ok \in BOOLEAN,
             SchedulePurge(j, timeout, ok)
      PROVE  \E wait \in Nat, least \in Nat :
                /\ least <= wait
                /\ due' = [due EXCEPT ![j] = now + wait]
                /\ notBefore' = [notBefore EXCEPT ![j] = now + least]
  <2>1. PICK wait \in Nat : wait = Wait(timeout)
    BY PurgeAssumption DEF Wait
  <2>2. /\ due' = [due EXCEPT ![j] = now + wait]
        /\ notBefore' = [notBefore EXCEPT ![j] = now + wait]
    BY <1>2, <2>1 DEF SchedulePurge, ScheduleRedis
  <2>3. wait <= wait
    OBVIOUS
  <2>4. QED
    BY <2>2, <2>3
<1>3. \E ok \in BOOLEAN : \E wait : ScheduleRedis(j, wait, ok)
  <2>1. ASSUME NEW delay \in Delays, NEW ok \in BOOLEAN, Schedule(j, delay, ok)
        PROVE  ScheduleRedis(j, ToUint32(delay), ok)
    BY <2>1 DEF Schedule
  <2>2. ASSUME NEW timeout \in PurgeTimeouts, NEW ok \in BOOLEAN,
               SchedulePurge(j, timeout, ok)
        PROVE  ScheduleRedis(j, timeout, ok)
    BY <2>2 DEF SchedulePurge
  <2>3. QED
    BY <2>1, <2>2 DEF Schedules
<1>3a. PICK ok \in BOOLEAN : \E wait : ScheduleRedis(j, wait, ok)
  BY <1>3
<1>3b. PICK wait : ScheduleRedis(j, wait, ok)
  BY <1>3a
<1>4. /\ UNCHANGED <<redisVars, now, fire, config, loopVars, history>>
      /\ place' = [place EXCEPT ![j] = "saving"]
      /\ kept' = [kept EXCEPT ![j] = ok]
  BY <1>3b DEF ScheduleRedis
<1>5. QED
  BY <1>1, <1>2, <1>4 DEF Schedules

\* What the assumptions say of any configuration.
LEMMA Pace ==
    ASSUME NEW c \in Config, NEW f \in 0 .. c.fuzz, NEW l \in LookAheads
    PROVE  /\ c.interval \in Nat /\ c.fuzz \in Nat /\ c.lookAhead \in Nat /\ l \in Nat
           /\ c.lookAhead \in LookAheads
           /\ Restart \in Nat /\ MaxLag \in Nat
           /\ c.interval + f + Restart + 3 * MaxLag <= l
<1> USE ConfigAssumption, LagAssumption, PaceAssumption
<1>1. /\ c.interval \in Intervals /\ c.fuzz \in Fuzzes /\ c.lookAhead \in LookAheads
  BY DEF Config
<1>2. /\ c.interval \in Nat /\ c.fuzz \in Nat /\ c.lookAhead \in Nat /\ l \in Nat
      /\ Restart \in Nat /\ MaxLag \in Nat
  BY <1>1
<1>3. [interval |-> c.interval, fuzz |-> c.fuzz, lookAhead |-> l] \in Config
  BY <1>1 DEF Config
<1>4. c.interval + c.fuzz + Restart + 3 * MaxLag <= l
  BY <1>3
<1>5. QED
  BY <1>1, <1>2, <1>4

-----------------------------------------------------------------------------
(***************************************************************************)
(* Types.                                                                  *)
(***************************************************************************)

\* The part of TypeOK that is about the ping loop.
LoopTypes ==
    /\ pong \in Nat \union {None}
    /\ stale \in BOOLEAN
    /\ IsABag(loose) /\ BagToSet(loose) \subseteq Nat
    /\ IsABag(pings) /\ BagToSet(pings) \subseteq [at : Times, look : LookAheads]
    /\ waitingToConnect \in BOOLEAN

LEMMA NewPingType == TypeOK => NewPing \in [at : Times, look : LookAheads]
BY DEF TypeOK, NewPing, Config

LEMMA PingTypes ==
    ASSUME TypeOK, NEW pongNow \in Nat \union {None}, NEW staleNow \in BOOLEAN,
           NEW looseNow, IsABag(looseNow), BagToSet(looseNow) \subseteq Nat,
           PingWith(pongNow, staleNow, looseNow)
    PROVE  LoopTypes'
<1>1. loose' = looseNow
  BY DEF PingWith
<1>2. CASE connected
  <2>1. /\ pong' = None /\ stale' = FALSE /\ waitingToConnect' = waitingToConnect
        /\ pings' = pings (+) SetToBag({NewPing})
    BY <1>2 DEF PingWith
  <2>2. IsABag(pings') /\ BagToSet(pings') \subseteq [at : Times, look : LookAheads]
    <3>1. IsABag(pings) /\ BagToSet(pings) \subseteq [at : Times, look : LookAheads]
      BY DEF TypeOK
    <3>2. QED
      BY <2>1, <3>1, AddOneOf, NewPingType
  <2>3. QED
    BY <1>1, <2>1, <2>2 DEF LoopTypes, TypeOK
<1>3. CASE ~connected
  BY <1>1, <1>3 DEF PingWith, LoopTypes, TypeOK
<1>4. QED
  BY <1>2, <1>3

LEMMA PongTypes ==
    ASSUME TypeOK, NEW f \in 0 .. config.fuzz, NEW p, Pong(f),
           pings' = pings (-) SetToBag({p})
    PROVE  LoopTypes'
<1>1. config.interval \in Nat /\ config.fuzz \in Nat /\ now \in Nat
  BY ConfigAssumption, LagAssumption DEF TypeOK, Config, Times
<1>2. pong' \in Nat /\ stale' = FALSE /\ waitingToConnect' = waitingToConnect
  BY <1>1 DEF Pong
<1>3. IsABag(loose') /\ BagToSet(loose') \subseteq Nat
  <2>1. CASE pong = None
    BY <2>1 DEF Pong, TypeOK
  <2>2. CASE pong # None
    <3>1. pong \in Nat /\ loose' = loose (+) SetToBag({pong})
      BY <2>2 DEF Pong, TypeOK
    <3>2. QED
      BY <3>1, AddOne DEF TypeOK
  <2>3. QED
    BY <2>1, <2>2
<1>4. IsABag(pings') /\ BagToSet(pings') \subseteq [at : Times, look : LookAheads]
  BY RemoveOne DEF TypeOK
<1>5. QED
  BY <1>2, <1>3, <1>4 DEF LoopTypes, TypeOK

LEMMA ClockTypesInit == Init => TypeOK
<1> SUFFICES ASSUME Init PROVE TypeOK
  OBVIOUS
<1>1. 0 \in Times /\ 0 \in 0 .. MaxDrops /\ 0 \in 0 .. MaxChanges
  BY LagAssumption DEF Times
<1>2. /\ place \in [Jobs -> Places] /\ due \in [Jobs -> Nat]
      /\ kept \in [Jobs -> BOOLEAN] /\ fire \in [Jobs -> Nat]
      /\ notBefore \in [Jobs -> Nat]
  BY DEF Init, Places
<1>3. /\ IsABag(loose) /\ BagToSet(loose) = {}
      /\ IsABag(pings) /\ BagToSet(pings) = {}
  BY OneElement DEF Init
<1>4. QED
  BY <1>1, <1>2, <1>3 DEF Init, TypeOK

\* The due date of a RAM timer.
LEMMA LineupType ==
    ASSUME TypeOK, NEW j \in Jobs
    PROVE  Lineup(j) \in Nat
<1>1. config.lookAhead \in Nat /\ now \in Nat /\ due[j] \in Nat
  BY ConfigAssumption, LagAssumption DEF TypeOK, Config, Times
<1>2. QED
  BY <1>1 DEF Lineup, Larger

LEMMA ClockTypesStep == TypeOK /\ [Next]_vars => TypeOK'
<1> SUFFICES ASSUME TypeOK, [Next]_vars PROVE TypeOK'
  OBVIOUS
<1> USE DEF redisVars, jobVars, history
<1>1. now \in Nat /\ now \in Times
  BY LagAssumption DEF TypeOK, Times
<1>2. LoopTypes /\ (UNCHANGED loopVars => LoopTypes')
  BY DEF TypeOK, LoopTypes, loopVars
<1>3. ASSUME NEW j \in Jobs, Schedules(j) PROVE TypeOK'
  <2>1. due' \in [Jobs -> Nat] /\ notBefore' \in [Jobs -> Nat]
    BY <1>1, <1>3, Scheduling DEF TypeOK
  <2>2. place' \in [Jobs -> Places] /\ kept' \in [Jobs -> BOOLEAN]
    BY <1>3, Scheduling DEF TypeOK, Places
  <2>3. UNCHANGED <<redisVars, now, fire, config, loopVars, history>>
    BY <1>3, Scheduling
  <2>4. QED
    BY <1>2, <2>1, <2>2, <2>3 DEF TypeOK, LoopTypes
<1>4. ASSUME NEW j \in Jobs, Zadd(j) PROVE TypeOK'
  <2>1. place' \in [Jobs -> Places]
    BY <1>4 DEF Zadd, TypeOK, Places
  <2>2. QED
    BY <1>2, <1>4, <2>1 DEF Zadd, TypeOK, LoopTypes
<1>5. CASE Run
  <2>1. LoopTypes'
    BY <1>5, PingTypes DEF Run, TypeOK
  <2>2. QED
    BY <1>1, <1>5, <2>1 DEF Run, TypeOK, LoopTypes
<1>6. CASE PongTimer
  <2>1. LoopTypes'
    BY <1>6, PingTypes DEF PongTimer, TypeOK
  <2>2. QED
    BY <1>6, <2>1 DEF PongTimer, TypeOK, LoopTypes
<1>7. ASSUME NEW t \in BagToSet(loose), LooseTimer(t) PROVE TypeOK'
  <2>1. /\ IsABag(loose (-) SetToBag({t}))
        /\ BagToSet(loose (-) SetToBag({t})) \subseteq Nat
    BY RemoveOne DEF TypeOK
  <2>2. LoopTypes'
    BY <1>7, <2>1, PingTypes DEF LooseTimer, TypeOK
  <2>3. QED
    BY <1>7, <2>2 DEF LooseTimer, TypeOK, LoopTypes
<1>8. ASSUME NEW p \in BagToSet(pings), NEW f \in 0 .. config.fuzz, ZpopReply(p, f)
      PROVE  TypeOK'
  <2>1. LoopTypes'
    BY <1>8, PongTypes DEF ZpopReply
  <2>2. fire' \in [Jobs -> Nat]
    BY <1>8, LineupType DEF ZpopReply, TypeOK
  <2>3. place' \in [Jobs -> Places]
    BY <1>8 DEF ZpopReply, TypeOK, Places
  <2>4. QED
    BY <1>8, <2>1, <2>2, <2>3 DEF ZpopReply, TypeOK, LoopTypes
<1>9. ASSUME NEW p \in BagToSet(pings), NEW f \in 0 .. config.fuzz, ZpopFails(p, f)
      PROVE  TypeOK'
  <2>1. LoopTypes'
    BY <1>9, PongTypes DEF ZpopFails
  <2>2. QED
    BY <1>9, <2>1 DEF ZpopFails, TypeOK, LoopTypes
<1>10. ASSUME NEW j \in Jobs, RamTimer(j) PROVE TypeOK'
  <2>1. /\ place' \in [Jobs -> Places] /\ due' \in [Jobs -> Nat]
        /\ kept' \in [Jobs -> BOOLEAN] /\ fire' \in [Jobs -> Nat]
        /\ notBefore' \in [Jobs -> Nat]
    BY <1>10 DEF RamTimer, TypeOK, Places
  <2>2. QED
    BY <1>2, <1>10, <2>1 DEF RamTimer, TypeOK, LoopTypes
<1>11. ASSUME NEW c \in Config, ConfigChange(c) PROVE TypeOK'
  <2>1. changes' \in 0 .. MaxChanges /\ changedDown' \in BOOLEAN /\ halved' \in BOOLEAN
    BY <1>11, LagAssumption DEF ConfigChange, TypeOK
  <2>2. LoopTypes'
    <3>1. CASE c.interval # config.interval /\ (pong # None \/ stale)
      <4>1. /\ pong' = None /\ stale' = FALSE
            /\ loose' = loose (+) SetToBag({now + Restart})
            /\ UNCHANGED <<pings, waitingToConnect>>
        BY <1>11, <3>1 DEF ConfigChange
      <4>2. now + Restart \in Nat
        BY <1>1, LagAssumption
      <4>3. IsABag(loose') /\ BagToSet(loose') \subseteq Nat
        <5>1. IsABag(loose) /\ BagToSet(loose) \subseteq Nat
          BY DEF TypeOK
        <5>2. QED
          BY <4>1, <4>2, <5>1, AddOneOf
      <4>4. QED
        BY <1>2, <4>1, <4>3 DEF LoopTypes
    <3>2. CASE ~(c.interval # config.interval /\ (pong # None \/ stale))
      BY <1>2, <1>11, <3>2 DEF ConfigChange, loopVars
    <3>3. QED
      BY <3>1, <3>2
  <2>3. QED
    BY <1>11, <2>1, <2>2 DEF ConfigChange, TypeOK, LoopTypes
<1>12. CASE Drop
  <2>1. drops' \in 0 .. MaxDrops
    BY <1>12, LagAssumption DEF Drop, TypeOK
  <2>2. QED
    BY <1>2, <1>12, <2>1 DEF Drop, ClientDrops, TypeOK, LoopTypes
<1>13. CASE Disconnect
  BY <1>2, <1>13 DEF Disconnect, HandleError, TypeOK, LoopTypes
<1>14. CASE Reconnect
  <2>1. LoopTypes'
    <3>1. CASE waitingToConnect /\ ~connected
      <4>1. /\ pong' = None /\ stale' = FALSE /\ loose' = loose
            /\ waitingToConnect' = FALSE
            /\ pings' = pings (+) SetToBag({NewPing})
        BY <1>14, <3>1 DEF Reconnect
      <4>2. IsABag(pings') /\ BagToSet(pings') \subseteq [at : Times, look : LookAheads]
        <5>1. IsABag(pings) /\ BagToSet(pings) \subseteq [at : Times, look : LookAheads]
          BY DEF TypeOK
        <5>2. QED
          BY <4>1, <5>1, AddOneOf, NewPingType
      <4>3. QED
        BY <1>2, <4>1, <4>2 DEF LoopTypes
    <3>2. CASE ~(waitingToConnect /\ ~connected)
      BY <1>2, <1>14, <3>2 DEF Reconnect
    <3>3. QED
      BY <3>1, <3>2
  <2>2. QED
    BY <1>14, <2>1 DEF Reconnect, HandleConnect, TypeOK, LoopTypes
<1>15. CASE Tick
  <2>1. now' \in Times
    BY <1>1, <1>15, LagAssumption DEF Tick, Times
  <2>2. QED
    BY <1>2, <1>15, <2>1 DEF Tick, TypeOK, LoopTypes
<1>16. CASE UNCHANGED vars
  BY <1>2, <1>16 DEF vars, TypeOK, LoopTypes, loopVars
<1>17. QED
  BY <1>3, <1>4, <1>5, <1>6, <1>7, <1>8, <1>9, <1>10, <1>11, <1>12, <1>13, <1>14,
     <1>15, <1>16 DEF Next, Schedules

\* The variables keep their types: in particular due dates and RAM timers are
\* never negative, whatever delays are asked for.
THEOREM ClockTypes == Spec => []TypeOK
<1>1. QED
  BY ClockTypesInit, ClockTypesStep, PTL DEF Spec

-----------------------------------------------------------------------------
(***************************************************************************)
(* The ping loop.                                                          *)
(***************************************************************************)

\* Where the only loop can be.
AtTimer == pong # None /\ loose = EmptyBag /\ pings = EmptyBag /\ ~waitingToConnect
AtLoose == pong = None /\ Single(loose) /\ pings = EmptyBag /\ ~waitingToConnect
AtPing  == pong = None /\ loose = EmptyBag /\ Single(pings) /\ ~waitingToConnect
AtWait  == pong = None /\ loose = EmptyBag /\ pings = EmptyBag /\ waitingToConnect

\* Before run() there is no loop, afterwards there is one. There is only one,
\* and _pongTimeout refers to a dead timer only during an outage, until the
\* interval is changed during an outage.
LoopInv ==
    /\ waitingToConnect => ~connected
    /\ began = None => /\ pong = None /\ loose = EmptyBag /\ pings = EmptyBag
                       /\ ~stale /\ ~waitingToConnect
    /\ began # None =>
          pong # None \/ loose # EmptyBag \/ pings # EmptyBag \/ waitingToConnect
    /\ began # None /\ ~changedDown => /\ AtTimer \/ AtLoose \/ AtPing \/ AtWait
                                       /\ stale => waitingToConnect
    /\ drops = 0 => up /\ connected /\ ~changedDown

LEMMA LoopInit == Init => LoopInv
BY DEF Init, LoopInv

\* A ping keeps the loop that came to it, and is the only one if that was.
LEMMA LoopPing ==
    ASSUME TypeOK, LoopInv, NEW pongNow, NEW staleNow \in BOOLEAN, NEW looseNow,
           PingWith(pongNow, staleNow, looseNow), began' # None,
           UNCHANGED <<up, connected, drops, changedDown>>,
           ~changedDown => /\ pongNow = None /\ looseNow = EmptyBag /\ pings = EmptyBag
                           /\ ~waitingToConnect
    PROVE  LoopInv'
<1>1. loose' = looseNow
  BY DEF PingWith
<1>2. CASE connected
  <2>1. /\ pong' = None /\ stale' = FALSE /\ waitingToConnect' = waitingToConnect
        /\ pings' = pings (+) SetToBag({NewPing})
    BY <1>2 DEF PingWith
  <2>2. pings' # EmptyBag
    BY <2>1, AddOne DEF TypeOK
  <2>3. ~changedDown => AtPing'
    BY <1>1, <2>1, OneElement DEF AtPing
  <2>4. QED
    BY <1>2, <2>1, <2>2, <2>3 DEF LoopInv
<1>3. CASE ~connected
  <2>1. /\ pong' = pongNow /\ stale' = staleNow /\ waitingToConnect' = TRUE
        /\ pings' = pings
    BY <1>3 DEF PingWith
  <2>2. ~changedDown => AtWait'
    BY <1>1, <2>1 DEF AtWait
  <2>3. QED
    BY <1>3, <2>1, <2>2 DEF LoopInv
<1>4. QED
  BY <1>2, <1>3

\* The end of a ping, well or not, starts the next timer.
LEMMA LoopPong ==
    ASSUME TypeOK, LoopInv, NEW p \in BagToSet(pings), NEW f \in 0 .. config.fuzz,
           pings' = pings (-) SetToBag({p}), Pong(f),
           UNCHANGED <<up, connected, began, drops, changedDown>>
    PROVE  LoopInv'
<1>1. /\ pings # EmptyBag /\ began # None
  BY OneElement DEF LoopInv
<1>2. pong' # None /\ stale' = FALSE /\ waitingToConnect' = waitingToConnect
  <2>1. now + config.interval + f \in Nat
    BY Pace, LagAssumption DEF TypeOK, Config, Times
  <2>2. now + config.interval + f # None
    BY <2>1, LagAssumption
  <2>3. QED
    BY <2>2 DEF Pong
<1>3. ASSUME ~changedDown PROVE AtTimer'
  <2>1. AtPing
    BY <1>1, <1>3 DEF LoopInv, AtTimer, AtLoose, AtWait
  <2>2. pings = SetToBag({p}) /\ pong = None /\ loose = EmptyBag
    BY <2>1, SingleElement DEF AtPing
  <2>3. pings' = EmptyBag /\ loose' = EmptyBag
    BY <2>2, OneElement DEF Pong
  <2>4. QED
    BY <1>2, <2>1, <2>3 DEF AtTimer, AtPing
<1>4. QED
  BY <1>1, <1>2, <1>3 DEF LoopInv

LEMMA LoopUnmoved ==
    ASSUME LoopInv, UNCHANGED <<up, connected, loopVars, history>>
    PROVE  LoopInv'
BY DEF LoopInv, AtTimer, AtLoose, AtPing, AtWait, loopVars, history

\* A new interval moves the loop to a timer that pings soon.
LEMMA LoopConfigChange ==
    ASSUME TypeOK, LoopInv, NEW c \in Config, ConfigChange(c)
    PROVE  LoopInv'
<1> USE DEF redisVars
<1>1. /\ UNCHANGED <<up, connected, pings, waitingToConnect, began, drops>>
      /\ ~changedDown' => ~changedDown
      /\ drops = 0 => ~changedDown'
  BY DEF ConfigChange, LoopInv
<1>2. CASE c.interval # config.interval /\ (pong # None \/ stale)
  <2>1. /\ pong' = None /\ stale' = FALSE
        /\ loose' = loose (+) SetToBag({now + Restart})
    BY <1>2 DEF ConfigChange
  <2>2. loose' # EmptyBag /\ began # None
    BY <1>2, <2>1, AddOne DEF TypeOK, LoopInv
  <2>3. ASSUME ~changedDown' PROVE AtLoose'
    <3>1. connected /\ ~changedDown
      BY <1>2, <2>3 DEF ConfigChange, TypeOK
    <3>2. AtTimer
      BY <1>2, <2>2, <3>1 DEF LoopInv, AtTimer, AtLoose, AtPing, AtWait
    <3>3. loose' = SetToBag({now + Restart})
      BY <2>1, <3>2, OneElement DEF AtTimer
    <3>4. Single(loose')
      BY <3>3, OneElement
    <3>5. QED
      BY <1>1, <2>1, <3>2, <3>4 DEF AtTimer, AtLoose
  <2>4. QED
    BY <1>1, <2>1, <2>2, <2>3 DEF LoopInv
<1>3. CASE ~(c.interval # config.interval /\ (pong # None \/ stale))
  <2>1. UNCHANGED <<pong, stale, loose>>
    BY <1>3 DEF ConfigChange
  <2>2. /\ AtTimer => AtTimer'
        /\ AtLoose => AtLoose'
        /\ AtPing => AtPing'
        /\ AtWait => AtWait'
    BY <1>1, <2>1 DEF AtTimer, AtLoose, AtPing, AtWait
  <2>3. QED
    BY <1>1, <2>1, <2>2 DEF LoopInv
<1>4. QED
  BY <1>2, <1>3

\* A registration becomes a ping when the connection is back.
LEMMA LoopReconnect ==
    ASSUME TypeOK, LoopInv, Reconnect
    PROVE  LoopInv'
<1>1. ~up /\ up' = TRUE /\ connected' = TRUE /\ UNCHANGED <<began, drops, changedDown>>
  BY DEF Reconnect, HandleConnect, history
<1>2. drops # 0
  BY <1>1 DEF LoopInv
<1>3. CASE waitingToConnect /\ ~connected
  <2>1. /\ pong' = None /\ stale' = FALSE /\ waitingToConnect' = FALSE
        /\ pings' = pings (+) SetToBag({NewPing}) /\ loose' = loose
    BY <1>3 DEF Reconnect
  <2>2. pings' # EmptyBag
    BY <2>1, AddOne DEF TypeOK
  <2>3. began # None
    BY <1>3 DEF LoopInv
  <2>4. ~changedDown => AtPing'
    <3>1. ~changedDown => AtWait
      BY <1>3, <2>3 DEF LoopInv, AtTimer, AtLoose, AtPing
    <3>2. QED
      BY <2>1, <3>1, OneElement DEF AtWait, AtPing
  <2>5. QED
    BY <1>1, <1>2, <2>1, <2>2, <2>3, <2>4 DEF LoopInv
<1>4. CASE ~(waitingToConnect /\ ~connected)
  <2>1. UNCHANGED loopVars
    BY <1>4 DEF Reconnect
  <2>2. ~waitingToConnect
    BY <1>4 DEF LoopInv
  <2>3. /\ AtTimer => AtTimer'
        /\ AtLoose => AtLoose'
        /\ AtPing => AtPing'
        /\ AtWait => AtWait'
    BY <2>1 DEF AtTimer, AtLoose, AtPing, AtWait, loopVars
  <2>4. QED
    BY <1>1, <1>2, <2>1, <2>2, <2>3 DEF LoopInv, loopVars
<1>5. QED
  BY <1>3, <1>4

LEMMA LoopStep == TypeOK /\ LoopInv /\ [Next]_vars => LoopInv'
<1> SUFFICES ASSUME TypeOK, LoopInv, [Next]_vars PROVE LoopInv'
  OBVIOUS
<1> USE DEF redisVars
<1>1. ASSUME \/ \E j \in Jobs : Schedules(j) \/ Zadd(j) \/ RamTimer(j)
             \/ Tick
             \/ UNCHANGED vars
      PROVE  LoopInv'
  <2>1. UNCHANGED <<up, connected, loopVars, history>>
    BY <1>1, Scheduling DEF Zadd, RamTimer, Tick, vars, loopVars, history
  <2>2. QED
    BY <2>1, LoopUnmoved
<1>2. CASE Run
  <2>1. /\ PingWith(pong, stale, loose) /\ began = None /\ began' = now
        /\ UNCHANGED <<up, connected, drops, changedDown>>
    BY <1>2 DEF Run
  <2>2. began' # None /\ stale \in BOOLEAN
    BY <2>1, LagAssumption DEF TypeOK, Times
  <2>3. QED
    BY <2>1, <2>2, LoopPing DEF LoopInv
<1>3. CASE PongTimer
  <2>1. /\ PingWith(None, TRUE, loose) /\ pong # None
        /\ UNCHANGED <<up, connected, began, drops, changedDown>>
    BY <1>3 DEF PongTimer, history
  <2>2. began' # None
    BY <2>1 DEF LoopInv
  <2>3. ~changedDown => loose = EmptyBag /\ pings = EmptyBag /\ ~waitingToConnect
    BY <2>1, <2>2 DEF LoopInv, AtTimer, AtLoose, AtPing, AtWait
  <2>4. QED
    BY <2>1, <2>2, <2>3, LoopPing
<1>4. ASSUME NEW t \in BagToSet(loose), LooseTimer(t) PROVE LoopInv'
  <2>1. /\ PingWith(pong, stale, loose (-) SetToBag({t}))
        /\ UNCHANGED <<up, connected, began, drops, changedDown>>
    BY <1>4 DEF LooseTimer, history
  <2>2. loose # EmptyBag /\ stale \in BOOLEAN
    BY OneElement DEF TypeOK
  <2>3. began' # None
    BY <2>1, <2>2 DEF LoopInv
  <2>4. ASSUME ~changedDown
        PROVE  /\ pong = None /\ pings = EmptyBag /\ ~waitingToConnect
               /\ loose (-) SetToBag({t}) = EmptyBag
    <3>1. AtLoose
      BY <2>1, <2>2, <2>3, <2>4 DEF LoopInv, AtTimer, AtPing, AtWait
    <3>2. loose = SetToBag({t})
      BY <3>1, SingleElement DEF AtLoose
    <3>3. QED
      BY <3>1, <3>2, OneElement DEF AtLoose
  <2>5. QED
    BY <2>1, <2>2, <2>3, <2>4, LoopPing
<1>5. ASSUME NEW p \in BagToSet(pings), NEW f \in 0 .. config.fuzz,
             ZpopReply(p, f) \/ ZpopFails(p, f)
      PROVE  LoopInv'
  BY <1>5, LoopPong DEF ZpopReply, ZpopFails, history
<1>6. CASE Drop
  <2>1. UNCHANGED <<connected, loopVars, began, changedDown>> /\ drops' # 0
    BY <1>6, LagAssumption DEF Drop, ClientDrops, TypeOK
  <2>2. QED
    BY <2>1 DEF LoopInv, AtTimer, AtLoose, AtPing, AtWait, loopVars
<1>7. CASE Disconnect
  <2>1. /\ UNCHANGED <<up, loopVars, began, changedDown, drops>>
        /\ connected' = FALSE /\ ~up
    BY <1>7 DEF Disconnect, HandleError, history
  <2>2. QED
    BY <2>1 DEF LoopInv, AtTimer, AtLoose, AtPing, AtWait, loopVars
<1>8. QED
  BY <1>1, <1>2, <1>3, <1>4, <1>5, <1>6, <1>7, LoopConfigChange, LoopReconnect
     DEF Next, Schedules

LEMMA LoopInvariant == Spec => []LoopInv
<1>1. QED
  BY LoopInit, LoopStep, ClockTypes, PTL DEF Spec

\* Once run() was called the scheduler always goes on: after errors, lost
\* connections and changes of the configuration, in any order and number.
THEOREM TheLoopLives == Spec => []LoopLives
<1>1. TypeOK /\ LoopInv => LoopLives
  <2> SUFFICES ASSUME TypeOK, LoopInv, began # None
               PROVE  /\ Timers # EmptyBag \/ pings # EmptyBag \/ waitingToConnect
                      /\ waitingToConnect => ~connected
    BY DEF LoopLives
  <2>1. pong # None => Timers # EmptyBag
    BY AddOne DEF TypeOK, Timers
  <2>2. loose # EmptyBag => Timers # EmptyBag
    BY <2>1 DEF Timers
  <2>3. QED
    BY <2>1, <2>2 DEF LoopInv
<1>2. QED
  BY <1>1, ClockTypes, LoopInvariant, PTL

\* There is one loop, unless somebody has changed the interval during an
\* outage: reconnects, errors and other changes never start a second one.
THEOREM ThereIsOneLoop == Spec => []OneLoop
<1>1. LoopInv => OneLoop
  <2> SUFFICES ASSUME LoopInv, began # None, ~changedDown PROVE OneLoop
    BY DEF OneLoop
  <2>1. CASE AtTimer
    <3>1. Timers = SetToBag({pong})
      BY <2>1, OneElement DEF AtTimer, Timers
    <3>2. Single(Timers)
      BY <3>1, OneElement
    <3>3. QED
      BY <2>1, <3>2 DEF AtTimer, OneLoop
  <2>2. CASE AtLoose
    BY <2>2 DEF AtLoose, Timers, OneLoop
  <2>3. CASE AtPing
    BY <2>3 DEF AtPing, Timers, OneLoop
  <2>4. CASE AtWait
    BY <2>4 DEF AtWait, Timers, OneLoop
  <2>5. QED
    BY <2>1, <2>2, <2>3, <2>4 DEF LoopInv
<1>2. QED
  BY <1>1, LoopInvariant, PTL

-----------------------------------------------------------------------------
(***************************************************************************)
(* Not early.                                                              *)
(***************************************************************************)

\* Pings were issued in the past, and look no further ahead than a due date may
\* be away, unless lookAhead was lowered too much under one of them.
PingsFit ==
    \A p \in BagToSet(pings) : p.at <= now /\ (~halved => p.look <= 2 * config.lookAhead)

\* The due date of a job is not before the end of its delay, nor is its timer,
\* if its record has that date.
EarlyInv ==
    /\ PingsFit
    /\ \A j \in Jobs :
          /\ place[j] # "none" => notBefore[j] <= due[j]
          /\ place[j] = "ram" /\ kept[j] /\ ~halved => notBefore[j] <= fire[j]

LEMMA SettingsTypes ==
    ASSUME TypeOK
    PROVE  now \in Nat /\ config.lookAhead \in Nat /\ \A j \in Jobs : due[j] \in Nat
<1>1. now \in Nat /\ config \in Config /\ \A j \in Jobs : due[j] \in Nat
  BY LagAssumption DEF TypeOK, Times
<1>2. QED
  BY <1>1, ConfigAssumption DEF Config

\* A popped job does not wait longer than to its due date ...
LEMMA LineupAtMost ==
    ASSUME TypeOK, NEW j \in Jobs
    PROVE  /\ Lineup(j) \in Nat /\ now <= Lineup(j)
           /\ Lineup(j) = now \/ Lineup(j) <= due[j]
<1>1. now \in Nat /\ config.lookAhead \in Nat /\ due[j] \in Nat
  BY SettingsTypes
<1>2. CASE kept[j]
  BY <1>1, <1>2 DEF Lineup, Larger
<1>3. CASE ~kept[j]
  <2>1. ~(-now > 2 * config.lookAhead)
    BY <1>1
  <2>2. Lineup(j) = now + Larger(-now, 0)
    BY <1>3, <2>1 DEF Lineup
  <2>3. QED
    BY <1>1, <2>2 DEF Larger
<1>4. QED
  BY <1>2, <1>3

\* ... and as long as that if the ping that popped it did not look too far ahead
\* for the lookAhead of now.
LEMMA LineupDue ==
    ASSUME TypeOK, NEW j \in Jobs, kept[j], NEW p \in [at : Times, look : LookAheads],
           p.at <= now, p.look <= 2 * config.lookAhead, due[j] <= p.at + p.look
    PROVE  due[j] <= Lineup(j)
<1>1. /\ now \in Nat /\ config.lookAhead \in Nat /\ due[j] \in Nat
      /\ p.at \in Nat /\ p.look \in Nat
  BY SettingsTypes, LagAssumption, ConfigAssumption DEF Times
<1>2. ~(due[j] - now > 2 * config.lookAhead)
  BY <1>1
<1>3. Lineup(j) = now + Larger(due[j] - now, 0)
  BY <1>2 DEF Lineup
<1>4. QED
  BY <1>1, <1>3 DEF Larger

\* Pings are issued with the time and the lookAhead of their step.
LEMMA NewPingFits ==
    ASSUME TypeOK, PingsFit, UNCHANGED <<now, config, halved>>,
           pings' = pings (+) SetToBag({NewPing})
    PROVE  PingsFit'
<1>1. BagToSet(pings') = BagToSet(pings) \union {NewPing}
  BY AddOne DEF TypeOK
<1>2. NewPing.at <= now /\ NewPing.look <= 2 * config.lookAhead
  <2>1. NewPing.at = now /\ NewPing.look = config.lookAhead
    BY DEF NewPing
  <2>2. QED
    BY <2>1, SettingsTypes
<1>3. PICK q : q = NewPing
  OBVIOUS
<1>4. /\ BagToSet(pings') = BagToSet(pings) \union {q}
      /\ q.at <= now /\ q.look <= 2 * config.lookAhead
  BY <1>1, <1>2, <1>3
<1>5. QED
  BY <1>4 DEF PingsFit

LEMMA PingsInThePast ==
    ASSUME TypeOK, PingsFit, UNCHANGED <<now, config, halved>>,
           NEW pongNow, NEW staleNow, NEW looseNow,
           PingWith(pongNow, staleNow, looseNow)
    PROVE  PingsFit'
<1>1. CASE connected
  BY <1>1, NewPingFits DEF PingWith
<1>2. CASE ~connected
  BY <1>2 DEF PingWith, PingsFit
<1>3. QED
  BY <1>1, <1>2

LEMMA EarlyInit == Init => EarlyInv
BY OneElement DEF Init, EarlyInv, PingsFit

LEMMA EarlyStep == TypeOK /\ EarlyInv /\ [Next]_vars => EarlyInv'
<1> SUFFICES ASSUME TypeOK, EarlyInv, [Next]_vars PROVE EarlyInv'
  OBVIOUS
<1> USE DEF redisVars
<1>1. now \in Nat
  BY LagAssumption DEF TypeOK, Times
\* Jobs stay as they are, or pings do.
<1>2. ASSUME UNCHANGED jobVars, halved => halved', PingsFit' PROVE EarlyInv'
  BY <1>2 DEF EarlyInv, jobVars
<1>3. ASSUME UNCHANGED <<now, config, halved>>, BagToSet(pings') \subseteq BagToSet(pings)
      PROVE  PingsFit'
  BY <1>3 DEF EarlyInv, PingsFit
<1>4. ASSUME NEW j \in Jobs, Schedules(j) PROVE EarlyInv'
  <2>1. PICK ok \in BOOLEAN, wait \in Nat, least \in Nat :
           /\ UNCHANGED <<now, config, halved, pings, fire>>
           /\ place' = [place EXCEPT ![j] = "saving"]
           /\ kept' = [kept EXCEPT ![j] = ok]
           /\ least <= wait
           /\ due' = [due EXCEPT ![j] = now + wait]
           /\ notBefore' = [notBefore EXCEPT ![j] = now + least]
    BY <1>4, Scheduling DEF loopVars, history
  <2>2. place'[j] = "saving" /\ notBefore'[j] <= due'[j]
    BY <1>1, <2>1 DEF TypeOK
  <2>3. \A i \in Jobs \ {j} : /\ place'[i] = place[i] /\ due'[i] = due[i]
                              /\ kept'[i] = kept[i] /\ notBefore'[i] = notBefore[i]
    BY <2>1 DEF TypeOK
  <2>4. QED
    BY <1>3, <2>1, <2>2, <2>3 DEF EarlyInv
<1>5. ASSUME NEW j \in Jobs, Zadd(j) PROVE EarlyInv'
  <2>1. /\ UNCHANGED <<now, config, halved, pings, due, kept, fire, notBefore>>
        /\ place[j] = "saving" /\ place' = [place EXCEPT ![j] = "zset"]
    BY <1>5 DEF Zadd, loopVars, history
  <2>2. QED
    BY <1>3, <2>1 DEF EarlyInv, TypeOK
<1>6. CASE Run
  BY <1>2, <1>6, PingsInThePast DEF Run, EarlyInv
<1>7. CASE PongTimer
  BY <1>2, <1>7, PingsInThePast DEF PongTimer, EarlyInv, history
<1>8. ASSUME NEW t \in BagToSet(loose), LooseTimer(t) PROVE EarlyInv'
  BY <1>2, <1>8, PingsInThePast DEF LooseTimer, EarlyInv, history
<1>9. ASSUME NEW p \in BagToSet(pings), NEW f \in 0 .. config.fuzz, ZpopReply(p, f)
      PROVE  EarlyInv'
  <2>1. /\ UNCHANGED <<now, config, halved, due, kept, notBefore>>
        /\ BagToSet(pings') \subseteq BagToSet(pings)
    BY <1>9, RemoveOne DEF ZpopReply, TypeOK, history
  <2>2. /\ p \in [at : Times, look : LookAheads] /\ p.at <= now
        /\ ~halved => p.look <= 2 * config.lookAhead
    BY DEF TypeOK, EarlyInv, PingsFit
  <2>3. ASSUME NEW j \in Jobs
        PROVE  /\ place'[j] # "none" => notBefore'[j] <= due'[j]
               /\ place'[j] = "ram" /\ kept'[j] /\ ~halved' => notBefore'[j] <= fire'[j]
    <3>1. CASE j \in Window(p)
      <4>1. /\ place[j] = "zset" /\ due[j] <= p.at + p.look
            /\ place'[j] = "ram" /\ fire'[j] = Lineup(j)
        BY <1>9, <3>1 DEF ZpopReply, Window
      <4>2. kept[j] /\ ~halved => due[j] <= Lineup(j)
        BY <2>2, <4>1, LineupDue
      <4>3. notBefore[j] \in Nat /\ due[j] \in Nat /\ notBefore[j] <= due[j]
        BY <4>1 DEF TypeOK, EarlyInv
      <4>4. Lineup(j) \in Nat
        BY LineupAtMost
      <4>5. QED
        BY <2>1, <4>1, <4>2, <4>3, <4>4
    <3>2. CASE j \notin Window(p)
      <4>1. place'[j] = place[j] /\ fire'[j] = fire[j]
        BY <1>9, <3>2 DEF ZpopReply
      <4>2. QED
        BY <2>1, <4>1 DEF EarlyInv
    <3>3. QED
      BY <3>1, <3>2
  <2>4. QED
    BY <1>3, <2>1, <2>3 DEF EarlyInv
<1>10. ASSUME NEW p \in BagToSet(pings), NEW f \in 0 .. config.fuzz, ZpopFails(p, f)
       PROVE  EarlyInv'
  <2>1. BagToSet(pings') \subseteq BagToSet(pings) /\ UNCHANGED <<jobVars, now, config, halved>>
    BY <1>10, RemoveOne DEF ZpopFails, TypeOK, history
  <2>2. QED
    BY <1>2, <1>3, <2>1
<1>11. ASSUME NEW j \in Jobs, RamTimer(j) PROVE EarlyInv'
  <2>1. /\ UNCHANGED <<now, config, halved, pings>> /\ place'[j] = "none"
        /\ \A i \in Jobs \ {j} : /\ place'[i] = place[i] /\ due'[i] = due[i]
                                 /\ kept'[i] = kept[i] /\ fire'[i] = fire[i]
                                 /\ notBefore'[i] = notBefore[i]
    BY <1>11 DEF RamTimer, TypeOK, loopVars, history
  <2>2. QED
    BY <1>3, <2>1 DEF EarlyInv
<1>12. ASSUME NEW c \in Config, ConfigChange(c) PROVE EarlyInv'
  <2>1. /\ UNCHANGED <<jobVars, now, pings>> /\ config' = c
        /\ halved' = (halved \/ \E p \in BagToSet(pings) : p.look > 2 * c.lookAhead)
    BY <1>12 DEF ConfigChange
  <2>2. c.lookAhead \in Nat /\ \A p \in BagToSet(pings) : p.look \in Nat
    BY ConfigAssumption DEF Config, TypeOK
  <2>3. ASSUME NEW p \in BagToSet(pings), ~halved' PROVE p.look <= 2 * c.lookAhead
    <3>1. ~(p.look > 2 * c.lookAhead)
      BY <2>1, <2>3, Zenon
    <3>2. QED
      BY <2>2, <3>1
  <2>4. PingsFit'
    BY <2>1, <2>3 DEF EarlyInv, PingsFit
  <2>5. halved => halved'
    BY <2>1
  <2>6. QED
    BY <1>2, <2>1, <2>4, <2>5
<1>13. CASE Drop \/ Disconnect
  BY <1>2, <1>3, <1>13 DEF Drop, Disconnect, loopVars, history
<1>14. CASE Reconnect
  <2>1. UNCHANGED <<now, jobVars, config, halved>>
    BY <1>14 DEF Reconnect, history
  <2>2. PingsFit'
    <3>1. CASE waitingToConnect /\ ~connected
      BY <1>14, <2>1, <3>1, NewPingFits DEF Reconnect, EarlyInv
    <3>2. CASE ~(waitingToConnect /\ ~connected)
      BY <1>3, <1>14, <2>1, <3>2 DEF Reconnect, loopVars
    <3>3. QED
      BY <3>1, <3>2
  <2>3. QED
    BY <1>2, <2>1, <2>2
<1>15. CASE Tick
  <2>1. now' = now + 1 /\ UNCHANGED <<jobVars, pings, config, halved>>
    BY <1>15 DEF Tick, loopVars, history
  <2>2. \A p \in BagToSet(pings) : p.at \in Nat /\ p.at <= now
    BY LagAssumption DEF TypeOK, Times, EarlyInv, PingsFit
  <2>3. PingsFit'
    BY <1>1, <2>1, <2>2 DEF EarlyInv, PingsFit
  <2>4. QED
    BY <1>2, <2>1, <2>3
<1>16. CASE UNCHANGED vars
  BY <1>2, <1>3, <1>16 DEF vars, jobVars
<1>17. QED
  BY <1>4, <1>5, <1>6, <1>7, <1>8, <1>9, <1>10, <1>11, <1>12, <1>13, <1>14, <1>15,
     <1>16 DEF Next, Schedules

LEMMA EarlyInvariant == Spec => []EarlyInv
<1>1. QED
  BY EarlyInit, EarlyStep, ClockTypes, PTL DEF Spec

\* A job that was popped up to lookAhead before its due date still does not
\* return to the queue before its delay is over, whatever the delay is and
\* however the configuration changes in between, if lookAhead does not change to
\* less than half of itself under a ping.
THEOREM NoJobIsEarly == Spec => NeverEarly
<1>1. TypeOK /\ EarlyInv =>
         \A j \in Jobs : RamTimer(j) /\ kept[j] /\ ~halved => now >= notBefore[j]
  <2> SUFFICES ASSUME TypeOK, EarlyInv, NEW j \in Jobs, RamTimer(j), kept[j], ~halved
               PROVE  now >= notBefore[j]
    OBVIOUS
  <2>1. place[j] = "ram" /\ fire[j] <= now
    BY DEF RamTimer
  <2>2. notBefore[j] <= fire[j]
    BY <2>1 DEF EarlyInv
  <2>3. now \in Nat /\ fire[j] \in Nat /\ notBefore[j] \in Nat
    BY LagAssumption DEF TypeOK, Times
  <2>4. QED
    BY <2>1, <2>2, <2>3
<1>2. QED
  BY <1>1, ClockTypes, EarlyInvariant, PTL DEF Spec, NeverEarly

-----------------------------------------------------------------------------
(***************************************************************************)
(* On time, as long as the connection holds.                               *)
(***************************************************************************)

\* A ping at time d or before reaches all that is in the sorted set and was
\* not out of reach when the scheduler started, whatever lookAhead is then.
DueBy(d, pl, du, be) ==
    \A j \in Jobs : pl[j] = "zset" /\ (\A l \in LookAheads : be <= du[j] + l) =>
        \A l \in LookAheads : d <= du[j] + l

\* The timer of the last _pong, though a new interval may still replace it by
\* one that is due Restart later, and both may be run late.
PongTimely ==
    pong # None =>
        /\ now <= pong + MaxLag
        /\ \A l \in LookAheads : pong + Restart + 3 * MaxLag <= now + l
        /\ DueBy(pong + Restart + 2 * MaxLag, place, due, began)

LooseTimely ==
    \A t \in BagToSet(loose) :
        /\ now <= t + MaxLag
        /\ t <= now + Restart
        /\ DueBy(t + MaxLag, place, due, began)

PingTimely ==
    \A p \in BagToSet(pings) :
        /\ now <= p.at + MaxLag
        /\ DueBy(p.at, place, due, began)

RamTimely ==
    \A j \in Jobs : place[j] = "ram" =>
        /\ now <= fire[j] + MaxLag
        /\ InReach(j) => \A l \in LookAheads : fire[j] <= due[j] + l + MaxLag

\* While no connection was lost: wherever the loop is, the next ping comes
\* before a due date is out of its reach.
OnTimeInv ==
    /\ began = None => \A j \in Jobs : place[j] # "ram"
    /\ drops = 0 => \A j \in Jobs : place[j] = "saving" => now <= due[j]
    /\ drops = 0 /\ began # None => PongTimely /\ LooseTimely /\ PingTimely /\ RamTimely

\* The numbers that the arguments below add and compare.
LEMMA ClockNumbers ==
    ASSUME TypeOK
    PROVE  /\ now \in Nat /\ MaxLag \in Nat /\ Restart \in Nat
           /\ \A j \in Jobs : due[j] \in Nat /\ fire[j] \in Nat
           /\ pong # None => pong \in Nat
           /\ began # None => began \in Nat
           /\ \A t \in BagToSet(loose) : t \in Nat
           /\ \A p \in BagToSet(pings) : p.at \in Nat /\ p.look \in LookAheads
           /\ \A l \in LookAheads : l \in Nat /\ Restart + 3 * MaxLag <= l
           /\ BagToSet(pings) \subseteq [at : Times, look : LookAheads]
<1>1. MaxLag \in Nat /\ Restart \in Nat /\ MaxTime \in Nat
  BY LagAssumption
<1>2. ASSUME NEW l \in LookAheads PROVE l \in Nat /\ Restart + 3 * MaxLag <= l
  <2>1. config \in Config
    BY DEF TypeOK
  <2>2. 0 \in 0 .. config.fuzz
    BY <2>1, ConfigAssumption DEF Config
  <2>3. QED
    BY <1>1, <2>1, <2>2, Pace
<1>3. QED
  BY <1>1, <1>2 DEF TypeOK, Times

\* What an earlier ping would reach.
LEMMA DueEarlier ==
    ASSUME NEW pl, NEW du \in [Jobs -> Nat], NEW be, NEW d \in Nat, NEW e \in Nat,
           e <= d, DueBy(d, pl, du, be)
    PROVE  DueBy(e, pl, du, be)
BY ConfigAssumption DEF DueBy

\* Nothing new comes into the sorted set.
LEMMA StillDue ==
    ASSUME NEW pl, NEW du, NEW ql, NEW eu, NEW be, NEW d, DueBy(d, pl, du, be),
           \A j \in Jobs : ql[j] = "zset" => pl[j] = "zset" /\ eu[j] = du[j]
    PROVE  DueBy(d, ql, eu, be)
BY DEF DueBy

\* Something that is not due yet comes into the sorted set.
LEMMA DueAdded ==
    ASSUME NEW pl, NEW ql, NEW du \in [Jobs -> Nat], NEW be, NEW d \in Nat,
           NEW n \in Nat, DueBy(d, pl, du, be),
           \A l \in LookAheads : d <= n + l,
           \A j \in Jobs : ql[j] = "zset" => pl[j] = "zset" \/ n <= du[j]
    PROVE  DueBy(d, ql, du, be)
BY ConfigAssumption DEF DueBy

\* Steps that leave the loop and the clock alone, and add nothing that is due.
LEMMA LoopTimely ==
    ASSUME PongTimely, LooseTimely, PingTimely,
           UNCHANGED <<now, pong, loose, pings, began>>,
           \A j \in Jobs : place'[j] = "zset" => place[j] = "zset" /\ due'[j] = due[j]
    PROVE  PongTimely' /\ LooseTimely' /\ PingTimely'
<1>1. \A d : DueBy(d, place, due, began) => DueBy(d, place', due', began)
  BY StillDue
<1>2. PongTimely'
  BY <1>1 DEF PongTimely
<1>3. LooseTimely'
  BY <1>1 DEF LooseTimely
<1>4. PingTimely'
  BY <1>1 DEF PingTimely
<1>5. QED
  BY <1>2, <1>3, <1>4

LEMMA OnTimeInit == Init => OnTimeInv
BY DEF Init, OnTimeInv

\* A ping on time: what is under way besides stays on time, too.
LEMMA TimelyPing ==
    ASSUME TypeOK, LoopInv, drops = 0, began # None, LooseTimely, PingTimely,
           DueBy(now, place, due, began),
           NEW pongNow, NEW staleNow, NEW looseNow,
           BagToSet(looseNow) \subseteq BagToSet(loose),
           PingWith(pongNow, staleNow, looseNow),
           UNCHANGED <<now, place, due, began>>
    PROVE  PongTimely' /\ LooseTimely' /\ PingTimely'
<1>1. connected
  BY DEF LoopInv
<1>2. pong' = None /\ loose' = looseNow /\ pings' = pings (+) SetToBag({NewPing})
  BY <1>1 DEF PingWith
<1>3. BagToSet(pings') = BagToSet(pings) \union {NewPing}
  BY <1>2, AddOne DEF TypeOK
<1>4. NewPing.at = now /\ now <= now + MaxLag
  BY ClockNumbers DEF NewPing
<1>5. PongTimely'
  BY <1>2 DEF PongTimely
<1>6. LooseTimely'
  BY <1>2 DEF LooseTimely
<1>7. PingTimely'
  BY <1>3, <1>4 DEF PingTimely
<1>8. QED
  BY <1>5, <1>6, <1>7

LEMMA OnTimeSchedule ==
    ASSUME TypeOK, OnTimeInv, NEW j \in Jobs, Schedules(j)
    PROVE  OnTimeInv'
<1>1. PICK wait \in Nat :
         /\ UNCHANGED <<now, fire, loopVars, history>>
         /\ place' = [place EXCEPT ![j] = "saving"]
         /\ due' = [due EXCEPT ![j] = now + wait]
  BY Scheduling
<1>2. /\ place'[j] = "saving" /\ now <= due'[j]
      /\ \A i \in Jobs \ {j} : place'[i] = place[i] /\ due'[i] = due[i]
  BY <1>1, ClockNumbers DEF TypeOK
<1>3. ASSUME drops = 0, began # None
      PROVE  PongTimely' /\ LooseTimely' /\ PingTimely' /\ RamTimely'
  <2>1. PongTimely' /\ LooseTimely' /\ PingTimely'
    BY <1>1, <1>2, <1>3, LoopTimely DEF OnTimeInv, loopVars, history
  <2>2. RamTimely'
    BY <1>1, <1>2, <1>3 DEF OnTimeInv, RamTimely, InReach, history
  <2>3. QED
    BY <2>1, <2>2
<1>4. QED
  BY <1>1, <1>2, <1>3 DEF OnTimeInv, history

LEMMA OnTimeZadd ==
    ASSUME TypeOK, EarlyInv, OnTimeInv, NEW j \in Jobs, Zadd(j)
    PROVE  OnTimeInv'
<1>1. /\ place[j] = "saving" /\ UNCHANGED <<now, due, fire, loopVars, history>>
      /\ place' = [place EXCEPT ![j] = "zset"]
  BY DEF Zadd
<1>2. place'[j] = "zset" /\ \A i \in Jobs \ {j} : place'[i] = place[i]
  BY <1>1 DEF TypeOK
<1>3. ASSUME drops = 0, began # None
      PROVE  PongTimely' /\ LooseTimely' /\ PingTimely' /\ RamTimely'
  <2>1. now <= due[j]
    BY <1>1, <1>3 DEF OnTimeInv
  <2>2. ASSUME NEW d \in Nat, DueBy(d, place, due, began),
               \A l \in LookAheads : d <= now + l
        PROVE  DueBy(d, place', due', began')
    <3>1. \A i \in Jobs : place'[i] = "zset" => place[i] = "zset" \/ now <= due[i]
      BY <1>2, <2>1
    <3>2. DueBy(d, place', due, began)
      BY <2>2, <3>1, ClockNumbers, DueAdded DEF TypeOK
    <3>3. QED
      BY <1>1, <3>2 DEF history
  <2>3. PongTimely'
    <3>1. SUFFICES ASSUME pong # None
                   PROVE  DueBy(pong + Restart + 2 * MaxLag, place', due', began')
      BY <1>1, <1>3 DEF OnTimeInv, PongTimely, loopVars
    <3>2. pong + Restart + 2 * MaxLag \in Nat
      BY <3>1, ClockNumbers
    <3>3. \A l \in LookAheads : pong + Restart + 2 * MaxLag <= now + l
      BY <1>3, <3>1, ClockNumbers DEF OnTimeInv, PongTimely
    <3>4. QED
      BY <1>3, <2>2, <3>1, <3>2, <3>3 DEF OnTimeInv, PongTimely
  <2>4. LooseTimely'
    <3>1. ASSUME NEW t \in BagToSet(loose) PROVE DueBy(t + MaxLag, place', due', began')
      <4>1. t + MaxLag \in Nat /\ \A l \in LookAheads : t + MaxLag <= now + l
        BY <1>3, ClockNumbers DEF OnTimeInv, LooseTimely
      <4>2. QED
        BY <1>3, <2>2, <4>1 DEF OnTimeInv, LooseTimely
    <3>2. QED
      BY <1>1, <1>3, <3>1 DEF OnTimeInv, LooseTimely, loopVars
  <2>5. PingTimely'
    <3>1. ASSUME NEW p \in BagToSet(pings) PROVE DueBy(p.at, place', due', began')
      <4>1. p.at \in Nat /\ \A l \in LookAheads : p.at <= now + l
        BY ClockNumbers DEF EarlyInv, PingsFit
      <4>2. QED
        BY <1>3, <2>2, <4>1 DEF OnTimeInv, PingTimely
    <3>2. QED
      BY <1>1, <1>3, <3>1 DEF OnTimeInv, PingTimely, loopVars
  <2>6. RamTimely'
    BY <1>1, <1>2, <1>3 DEF OnTimeInv, RamTimely, InReach, history
  <2>7. QED
    BY <2>3, <2>4, <2>5, <2>6
<1>4. QED
  BY <1>1, <1>2, <1>3 DEF OnTimeInv, history

\* The three ways to a ping.
LEMMA OnTimePings ==
    ASSUME TypeOK, LoopInv, OnTimeInv,
           Run \/ PongTimer \/ \E t \in BagToSet(loose) : LooseTimer(t)
    PROVE  OnTimeInv'
<1> USE DEF redisVars
<1>1. UNCHANGED <<now, jobVars, drops>>
  BY DEF Run, PongTimer, LooseTimer, history
<1>2. began' # None
  <2>1. CASE Run
    BY <2>1, ClockNumbers, LagAssumption DEF Run
  <2>2. CASE PongTimer \/ \E t \in BagToSet(loose) : LooseTimer(t)
    <3>1. began' = began /\ (pong # None \/ loose # EmptyBag)
      BY <2>2, OneElement DEF PongTimer, LooseTimer, history
    <3>2. QED
      BY <3>1 DEF LoopInv
  <2>3. QED
    BY <2>1, <2>2
<1>3. ASSUME drops = 0
      PROVE  PongTimely' /\ LooseTimely' /\ PingTimely' /\ RamTimely'
  <2>1. CASE Run
    <3>1. /\ began = None /\ began' = now /\ PingWith(pong, stale, loose)
          /\ loose = EmptyBag /\ pings = EmptyBag
      BY <2>1 DEF Run, LoopInv
    <3>2. connected
      BY <1>3 DEF LoopInv
    <3>3. /\ pong' = None /\ loose' = EmptyBag
          /\ pings' = SetToBag({NewPing})
      BY <3>1, <3>2, OneElement DEF PingWith
    <3>4. BagToSet(pings') = {NewPing} /\ BagToSet(loose') = {}
      BY <3>3, OneElement
    <3>5. DueBy(now, place, due, now)
      BY DEF DueBy
    <3>6. PongTimely' /\ LooseTimely'
      BY <3>3, <3>4 DEF PongTimely, LooseTimely
    <3>7. now <= now + MaxLag
      BY ClockNumbers
    <3>8. PingTimely'
      BY <1>1, <3>1, <3>4, <3>5, <3>7 DEF PingTimely, NewPing, jobVars
    <3>9. RamTimely'
      BY <1>1, <3>1 DEF OnTimeInv, RamTimely, jobVars
    <3>10. QED
      BY <3>6, <3>8, <3>9
  <2>2. CASE PongTimer
    <3>1. /\ began' = began /\ pong # None /\ PingWith(None, TRUE, loose)
      BY <2>2 DEF PongTimer, history
    <3>2. PongTimely /\ LooseTimely /\ PingTimely /\ RamTimely
      BY <1>2, <1>3, <3>1 DEF OnTimeInv
    <3>3. DueBy(now, place, due, began)
      <4>1. /\ now <= pong + Restart + 2 * MaxLag
            /\ pong + Restart + 2 * MaxLag \in Nat
        BY <3>1, <3>2, ClockNumbers DEF PongTimely
      <4>2. DueBy(pong + Restart + 2 * MaxLag, place, due, began)
        BY <3>1, <3>2 DEF PongTimely
      <4>3. QED
        BY <4>1, <4>2, ClockNumbers, DueEarlier DEF TypeOK
    <3>4. PongTimely' /\ LooseTimely' /\ PingTimely'
      BY <1>1, <1>2, <1>3, <3>1, <3>2, <3>3, TimelyPing DEF jobVars
    <3>5. RamTimely'
      BY <1>1, <3>1, <3>2 DEF RamTimely, InReach, jobVars
    <3>6. QED
      BY <3>4, <3>5
  <2>3. ASSUME NEW t \in BagToSet(loose), LooseTimer(t)
        PROVE  PongTimely' /\ LooseTimely' /\ PingTimely' /\ RamTimely'
    <3>1. /\ began' = began /\ PingWith(pong, stale, loose (-) SetToBag({t}))
      BY <2>3 DEF LooseTimer, history
    <3>2. PongTimely /\ LooseTimely /\ PingTimely /\ RamTimely
      BY <1>2, <1>3, <3>1 DEF OnTimeInv
    <3>3. DueBy(now, place, due, began)
      <4>1. now <= t + MaxLag /\ t + MaxLag \in Nat
        BY <3>2, ClockNumbers DEF LooseTimely
      <4>2. DueBy(t + MaxLag, place, due, began)
        BY <3>2 DEF LooseTimely
      <4>3. QED
        BY <4>1, <4>2, ClockNumbers, DueEarlier DEF TypeOK
    <3>4. BagToSet(loose (-) SetToBag({t})) \subseteq BagToSet(loose)
      BY RemoveOne DEF TypeOK
    <3>5. PongTimely' /\ LooseTimely' /\ PingTimely'
      BY <1>1, <1>2, <1>3, <3>1, <3>2, <3>3, <3>4, TimelyPing DEF jobVars
    <3>6. RamTimely'
      BY <1>1, <3>1, <3>2 DEF RamTimely, InReach, jobVars
    <3>7. QED
      BY <3>5, <3>6
  <2>4. QED
    BY <2>1, <2>2, <2>3
<1>4. QED
  BY <1>1, <1>2, <1>3 DEF OnTimeInv, jobVars

\* The reply to the only ping. What it leaves behind is due so late that the
\* next ping comes before; what it pops gets its timer at once.
LEMMA OnTimeReply ==
    ASSUME TypeOK, LoopInv, EarlyInv, OnTimeInv, NEW p \in BagToSet(pings),
           NEW f \in 0 .. config.fuzz, ZpopReply(p, f)
    PROVE  OnTimeInv'
<1>1. /\ UNCHANGED <<now, due, kept, history>>
      /\ pings' = pings (-) SetToBag({p}) /\ Pong(f)
      /\ \A j \in Jobs : IF j \in Window(p)
                         THEN place'[j] = "ram" /\ fire'[j] = Lineup(j)
                         ELSE place'[j] = place[j] /\ fire'[j] = fire[j]
  BY DEF ZpopReply
<1>2. \A j \in Jobs : j \in Window(p) <=>
         place[j] = "zset" /\ p.at - p.look <= due[j] /\ due[j] <= p.at + p.look
  BY DEF Window
<1>3. began # None
  BY OneElement DEF LoopInv
<1>4. ASSUME drops = 0
      PROVE  PongTimely' /\ LooseTimely' /\ PingTimely' /\ RamTimely'
  <2>1. pings = SetToBag({p}) /\ pong = None /\ loose = EmptyBag
    <3>1. pings # EmptyBag
      BY OneElement
    <3>2. AtPing
      BY <1>3, <1>4, <3>1 DEF LoopInv, AtTimer, AtLoose, AtWait
    <3>3. QED
      BY <3>2, SingleElement DEF AtPing
  <2>2. pings' = EmptyBag /\ loose' = EmptyBag /\ pong' = now + config.interval + f
    BY <1>1, <2>1, OneElement DEF Pong
  <2>3. BagToSet(pings') = {} /\ BagToSet(loose') = {}
    BY <2>2, OneElement
  <2>4. LooseTimely' /\ PingTimely'
    BY <2>3 DEF LooseTimely, PingTimely
  <2>5. /\ p.at \in Nat /\ p.look \in LookAheads /\ p.look \in Nat /\ now \in Nat
        /\ MaxLag \in Nat /\ Restart \in Nat
        /\ config.interval \in Nat /\ f \in Nat /\ p \in [at : Times, look : LookAheads]
    BY ClockNumbers, ConfigAssumption DEF TypeOK, Config
  <2>6. now <= p.at + MaxLag /\ DueBy(p.at, place, due, began) /\ p.at <= now
    BY <1>3, <1>4 DEF OnTimeInv, PingTimely, EarlyInv, PingsFit
  <2>7. PongTimely'
    <3>1. ASSUME NEW l \in LookAheads
          PROVE  config.interval + f + Restart + 3 * MaxLag <= l
      BY Pace DEF TypeOK
    <3>2. now <= pong' + MaxLag
      BY <2>2, <2>5
    <3>3. ASSUME NEW l \in LookAheads PROVE pong' + Restart + 3 * MaxLag <= now + l
      BY <2>2, <2>5, <3>1, ClockNumbers
    <3>4. ASSUME NEW j \in Jobs, place'[j] = "zset",
                 \A l \in LookAheads : began <= due[j] + l, NEW l \in LookAheads
          PROVE  pong' + Restart + 2 * MaxLag <= due[j] + l
      <4>1. place[j] = "zset" /\ j \notin Window(p)
        BY <1>1, <3>4
      <4>2. p.at <= due[j] + p.look
        BY <2>5, <2>6, <3>4, <4>1 DEF DueBy
      <4>3. due[j] > p.at + p.look
        BY <1>2, <2>5, <4>1, <4>2, ClockNumbers
      <4>4. config.interval + f + Restart + 3 * MaxLag <= p.look
        BY <2>5, <3>1
      <4>5. due[j] \in Nat /\ l \in Nat
        BY ClockNumbers
      <4>6. pong' + Restart + 2 * MaxLag <= p.at + p.look
        BY <2>2, <2>5, <2>6, <4>4
      <4>7. p.at + p.look \in Nat /\ pong' + Restart + 2 * MaxLag \in Nat
        BY <2>2, <2>5
      <4>8. QED
        BY <4>3, <4>5, <4>6, <4>7
    <3>5. DueBy(pong' + Restart + 2 * MaxLag, place', due', began')
      BY <1>1, <3>4 DEF DueBy, history
    <3>6. QED
      BY <1>1, <3>2, <3>3, <3>5 DEF PongTimely
  <2>8. ASSUME NEW j \in Jobs, place'[j] = "ram"
        PROVE  /\ now' <= fire'[j] + MaxLag
               /\ InReach(j)' => \A l \in LookAheads : fire'[j] <= due'[j] + l + MaxLag
    <3>1. CASE j \in Window(p)
      <4>1. place[j] = "zset" /\ due[j] <= p.at + p.look /\ fire'[j] = Lineup(j)
        BY <1>1, <1>2, <3>1
      <4>2. /\ Lineup(j) \in Nat /\ now <= Lineup(j)
            /\ Lineup(j) = now \/ Lineup(j) <= due[j]
        BY LineupAtMost
      <4>3. due[j] \in Nat
        BY ClockNumbers
      <4>4. fire'[j] \in Nat /\ now <= fire'[j] + MaxLag
        BY <2>5, <4>1, <4>2, <4>3
      <4>5. ASSUME InReach(j), NEW l \in LookAheads
            PROVE  fire'[j] <= due[j] + l + MaxLag
        <5>1. p.at <= due[j] + l
          BY <2>6, <4>1, <4>5 DEF DueBy, InReach
        <5>2. l \in Nat
          BY ClockNumbers
        <5>3. QED
          BY <2>5, <2>6, <4>1, <4>2, <4>3, <5>1, <5>2
      <4>6. QED
        BY <1>1, <4>4, <4>5 DEF InReach, history
    <3>2. CASE j \notin Window(p)
      BY <1>1, <1>3, <1>4, <2>8, <3>2 DEF OnTimeInv, RamTimely, InReach, history
    <3>3. QED
      BY <3>1, <3>2
  <2>9. QED
    BY <2>4, <2>7, <2>8 DEF RamTimely
<1>5. \A j \in Jobs : place'[j] = "saving" => place[j] = "saving"
  BY <1>1
<1>6. QED
  BY <1>1, <1>3, <1>4, <1>5 DEF OnTimeInv, history

LEMMA OnTimeConfigChange ==
    ASSUME TypeOK, LoopInv, OnTimeInv, NEW c \in Config, ConfigChange(c)
    PROVE  OnTimeInv'
<1>1. UNCHANGED <<now, jobVars, pings, waitingToConnect, began, drops>>
  BY DEF ConfigChange
<1>2. ASSUME drops = 0, began # None
      PROVE  PongTimely' /\ LooseTimely' /\ PingTimely' /\ RamTimely'
  <2>1. PongTimely /\ LooseTimely /\ PingTimely /\ RamTimely
    BY <1>2 DEF OnTimeInv
  <2>2. PingTimely' /\ RamTimely'
    BY <1>1, <2>1 DEF PingTimely, RamTimely, InReach, jobVars
  <2>3. CASE c.interval # config.interval /\ (pong # None \/ stale)
    <3>1. pong' = None /\ loose' = loose (+) SetToBag({now + Restart})
      BY <2>3 DEF ConfigChange
    <3>2. pong # None /\ loose = EmptyBag
      BY <1>2, <2>3 DEF LoopInv, AtTimer, AtLoose, AtPing, AtWait
    <3>3. BagToSet(loose') = {now + Restart}
      BY <3>1, <3>2, OneElement
    <3>4. now + Restart + MaxLag <= pong + Restart + 2 * MaxLag
      BY <2>1, <3>2, ClockNumbers DEF PongTimely
    <3>5. DueBy(now + Restart + MaxLag, place, due, began)
      <4>1. /\ pong + Restart + 2 * MaxLag \in Nat /\ now + Restart + MaxLag \in Nat
            /\ DueBy(pong + Restart + 2 * MaxLag, place, due, began)
        BY <2>1, <3>2, ClockNumbers DEF PongTimely
      <4>2. QED
        BY <3>4, <4>1, DueEarlier DEF TypeOK
    <3>6. now <= now + Restart + MaxLag /\ now + Restart <= now + Restart
      BY ClockNumbers
    <3>7. LooseTimely'
      BY <1>1, <3>3, <3>5, <3>6 DEF LooseTimely, jobVars
    <3>8. PongTimely'
      BY <3>1 DEF PongTimely
    <3>9. QED
      BY <2>2, <3>7, <3>8
  <2>4. CASE ~(c.interval # config.interval /\ (pong # None \/ stale))
    <3>1. UNCHANGED <<pong, loose>>
      BY <2>4 DEF ConfigChange
    <3>2. QED
      BY <1>1, <2>1, <2>2, <3>1 DEF PongTimely, LooseTimely, jobVars
  <2>5. QED
    BY <2>3, <2>4
<1>3. QED
  BY <1>1, <1>2 DEF OnTimeInv, jobVars

LEMMA OnTimeTick ==
    ASSUME TypeOK, LoopInv, OnTimeInv, Tick
    PROVE  OnTimeInv'
<1>1. /\ now' = now + 1 /\ UNCHANGED <<jobVars, loopVars, history>>
      /\ pong # None => now < pong + MaxLag
      /\ \A t \in BagToSet(loose) : now < t + MaxLag
      /\ \A j \in Jobs : place[j] = "ram" => now < fire[j] + MaxLag
      /\ up => /\ \A p \in BagToSet(pings) : now < p.at + MaxLag
               /\ \A j \in Jobs : place[j] # "saving"
  BY DEF Tick
<1>2. drops = 0 => up
  BY DEF LoopInv
<1>3. ASSUME drops = 0, began # None
      PROVE  PongTimely' /\ LooseTimely' /\ PingTimely' /\ RamTimely'
  <2>1. PongTimely /\ LooseTimely /\ PingTimely /\ RamTimely
    BY <1>3 DEF OnTimeInv
  <2>2. PongTimely'
    BY <1>1, <2>1, ClockNumbers DEF PongTimely, jobVars, loopVars, history
  <2>3. LooseTimely'
    BY <1>1, <2>1, ClockNumbers DEF LooseTimely, jobVars, loopVars, history
  <2>4. PingTimely'
    BY <1>1, <1>2, <1>3, <2>1, ClockNumbers DEF PingTimely, jobVars, loopVars, history
  <2>5. RamTimely'
    BY <1>1, <2>1, ClockNumbers DEF RamTimely, InReach, jobVars, history
  <2>6. QED
    BY <2>2, <2>3, <2>4, <2>5
<1>4. QED
  BY <1>1, <1>2, <1>3 DEF OnTimeInv, jobVars, history

LEMMA OnTimeStep ==
    TypeOK /\ LoopInv /\ EarlyInv /\ OnTimeInv /\ [Next]_vars => OnTimeInv'
<1> SUFFICES ASSUME TypeOK, LoopInv, EarlyInv, OnTimeInv, [Next]_vars PROVE OnTimeInv'
  OBVIOUS
<1> USE DEF redisVars
<1>1. ASSUME NEW j \in Jobs, RamTimer(j) PROVE OnTimeInv'
  <2>1. /\ UNCHANGED <<now, loopVars, history>> /\ place'[j] = "none"
        /\ \A i \in Jobs \ {j} : /\ place'[i] = place[i] /\ due'[i] = due[i]
                                 /\ fire'[i] = fire[i]
    BY <1>1 DEF RamTimer, TypeOK
  <2>2. ASSUME drops = 0, began # None
        PROVE  PongTimely' /\ LooseTimely' /\ PingTimely' /\ RamTimely'
    <3>1. PongTimely' /\ LooseTimely' /\ PingTimely'
      BY <2>1, <2>2, LoopTimely DEF OnTimeInv, loopVars, history
    <3>2. RamTimely'
      BY <2>1, <2>2 DEF OnTimeInv, RamTimely, InReach, history
    <3>3. QED
      BY <3>1, <3>2
  <2>3. QED
    BY <2>1, <2>2 DEF OnTimeInv, history
<1>2. ASSUME NEW p \in BagToSet(pings), NEW f \in 0 .. config.fuzz, ZpopFails(p, f)
      PROVE  OnTimeInv'
  <2>1. drops > 0 /\ UNCHANGED <<now, jobVars, history>>
    BY <1>2 DEF ZpopFails
  <2>2. QED
    BY <2>1 DEF OnTimeInv, jobVars, history
<1>3. CASE Drop
  <2>1. drops' # 0 /\ UNCHANGED <<began, place>>
    BY <1>3, LagAssumption DEF Drop, TypeOK, jobVars
  <2>2. QED
    BY <2>1 DEF OnTimeInv
<1>4. CASE Disconnect \/ Reconnect
  <2>1. ~up /\ UNCHANGED <<now, jobVars, history>>
    BY <1>4 DEF Disconnect, Reconnect, HandleError, HandleConnect
  <2>2. drops # 0
    BY <2>1 DEF LoopInv
  <2>3. QED
    BY <2>1, <2>2 DEF OnTimeInv, jobVars, history
<1>5. CASE UNCHANGED vars
  <2>1. UNCHANGED <<now, jobVars, loopVars, history>>
    BY <1>5 DEF vars, jobVars, loopVars, history
  <2>2. ASSUME drops = 0, began # None
        PROVE  PongTimely' /\ LooseTimely' /\ PingTimely' /\ RamTimely'
    <3>1. PongTimely' /\ LooseTimely' /\ PingTimely'
      BY <2>1, <2>2, LoopTimely DEF OnTimeInv, jobVars, loopVars, history
    <3>2. RamTimely'
      BY <2>1, <2>2 DEF OnTimeInv, RamTimely, InReach, jobVars, history
    <3>3. QED
      BY <3>1, <3>2
  <2>3. QED
    BY <2>1, <2>2 DEF OnTimeInv, jobVars, history
<1>6. QED
  BY <1>1, <1>2, <1>3, <1>4, <1>5, OnTimeSchedule, OnTimeZadd, OnTimePings,
     OnTimeReply, OnTimeConfigChange, OnTimeTick DEF Next, Schedules

LEMMA OnTimeInvariant == Spec => []OnTimeInv
<1>1. QED
  BY OnTimeInit, OnTimeStep, ClockTypes, LoopInvariant, EarlyInvariant, PTL DEF Spec

\* At any pace that keeps interval, fuzz, restart and three lags within every
\* lookAhead, and as long as the connection holds, no job is out of reach of
\* all pings, and none is later than a lookAhead and two lags: changes of the
\* configuration, in any number, do not add up.
THEOREM JobsAreOnTime == Spec => []OnTime
<1>1. TypeOK /\ LoopInv /\ OnTimeInv => OnTime
  <2> SUFFICES ASSUME TypeOK, LoopInv, OnTimeInv, began # None, drops = 0,
                      NEW j \in Jobs, InReach(j)
               PROVE  /\ ~Stranded(j)
                      /\ place[j] \in {"zset", "ram"} =>
                            \A l \in LookAheads : now <= due[j] + l + 2 * MaxLag
    BY DEF OnTime
  <2>1. PongTimely /\ LooseTimely /\ PingTimely /\ RamTimely
    BY DEF OnTimeInv
  <2>2. AtTimer \/ AtLoose \/ AtPing
    BY DEF LoopInv, AtWait
  <2>3. now \in Nat /\ MaxLag \in Nat /\ due[j] \in Nat /\ fire[j] \in Nat
    BY ClockNumbers
  <2>4. config.lookAhead \in LookAheads /\ config.lookAhead \in Nat
    BY ConfigAssumption DEF TypeOK, Config
  <2>5. ASSUME place[j] = "zset"
        PROVE  /\ ~Stranded(j)
               /\ \A l \in LookAheads : now <= due[j] + l + 2 * MaxLag
    <3>1. CASE AtPing
      <4>1. PICK p \in BagToSet(pings) : pings = SetToBag({p})
        BY <3>1 DEF AtPing, Single
      <4>2. \A l \in LookAheads : p.at <= due[j] + l
        BY <2>1, <2>5, <4>1 DEF PingTimely, DueBy, InReach
      <4>3. p.at \in Nat /\ p.look \in LookAheads /\ p.look \in Nat
        BY ClockNumbers
      <4>4. ~(due[j] < p.at - p.look)
        BY <2>3, <4>2, <4>3
      <4>5. now <= p.at + MaxLag
        BY <2>1 DEF PingTimely
      <4>6. \A l \in LookAheads : now <= due[j] + l + 2 * MaxLag
        BY <2>3, <4>2, <4>3, <4>5, ClockNumbers
      <4>7. QED
        BY <4>1, <4>4, <4>6 DEF Stranded
    <3>2. CASE AtTimer \/ AtLoose
      <4>1. \A l \in LookAheads : now <= due[j] + l
        <5>1. CASE AtTimer
          <6>1. pong # None /\ pong \in Nat
            BY <5>1, ClockNumbers DEF AtTimer
          <6>2. \A l \in LookAheads : pong + Restart + 2 * MaxLag <= due[j] + l
            BY <2>1, <2>5, <6>1 DEF PongTimely, DueBy, InReach
          <6>3. now <= pong + MaxLag
            BY <2>1, <6>1 DEF PongTimely
          <6>4. QED
            BY <2>3, <6>1, <6>2, <6>3, ClockNumbers
        <5>2. CASE AtLoose
          <6>1. PICK t \in BagToSet(loose) : TRUE
            BY <5>2 DEF AtLoose, Single
          <6>2. t \in Nat /\ now <= t + MaxLag
            BY <2>1, <6>1, ClockNumbers DEF LooseTimely
          <6>3. \A l \in LookAheads : t + MaxLag <= due[j] + l
            BY <2>1, <2>5, <6>1 DEF LooseTimely, DueBy, InReach
          <6>4. QED
            BY <2>3, <6>2, <6>3, ClockNumbers
        <5>3. QED
          BY <3>2, <5>1, <5>2
      <4>2. ~(due[j] < now - config.lookAhead)
        BY <2>3, <2>4, <4>1
      <4>3. NewPing.at = now /\ NewPing.look = config.lookAhead
        BY DEF NewPing
      <4>4. ~Stranded(j)
        BY <4>2, <4>3 DEF Stranded
      <4>5. \A l \in LookAheads : now <= due[j] + l + 2 * MaxLag
        BY <2>3, <4>1, ClockNumbers
      <4>6. QED
        BY <4>4, <4>5
    <3>3. QED
      BY <2>2, <3>1, <3>2
  <2>6. ASSUME place[j] = "ram"
        PROVE  \A l \in LookAheads : now <= due[j] + l + 2 * MaxLag
    <3>1. /\ now <= fire[j] + MaxLag
          /\ \A l \in LookAheads : fire[j] <= due[j] + l + MaxLag
      BY <2>1, <2>6 DEF RamTimely
    <3>2. QED
      BY <2>3, <3>1, ClockNumbers
  <2>7. QED
    BY <2>5, <2>6 DEF Stranded
<1>2. QED
  BY <1>1, ClockTypes, LoopInvariant, OnTimeInvariant, PTL
=============================================================================
