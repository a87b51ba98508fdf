----------------------------- MODULE MetricsProofs -----------------------------
(***************************************************************************)
(* Proof that metrics is on exactly while somebody listens, for any number *)
(* of listeners. That the count is right depends on the hook being there,  *)
(* and that the switches follow the count on nobody else turning them.     *)
(***************************************************************************)
EXTENDS Metrics, TLAPS

\* What callers that take care keep true.
CountIsRight == ~careless => hooked /\ count = ons + onces

MetricsInv == TypeOK /\ SwitchesAgree /\ CountIsRight

-----------------------------------------------------------------------------

LEMMA InitMetrics == Init => MetricsInv
<1> SUFFICES ASSUME Init
             PROVE  MetricsInv
  OBVIOUS
<1>1. 0 \in 0 .. MaxListeners /\ 0 \in Nat /\ ~(0 > 0) /\ 0 = 0 + 0
  BY BoundAssumption
<1>2. TypeOK
  BY <1>1 DEF Init, TypeOK
<1>3. SwitchesAgree
  BY <1>1, Zenon DEF Init, SwitchesAgree
<1>4. CountIsRight
  BY <1>1 DEF Init, CountIsRight
<1>5. QED
  BY <1>2, <1>3, <1>4 DEF MetricsInv

\* One more listener, which is counted if the hook is there.
LEMMA ListenerAdded ==
    ASSUME MetricsInv, NewListener,
           UNCHANGED <<hooked, wasReset, careless>>
    PROVE  /\ count' \in Nat
           /\ metricsOn' \in BOOLEAN /\ isOn' \in BOOLEAN /\ stream' \in BOOLEAN
           /\ clientSub' \in {"null", "open", "heard", "ended"}
           /\ SwitchesAgree'
           /\ count' = IF hooked THEN count + 1 ELSE count
<1>1. /\ count \in Nat /\ (metricsOn <=> count > 0) /\ (isOn <=> metricsOn)
      /\ metricsOn \in BOOLEAN /\ isOn \in BOOLEAN /\ stream \in BOOLEAN
      /\ clientSub \in {"null", "open", "heard", "ended"}
      /\ (isOn <=> clientSub # "null") /\ (clientSub = "ended" => wasReset)
  BY DEF MetricsInv, TypeOK, SwitchesAgree
<1>2. CASE hooked
  <2>1. count' = count + 1 /\ MetricsStart
    BY <1>2 DEF NewListener
  <2>2. count' \in Nat /\ count' > 0
    BY <2>1, <1>1
  <2>3. metricsOn' = TRUE /\ isOn' = TRUE
    BY <2>1, <1>1, Zenon DEF MetricsStart
  <2>4. CASE metricsOn
    <3>1. UNCHANGED <<clientSub, stream>>
      BY <2>1, <2>4, Zenon DEF MetricsStart
    <3>2. QED
      BY <1>1, <1>2, <2>1, <2>2, <2>3, <2>4, <3>1 DEF SwitchesAgree
  <2>5. CASE ~metricsOn
    <3>1. clientSub' = "open" /\ stream' = FALSE
      BY <2>1, <2>5, <1>1, Zenon DEF MetricsStart
    <3>2. QED
      BY <1>2, <2>1, <2>2, <2>3, <3>1 DEF SwitchesAgree
  <2>6. QED
    BY <2>4, <2>5
<1>3. CASE ~hooked
  <2>1. UNCHANGED <<count, metricsOn, isOn, clientSub, stream>>
    BY <1>3 DEF NewListener
  <2>2. QED
    BY <1>1, <1>3, <2>1 DEF SwitchesAgree
<1>4. QED
  BY <1>2, <1>3

\* n listeners less: the last one turns metrics off.
LEMMA ListenersRemoved ==
    ASSUME MetricsInv, NEW n \in Nat, NEW rest \in BOOLEAN, RemoveListeners(n, rest),
           UNCHANGED wasReset
    PROVE  /\ count' \in Nat
           /\ metricsOn' \in BOOLEAN /\ isOn' \in BOOLEAN /\ stream' \in BOOLEAN
           /\ clientSub' \in {"null", "open", "heard", "ended"}
           /\ SwitchesAgree'
           /\ count' = IF count > n THEN count - n ELSE 0
<1>1. CASE 0 < count /\ count <= n /\ metricsOn
  <2>1. count \in Nat
    BY DEF MetricsInv, TypeOK
  <2>2. count' = 0 /\ count' = IF count > n THEN count - n ELSE 0
    BY <1>1, <2>1 DEF RemoveListeners
  <2>3. 0 \in Nat /\ ~(0 > 0)
    OBVIOUS
  <2>4. metricsOn' = FALSE /\ isOn' = FALSE /\ clientSub' = "null" /\ stream' = FALSE
    BY <1>1, Zenon DEF RemoveListeners, MetricsStop
  <2>5. ~(count' > 0)
    BY <2>2, <2>3
  <2>6. SwitchesAgree'
    BY <2>4, <2>5 DEF SwitchesAgree
  <2>7. QED
    BY <2>2, <2>3, <2>4, <2>6
<1>2. CASE ~(0 < count /\ count <= n /\ metricsOn)
  <2>1. count = 0 \/ count > n
    BY <1>2 DEF MetricsInv, TypeOK, SwitchesAgree
  <2>2. UNCHANGED <<metricsOn, isOn, clientSub>> /\ stream' = rest
    BY <1>2 DEF RemoveListeners
  <2>3. count' = IF count > n THEN count - n ELSE 0
    BY DEF RemoveListeners
  <2>4. QED
    BY <2>1, <2>2, <2>3 DEF MetricsInv, TypeOK, SwitchesAgree
<1>3. QED
  BY <1>1, <1>2

LEMMA NextMetrics == MetricsInv /\ [Next]_vars => MetricsInv'
<1> SUFFICES ASSUME MetricsInv, [Next]_vars
             PROVE  MetricsInv'
  OBVIOUS
<1> USE BoundAssumption DEF BoundAssumption
<1>1. CASE On
  <2>1. /\ ons < MaxListeners /\ ons' = ons + 1
        /\ NewListener
        /\ UNCHANGED <<onces, hooked, wasReset, careless>>
    BY <1>1 DEF On
  <2>2. QED
    BY <2>1, ListenerAdded DEF MetricsInv, TypeOK, CountIsRight
<1>2. CASE Once
  <2>1. /\ onces < MaxListeners /\ onces' = onces + 1
        /\ NewListener
        /\ UNCHANGED <<ons, hooked, wasReset, careless>>
    BY <1>2 DEF Once
  <2>2. QED
    BY <2>1, ListenerAdded DEF MetricsInv, TypeOK, CountIsRight
<1>3. CASE RemoveListener
  <2>1. /\ RemoveListeners(1, stream)
        /\ UNCHANGED <<hooked, wasReset, careless>>
        /\ \/ ons > 0 /\ ons' = ons - 1 /\ onces' = onces
           \/ onces > 0 /\ onces' = onces - 1 /\ ons' = ons
    BY <1>3 DEF RemoveListener
  <2>2. stream \in BOOLEAN
    BY DEF MetricsInv, TypeOK
  <2>3. QED
    BY <2>1, <2>2, ListenersRemoved DEF MetricsInv, TypeOK, CountIsRight
<1>4. CASE RemoveUnknown
  <2>1. /\ RemoveListeners(1, stream)
        /\ careless' = TRUE
        /\ UNCHANGED <<ons, onces, hooked, wasReset>>
    BY <1>4 DEF RemoveUnknown
  <2>2. stream \in BOOLEAN
    BY DEF MetricsInv, TypeOK
  <2>3. QED
    BY <2>1, <2>2, ListenersRemoved DEF MetricsInv, TypeOK, CountIsRight
<1>5. ASSUME NEW everything \in BOOLEAN, RemoveAllListeners(everything)
      PROVE  MetricsInv'
  BY <1>5 DEF RemoveAllListeners, MetricsInv, TypeOK, SwitchesAgree, CountIsRight
<1>6. CASE MetricsSubscribe
  BY <1>6 DEF MetricsSubscribe, MetricsInv, TypeOK, SwitchesAgree, CountIsRight
<1>7. CASE LoseMetrics
  BY <1>7 DEF LoseMetrics, MetricsInv, TypeOK, SwitchesAgree, CountIsRight
<1>8. CASE Published
  BY <1>8 DEF Published, MetricsInv, TypeOK, SwitchesAgree, CountIsRight
<1>9. CASE Relay
  <2>1. PICK more \in BOOLEAN : RemoveListeners(onces, more)
    BY <1>9 DEF Relay
  <2>2. onces' = 0 /\ UNCHANGED <<ons, hooked, wasReset, careless>>
    BY <1>9 DEF Relay
  <2>3. onces \in Nat
    BY DEF MetricsInv, TypeOK
  <2>4. QED
    BY <2>1, <2>2, <2>3, ListenersRemoved DEF MetricsInv, TypeOK, CountIsRight
<1>10. CASE Reset
  BY <1>10 DEF Reset, MetricsInv, TypeOK, SwitchesAgree, CountIsRight
<1>11. CASE UNCHANGED vars
  BY <1>11 DEF vars, MetricsInv, TypeOK, SwitchesAgree, CountIsRight
<1>12. QED
  BY <1>1, <1>2, <1>3, <1>4, <1>5, <1>6, <1>7, <1>8, <1>9, <1>10, <1>11 DEF Next

LEMMA MetricsInvariant == Spec => []MetricsInv
BY InitMetrics, NextMetrics, PTL DEF Spec

\* Every variable keeps its type: in particular the count never falls below zero,
\* although callers may remove what was never registered, a reset leaves it as it
\* is, and a message takes all the listeners of once() away in a row. (How high it
\* may grow is not said: that depends on the callers.)
THEOREM MetricsTypes == Spec => []TypeOK
<1>1. MetricsInv => TypeOK
  BY DEF MetricsInv
<1>2. QED
  BY <1>1, MetricsInvariant, PTL

\* Whatever callers do, the controller, the model and the client of metrics
\* agree on whether metrics is on, for any number of listeners.
THEOREM MetricsSwitchesAgree == Spec => []SwitchesAgree
<1>1. MetricsInv => SwitchesAgree
  BY DEF MetricsInv
<1>2. QED
  BY <1>1, MetricsInvariant, PTL

\* As long as callers only remove what they registered, one by one, metrics is
\* on exactly while somebody listens.
THEOREM MetricsOnWhileListening == Spec => []OnWhileListening
<1>1. MetricsInv => OnWhileListening
  BY DEF MetricsInv, OnWhileListening, SwitchesAgree, TypeOK, CountIsRight
<1>2. QED
  BY <1>1, MetricsInvariant, PTL
================================================================================
