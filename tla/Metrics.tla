-------------------------------- MODULE Metrics --------------------------------
(***************************************************************************)
(* kickq.metrics of one process: the controller that counts the listeners  *)
(* of its "metrics" event (control/metrics.ctrl.js) and the model that     *)
(* subscribes while there are some (model/metrics.model.js).               *)
(*                                                                         *)
(* Listeners of "create", "queued", "success" and "fail" are not counted:  *)
(* they get what a subscription for "metrics" happens to bring.            *)
(***************************************************************************)
EXTENDS Naturals

CONSTANT MaxListeners   \* bound: listeners registered at a time, of each kind;
                        \* none is added while twice as many are counted, or
                        \* more (removeAllListeners leaves the count as it is)

ASSUME BoundAssumption == MaxListeners \in Nat

VARIABLES
    ons,        \* listeners registered by on("metrics", ...)
    onces,      \* listeners registered by once("metrics", ...)
    count,      \* listeners.metrics
    hooked,     \* _onNewListener listens to "newListener"
    metricsOn,  \* metricsOn of the controller
    isOn,       \* _isOn of the model
    clientSub,  \* clientSub: "null", "open" (issued), "heard" by redis, "ended"
    stream,     \* messages are under way to it: what they say is all the same
                \* to what is modelled here
    wasReset,   \* history: kickq.reset was called
    careless    \* history: a caller removed what was not there, or all at once

vars == <<ons, onces, count, hooked, metricsOn, isOn, clientSub, stream,
          wasReset, careless>>

Init ==
    /\ ons = 0 /\ onces = 0
    /\ count = 0
    /\ hooked = TRUE
    /\ metricsOn = FALSE /\ isOn = FALSE
    /\ clientSub = "null"
    /\ stream = FALSE
    /\ wasReset = FALSE
    /\ careless = FALSE

\* _metricsStart, and start of the model.
MetricsStart ==
    /\ metricsOn' = TRUE
    /\ isOn' = (isOn \/ ~metricsOn)
    /\ IF metricsOn \/ isOn THEN UNCHANGED <<clientSub, stream>>
       ELSE clientSub' = "open" /\ stream' = FALSE

\* _metricsStop, and stop of the model: the client is closed, with what is
\* under way to it.
MetricsStop ==
    /\ metricsOn' = FALSE
    /\ isOn' = FALSE
    /\ clientSub' = "null"
    /\ stream' = FALSE

\* _onNewListener, while it is there to be told.
NewListener ==
    /\ IF hooked THEN count' = count + 1 /\ MetricsStart
       ELSE UNCHANGED <<count, metricsOn, isOn, clientSub, stream>>

\* A mistake in RemoveListeners: the subscription ends with the first.
RemoveListenersAll(n, rest) ==
    /\ count' = IF count > n THEN count - n ELSE 0
    /\ IF count > 0 /\ n > 0 /\ metricsOn
       THEN MetricsStop
       ELSE UNCHANGED <<metricsOn, isOn, clientSub>> /\ stream' = rest

\* A mistake in RemoveListeners: the count may become negative.
RemoveListenersBelow(n, rest) ==
    /\ count' = count - n
    /\ IF count = n /\ metricsOn
       THEN MetricsStop
       ELSE UNCHANGED <<metricsOn, isOn, clientSub>> /\ stream' = rest

\* n calls of _onRemoveListener, in a row. Unless the last listener goes, rest
\* is what is under way afterwards.
RemoveListeners(n, rest) ==
    /\ count' = IF count > n THEN count - n ELSE 0
    /\ IF 0 < count /\ count <= n /\ metricsOn
       THEN MetricsStop
       ELSE UNCHANGED <<metricsOn, isOn, clientSub>> /\ stream' = rest

On ==
    /\ ons < MaxListeners /\ count <= 2 * MaxListeners
    /\ ons' = ons + 1
    /\ NewListener
    /\ UNCHANGED <<onces, hooked, wasReset, careless>>

Once ==
    /\ onces < MaxListeners /\ count <= 2 * MaxListeners
    /\ onces' = onces + 1
    /\ NewListener
    /\ UNCHANGED <<ons, hooked, wasReset, careless>>

\* removeListener with a function that is registered.
RemoveListener ==
    /\ \/ ons > 0 /\ ons' = ons - 1 /\ UNCHANGED onces
       \/ onces > 0 /\ onces' = onces - 1 /\ UNCHANGED ons
    /\ RemoveListeners(1, stream)
    /\ UNCHANGED <<hooked, wasReset, careless>>

\* removeListener with a function that is not.
RemoveUnknown ==
    /\ careless' = TRUE
    /\ RemoveListeners(1, stream)
    /\ UNCHANGED <<ons, onces, hooked, wasReset>>

\* removeAllListeners, which is not overridden: of "metrics", or of every
\* event, the hook among them.
RemoveAllListeners(everything) ==
    /\ ons' = 0 /\ onces' = 0
    /\ careless' = TRUE
    /\ hooked' = (hooked /\ ~everything)
    /\ UNCHANGED <<count, metricsOn, isOn, clientSub, stream, wasReset>>

\* redis sees the subscriptions.
MetricsSubscribe ==
    /\ clientSub = "open"
    /\ clientSub' = "heard"
    /\ UNCHANGED <<ons, onces, count, hooked, metricsOn, isOn, stream, wasReset, careless>>

\* The connection is lost, with what is under way on it. The redis library
\* connects and subscribes again.
LoseMetrics ==
    /\ clientSub = "heard"
    /\ clientSub' = "open"
    /\ stream' = FALSE
    /\ UNCHANGED <<ons, onces, count, hooked, metricsOn, isOn, wasReset, careless>>

\* A creator, worker or scheduler publishes a message on one of the channels.
Published ==
    /\ clientSub = "heard"
    /\ stream' = TRUE
    /\ UNCHANGED <<ons, onces, count, hooked, metricsOn, isOn, clientSub, wasReset,
                   careless>>

\* A mistake in Relay: the listeners of once() are not counted as removed.
RelayUncounted ==
    /\ stream
    /\ onces' = 0
    /\ stream' \in BOOLEAN
    /\ UNCHANGED <<ons, count, hooked, metricsOn, isOn, clientSub, wasReset, careless>>

\* _onMessage and _eventRelay: the event is emitted. Listeners of once() are
\* removed as they are called. More messages may be under way.
Relay ==
    /\ stream
    /\ onces' = 0
    /\ \E more \in BOOLEAN : RemoveListeners(onces, more)
    /\ UNCHANGED <<ons, hooked, wasReset, careless>>

\* kickq.reset: kRedis.dispose ends the client. Controller and model are
\* singletons of the module, and are not told.
Reset ==
    /\ clientSub' = IF clientSub = "null" THEN "null" ELSE "ended"
    /\ stream' = FALSE
    /\ wasReset' = TRUE
    /\ UNCHANGED <<ons, onces, count, hooked, metricsOn, isOn, careless>>

Next ==
    \/ On
    \/ Once
    \/ RemoveListener
    \/ RemoveUnknown
    \/ \E everything \in BOOLEAN : RemoveAllListeners(everything)
    \/ MetricsSubscribe
    \/ LoseMetrics
    \/ Published
    \/ Relay
    \/ Reset

Spec == Init /\ [][Next]_vars

-----------------------------------------------------------------------------
(***************************************************************************)
(* Properties.                                                             *)
(***************************************************************************)

TypeOK ==
    /\ ons \in 0 .. MaxListeners /\ onces \in 0 .. MaxListeners
    /\ count \in Nat
    /\ hooked \in BOOLEAN /\ metricsOn \in BOOLEAN /\ isOn \in BOOLEAN
    /\ stream \in BOOLEAN /\ wasReset \in BOOLEAN /\ careless \in BOOLEAN
    /\ clientSub \in {"null", "open", "heard", "ended"}

\* Whatever callers do, the controller, the model and the client never fall
\* out of step: the controller believes metrics to be on exactly while it
\* counts listeners, the model is on exactly then, and has a client then; a
\* client whose connection was ended was so by a reset.
SwitchesAgree ==
    /\ metricsOn <=> count > 0
    /\ isOn <=> metricsOn
    /\ isOn <=> clientSub # "null"
    /\ clientSub = "ended" => wasReset

\* While callers only remove what they have registered, one by one, metrics is
\* on exactly while somebody listens: a listener of once() stops counting when
\* it was called, and the last one to go ends the subscription.
OnWhileListening ==
    ~careless => /\ count = ons + onces
                 /\ metricsOn <=> ons + onces > 0

================================================================================
