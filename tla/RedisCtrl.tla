------------------------------ MODULE RedisCtrl ------------------------------
(***************************************************************************)
(* The redis watcher of one process (control/redis.ctrl.js): a singleton   *)
(* that turns the events of the shared client into "connect" and           *)
(* "disconnect". Its flag is consulted by Worker and Scheduler, and is     *)
(* late: the connection may be gone, or back, before the flag says so.     *)
(***************************************************************************)

VARIABLES
    up,         \* client.connected, kept by the redis library
    connected   \* RedisCtrl.connected

redisVars == <<up, connected>>

\* Before the first boot the flag is TRUE, whatever the client has done.
RedisInit == up \in BOOLEAN /\ connected = TRUE

\* The connection breaks. The library reports no error yet.
ClientDrops ==
    /\ up
    /\ up' = FALSE
    /\ UNCHANGED connected

\* _handleError: an attempt to reconnect failed; "disconnect" is emitted.
HandleError ==
    /\ ~up
    /\ connected
    /\ connected' = FALSE
    /\ UNCHANGED up

\* _handleConnect: the client is back; "connect" is emitted if it was missed.
HandleConnect ==
    /\ ~up
    /\ up' = TRUE
    /\ connected' = TRUE

\* init for the client of a new boot, which may or may not have connected
\* yet. The flag is not touched: it still says what was seen last.
Watch ==
    /\ up' \in BOOLEAN
    /\ UNCHANGED connected
=============================================================================
