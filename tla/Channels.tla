------------------------------- MODULE Channels -------------------------------
(***************************************************************************)
(* The published messages of kickq (model/channels.js) and what redis does *)
(* with them: a message is appended to what is under way to each client    *)
(* that is subscribed at that moment, and is kept for nobody else.         *)
(*                                                                         *)
(* Each message is published twice, on <type>:<name> and on <type>. The    *)
(* jobs here have one name: hotjobs listen to the first kind, metrics to   *)
(* the second, and no client to both, so that one step stands for both.    *)
(***************************************************************************)
EXTENDS Sequences

CONSTANT Jobs   \* ids of the jobs created by one process, all of one name

\* The channels that somebody in kickq subscribes to: not "delete".
Channel == {"create", "queued", "success", "fail"}

\* A published job item, on a channel. lastError says whether the error that the
\* message tells of is truthy: it tells of none when the item could not be
\* serialised, and the message is its id alone.
Msg(channel, j, err) == [channel |-> channel, job |-> j, lastError |-> err]
===============================================================================
