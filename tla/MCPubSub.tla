------------------------------- MODULE MCPubSub -------------------------------
(***************************************************************************)
(* Instances of PubSub for TLC.                                            *)
(***************************************************************************)
EXTENDS PubSub
===============================================================================
