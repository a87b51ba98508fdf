---------------------------- MODULE MCWorkerPool ----------------------------
(***************************************************************************)
(* Instances of WorkerPool for TLC.                                        *)
(***************************************************************************)
EXTENDS WorkerPool

CONSTANTS m1, m2

\* Every worker belongs to the first of two calls of kickq.process.
AllOfFirst == [w \in Workers |-> m1]
=============================================================================
