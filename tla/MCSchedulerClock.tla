--------------------------- MODULE MCSchedulerClock ---------------------------
(***************************************************************************)
(* Instances of SchedulerClock for TLC.                                    *)
(***************************************************************************)
EXTENDS SchedulerClock

\* Word is 8 here: a negative delay, which wraps around to 2, and a delay of 3.
SomeDelays == {-6, 3}

\* A timeout beyond the word, which only a ping with the larger lookAhead reaches
\* at once, and which is too far away for the smaller; and no number.
SomeTimeouts == {13, None}
=============================================================================
