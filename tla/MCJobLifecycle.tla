--------------------------- MODULE MCJobLifecycle ---------------------------
(***************************************************************************)
(* Instances of JobLifecycle for TLC.                                      *)
(***************************************************************************)
EXTENDS JobLifecycle, TLC

\* A job created with no retries: one ghost run is allowed (the defaults).
Plain == [delay |-> FALSE, retry |-> FALSE, retryTimes |-> 3,
          ghostRetry |-> TRUE, ghostTimes |-> 1]

\* A delayed job that is run once, however that ends.
Delayed == [Plain EXCEPT !.delay = TRUE, !.ghostRetry = FALSE]

\* A job that is to be retried twice after an error.
Retried == [Plain EXCEPT !.retry = TRUE, !.retryTimes = 2]

OnePlain == {Plain}
OneRetried == {Retried}
PlainAndDelayed == {Plain, Delayed}

\* Every way to rerun a job, around the boundary of each of the two limits.
Reruns == [delay : BOOLEAN, retry : BOOLEAN, retryTimes : 0 .. 3,
           ghostRetry : BOOLEAN, ghostTimes : 0 .. 2]

\* Nothing tells one process from another of its kind, or one id from another.
\* Used with invariants and action properties only, never with liveness.
Symmetric == Permutations(Jobs) \union Permutations(Workers) \union Permutations(Schedulers)
=============================================================================
