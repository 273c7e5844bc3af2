------------------------------ MODULE MCRuntime ------------------------------
(* Two processes, a monitor lane and a settle lane. The processes are          *)
(* interchangeable, so the liveness properties are checked for one of them.    *)
EXTENDS Runtime

CONSTANTS p1, p2, monitor, settle

\* Wherever its lanes are when the signal comes, a process that is not killed
\* comes down and frees the account for the next one (_run_application).
RunEnds == ShutdownEnds(p1)

\* Once the database answers, a lane that has failed works again, whatever the
\* others do, until its process goes down or a failure report fails
\* (_supervised_lane).
LanesRecover == LanesComeBack(p1)

\* A lane that fails comes back, and a run that is stopped ends: no failure,
\* backoff or lost lease keeps a lane from either.
LanesEndOrRecover == RunEnds /\ LanesRecover
=============================================================================
