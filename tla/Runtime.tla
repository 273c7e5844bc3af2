------------------------------- MODULE Runtime -------------------------------
(***************************************************************************)
(* Processes that trade one account: `tradepulse run` (tradepulse/cli.py), *)
(* its supervised lanes, the account lease (tradepulse/runtime_lease.py)   *)
(* and the command leases of the database (tradepulse/persistence/lock.py).*)
(*                                                                         *)
(* The account lease is a kernel lock that dies with its process; command  *)
(* leases are rows that outlive it until they expire, and may lapse under  *)
(* a holder that renews too late.                                          *)
(***************************************************************************)
EXTENDS Naturals, FiniteSets

CONSTANTS
    Procs,      \* processes of `tradepulse run`
    Traders,    \* lanes that may submit orders: the scans, the monitor
    Clerks      \* lanes that only keep the books: settle, reconcile

Lanes == Traders \cup Clerks

ASSUME RuntimeAssumption ==
    /\ Traders \cap Clerks = {}
    /\ {"free", "dead", "command"} \cap Procs = {}

VARIABLES
    account,    \* who holds the account lease
    runLock,    \* locks row of `run`
    row,        \* locks rows of the lanes
    proc,       \* phase of each process
    supervisor, \* _run_trading_supervisor: has one of its lanes raised?
    lane        \* where each lane of each process is

vars == <<account, runLock, row, proc, supervisor, lane>>

Phases == {"down", "leased", "up", "draining", "closing", "closed"}
LaneStates == {"off", "tick", "cycle", "posting", "failed", "backoff", "dead", "ended"}
Working == {"cycle", "posting"}

TypeOK ==
    /\ account \in Procs \cup {"free"}
    /\ runLock \in Procs \cup {"free", "dead"}
    /\ row \in [Lanes -> Procs \cup {"free", "dead", "command"}]
    /\ proc \in [Procs -> Phases]
    /\ supervisor \in [Procs -> {"none", "whole", "broken"}]
    /\ lane \in [Procs -> [Lanes -> LaneStates]]
    /\ \A p \in Procs : supervisor[p] = "none" <=> proc[p] \in {"down", "leased"}

Init ==
    /\ account = "free" /\ runLock = "free"
    /\ row = [l \in Lanes |-> "free"]
    /\ proc = [p \in Procs |-> "down"] /\ supervisor = [p \in Procs |-> "none"]
    /\ lane = [p \in Procs |-> [l \in Lanes |-> "off"]]

-----------------------------------------------------------------------------
(* The process                                                              *)

Enter(p, phase) == proc' = [proc EXCEPT ![p] = phase]
AllLanes(p, state) == lane' = [lane EXCEPT ![p] = [l \in Lanes |-> state]]
Supervised(p, state) == supervisor' = [supervisor EXCEPT ![p] = state]

\* account_lease: an exclusive lock that is taken or refused at once.
TakeAccount(p) ==
    /\ proc[p] = "down" /\ account = "free"
    /\ account' = p /\ Enter(p, "leased")
    /\ UNCHANGED <<runLock, row, supervisor, lane>>

\* The run lock of a predecessor that died is still there: leave again.
RunLockHeld(p) ==
    /\ proc[p] = "leased" /\ runLock # "free"
    /\ account' = "free" /\ Enter(p, "down")
    /\ UNCHANGED <<runLock, row, supervisor, lane>>

\* The run lock, then every lane, whether the session could be activated or not.
StartLanes(p) ==
    /\ proc[p] = "leased" /\ runLock = "free"
    /\ runLock' = p /\ Enter(p, "up")
    /\ Supervised(p, "whole") /\ AllLanes(p, "tick")
    /\ UNCHANGED <<account, row>>

\* SIGINT or SIGTERM sets the shutdown event.
Signal(p) ==
    /\ proc[p] = "up" /\ Enter(p, "draining")
    /\ UNCHANGED <<account, runLock, row, supervisor, lane>>

\* Mutant: the process leaves without waiting for the supervisor.
DrainAtOnce(p) ==
    /\ proc[p] = "draining" /\ Enter(p, "closing")
    /\ UNCHANGED <<account, runLock, row, supervisor, lane>>

\* `await trading_task`: gather returns when every lane has ended, or raises
\* at once when one of them has raised.
Drain(p) ==
    /\ proc[p] = "draining"
    /\ supervisor[p] = "broken" \/ \A l \in Lanes : lane[p][l] = "ended"
    /\ Enter(p, "closing")
    /\ UNCHANGED <<account, runLock, row, supervisor, lane>>

\* The run lock is released, then the account lease.
Close(p) ==
    /\ proc[p] = "closing" /\ Enter(p, "closed")
    /\ runLock' = IF runLock = p THEN "free" ELSE runLock
    /\ account' = "free"
    /\ UNCHANGED <<row, supervisor, lane>>

RowsWithout(p, left) == [l \in Lanes |-> IF row[l] = p THEN left ELSE row[l]]

\* asyncio.run cancels what is still running; a lane's finally frees its row.
Exit(p) ==
    /\ proc[p] = "closed" /\ Enter(p, "down")
    /\ Supervised(p, "none") /\ AllLanes(p, "off")
    /\ row' = RowsWithout(p, "free")
    /\ UNCHANGED <<account, runLock>>

\* The process is killed: the kernel frees the account, the rows stay.
Die(p) ==
    /\ proc[p] # "down" /\ Enter(p, "down")
    /\ Supervised(p, "none") /\ AllLanes(p, "off")
    /\ account' = IF account = p THEN "free" ELSE account
    /\ runLock' = IF runLock = p THEN "dead" ELSE runLock
    /\ row' = RowsWithout(p, "dead")

-----------------------------------------------------------------------------
(* A lane                                                                   *)

Move(p, l, from, to) == lane[p][l] = from /\ lane' = [lane EXCEPT ![p][l] = to]
FreeRow(p, l) == row' = IF row[l] = p THEN [row EXCEPT ![l] = "free"] ELSE row

\* _periodic_loop asks for the shutdown between cycles; acquire_lock lets the
\* lane skip the cycle when the row is held.
BeginCycle(p, l) ==
    /\ proc[p] = "up" /\ row[l] = "free"
    /\ Move(p, l, "tick", "cycle")
    /\ row' = [row EXCEPT ![l] = p]
    /\ UNCHANGED <<account, runLock, proc, supervisor>>

\* AccountLease.verify, immediately before the submission.
Verify(p, l) ==
    /\ l \in Traders /\ account = p
    /\ Move(p, l, "cycle", "posting")
    /\ UNCHANGED <<account, runLock, row, proc, supervisor>>

Post(p, l) ==
    /\ Move(p, l, "posting", "cycle")
    /\ UNCHANGED <<account, runLock, row, proc, supervisor>>

EndCycle(p, l) ==
    /\ Move(p, l, "cycle", "tick") /\ FreeRow(p, l)
    /\ UNCHANGED <<account, runLock, proc, supervisor>>

\* An exception leaves the cycle through its finally.
Fail(p, l) ==
    /\ Move(p, l, "cycle", "failed") /\ FreeRow(p, l)
    /\ UNCHANGED <<account, runLock, proc, supervisor>>

\* The database fails before the cycle has its row.
AttemptFails(p, l) ==
    /\ proc[p] = "up" /\ Move(p, l, "tick", "failed")
    /\ UNCHANGED <<account, runLock, row, proc, supervisor>>

\* Mutant: the lane is reported and not restarted.
ReportAndStop(p, l) ==
    /\ Move(p, l, "failed", "ended")
    /\ UNCHANGED <<account, runLock, row, proc, supervisor>>

\* The alert and the audit event; then the backoff.
Report(p, l) ==
    /\ Move(p, l, "failed", "backoff")
    /\ UNCHANGED <<account, runLock, row, proc, supervisor>>

\* The audit event cannot be written: the handler itself raises, the lane is
\* gone for good and gather hands the exception to the supervisor.
ReportFails(p, l) ==
    /\ Move(p, l, "failed", "dead")
    /\ Supervised(p, "broken")
    /\ UNCHANGED <<account, runLock, row, proc>>

Restart(p, l) ==
    /\ proc[p] = "up" /\ Move(p, l, "backoff", "tick")
    /\ UNCHANGED <<account, runLock, row, proc, supervisor>>

\* Mutant: the backoff does not watch the shutdown event.
LaneEndsFromTick(p, l) ==
    /\ proc[p] # "up" /\ Move(p, l, "tick", "ended")
    /\ UNCHANGED <<account, runLock, row, proc, supervisor>>

\* Both waits watch the shutdown event.
LaneEnds(p, l) ==
    /\ proc[p] # "up"
    /\ Move(p, l, "tick", "ended") \/ Move(p, l, "backoff", "ended")
    /\ UNCHANGED <<account, runLock, row, proc, supervisor>>

-----------------------------------------------------------------------------
(* Leases and one-shot commands                                             *)

\* A command lease runs out under a live holder; nothing is cancelled.
Lapse ==
    /\ \/ runLock \in Procs /\ runLock' = "free" /\ UNCHANGED row
       \/ /\ UNCHANGED runLock
          /\ \E l \in Lanes : row[l] \in Procs /\ row' = [row EXCEPT ![l] = "free"]
    /\ UNCHANGED <<account, proc, supervisor, lane>>

Expire ==
    /\ "dead" \in {runLock} \cup {row[l] : l \in Lanes}
    /\ runLock' = IF runLock = "dead" THEN "free" ELSE runLock
    /\ row' = RowsWithout("dead", "free")
    /\ UNCHANGED <<account, proc, supervisor, lane>>

\* `tradepulse settle` and `tradepulse reconcile` need no account lease.
CommandBegins(l) ==
    /\ l \in Clerks /\ row[l] = "free"
    /\ row' = [row EXCEPT ![l] = "command"]
    /\ UNCHANGED <<account, runLock, proc, supervisor, lane>>

CommandEnds(l) ==
    /\ row[l] = "command" /\ row' = [row EXCEPT ![l] = "free"]
    /\ UNCHANGED <<account, runLock, proc, supervisor, lane>>

-----------------------------------------------------------------------------

Process(p) == TakeAccount(p) \/ RunLockHeld(p) \/ StartLanes(p) \/ Signal(p) \/ Drain(p) \/ Close(p) \/ Exit(p)

LaneStep(p, l) ==
    \/ BeginCycle(p, l) \/ Verify(p, l) \/ Post(p, l) \/ EndCycle(p, l)
    \/ Fail(p, l) \/ AttemptFails(p, l)
    \/ Report(p, l) \/ ReportFails(p, l) \/ Restart(p, l) \/ LaneEnds(p, l)

Next ==
    \/ \E p \in Procs : Process(p) \/ Die(p) \/ \E l \in Lanes : LaneStep(p, l)
    \/ Lapse \/ Expire
    \/ \E l \in Lanes : CommandBegins(l) \/ CommandEnds(l)

Spec == Init /\ [][Next]_vars

\* Work in hand ends, failures are reported, backoffs and leases run out, and
\* a row that is free again and again is taken some time.
FairSpec ==
    /\ Spec
    /\ \A p \in Procs :
         /\ WF_vars(Drain(p)) /\ WF_vars(Close(p)) /\ WF_vars(Exit(p))
         /\ \A l \in Lanes : /\ WF_vars(Post(p, l)) /\ SF_vars(EndCycle(p, l)) /\ SF_vars(BeginCycle(p, l))
                             /\ WF_vars(Report(p, l) \/ ReportFails(p, l))
                             /\ WF_vars(Restart(p, l)) /\ WF_vars(LaneEnds(p, l))
    /\ WF_vars(Expire) /\ \A l \in Lanes : WF_vars(CommandEnds(l))

-----------------------------------------------------------------------------
(* Properties                                                               *)

\* Order-capable work never outlives the account lease of its process
\* (_run_application), unless a lane's own failure report has failed.
WorkStaysUnderLease ==
    \A p \in Procs, l \in Lanes :
        lane[p][l] \in Working /\ supervisor[p] # "broken" => account = p

ShutdownEnds(p) == proc[p] = "draining" ~> proc[p] = "down"

LanesComeBack(p) ==
    \A l \in Lanes :
        <>[][~AttemptFails(p, l)]_vars =>
            (lane[p][l] = "failed" ~> lane[p][l] = "cycle" \/ proc[p] # "up" \/ supervisor[p] = "broken")
=============================================================================
