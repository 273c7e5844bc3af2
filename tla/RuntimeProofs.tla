----------------------------- MODULE RuntimeProofs -----------------------------
(***************************************************************************)
(* Theorems about Runtime, for any number of processes and lanes.          *)
(*                                                                         *)
(* The argument.  The account lease is held in exactly the phases between  *)
(* TakeAccount and Close (LeaseFollowsPhase), so two processes are never   *)
(* both in them; and a process whose supervisor is whole comes to Close    *)
(* with every lane ended, because `gather` waits for them all              *)
(* (ClosedAreQuiet).                                                       *)
(***************************************************************************)
EXTENDS Runtime, TLAPS

Holding == {"leased", "up", "draining", "closing"}

\* The account lease belongs to the process that is past taking it and has not
\* closed.
LeaseFollowsPhase == \A p \in Procs : account = p <=> proc[p] \in Holding

\* Lanes run only between StartLanes and the end of the drain, unless a failed
\* report has ended the drain early.
ClosedAreQuiet ==
    \A p \in Procs, l \in Lanes :
        /\ proc[p] \in {"down", "leased"} => lane[p][l] = "off"
        /\ proc[p] \in {"closing", "closed"} /\ supervisor[p] = "whole" => lane[p][l] = "ended"

LeaseInv == TypeOK /\ LeaseFollowsPhase /\ ClosedAreQuiet

-----------------------------------------------------------------------------
\* The lanes of one process set to one state, the others left alone.
LEMMA AllLanesEffect ==
    ASSUME TypeOK, NEW p \in Procs, NEW state \in LaneStates, AllLanes(p, state)
    PROVE  /\ lane' \in [Procs -> [Lanes -> LaneStates]]
           /\ \A q \in Procs, l \in Lanes : lane'[q][l] = IF q = p THEN state ELSE lane[q][l]
  BY DEF AllLanes, TypeOK

\* One lane moves, the others stay.
LEMMA MoveEffect ==
    ASSUME TypeOK, NEW p \in Procs, NEW l \in Lanes, NEW from, NEW to \in LaneStates, Move(p, l, from, to)
    PROVE  /\ lane' \in [Procs -> [Lanes -> LaneStates]]
           /\ lane[p][l] = from /\ lane'[p][l] = to
           /\ \A q \in Procs, k \in Lanes : <<q, k>> # <<p, l>> => lane'[q][k] = lane[q][k]
  BY DEF Move, TypeOK

LEMMA RowsWithoutType ==
    ASSUME TypeOK, NEW p, NEW left \in {"free", "dead"}
    PROVE  RowsWithout(p, left) \in [Lanes -> Procs \cup {"free", "dead", "command"}]
  BY DEF RowsWithout, TypeOK

\* The steps of the process keep the invariant.
LEMMA ProcessKeeps ==
    ASSUME LeaseInv, NEW p \in Procs, Process(p) \/ Die(p)
    PROVE  LeaseInv'
  <1> USE RuntimeAssumption
  <1>0. TypeOK /\ LeaseFollowsPhase /\ ClosedAreQuiet
    BY DEF LeaseInv
  <1>1. CASE TakeAccount(p)
    <2>1. TypeOK'
      BY <1>0, <1>1 DEF TypeOK, TakeAccount, Enter, Phases
    <2>2. LeaseFollowsPhase'
      BY <1>0, <1>1 DEF TypeOK, LeaseFollowsPhase, TakeAccount, Enter, Holding, Phases
    <2>3. ClosedAreQuiet'
      BY <1>0, <1>1 DEF TypeOK, ClosedAreQuiet, TakeAccount, Enter
    <2> QED BY <2>1, <2>2, <2>3 DEF LeaseInv
  <1>2. CASE RunLockHeld(p)
    <2>1. TypeOK'
      BY <1>0, <1>2 DEF TypeOK, RunLockHeld, Enter, Phases
    <2>2. LeaseFollowsPhase'
      BY <1>0, <1>2 DEF TypeOK, LeaseFollowsPhase, RunLockHeld, Enter, Holding, Phases
    <2>3. ClosedAreQuiet'
      BY <1>0, <1>2 DEF TypeOK, ClosedAreQuiet, RunLockHeld, Enter
    <2> QED BY <2>1, <2>2, <2>3 DEF LeaseInv
  <1>3. CASE StartLanes(p)
    <2>0. /\ lane' \in [Procs -> [Lanes -> LaneStates]]
          /\ \A q \in Procs, l \in Lanes : lane'[q][l] = IF q = p THEN "tick" ELSE lane[q][l]
      BY <1>0, <1>3, AllLanesEffect DEF StartLanes, LaneStates
    <2>1. TypeOK'
      BY <1>0, <1>3, <2>0 DEF TypeOK, StartLanes, Enter, Supervised, Phases
    <2>2. LeaseFollowsPhase'
      BY <1>0, <1>3 DEF TypeOK, LeaseFollowsPhase, StartLanes, Enter, Holding, Phases
    <2>3. ClosedAreQuiet'
      BY <1>0, <1>3, <2>0 DEF TypeOK, ClosedAreQuiet, StartLanes, Enter, Supervised
    <2> QED BY <2>1, <2>2, <2>3 DEF LeaseInv
  <1>4. CASE Signal(p)
    <2>1. TypeOK'
      BY <1>0, <1>4 DEF TypeOK, Signal, Enter, Phases
    <2>2. LeaseFollowsPhase'
      BY <1>0, <1>4 DEF TypeOK, LeaseFollowsPhase, Signal, Enter, Holding, Phases
    <2>3. ClosedAreQuiet'
      BY <1>0, <1>4 DEF TypeOK, ClosedAreQuiet, Signal, Enter
    <2> QED BY <2>1, <2>2, <2>3 DEF LeaseInv
  <1>5. CASE Drain(p)
    <2>1. TypeOK'
      BY <1>0, <1>5 DEF TypeOK, Drain, Enter, Phases
    <2>2. LeaseFollowsPhase'
      BY <1>0, <1>5 DEF TypeOK, LeaseFollowsPhase, Drain, Enter, Holding, Phases
    <2>3. ClosedAreQuiet'
      BY <1>0, <1>5 DEF TypeOK, ClosedAreQuiet, Drain, Enter
    <2> QED BY <2>1, <2>2, <2>3 DEF LeaseInv
  <1>6. CASE Close(p)
    <2>1. TypeOK'
      BY <1>0, <1>6 DEF TypeOK, Close, Enter, Phases
    <2>2. LeaseFollowsPhase'
      BY <1>0, <1>6 DEF TypeOK, LeaseFollowsPhase, Close, Enter, Holding, Phases
    <2>3. ClosedAreQuiet'
      BY <1>0, <1>6 DEF TypeOK, ClosedAreQuiet, Close, Enter
    <2> QED BY <2>1, <2>2, <2>3 DEF LeaseInv
  <1>7. CASE Exit(p) \/ Die(p)
    <2>0. /\ lane' \in [Procs -> [Lanes -> LaneStates]]
          /\ \A q \in Procs, l \in Lanes : lane'[q][l] = IF q = p THEN "off" ELSE lane[q][l]
      BY <1>0, <1>7, AllLanesEffect DEF Exit, Die, LaneStates
    <2>1. row' \in [Lanes -> Procs \cup {"free", "dead", "command"}]
      BY <1>0, <1>7, RowsWithoutType DEF Exit, Die
    <2>2. TypeOK'
      <3>1. /\ account' \in Procs \cup {"free"} /\ runLock' \in Procs \cup {"free", "dead"}
            /\ proc' = [proc EXCEPT ![p] = "down"] /\ supervisor' = [supervisor EXCEPT ![p] = "none"]
        BY <1>0, <1>7 DEF TypeOK, Exit, Die, Enter, Supervised
      <3> QED
        BY <1>0, <2>0, <2>1, <3>1 DEF TypeOK, Phases
    <2>3. LeaseFollowsPhase'
      BY <1>0, <1>7 DEF TypeOK, LeaseFollowsPhase, Exit, Die, Enter, Holding, Phases
    <2>4. ClosedAreQuiet'
      BY <1>0, <1>7, <2>0 DEF TypeOK, ClosedAreQuiet, Exit, Die, Enter, Supervised
    <2> QED BY <2>2, <2>3, <2>4 DEF LeaseInv
  <1> QED
    BY <1>1, <1>2, <1>3, <1>4, <1>5, <1>6, <1>7 DEF Process

\* The steps of a lane keep it: none leads out of "ended" or into it unless the
\* process is draining or past that.
LEMMA LaneKeeps ==
    ASSUME LeaseInv, NEW p \in Procs, NEW l \in Lanes, LaneStep(p, l)
    PROVE  LeaseInv'
  <1> USE RuntimeAssumption
  <1>0. TypeOK /\ LeaseFollowsPhase /\ ClosedAreQuiet
    BY DEF LeaseInv
  <1>1. PICK from \in LaneStates \ {"off", "ended", "dead"}, to \in LaneStates \ {"off"} :
            /\ Move(p, l, from, to)
            /\ to = "ended" \/ lane[p][l] # "ended"
    BY <1>0 DEF LaneStep, BeginCycle, Verify, Post, EndCycle, Fail, AttemptFails, Report, ReportFails,
                Restart, LaneEnds, LaneStates, Move
  <1>2. /\ lane' \in [Procs -> [Lanes -> LaneStates]]
        /\ lane[p][l] = from /\ lane'[p][l] = to
        /\ \A q \in Procs, k \in Lanes : <<q, k>> # <<p, l>> => lane'[q][k] = lane[q][k]
    BY <1>0, <1>1, MoveEffect
  <1>3. proc[p] \notin {"down", "leased"}
    BY <1>0, <1>2 DEF ClosedAreQuiet
  <1>4. /\ account' = account /\ runLock' = runLock /\ proc' = proc
        /\ supervisor' = supervisor \/ Supervised(p, "broken")
    BY DEF LaneStep, BeginCycle, Verify, Post, EndCycle, Fail, AttemptFails, Report, ReportFails, Restart, LaneEnds
  <1>5. row' \in [Lanes -> Procs \cup {"free", "dead", "command"}]
    BY <1>0 DEF TypeOK, LaneStep, BeginCycle, Verify, Post, EndCycle, Fail, FreeRow, AttemptFails, Report,
                ReportFails, Restart, LaneEnds
  <1>6. TypeOK'
    BY <1>0, <1>2, <1>3, <1>4, <1>5 DEF TypeOK, Supervised
  <1>7. LeaseFollowsPhase'
    BY <1>0, <1>4 DEF LeaseFollowsPhase
  <1>8. ClosedAreQuiet'
    BY <1>0, <1>2, <1>3, <1>4 DEF TypeOK, ClosedAreQuiet, Supervised
  <1> QED
    BY <1>6, <1>7, <1>8 DEF LeaseInv

\* Leases that run out and commands touch rows only.
LEMMA RowsKeep ==
    ASSUME LeaseInv, Lapse \/ Expire \/ \E l \in Lanes : CommandBegins(l) \/ CommandEnds(l)
    PROVE  LeaseInv'
  <1>1. UNCHANGED <<account, proc, supervisor, lane>>
    BY DEF Lapse, Expire, CommandBegins, CommandEnds
  <1>2. /\ runLock' \in Procs \cup {"free", "dead"}
        /\ row' \in [Lanes -> Procs \cup {"free", "dead", "command"}]
    BY RowsWithoutType DEF LeaseInv, TypeOK, Lapse, Expire, CommandBegins, CommandEnds
  <1> QED
    BY <1>1, <1>2 DEF LeaseInv, TypeOK, LeaseFollowsPhase, ClosedAreQuiet

LEMMA LeaseInvInductive ==
    ASSUME LeaseInv, [Next]_vars
    PROVE  LeaseInv'
  <1>1. CASE Next
    BY <1>1, ProcessKeeps, LaneKeeps, RowsKeep DEF Next
  <1>2. CASE UNCHANGED vars
    BY <1>2 DEF vars, LeaseInv, TypeOK, LeaseFollowsPhase, ClosedAreQuiet
  <1> QED
    BY <1>1, <1>2

LEMMA LeaseInvAlways == Spec => []LeaseInv
  <1>1. Init => LeaseInv
    BY RuntimeAssumption DEF Init, LeaseInv, TypeOK, LeaseFollowsPhase, ClosedAreQuiet, Phases, LaneStates, Holding
  <1> QED
    BY <1>1, LeaseInvInductive, PTL DEF Spec

-----------------------------------------------------------------------------
\* Every row, phase and lane stays in its domain, and a process has a
\* supervisor exactly while it has lanes.
THEOREM TypeCorrect == Spec => []TypeOK
  BY LeaseInvAlways, PTL DEF LeaseInv

\* However many processes start, fail, are signalled or killed, and whatever
\* leases lapse: whoever may place an order holds the account lease
\* (_run_application releases it after the lanes).
THEOREM OrdersUnderLease == Spec => []WorkStaysUnderLease
  <1>1. LeaseInv => WorkStaysUnderLease
    <2> SUFFICES ASSUME LeaseInv, NEW p \in Procs, NEW l \in Lanes,
                        lane[p][l] \in Working, supervisor[p] # "broken"
                 PROVE  account = p
      BY DEF WorkStaysUnderLease
    <2>1. proc[p] \in {"up", "draining"}
      BY DEF LeaseInv, TypeOK, ClosedAreQuiet, Working, Phases
    <2> QED
      BY <2>1 DEF LeaseInv, LeaseFollowsPhase, Holding
  <1> QED
    BY <1>1, LeaseInvAlways, PTL
=============================================================================
