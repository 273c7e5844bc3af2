---------------------------- MODULE ExecutionProofs ----------------------------
(***************************************************************************)
(* Theorems about Execution, for any number of lanes, assets and intents.  *)
(*                                                                         *)
(* The argument.  A lane may send only between its proposal and its POST,  *)
(* and only while the asset's reservation is still its own when it writes  *)
(* SUBMITTED: in that stretch it is Bound.  Two intents of one asset are   *)
(* never both Bound or on the broker's book (Exclusive): a proposal finds  *)
(* no blocking row, a lane that lost its reservation never gets it back    *)
(* within the same call, and every row with an order on the book is        *)
(* blocking (Verdicts).  The last fact is where the sweep could go wrong;  *)
(* it holds when the grace period outlasts every submission (Timely), for  *)
(* then no lane is before its POST of the intent being swept (Sweeping).   *)
(***************************************************************************)
EXTENDS Execution, FiniteSetTheorems, TLAPS

\* A lane past its proposal works on a row of its own.
Owners ==
    \A l \in Lanes :
        /\ work[l] = 0 <=> pc[l] \in {"idle", "reserved"}
        /\ work[l] # 0 => by[work[l]] = l /\ status[work[l]] # "absent"

\* The sweep works on a row that exists.
Swept == (sweep.at = "idle" <=> sweep.on = 0) /\ (sweep.on # 0 => status[sweep.on] # "absent")

\* A buyer barred by a stop has not passed the last session check.
BarredWait == \A l \in barred : pc[l] \in {"proposed", "decided", "approved"}

CallInv == TypeOK /\ Owners /\ Swept /\ BarredWait

\* Before the POST the row says how far the lane is, and nothing is sent.
Rows ==
    \A l \in Lanes :
        /\ pc[l] \in {"proposed", "decided"} => status[work[l]] = "proposed"
        /\ pc[l] \in {"approved", "cleared"} => status[work[l]] = "risk_approved"
        /\ pc[l] = "submitted" => status[work[l]] = "submitted"
        /\ pc[l] \in BeforePost => broker[work[l]] = "unsent"

\* No lane is before its POST of the intent being swept, and no POST of it is
\* on its way: what the lookup did not find will not appear.
Sweeping ==
    sweep.on # 0 =>
        /\ broker[sweep.on] # "sent"
        /\ \A l \in Lanes : work[l] = sweep.on => pc[l] \notin BeforePost
        /\ sweep.at = "absent" => broker[sweep.on] \in {"unsent", "none"}

\* An order on the book has a blocking row, a closed row no order.
Verdicts ==
    \A i \in Ids :
        /\ broker[i] \in OnBook => status[i] \in Blocking
        /\ status[i] = "rejected" => broker[i] \in {"unsent", "none"}
        /\ status[i] = "absent" => broker[i] = "unsent"

\* The lane may still send: it has written SUBMITTED, or may come to it.
Bound(l) == pc[l] = "submitted" \/ (pc[l] \in BeforePost /\ reservation[AssetOf[l]] = l)
Sending(i) == broker[i] \in OnBook \/ \E l \in Lanes : work[l] = i /\ Bound(l)

Exclusive == \A i, j \in Known : i # j /\ Asset(i) = Asset(j) => ~(Sending(i) /\ Sending(j))

OrderInv == CallInv /\ Rows /\ Sweeping /\ Verdicts /\ Exclusive

-----------------------------------------------------------------------------
\* The account never shows more than there is.
LEMMA AccountFigureType == AccountFigure \in 0..Cash
  <1> DEFINE spent == {i \in Ids : IsBuy(i) /\ broker[i] \in {"open", "filled"}}
  <1>1. IsFiniteSet(1..MaxIntents)
    BY FS_Interval, ExecutionAssumption
  <1>2. IsFiniteSet(spent)
    BY <1>1, FS_Subset DEF Ids
  <1>3. Cardinality(spent) \in Nat
    BY <1>2, FS_CardinalityType
  <1> QED
    BY <1>3, ExecutionAssumption DEF AccountFigure

\* Where no lane becomes bound and no order enters the book, exclusion stays.
LEMMA ExclusiveStays ==
    ASSUME Exclusive, by' = by, \A i \in Ids : status'[i] # "absent" => status[i] # "absent",
           \A l \in Lanes : Bound(l)' => Bound(l) /\ work'[l] = work[l],
           \A i \in Ids : broker'[i] \in OnBook => broker[i] \in OnBook
    PROVE  Exclusive'
  <1>1. \A i \in Ids : Sending(i)' => Sending(i)
    BY DEF Sending
  <1>2. Known' \subseteq Known /\ \A i \in Known' : i \in Ids /\ Asset(i)' = Asset(i)
    BY DEF Known, Asset
  <1> QED BY <1>1, <1>2 DEF Exclusive

\* The steps of a lane.
LEMMA LaneKeepsCalls ==
    ASSUME CallInv, NEW l \in Lanes, Lane(l)
    PROVE  CallInv'
  <1> USE ExecutionAssumption
  <1>0. TypeOK /\ Owners /\ Swept /\ BarredWait
    BY DEF CallInv
  <1>1. CASE Reserve(l)
    <2>1. TypeOK'
      BY <1>0, <1>1 DEF Reserve, Goto, At, TypeOK, Steps, BeforePost
    <2>2. Owners'
      BY <1>0, <1>1 DEF Reserve, Goto, At, TypeOK, Owners
    <2>3. Swept'
      BY <1>0, <1>1 DEF Reserve, Goto, At, TypeOK, Swept
    <2>4. BarredWait'
      BY <1>0, <1>1 DEF Reserve, Goto, At, TypeOK, BarredWait
    <2> QED BY <2>1, <2>2, <2>3, <2>4 DEF CallInv
  <1>2. CASE Propose(l)
    <2>1. TypeOK'
      BY <1>0, <1>2, AccountFigureType DEF Propose, Goto, At, SetStatus, Known, TypeOK, Statuses,
           TERMINAL_STATUSES, IN_FLIGHT_STATUSES, Blocking, Steps, BeforePost
    <2>2. Owners'
      <3>1. PICK i \in Ids \ Known : /\ status' = [status EXCEPT ![i] = "proposed"]
                                    /\ by' = [by EXCEPT ![i] = l] /\ work' = [work EXCEPT ![l] = i]
        BY <1>2 DEF Propose, SetStatus
      <3>2. status[i] = "absent" /\ i \in Ids /\ i # 0
        BY <3>1, ExecutionAssumption DEF Known, Ids
      <3>3. pc' = [pc EXCEPT ![l] = "proposed"]
        BY <1>2 DEF Propose, Goto
      <3> QED BY <1>0, <3>1, <3>2, <3>3 DEF TypeOK, Owners
    <2>3. Swept'
      BY <1>0, <1>2 DEF Propose, Goto, At, SetStatus, Known, TypeOK, Swept
    <2>4. BarredWait'
      BY <1>0, <1>2 DEF Propose, Goto, At, SetStatus, Known, TypeOK, BarredWait
    <2> QED BY <2>1, <2>2, <2>3, <2>4 DEF CallInv
  <1>3. CASE Skip(l)
    <2>1. TypeOK'
      BY <1>0, <1>3 DEF Skip, Goto, At, Return, ReleaseReservation, TypeOK, Steps, BeforePost
    <2>2. Owners'
      BY <1>0, <1>3 DEF Skip, Goto, At, Return, ReleaseReservation, TypeOK, Owners
    <2>3. Swept'
      BY <1>0, <1>3 DEF Skip, Goto, At, Return, ReleaseReservation, TypeOK, Swept
    <2>4. BarredWait'
      BY <1>0, <1>3 DEF Skip, Goto, At, Return, ReleaseReservation, TypeOK, BarredWait
    <2> QED BY <2>1, <2>2, <2>3, <2>4 DEF CallInv
  <1>4. CASE Decide(l)
    <2>1. TypeOK'
      BY <1>0, <1>4 DEF Decide, Goto, At, GoOn, locks, TypeOK, Steps, BeforePost
    <2>2. Owners'
      BY <1>0, <1>4 DEF Decide, Goto, At, GoOn, locks, TypeOK, Owners
    <2>3. Swept'
      BY <1>0, <1>4 DEF Decide, Goto, At, GoOn, locks, TypeOK, Swept
    <2>4. BarredWait'
      BY <1>0, <1>4 DEF Decide, Goto, At, GoOn, locks, TypeOK, BarredWait
    <2> QED BY <2>1, <2>2, <2>3, <2>4 DEF CallInv
  <1>5. CASE Approve(l)
    <2>1. TypeOK'
      BY <1>0, <1>5 DEF Approve, Goto, At, SetStatus, TypeOK, Statuses, TERMINAL_STATUSES,
           IN_FLIGHT_STATUSES, Blocking, Steps, BeforePost, Owners
    <2>2. Owners'
      BY <1>0, <1>5 DEF Approve, Goto, At, SetStatus, TypeOK, Owners
    <2>3. Swept'
      BY <1>0, <1>5 DEF Approve, Goto, At, SetStatus, TypeOK, Swept
    <2>4. BarredWait'
      BY <1>0, <1>5 DEF Approve, Goto, At, SetStatus, TypeOK, BarredWait
    <2> QED BY <2>1, <2>2, <2>3, <2>4 DEF CallInv
  <1>6. CASE Recheck(l)
    <2>1. TypeOK'
      BY <1>0, <1>6 DEF Recheck, Goto, At, locks, TypeOK, Steps, BeforePost
    <2>2. Owners'
      BY <1>0, <1>6 DEF Recheck, Goto, At, locks, TypeOK, Owners
    <2>3. Swept'
      BY <1>0, <1>6 DEF Recheck, Goto, At, locks, TypeOK, Swept
    <2>4. BarredWait'
      BY <1>0, <1>6 DEF Recheck, Goto, At, locks, TypeOK, BarredWait
    <2> QED BY <2>1, <2>2, <2>3, <2>4 DEF CallInv
  <1>7. CASE MarkSubmitted(l)
    <2>1. TypeOK'
      BY <1>0, <1>7 DEF MarkSubmitted, Goto, At, GoOn, SetStatus, locks, TypeOK, Statuses,
           TERMINAL_STATUSES, IN_FLIGHT_STATUSES, Blocking, Steps, BeforePost, Owners
    <2>2. Owners'
      BY <1>0, <1>7 DEF MarkSubmitted, Goto, At, GoOn, SetStatus, locks, TypeOK, Owners
    <2>3. Swept'
      BY <1>0, <1>7 DEF MarkSubmitted, Goto, At, GoOn, SetStatus, locks, TypeOK, Swept
    <2>4. BarredWait'
      BY <1>0, <1>7 DEF MarkSubmitted, Goto, At, GoOn, SetStatus, locks, TypeOK, BarredWait
    <2> QED BY <2>1, <2>2, <2>3, <2>4 DEF CallInv
  <1>8. CASE RejectBeforeSubmission(l)
    <2>1. TypeOK'
      BY <1>0, <1>8 DEF RejectBeforeSubmission, Goto, SetStatus, Return, ReleaseReservation, TypeOK,
           Statuses, TERMINAL_STATUSES, IN_FLIGHT_STATUSES, Blocking, Steps, BeforePost, Owners
    <2>2. Owners'
      BY <1>0, <1>8 DEF RejectBeforeSubmission, Goto, SetStatus, Return, ReleaseReservation, TypeOK,
           Owners, BeforePost
    <2>3. Swept'
      BY <1>0, <1>8 DEF RejectBeforeSubmission, Goto, SetStatus, Return, ReleaseReservation, TypeOK, Swept,
           BeforePost
    <2>4. BarredWait'
      BY <1>0, <1>8 DEF RejectBeforeSubmission, Goto, SetStatus, Return, ReleaseReservation, TypeOK,
           BarredWait, BeforePost
    <2> QED BY <2>1, <2>2, <2>3, <2>4 DEF CallInv
  <1>9. CASE PlaceOrder(l)
    <2>1. TypeOK'
      BY <1>0, <1>9 DEF PlaceOrder, Goto, At, GoOn, locks, TypeOK, Steps, BeforePost, BrokerStates, Ended,
           Live
    <2>2. Owners'
      BY <1>0, <1>9 DEF PlaceOrder, Goto, At, GoOn, locks, TypeOK, Owners
    <2>3. Swept'
      BY <1>0, <1>9 DEF PlaceOrder, Goto, At, GoOn, locks, TypeOK, Swept
    <2>4. BarredWait'
      BY <1>0, <1>9 DEF PlaceOrder, Goto, At, GoOn, locks, TypeOK, BarredWait
    <2> QED BY <2>1, <2>2, <2>3, <2>4 DEF CallInv
  <1>10. CASE Accepted(l)
    <2>1. TypeOK'
      BY <1>0, <1>10 DEF Accepted, Goto, At, GoOn, SetStatus, locks, TypeOK, Statuses, TERMINAL_STATUSES,
           IN_FLIGHT_STATUSES, Blocking, Steps, BeforePost, BrokerStates, Ended, Live, Owners
    <2>2. Owners'
      BY <1>0, <1>10 DEF Accepted, Goto, At, GoOn, SetStatus, locks, TypeOK, Owners
    <2>3. Swept'
      BY <1>0, <1>10 DEF Accepted, Goto, At, GoOn, SetStatus, locks, TypeOK, Swept
    <2>4. BarredWait'
      BY <1>0, <1>10 DEF Accepted, Goto, At, GoOn, SetStatus, locks, TypeOK, BarredWait
    <2> QED BY <2>1, <2>2, <2>3, <2>4 DEF CallInv
  <1>11. CASE DefinitivelyRejected(l)
    <2>1. TypeOK'
      BY <1>0, <1>11 DEF DefinitivelyRejected, Goto, At, SetStatus, Return, ReleaseReservation, TypeOK,
           Statuses, TERMINAL_STATUSES, IN_FLIGHT_STATUSES, Blocking, Steps, BeforePost, Owners
    <2>2. Owners'
      BY <1>0, <1>11 DEF DefinitivelyRejected, Goto, At, SetStatus, Return, ReleaseReservation, TypeOK, Owners
    <2>3. Swept'
      BY <1>0, <1>11 DEF DefinitivelyRejected, Goto, At, SetStatus, Return, ReleaseReservation, TypeOK, Swept
    <2>4. BarredWait'
      BY <1>0, <1>11 DEF DefinitivelyRejected, Goto, At, SetStatus, Return, ReleaseReservation, TypeOK,
           BarredWait
    <2> QED BY <2>1, <2>2, <2>3, <2>4 DEF CallInv
  <1>12. CASE Ambiguous(l)
    <2>1. TypeOK'
      BY <1>0, <1>12 DEF Ambiguous, Goto, At, SetStatus, Return, ReleaseReservation, TypeOK, Statuses,
           TERMINAL_STATUSES, IN_FLIGHT_STATUSES, Blocking, Steps, BeforePost, Owners
    <2>2. Owners'
      BY <1>0, <1>12 DEF Ambiguous, Goto, At, SetStatus, Return, ReleaseReservation, TypeOK, Owners
    <2>3. Swept'
      BY <1>0, <1>12 DEF Ambiguous, Goto, At, SetStatus, Return, ReleaseReservation, TypeOK, Swept
    <2>4. BarredWait'
      BY <1>0, <1>12 DEF Ambiguous, Goto, At, SetStatus, Return, ReleaseReservation, TypeOK, BarredWait
    <2> QED BY <2>1, <2>2, <2>3, <2>4 DEF CallInv
  <1>13. CASE Finalize(l)
    <2>1. TypeOK'
      BY <1>0, <1>13 DEF Finalize, Goto, At, SetStatus, Return, ReleaseReservation, Resolved, TypeOK,
           Statuses, TERMINAL_STATUSES, IN_FLIGHT_STATUSES, Blocking, Steps, BeforePost, BrokerStates,
           Ended, Owners
    <2>2. Owners'
      BY <1>0, <1>13 DEF Finalize, Goto, At, SetStatus, Return, ReleaseReservation, Resolved, TypeOK, Owners
    <2>3. Swept'
      BY <1>0, <1>13 DEF Finalize, Goto, At, SetStatus, Return, ReleaseReservation, Resolved, TypeOK,
           Swept, Statuses, TERMINAL_STATUSES, IN_FLIGHT_STATUSES, Blocking, Stranded, Ended
    <2>4. BarredWait'
      BY <1>0, <1>13 DEF Finalize, Goto, At, SetStatus, Return, ReleaseReservation, Resolved, TypeOK,
           BarredWait
    <2> QED BY <2>1, <2>2, <2>3, <2>4 DEF CallInv
  <1>14. CASE PollTimeout(l)
    <2>1. TypeOK'
      BY <1>0, <1>14 DEF PollTimeout, Goto, At, SetStatus, Return, ReleaseReservation, TypeOK, Statuses,
           TERMINAL_STATUSES, IN_FLIGHT_STATUSES, Blocking, Steps, BeforePost, Owners
    <2>2. Owners'
      BY <1>0, <1>14 DEF PollTimeout, Goto, At, SetStatus, Return, ReleaseReservation, TypeOK, Owners
    <2>3. Swept'
      BY <1>0, <1>14 DEF PollTimeout, Goto, At, SetStatus, Return, ReleaseReservation, TypeOK, Swept
    <2>4. BarredWait'
      BY <1>0, <1>14 DEF PollTimeout, Goto, At, SetStatus, Return, ReleaseReservation, TypeOK, BarredWait
    <2> QED BY <2>1, <2>2, <2>3, <2>4 DEF CallInv
  <1> QED BY <1>1, <1>2, <1>3, <1>4, <1>5, <1>6, <1>7, <1>8, <1>9, <1>10, <1>11, <1>12, <1>13, <1>14 DEF Lane

\* The steps of the broker and of a reconciliation pass.
LEMMA BrokerKeepsCalls ==
    ASSUME CallInv, NEW i \in Ids, Deliver(i) \/ EndOrder(i) \/ Attribute(i) \/ RecoverInflight(i)
    PROVE  CallInv'
  <1> USE ExecutionAssumption
  <1>0. TypeOK /\ Owners /\ Swept /\ BarredWait
    BY DEF CallInv
  <1>1. CASE Deliver(i)
    <2>1. TypeOK'
      BY <1>0, <1>1 DEF Deliver, caller, locks, TypeOK, BrokerStates, Ended, Live
    <2>2. Owners'
      BY <1>0, <1>1 DEF Deliver, caller, locks, TypeOK, Owners
    <2>3. Swept'
      BY <1>0, <1>1 DEF Deliver, caller, locks, TypeOK, Swept
    <2>4. BarredWait'
      BY <1>0, <1>1 DEF Deliver, caller, locks, TypeOK, BarredWait
    <2> QED BY <2>1, <2>2, <2>3, <2>4 DEF CallInv
  <1>2. CASE EndOrder(i)
    <2>1. TypeOK'
      BY <1>0, <1>2 DEF EndOrder, caller, locks, Ended, TypeOK, BrokerStates, Live
    <2>2. Owners'
      BY <1>0, <1>2 DEF EndOrder, caller, locks, Ended, TypeOK, Owners
    <2>3. Swept'
      BY <1>0, <1>2 DEF EndOrder, caller, locks, Ended, TypeOK, Swept
    <2>4. BarredWait'
      BY <1>0, <1>2 DEF EndOrder, caller, locks, Ended, TypeOK, BarredWait
    <2> QED BY <2>1, <2>2, <2>3, <2>4 DEF CallInv
  <1>3. CASE Attribute(i)
    <2>1. TypeOK'
      BY <1>0, <1>3 DEF Attribute, caller, locks, TypeOK
    <2>2. Owners'
      BY <1>0, <1>3 DEF Attribute, caller, locks, TypeOK, Owners
    <2>3. Swept'
      BY <1>0, <1>3 DEF Attribute, caller, locks, TypeOK, Swept
    <2>4. BarredWait'
      BY <1>0, <1>3 DEF Attribute, caller, locks, TypeOK, BarredWait
    <2> QED BY <2>1, <2>2, <2>3, <2>4 DEF CallInv
  <1>4. CASE RecoverInflight(i)
    <2>1. TypeOK'
      BY <1>0, <1>4 DEF RecoverInflight, caller, locks, SetStatus, Resolved, Ended, TypeOK, Statuses,
           TERMINAL_STATUSES, IN_FLIGHT_STATUSES, Blocking, BrokerStates
    <2>2. Owners'
      BY <1>0, <1>4 DEF RecoverInflight, caller, locks, SetStatus, Resolved, Ended, TypeOK, Owners
    <2>3. Swept'
      BY <1>0, <1>4 DEF RecoverInflight, caller, locks, SetStatus, Resolved, Ended, TypeOK, Swept
    <2>4. BarredWait'
      BY <1>0, <1>4 DEF RecoverInflight, caller, locks, SetStatus, Resolved, Ended, TypeOK, BarredWait
    <2> QED BY <2>1, <2>2, <2>3, <2>4 DEF CallInv
  <1> QED BY <1>1, <1>2, <1>3, <1>4

\* The steps of the stranded-intent sweep.
LEMMA SweepKeepsCalls ==
    ASSUME CallInv, Sweep
    PROVE  CallInv'
  <1> USE ExecutionAssumption
  <1>0. TypeOK /\ Owners /\ Swept /\ BarredWait
    BY DEF CallInv
  <1>1. CASE SweepLookup
    <2>1. TypeOK'
      BY <1>0, <1>1 DEF SweepLookup, caller, locks, TypeOK
    <2>2. Owners'
      BY <1>0, <1>1 DEF SweepLookup, caller, locks, TypeOK, Owners
    <2>3. Swept'
      BY <1>0, <1>1 DEF SweepLookup, caller, locks, TypeOK, Swept
    <2>4. BarredWait'
      BY <1>0, <1>1 DEF SweepLookup, caller, locks, TypeOK, BarredWait
    <2> QED BY <2>1, <2>2, <2>3, <2>4 DEF CallInv
  <1>2. CASE SweepGivesUp
    <2>1. TypeOK'
      BY <1>0, <1>2 DEF SweepGivesUp, SweepEnds, caller, ReleaseReservation, NoSweep, TypeOK, Statuses,
           TERMINAL_STATUSES, IN_FLIGHT_STATUSES, Blocking, Steps, BeforePost, BrokerStates, Live, Ended,
           Stranded
    <2>2. Owners'
      BY <1>0, <1>2 DEF SweepGivesUp, SweepEnds, caller, ReleaseReservation, NoSweep, TypeOK, Owners
    <2>3. Swept'
      BY <1>0, <1>2 DEF SweepGivesUp, SweepEnds, caller, ReleaseReservation, NoSweep, TypeOK, Swept
    <2>4. BarredWait'
      BY <1>0, <1>2 DEF SweepGivesUp, SweepEnds, caller, ReleaseReservation, NoSweep, TypeOK, BarredWait
    <2> QED BY <2>1, <2>2, <2>3, <2>4 DEF CallInv
  <1>3. CASE SweepCommits
    <2>1. TypeOK'
      BY <1>0, <1>3 DEF SweepCommits, SweepEnds, caller, ReleaseReservation, NoSweep, SetStatus, Verdict,
           TypeOK, Statuses, TERMINAL_STATUSES, IN_FLIGHT_STATUSES, Blocking, Swept
    <2>2. Owners'
      BY <1>0, <1>3 DEF SweepCommits, SweepEnds, caller, ReleaseReservation, NoSweep, SetStatus, Verdict,
           TypeOK, Owners
    <2>3. Swept'
      BY <1>0, <1>3 DEF SweepCommits, SweepEnds, caller, ReleaseReservation, NoSweep, SetStatus, Verdict,
           TypeOK, Swept
    <2>4. BarredWait'
      BY <1>0, <1>3 DEF SweepCommits, SweepEnds, caller, ReleaseReservation, NoSweep, SetStatus, Verdict,
           TypeOK, BarredWait
    <2> QED BY <2>1, <2>2, <2>3, <2>4 DEF CallInv
  <1>4. ASSUME NEW i \in Ids, SweepReserve(i) PROVE CallInv'
    <2>1. TypeOK'
      BY <1>0, <1>4 DEF SweepReserve, caller, TypeOK, Statuses, TERMINAL_STATUSES, IN_FLIGHT_STATUSES,
           Blocking, Stranded
    <2>2. Owners'
      BY <1>0, <1>4 DEF SweepReserve, caller, TypeOK, Owners
    <2>3. Swept'
      <3>1. i \in Ids /\ i # 0 /\ status[i] # "absent" /\ status' = status
            /\ sweep' = [on |-> i, saw |-> status[i], at |-> "reading"]
        BY <1>4 DEF SweepReserve, Stranded, Ids
      <3> QED BY <3>1 DEF Swept
    <2>4. BarredWait'
      BY <1>0, <1>4 DEF SweepReserve, caller, TypeOK, BarredWait
    <2> QED BY <2>1, <2>2, <2>3, <2>4 DEF CallInv
  <1> QED BY <1>1, <1>2, <1>3, <1>4 DEF Sweep

\* The steps of time, crashes and the operator.
LEMMA WorldKeepsCalls ==
    ASSUME CallInv, Lapse \/ Crash \/ Expire \/ Stop \/ Start
    PROVE  CallInv'
  <1> USE ExecutionAssumption
  <1>0. TypeOK /\ Owners /\ Swept /\ BarredWait
    BY DEF CallInv
  <1>1. CASE Lapse
    <2>1. TypeOK'
      BY <1>0, <1>1 DEF Lapse, caller, TypeOK
    <2>2. Owners'
      BY <1>0, <1>1 DEF Lapse, caller, TypeOK, Owners
    <2>3. Swept'
      BY <1>0, <1>1 DEF Lapse, caller, TypeOK, Swept
    <2>4. BarredWait'
      BY <1>0, <1>1 DEF Lapse, caller, TypeOK, BarredWait
    <2> QED BY <2>1, <2>2, <2>3, <2>4 DEF CallInv
  <1>2. CASE Crash
    <2>1. TypeOK'
      BY <1>0, <1>2 DEF Crash, NoSweep, TypeOK, Statuses, TERMINAL_STATUSES, IN_FLIGHT_STATUSES, Blocking,
           Steps, BeforePost, BrokerStates, Live, Ended, Stranded
    <2>2. Owners'
      BY <1>0, <1>2 DEF Crash, NoSweep, TypeOK, Owners
    <2>3. Swept'
      BY <1>0, <1>2 DEF Crash, NoSweep, TypeOK, Swept
    <2>4. BarredWait'
      BY <1>0, <1>2 DEF Crash, NoSweep, TypeOK, BarredWait
    <2> QED BY <2>1, <2>2, <2>3, <2>4 DEF CallInv
  <1>3. CASE Expire
    <2>1. TypeOK'
      BY <1>0, <1>3 DEF Expire, caller, ReleaseReservation, TypeOK
    <2>2. Owners'
      BY <1>0, <1>3 DEF Expire, caller, ReleaseReservation, TypeOK, Owners
    <2>3. Swept'
      BY <1>0, <1>3 DEF Expire, caller, ReleaseReservation, TypeOK, Swept
    <2>4. BarredWait'
      BY <1>0, <1>3 DEF Expire, caller, ReleaseReservation, TypeOK, BarredWait
    <2> QED BY <2>1, <2>2, <2>3, <2>4 DEF CallInv
  <1>4. CASE Stop
    <2>1. TypeOK'
      BY <1>0, <1>4 DEF Stop, caller, locks, TypeOK
    <2>2. Owners'
      BY <1>0, <1>4 DEF Stop, caller, locks, TypeOK, Owners
    <2>3. Swept'
      BY <1>0, <1>4 DEF Stop, caller, locks, TypeOK, Swept
    <2>4. BarredWait'
      BY <1>0, <1>4 DEF Stop, caller, locks, TypeOK, BarredWait
    <2> QED BY <2>1, <2>2, <2>3, <2>4 DEF CallInv
  <1>5. CASE Start
    <2>1. TypeOK'
      BY <1>0, <1>5 DEF Start, caller, locks, TypeOK
    <2>2. Owners'
      BY <1>0, <1>5 DEF Start, caller, locks, TypeOK, Owners
    <2>3. Swept'
      BY <1>0, <1>5 DEF Start, caller, locks, TypeOK, Swept
    <2>4. BarredWait'
      BY <1>0, <1>5 DEF Start, caller, locks, TypeOK, BarredWait
    <2> QED BY <2>1, <2>2, <2>3, <2>4 DEF CallInv
  <1> QED BY <1>1, <1>2, <1>3, <1>4, <1>5

\* The steps of a lane.
LEMMA LaneKeepsOrders ==
    ASSUME Timely, OrderInv, NEW l \in Lanes, Lane(l)
    PROVE  OrderInv'
  <1> USE ExecutionAssumption
  <1>0. TypeOK /\ Owners /\ Swept /\ Rows /\ Sweeping /\ Verdicts /\ Exclusive
    BY DEF OrderInv, CallInv
  <1>00. CallInv'
    BY LaneKeepsCalls DEF OrderInv
  <1>1. CASE Reserve(l)
    <2>1. Rows'
      BY <1>0, <1>1 DEF Reserve, Goto, At, TypeOK, Rows, Owners, Sweeping, Verdicts, BeforePost, Steps
    <2>2. Sweeping'
      BY <1>0, <1>1 DEF Reserve, Goto, At, TypeOK, Sweeping, Owners
    <2>3. Verdicts'
      BY <1>0, <1>1 DEF Reserve, Goto, At, TypeOK, Verdicts
    <2>4. Exclusive'
      BY <1>0, <1>1 DEF Reserve, Goto, At, TypeOK, Exclusive, Owners, Rows, Verdicts, Sending, Bound,
           Known, Asset, OnBook, BeforePost, Blocking, IN_FLIGHT_STATUSES, Assets
    <2> QED BY <1>00, <2>1, <2>2, <2>3, <2>4 DEF OrderInv
  <1>2. CASE Propose(l)
    <2>1. Rows'
      <3>1. PICK i \in Ids \ Known : /\ status' = [status EXCEPT ![i] = "proposed"]
                                    /\ work' = [work EXCEPT ![l] = i]
        BY <1>2 DEF Propose, SetStatus
      <3>2. status[i] = "absent" /\ broker[i] = "unsent" /\ i \in Ids
        BY <1>0, <3>1 DEF Known, Verdicts
      <3>3. pc' = [pc EXCEPT ![l] = "proposed"] /\ broker' = broker
        BY <1>2 DEF Propose, Goto
      <3> QED BY <1>0, <3>1, <3>2, <3>3 DEF TypeOK, Owners, Rows, BeforePost
    <2>2. Sweeping'
      BY <1>0, <1>2 DEF Propose, Goto, At, SetStatus, Known, TypeOK, Sweeping, Owners, Swept, Rows, Live,
           BeforePost
    <2>3. Verdicts'
      BY <1>0, <1>2 DEF Propose, Goto, At, SetStatus, Known, TypeOK, Verdicts, Owners, Rows, Sweeping,
           OnBook, Live, Ended, Blocking, IN_FLIGHT_STATUSES
    <2>4. Exclusive'
      BY <1>0, <1>2 DEF Propose, Goto, At, SetStatus, Known, TypeOK, Exclusive, Owners, Rows, Verdicts,
           Sending, Bound, Asset, OnBook, BeforePost, Blocking, IN_FLIGHT_STATUSES, Assets, MayPropose,
           InFlight
    <2> QED BY <1>00, <2>1, <2>2, <2>3, <2>4 DEF OrderInv
  <1>3. CASE Skip(l)
    <2>1. Rows'
      BY <1>0, <1>3 DEF Skip, Goto, At, Return, ReleaseReservation, TypeOK, Rows, Owners, Sweeping,
           Verdicts, BeforePost, Steps
    <2>2. Sweeping'
      BY <1>0, <1>3 DEF Skip, Goto, At, Return, ReleaseReservation, TypeOK, Sweeping, Owners
    <2>3. Verdicts'
      BY <1>0, <1>3 DEF Skip, Goto, At, Return, ReleaseReservation, TypeOK, Verdicts
    <2>4. Exclusive'
      <3>1. \A k \in Lanes : Bound(k)' => Bound(k) /\ work'[k] = work[k]
        BY <1>0, <1>3 DEF Skip, Goto, Return, ReleaseReservation, TypeOK, Assets, Bound, BeforePost
      <3>2. \A j \in Ids : status'[j] # "absent" => status[j] # "absent"
        BY <1>0, <1>3 DEF Skip, At, Return, TypeOK, Owners
      <3> QED BY <1>0, <1>3, <3>1, <3>2, ExclusiveStays DEF Skip, Bound
    <2> QED BY <1>00, <2>1, <2>2, <2>3, <2>4 DEF OrderInv
  <1>4. CASE Decide(l)
    <2>1. Rows'
      BY <1>0, <1>4 DEF Decide, Goto, At, GoOn, locks, TypeOK, Rows, Owners, Sweeping, Verdicts,
           BeforePost, Steps
    <2>2. Sweeping'
      BY <1>0, <1>4 DEF Decide, Goto, At, GoOn, locks, TypeOK, Sweeping, Owners, Swept, Rows, Live, BeforePost
    <2>3. Verdicts'
      BY <1>0, <1>4 DEF Decide, Goto, At, GoOn, locks, TypeOK, Verdicts
    <2>4. Exclusive'
      BY <1>0, <1>4 DEF Decide, Goto, At, GoOn, locks, TypeOK, Exclusive, Owners, Rows, Verdicts, Sending,
           Bound, Known, Asset, OnBook, BeforePost, Blocking, IN_FLIGHT_STATUSES, Assets
    <2> QED BY <1>00, <2>1, <2>2, <2>3, <2>4 DEF OrderInv
  <1>5. CASE Approve(l)
    <2>1. Rows'
      BY <1>0, <1>5 DEF Approve, Goto, At, SetStatus, TypeOK, Rows, Owners, Sweeping, Verdicts, BeforePost,
           Steps
    <2>2. Sweeping'
      BY <1>0, <1>5 DEF Approve, Goto, At, SetStatus, TypeOK, Sweeping, Owners, Swept, Rows, Live, BeforePost
    <2>3. Verdicts'
      BY <1>0, <1>5 DEF Approve, Goto, At, SetStatus, TypeOK, Verdicts, Owners, Rows, Sweeping, OnBook,
           Live, Ended, Blocking, IN_FLIGHT_STATUSES
    <2>4. Exclusive'
      BY <1>0, <1>5 DEF Approve, Goto, At, SetStatus, TypeOK, Exclusive, Owners, Rows, Verdicts, Sending,
           Bound, Known, Asset, OnBook, BeforePost, Blocking, IN_FLIGHT_STATUSES, Assets
    <2> QED BY <1>00, <2>1, <2>2, <2>3, <2>4 DEF OrderInv
  <1>6. CASE Recheck(l)
    <2>1. Rows'
      BY <1>0, <1>6 DEF Recheck, Goto, At, locks, TypeOK, Rows, Owners, Sweeping, Verdicts, BeforePost, Steps
    <2>2. Sweeping'
      BY <1>0, <1>6 DEF Recheck, Goto, At, locks, TypeOK, Sweeping, Owners, Swept, Rows, Live, BeforePost
    <2>3. Verdicts'
      BY <1>0, <1>6 DEF Recheck, Goto, At, locks, TypeOK, Verdicts
    <2>4. Exclusive'
      BY <1>0, <1>6 DEF Recheck, Goto, At, locks, TypeOK, Exclusive, Owners, Rows, Verdicts, Sending,
           Bound, Known, Asset, OnBook, BeforePost, Blocking, IN_FLIGHT_STATUSES, Assets
    <2> QED BY <1>00, <2>1, <2>2, <2>3, <2>4 DEF OrderInv
  <1>7. CASE MarkSubmitted(l)
    <2>1. Rows'
      BY <1>0, <1>7 DEF MarkSubmitted, Goto, At, GoOn, SetStatus, locks, TypeOK, Rows, Owners, Sweeping,
           Verdicts, BeforePost, Steps
    <2>2. Sweeping'
      BY <1>0, <1>7 DEF MarkSubmitted, Goto, At, GoOn, SetStatus, locks, TypeOK, Sweeping, Owners, Swept,
           Rows, Live, BeforePost
    <2>3. Verdicts'
      BY <1>0, <1>7 DEF MarkSubmitted, Goto, At, GoOn, SetStatus, locks, TypeOK, Verdicts, Owners, Rows,
           Sweeping, OnBook, Live, Ended, Blocking, IN_FLIGHT_STATUSES
    <2>4. Exclusive'
      BY <1>0, <1>7 DEF MarkSubmitted, Goto, At, GoOn, SetStatus, locks, TypeOK, Exclusive, Owners, Rows,
           Verdicts, Sending, Bound, Known, Asset, OnBook, BeforePost, Blocking, IN_FLIGHT_STATUSES, Assets
    <2> QED BY <1>00, <2>1, <2>2, <2>3, <2>4 DEF OrderInv
  <1>8. CASE RejectBeforeSubmission(l)
    <2>1. Rows'
      BY <1>0, <1>8 DEF RejectBeforeSubmission, Goto, SetStatus, Return, ReleaseReservation, TypeOK, Rows,
           Owners, BeforePost
    <2>2. Sweeping'
      BY <1>0, <1>8 DEF RejectBeforeSubmission, Goto, SetStatus, Return, ReleaseReservation, TypeOK,
           Sweeping, Owners, BeforePost
    <2>3. Verdicts'
      BY <1>0, <1>8 DEF RejectBeforeSubmission, Goto, SetStatus, Return, ReleaseReservation, TypeOK,
           Verdicts, Owners, Rows, Sweeping, OnBook, Live, Ended, Blocking, IN_FLIGHT_STATUSES
    <2>4. Exclusive'
      <3>1. \A k \in Lanes : Bound(k)' => Bound(k) /\ work'[k] = work[k]
        BY <1>0, <1>8 DEF RejectBeforeSubmission, Goto, SetStatus, Return, ReleaseReservation, TypeOK,
             Assets, Bound, BeforePost
      <3>2. \A j \in Ids : status'[j] # "absent" => status[j] # "absent"
        BY <1>0, <1>8 DEF RejectBeforeSubmission, SetStatus, Return, TypeOK, Owners, BeforePost
      <3> QED BY <1>0, <1>8, <3>1, <3>2, ExclusiveStays DEF RejectBeforeSubmission, Bound
    <2> QED BY <1>00, <2>1, <2>2, <2>3, <2>4 DEF OrderInv
  <1>9. CASE PlaceOrder(l)
    <2>1. Rows'
      BY <1>0, <1>9 DEF PlaceOrder, Goto, At, GoOn, locks, TypeOK, Rows, Owners, Sweeping, Verdicts,
           BeforePost, Steps
    <2>2. Sweeping'
      BY <1>0, <1>9 DEF PlaceOrder, Goto, At, GoOn, locks, TypeOK, Sweeping, Owners, Swept, Rows, Live,
           BeforePost
    <2>3. Verdicts'
      BY <1>0, <1>9 DEF PlaceOrder, Goto, At, GoOn, locks, TypeOK, Verdicts, Owners, Rows, Sweeping,
           OnBook, Live, Ended, Blocking, IN_FLIGHT_STATUSES
    <2>4. Exclusive'
      BY <1>0, <1>9 DEF PlaceOrder, Goto, At, GoOn, locks, TypeOK, Exclusive, Sending, Bound, Known, Asset
    <2> QED BY <1>00, <2>1, <2>2, <2>3, <2>4 DEF OrderInv
  <1>10. CASE Accepted(l)
    <2>1. Rows'
      BY <1>0, <1>10 DEF Accepted, Goto, At, GoOn, SetStatus, locks, TypeOK, Rows, Owners, Sweeping,
           Verdicts, BeforePost, Steps
    <2>2. Sweeping'
      BY <1>0, <1>10 DEF Accepted, Goto, At, GoOn, SetStatus, locks, TypeOK, Sweeping, Owners, Swept, Rows,
           Live, BeforePost
    <2>3. Verdicts'
      BY <1>0, <1>10 DEF Accepted, Goto, At, GoOn, SetStatus, locks, TypeOK, Verdicts, Owners, Rows,
           Sweeping, OnBook, Live, Ended, Blocking, IN_FLIGHT_STATUSES
    <2>4. Exclusive'
      BY <1>0, <1>10 DEF Accepted, Goto, At, GoOn, SetStatus, locks, TypeOK, Exclusive, Owners, Rows,
           Verdicts, Sending, Bound, Known, Asset, OnBook, BeforePost, Blocking, IN_FLIGHT_STATUSES, Assets
    <2> QED BY <1>00, <2>1, <2>2, <2>3, <2>4 DEF OrderInv
  <1>11. CASE DefinitivelyRejected(l)
    <2>1. Rows'
      BY <1>0, <1>11 DEF DefinitivelyRejected, Goto, At, SetStatus, Return, ReleaseReservation, TypeOK,
           Rows, Owners, Sweeping, Verdicts, BeforePost, Steps
    <2>2. Sweeping'
      BY <1>0, <1>11 DEF DefinitivelyRejected, Goto, At, SetStatus, Return, ReleaseReservation, TypeOK,
           Sweeping, Owners
    <2>3. Verdicts'
      BY <1>0, <1>11 DEF DefinitivelyRejected, Goto, At, SetStatus, Return, ReleaseReservation, TypeOK,
           Verdicts, Owners, Rows, Sweeping, OnBook, Live, Ended, Blocking, IN_FLIGHT_STATUSES
    <2>4. Exclusive'
      <3>1. \A k \in Lanes : Bound(k)' => Bound(k) /\ work'[k] = work[k]
        BY <1>0, <1>11 DEF DefinitivelyRejected, Goto, SetStatus, Return, ReleaseReservation, TypeOK,
             Assets, Bound, BeforePost
      <3>2. \A j \in Ids : status'[j] # "absent" => status[j] # "absent"
        BY <1>0, <1>11 DEF DefinitivelyRejected, At, SetStatus, Return, TypeOK, Owners
      <3> QED BY <1>0, <1>11, <3>1, <3>2, ExclusiveStays DEF DefinitivelyRejected, Bound
    <2> QED BY <1>00, <2>1, <2>2, <2>3, <2>4 DEF OrderInv
  <1>12. CASE Ambiguous(l)
    <2>1. Rows'
      BY <1>0, <1>12 DEF Ambiguous, Goto, At, SetStatus, Return, ReleaseReservation, TypeOK, Rows, Owners,
           Sweeping, Verdicts, BeforePost, Steps
    <2>2. Sweeping'
      BY <1>0, <1>12 DEF Ambiguous, Goto, At, SetStatus, Return, ReleaseReservation, TypeOK, Sweeping, Owners
    <2>3. Verdicts'
      BY <1>0, <1>12 DEF Ambiguous, Goto, At, SetStatus, Return, ReleaseReservation, TypeOK, Verdicts,
           Owners, Rows, Sweeping, OnBook, Live, Ended, Blocking, IN_FLIGHT_STATUSES
    <2>4. Exclusive'
      <3>1. \A k \in Lanes : Bound(k)' => Bound(k) /\ work'[k] = work[k]
        BY <1>0, <1>12 DEF Ambiguous, Goto, SetStatus, Return, ReleaseReservation, TypeOK, Assets, Bound,
             BeforePost
      <3>2. \A j \in Ids : status'[j] # "absent" => status[j] # "absent"
        BY <1>0, <1>12 DEF Ambiguous, At, SetStatus, Return, TypeOK, Owners
      <3> QED BY <1>0, <1>12, <3>1, <3>2, ExclusiveStays DEF Ambiguous, Bound
    <2> QED BY <1>00, <2>1, <2>2, <2>3, <2>4 DEF OrderInv
  <1>13. CASE Finalize(l)
    <2>1. Rows'
      BY <1>0, <1>13 DEF Finalize, Goto, At, SetStatus, Return, ReleaseReservation, Resolved, TypeOK, Rows,
           Owners, Sweeping, Verdicts, BeforePost, Steps
    <2>2. Sweeping'
      BY <1>0, <1>13 DEF Finalize, Goto, At, SetStatus, Return, ReleaseReservation, Resolved, TypeOK,
           Sweeping, Owners
    <2>3. Verdicts'
      BY <1>0, <1>13 DEF Finalize, Goto, At, SetStatus, Return, ReleaseReservation, Resolved, TypeOK,
           Verdicts, Owners, Rows, Sweeping, OnBook, Live, Ended, Blocking, IN_FLIGHT_STATUSES
    <2>4. Exclusive'
      <3>1. \A k \in Lanes : Bound(k)' => Bound(k) /\ work'[k] = work[k]
        BY <1>0, <1>13 DEF Finalize, Goto, SetStatus, Return, ReleaseReservation, Resolved, TypeOK, Assets,
             Bound, BeforePost
      <3>2. \A j \in Ids : status'[j] # "absent" => status[j] # "absent"
        BY <1>0, <1>13 DEF Finalize, At, SetStatus, Return, TypeOK, Owners
      <3> QED BY <1>0, <1>13, <3>1, <3>2, ExclusiveStays DEF Finalize, Bound
    <2> QED BY <1>00, <2>1, <2>2, <2>3, <2>4 DEF OrderInv
  <1>14. CASE PollTimeout(l)
    <2>1. Rows'
      BY <1>0, <1>14 DEF PollTimeout, Goto, At, SetStatus, Return, ReleaseReservation, TypeOK, Rows,
           Owners, Sweeping, Verdicts, BeforePost, Steps
    <2>2. Sweeping'
      BY <1>0, <1>14 DEF PollTimeout, Goto, At, SetStatus, Return, ReleaseReservation, TypeOK, Sweeping,
           Owners
    <2>3. Verdicts'
      BY <1>0, <1>14 DEF PollTimeout, Goto, At, SetStatus, Return, ReleaseReservation, TypeOK, Verdicts,
           Owners, Rows, Sweeping, OnBook, Live, Ended, Blocking, IN_FLIGHT_STATUSES
    <2>4. Exclusive'
      <3>1. \A k \in Lanes : Bound(k)' => Bound(k) /\ work'[k] = work[k]
        BY <1>0, <1>14 DEF PollTimeout, Goto, SetStatus, Return, ReleaseReservation, TypeOK, Assets, Bound,
             BeforePost
      <3>2. \A j \in Ids : status'[j] # "absent" => status[j] # "absent"
        BY <1>0, <1>14 DEF PollTimeout, At, SetStatus, Return, TypeOK, Owners
      <3> QED BY <1>0, <1>14, <3>1, <3>2, ExclusiveStays DEF PollTimeout, Bound
    <2> QED BY <1>00, <2>1, <2>2, <2>3, <2>4 DEF OrderInv
  <1> QED BY <1>1, <1>2, <1>3, <1>4, <1>5, <1>6, <1>7, <1>8, <1>9, <1>10, <1>11, <1>12, <1>13, <1>14 DEF Lane

\* The steps of the broker and of a reconciliation pass.
LEMMA BrokerKeepsOrders ==
    ASSUME Timely, OrderInv, NEW i \in Ids, Deliver(i) \/ EndOrder(i) \/ Attribute(i) \/ RecoverInflight(i)
    PROVE  OrderInv'
  <1> USE ExecutionAssumption
  <1>0. TypeOK /\ Owners /\ Swept /\ Rows /\ Sweeping /\ Verdicts /\ Exclusive
    BY DEF OrderInv, CallInv
  <1>00. CallInv'
    BY BrokerKeepsCalls DEF OrderInv
  <1>1. CASE Deliver(i)
    <2>1. Rows'
      BY <1>0, <1>1 DEF Deliver, caller, locks, TypeOK, Rows, Owners
    <2>2. Sweeping'
      BY <1>0, <1>1 DEF Deliver, caller, locks, TypeOK, Sweeping, Owners
    <2>3. Verdicts'
      BY <1>0, <1>1 DEF Deliver, caller, locks, TypeOK, Verdicts, Owners, Rows, Sweeping, OnBook, Live,
           Ended, Blocking, IN_FLIGHT_STATUSES
    <2>4. Exclusive'
      BY <1>0, <1>1 DEF Deliver, caller, locks, TypeOK, Exclusive, Owners, Rows, Verdicts, Sending, Bound,
           Known, Asset, OnBook, BeforePost, Blocking, IN_FLIGHT_STATUSES, Assets
    <2> QED BY <1>00, <2>1, <2>2, <2>3, <2>4 DEF OrderInv
  <1>2. CASE EndOrder(i)
    <2>1. Rows'
      BY <1>0, <1>2 DEF EndOrder, caller, locks, Ended, TypeOK, Rows, Owners
    <2>2. Sweeping'
      BY <1>0, <1>2 DEF EndOrder, caller, locks, Ended, TypeOK, Sweeping, Owners
    <2>3. Verdicts'
      BY <1>0, <1>2 DEF EndOrder, caller, locks, Ended, TypeOK, Verdicts, Owners, Rows, Sweeping, OnBook,
           Live, Blocking, IN_FLIGHT_STATUSES
    <2>4. Exclusive'
      BY <1>0, <1>2 DEF EndOrder, caller, locks, Ended, TypeOK, Exclusive, Owners, Rows, Verdicts, Sending,
           Bound, Known, Asset, OnBook, BeforePost, Blocking, IN_FLIGHT_STATUSES, Assets
    <2> QED BY <1>00, <2>1, <2>2, <2>3, <2>4 DEF OrderInv
  <1>3. CASE Attribute(i)
    <2>1. Rows'
      BY <1>0, <1>3 DEF Attribute, caller, locks, TypeOK, Rows, Owners
    <2>2. Sweeping'
      BY <1>0, <1>3 DEF Attribute, caller, locks, TypeOK, Sweeping, Owners
    <2>3. Verdicts'
      BY <1>0, <1>3 DEF Attribute, caller, locks, TypeOK, Verdicts
    <2>4. Exclusive'
      BY <1>0, <1>3 DEF Attribute, caller, locks, TypeOK, Exclusive, Sending, Bound, Known, Asset
    <2> QED BY <1>00, <2>1, <2>2, <2>3, <2>4 DEF OrderInv
  <1>4. CASE RecoverInflight(i)
    <2>1. Rows'
      BY <1>0, <1>4 DEF RecoverInflight, caller, locks, SetStatus, Resolved, Ended, TypeOK, Rows, Owners
    <2>2. Sweeping'
      BY <1>0, <1>4 DEF RecoverInflight, caller, locks, SetStatus, Resolved, Ended, TypeOK, Sweeping, Owners
    <2>3. Verdicts'
      BY <1>0, <1>4 DEF RecoverInflight, caller, locks, SetStatus, Resolved, Ended, TypeOK, Verdicts,
           Owners, Rows, Sweeping, OnBook, Live, Blocking, IN_FLIGHT_STATUSES
    <2>4. Exclusive'
      BY <1>0, <1>4 DEF RecoverInflight, caller, locks, SetStatus, Resolved, Ended, TypeOK, Exclusive,
           Sending, Bound, Known, Asset
    <2> QED BY <1>00, <2>1, <2>2, <2>3, <2>4 DEF OrderInv
  <1> QED BY <1>1, <1>2, <1>3, <1>4

\* The steps of the stranded-intent sweep.
LEMMA SweepKeepsOrders ==
    ASSUME Timely, OrderInv, Sweep
    PROVE  OrderInv'
  <1> USE ExecutionAssumption
  <1>0. TypeOK /\ Owners /\ Swept /\ Rows /\ Sweeping /\ Verdicts /\ Exclusive
    BY DEF OrderInv, CallInv
  <1>00. CallInv'
    BY SweepKeepsCalls DEF OrderInv
  <1>1. CASE SweepLookup
    <2>1. Rows'
      BY <1>0, <1>1 DEF SweepLookup, caller, locks, TypeOK, Rows, Owners
    <2>2. Sweeping'
      <3>1. sweep'.on = sweep.on /\ sweep'.at \in {"found", "absent"}
            /\ (sweep'.at = "absent" => broker[sweep.on] \notin Live)
        BY <1>0, <1>1 DEF SweepLookup, TypeOK
      <3>2. sweep.on # 0 => sweep.on \in Ids
        BY <1>0 DEF TypeOK
      <3> QED BY <1>0, <1>1, <3>1, <3>2 DEF SweepLookup, caller, TypeOK, Sweeping, BrokerStates, Live
    <2>3. Verdicts'
      BY <1>0, <1>1 DEF SweepLookup, caller, locks, TypeOK, Verdicts
    <2>4. Exclusive'
      BY <1>0, <1>1 DEF SweepLookup, caller, locks, TypeOK, Exclusive, Sending, Bound, Known, Asset
    <2> QED BY <1>00, <2>1, <2>2, <2>3, <2>4 DEF OrderInv
  <1>2. CASE SweepGivesUp
    <2>1. Rows'
      BY <1>0, <1>2 DEF SweepGivesUp, SweepEnds, caller, ReleaseReservation, NoSweep, TypeOK, Rows, Owners
    <2>2. Sweeping'
      BY <1>0, <1>2 DEF SweepGivesUp, SweepEnds, caller, ReleaseReservation, NoSweep, TypeOK, Sweeping, Owners
    <2>3. Verdicts'
      BY <1>0, <1>2 DEF SweepGivesUp, SweepEnds, caller, ReleaseReservation, NoSweep, TypeOK, Verdicts
    <2>4. Exclusive'
      <3>1. \A k \in Lanes : Bound(k)' => Bound(k) /\ work'[k] = work[k]
        BY <1>0, <1>2 DEF SweepGivesUp, SweepEnds, caller, ReleaseReservation, NoSweep, TypeOK, Assets,
             Bound, BeforePost
      <3>2. \A j \in Ids : status'[j] # "absent" => status[j] # "absent"
        BY <1>0, <1>2 DEF SweepGivesUp, SweepEnds, caller, TypeOK, Swept
      <3> QED BY <1>0, <1>2, <3>1, <3>2, ExclusiveStays DEF SweepGivesUp, SweepEnds, Bound
    <2> QED BY <1>00, <2>1, <2>2, <2>3, <2>4 DEF OrderInv
  <1>3. CASE SweepCommits
    <2>1. Rows'
      BY <1>0, <1>3 DEF SweepCommits, SweepEnds, caller, ReleaseReservation, NoSweep, SetStatus, Verdict,
           TypeOK, Rows, Owners, Sweeping, Verdicts, BeforePost, Steps
    <2>2. Sweeping'
      BY <1>0, <1>3 DEF SweepCommits, SweepEnds, caller, ReleaseReservation, NoSweep, SetStatus, Verdict,
           TypeOK, Sweeping, Owners
    <2>3. Verdicts'
      <3>1. sweep.on \in Ids /\ sweep.on # 0 /\ status' = [status EXCEPT ![sweep.on] = Verdict] /\ broker' = broker
        BY <1>0, <1>3 DEF SweepCommits, SweepEnds, SetStatus, TypeOK, Swept
      <3>2. Verdict = "accepted" \/ (Verdict = "rejected" /\ broker[sweep.on] \in {"unsent", "none"})
        BY <1>0, <1>3, <3>1 DEF SweepCommits, Verdict, Sweeping
      <3> QED BY <1>0, <3>1, <3>2 DEF TypeOK, Verdicts, OnBook, Blocking, IN_FLIGHT_STATUSES
    <2>4. Exclusive'
      <3>1. \A k \in Lanes : Bound(k)' => Bound(k) /\ work'[k] = work[k]
        BY <1>0, <1>3 DEF SweepCommits, SweepEnds, caller, ReleaseReservation, NoSweep, SetStatus, Verdict,
             TypeOK, Assets, Bound, BeforePost
      <3>2. \A j \in Ids : status'[j] # "absent" => status[j] # "absent"
        BY <1>0, <1>3 DEF SweepCommits, SweepEnds, caller, SetStatus, Verdict, TypeOK, Swept
      <3> QED BY <1>0, <1>3, <3>1, <3>2, ExclusiveStays DEF SweepCommits, SweepEnds, Bound
    <2> QED BY <1>00, <2>1, <2>2, <2>3, <2>4 DEF OrderInv
  <1>4. ASSUME NEW i \in Ids, SweepReserve(i) PROVE OrderInv'
    <2>1. Rows'
      BY <1>0, <1>4 DEF SweepReserve, caller, TypeOK, Rows, Owners
    <2>2. Sweeping'
      BY <1>0, <1>4 DEF SweepReserve, caller, TypeOK, Sweeping, Owners, PastGrace
    <2>3. Verdicts'
      BY <1>0, <1>4 DEF SweepReserve, caller, TypeOK, Verdicts
    <2>4. Exclusive'
      BY <1>0, <1>4 DEF SweepReserve, caller, TypeOK, Exclusive, Sending, Bound, Known, Asset
    <2> QED BY <1>00, <2>1, <2>2, <2>3, <2>4 DEF OrderInv
  <1> QED BY <1>1, <1>2, <1>3, <1>4 DEF Sweep

\* The steps of time, crashes and the operator.
LEMMA WorldKeepsOrders ==
    ASSUME Timely, OrderInv, Lapse \/ Crash \/ Expire \/ Stop \/ Start
    PROVE  OrderInv'
  <1> USE ExecutionAssumption
  <1>0. TypeOK /\ Owners /\ Swept /\ Rows /\ Sweeping /\ Verdicts /\ Exclusive
    BY DEF OrderInv, CallInv
  <1>00. CallInv'
    BY WorldKeepsCalls DEF OrderInv
  <1>1. CASE Lapse
    <2>1. Rows'
      BY <1>0, <1>1 DEF Lapse, caller, TypeOK, Rows, Owners
    <2>2. Sweeping'
      BY <1>0, <1>1 DEF Lapse, caller, TypeOK, Sweeping, Owners
    <2>3. Verdicts'
      BY <1>0, <1>1 DEF Lapse, caller, TypeOK, Verdicts
    <2>4. Exclusive'
      <3>1. ASSUME NEW a \in Assets, reservation' = [reservation EXCEPT ![a] = "free"]
            PROVE  \A k \in Lanes : reservation'[AssetOf[k]] = k => reservation[AssetOf[k]] = k
        BY <1>0, <3>1 DEF TypeOK, Assets
      <3>2. \A k \in Lanes : reservation'[AssetOf[k]] = k => reservation[AssetOf[k]] = k
        BY <1>1, <3>1 DEF Lapse
      <3>3. \A k \in Lanes : Bound(k)' => Bound(k) /\ work'[k] = work[k]
        BY <1>1, <3>2 DEF Lapse, caller, Bound
      <3> QED BY <1>0, <1>1, <3>3, ExclusiveStays DEF Lapse, Bound
    <2> QED BY <1>00, <2>1, <2>2, <2>3, <2>4 DEF OrderInv
  <1>2. CASE Crash
    <2>1. Rows'
      BY <1>0, <1>2 DEF Crash, NoSweep, TypeOK, Rows, Owners, Sweeping, Verdicts, BeforePost, Steps
    <2>2. Sweeping'
      BY <1>0, <1>2 DEF Crash, NoSweep, TypeOK, Sweeping, Owners
    <2>3. Verdicts'
      BY <1>0, <1>2 DEF Crash, NoSweep, TypeOK, Verdicts
    <2>4. Exclusive'
      BY <1>0, <1>2 DEF Crash, NoSweep, TypeOK, Exclusive, Owners, Rows, Verdicts, Sending, Bound, Known,
           Asset, OnBook, BeforePost, Blocking, IN_FLIGHT_STATUSES, Assets
    <2> QED BY <1>00, <2>1, <2>2, <2>3, <2>4 DEF OrderInv
  <1>3. CASE Expire
    <2>1. Rows'
      BY <1>0, <1>3 DEF Expire, caller, ReleaseReservation, TypeOK, Rows, Owners
    <2>2. Sweeping'
      BY <1>0, <1>3 DEF Expire, caller, ReleaseReservation, TypeOK, Sweeping, Owners
    <2>3. Verdicts'
      BY <1>0, <1>3 DEF Expire, caller, ReleaseReservation, TypeOK, Verdicts
    <2>4. Exclusive'
      <3>1. \A k \in Lanes : Bound(k)' => Bound(k) /\ work'[k] = work[k]
        BY <1>0, <1>3 DEF Expire, caller, ReleaseReservation, TypeOK, Assets, Bound, BeforePost
      <3>2. \A j \in Ids : status'[j] # "absent" => status[j] # "absent"
        BY <1>0, <1>3 DEF Expire, caller, TypeOK, Owners
      <3> QED BY <1>0, <1>3, <3>1, <3>2, ExclusiveStays DEF Expire, Bound
    <2> QED BY <1>00, <2>1, <2>2, <2>3, <2>4 DEF OrderInv
  <1>4. CASE Stop
    <2>1. Rows'
      BY <1>0, <1>4 DEF Stop, caller, locks, TypeOK, Rows, Owners
    <2>2. Sweeping'
      BY <1>0, <1>4 DEF Stop, caller, locks, TypeOK, Sweeping, Owners
    <2>3. Verdicts'
      BY <1>0, <1>4 DEF Stop, caller, locks, TypeOK, Verdicts
    <2>4. Exclusive'
      BY <1>0, <1>4 DEF Stop, caller, locks, TypeOK, Exclusive, Sending, Bound, Known, Asset
    <2> QED BY <1>00, <2>1, <2>2, <2>3, <2>4 DEF OrderInv
  <1>5. CASE Start
    <2>1. Rows'
      BY <1>0, <1>5 DEF Start, caller, locks, TypeOK, Rows, Owners
    <2>2. Sweeping'
      BY <1>0, <1>5 DEF Start, caller, locks, TypeOK, Sweeping, Owners
    <2>3. Verdicts'
      BY <1>0, <1>5 DEF Start, caller, locks, TypeOK, Verdicts
    <2>4. Exclusive'
      BY <1>0, <1>5 DEF Start, caller, locks, TypeOK, Exclusive, Sending, Bound, Known, Asset
    <2> QED BY <1>00, <2>1, <2>2, <2>3, <2>4 DEF OrderInv
  <1> QED BY <1>1, <1>2, <1>3, <1>4, <1>5

-----------------------------------------------------------------------------
\* Every step keeps what a call in progress relies on.
LEMMA CallsInductive ==
    ASSUME CallInv, [Next]_vars
    PROVE  CallInv'
  <1>1. CASE UNCHANGED vars
    BY <1>1 DEF vars, CallInv, TypeOK, Owners, Swept, BarredWait
  <1>2. CASE Next
    BY <1>2, LaneKeepsCalls, BrokerKeepsCalls, SweepKeepsCalls, WorldKeepsCalls DEF Next
  <1> QED BY <1>1, <1>2

\* With a timely sweep every step keeps the whole invariant.
LEMMA OrdersInductive ==
    ASSUME Timely, OrderInv, [Next]_vars
    PROVE  OrderInv'
  <1>1. CASE UNCHANGED vars
    <2>1. CallInv' BY CallsInductive DEF OrderInv
    <2> QED BY <1>1, <2>1 DEF vars, OrderInv, Rows, Sweeping, Verdicts, Exclusive, Sending, Bound, Known,
         Asset
  <1>2. CASE Next
    BY <1>2, LaneKeepsOrders, BrokerKeepsOrders, SweepKeepsOrders, WorldKeepsOrders DEF Next
  <1> QED BY <1>1, <1>2

\* Nothing is going on at first.
LEMMA Initially == Init => OrderInv
  <1> SUFFICES ASSUME Init PROVE OrderInv
    OBVIOUS
  <1> USE ExecutionAssumption DEF Init
  <1>1. TypeOK
    BY DEF TypeOK, NoSweep, Statuses, Blocking, Steps, BrokerStates
  <1>2. Owners /\ Swept /\ BarredWait
    BY DEF Owners, Swept, BarredWait, NoSweep
  <1>3. Rows /\ Sweeping /\ Verdicts /\ Exclusive
    BY DEF Rows, Sweeping, Verdicts, Exclusive, NoSweep, Known, BeforePost, OnBook
  <1> QED BY <1>1, <1>2, <1>3 DEF OrderInv, CallInv

\* Every state of the execution model is well typed, whatever the grace period.
THEOREM TypeCorrect == Spec => []TypeOK
  <1>1. Init => CallInv
    BY Initially DEF OrderInv
  <1>2. CallInv /\ [Next]_vars => CallInv'
    BY CallsInductive
  <1>3. CallInv => TypeOK
    BY DEF CallInv
  <1> QED BY <1>1, <1>2, <1>3, PTL DEF Spec

\* A stop holds back every buyer that has not passed the last session check:
\* no lane it barred sends before it has been let through (execute_intent).
THEOREM StopIsKept == Spec => StopHoldsBack
  <1>1. Init => CallInv
    BY Initially DEF OrderInv
  <1>2. CallInv /\ [Next]_vars => CallInv'
    BY CallsInductive
  <1>3. CallInv /\ [Next]_vars => [\A l \in barred : pc'[l] # "sent"]_vars
    <2> SUFFICES ASSUME CallInv, Next, NEW l \in barred PROVE pc'[l] # "sent"
      OBVIOUS
    <2>1. l \in Lanes /\ pc[l] \in {"proposed", "decided", "approved"} /\ pc \in [Lanes -> Steps]
      BY DEF CallInv, BarredWait, TypeOK, Lanes
    <2>2. ASSUME NEW k \in Lanes, Lane(k) PROVE pc'[l] # "sent"
      BY <2>1, <2>2 DEF Lane, Reserve, Propose, Skip, Decide, Approve, Recheck, MarkSubmitted,
           RejectBeforeSubmission, PlaceOrder, Accepted, DefinitivelyRejected, Ambiguous, Finalize,
           PollTimeout, Return, GoOn, Goto, At
    <2>3. CASE Crash
      BY <2>1, <2>3 DEF Crash
    <2>4. CASE \/ \E i \in Ids : Deliver(i) \/ EndOrder(i) \/ Attribute(i) \/ RecoverInflight(i)
               \/ Sweep \/ Lapse \/ Expire \/ Stop \/ Start
      BY <2>1, <2>4 DEF Deliver, EndOrder, Attribute, RecoverInflight, Sweep, SweepLookup, SweepGivesUp,
           SweepCommits, SweepReserve, SweepEnds, Lapse, Expire, Stop, Start, caller
    <2> QED BY <2>2, <2>3, <2>4 DEF Next
  <1> QED BY <1>1, <1>2, <1>3, PTL DEF Spec, StopHoldsBack

\* With a timely sweep no two orders of one asset are ever on their way to the
\* broker or open there (execution/idempotency.py).
THEOREM OneOrderPerAsset == ASSUME Timely PROVE Spec => []OneLiveOrderPerAsset
  <1>1. Init => OrderInv
    BY Initially
  <1>2. OrderInv /\ [Next]_vars => OrderInv'
    BY OrdersInductive
  <1>3. OrderInv => OneLiveOrderPerAsset
    BY DEF OrderInv, Exclusive, Sending, OneLiveOrderPerAsset
  <1> QED BY <1>1, <1>2, <1>3, PTL DEF Spec

\* With a timely sweep an intent closed as rejected has no order at the broker
\* and none on its way (_recover_unknown_submission, _resolve_stranded).
THEOREM RejectedHasNoOrder == ASSUME Timely PROVE Spec => []ClosedMeansNoOrder
  <1>1. Init => OrderInv
    BY Initially
  <1>2. OrderInv /\ [Next]_vars => OrderInv'
    BY OrdersInductive
  <1>3. OrderInv => ClosedMeansNoOrder
    BY DEF OrderInv, Verdicts, ClosedMeansNoOrder, Live
  <1> QED BY <1>1, <1>2, <1>3, PTL DEF Spec

-----------------------------------------------------------------------------
(* What the account can pay for.  A buyer decides on Pending and the        *)
(* account's figure together, and no buyer but the holder of the portfolio  *)
(* lease approves; so while a decided buyer still holds it there is room    *)
(* for one more order (Room).                                               *)

\* A lane that has sent knows of a POST, and the sweep of the order it found.
Answered == \A l \in Lanes : pc[l] \in {"sent", "polling"} => broker[work[l]] # "unsent"
Found == sweep.at = "found" => broker[sweep.on] \in Live

\* Only fills are attributed.
FillsOnly == \A i \in attributed : broker[i] = "filled"

Room == \A l \in Buyers : pc[l] = "decided" /\ portfolio = l => Cardinality(Committed) < Cash

FundInv == Answered /\ Found /\ FillsOnly /\ Room /\ FundedOnce

\* Sets of intents are finite, and a part has no more members than the whole.
LEMMA IntentSets ==
    ASSUME NEW S \in SUBSET Ids
    PROVE  /\ IsFiniteSet(S) /\ Cardinality(S) \in Nat
           /\ \A T \in SUBSET S : Cardinality(T) <= Cardinality(S)
  <1>1. IsFiniteSet(Ids)
    BY FS_Interval, ExecutionAssumption DEF Ids
  <1>2. IsFiniteSet(S)
    BY <1>1, FS_Subset
  <1> QED
    BY <1>2, FS_Subset, FS_CardinalityType

\* One more intent is at most one more.
LEMMA OneMore ==
    ASSUME NEW S \in SUBSET Ids, NEW i \in Ids
    PROVE  Cardinality(S \cup {i}) <= Cardinality(S) + 1
  <1>1. IsFiniteSet(S) /\ Cardinality(S) \in Nat
    BY IntentSets
  <1>2. Cardinality(S \cup {i}) = IF i \in S THEN Cardinality(S) ELSE Cardinality(S) + 1
    BY <1>1, FS_AddElement
  <1> QED
    BY <1>1, <1>2

\* Where nothing is committed and no buyer decides, the room stays.
LEMMA RoomStays ==
    ASSUME FundInv, Committed' \subseteq Committed,
           \A l \in Buyers : pc'[l] = "decided" /\ portfolio' = l => pc[l] = "decided" /\ portfolio = l
    PROVE  Room' /\ FundedOnce'
  <1>1. Committed \in SUBSET Ids /\ Committed' \in SUBSET Ids
    BY DEF Committed
  <1>2. /\ Cardinality(Committed) \in Nat /\ Cardinality(Committed') \in Nat
        /\ Cardinality(Committed') <= Cardinality(Committed)
    BY <1>1, IntentSets
  <1>3. Cash \in Nat
    BY ExecutionAssumption
  <1> QED
    BY <1>2, <1>3 DEF FundInv, Room, FundedOnce

\* funding_available counts everything that is committed: an order that is
\* taken or filled in the account's figure, every other one as pending.
LEMMA FundedHasRoom ==
    ASSUME ~AccountMayAge, OrderInv, FundInv, NEW l \in Buyers, Funded(l)
    PROVE  Cardinality(Committed) < Cash
  <1> DEFINE Taken == {i \in Ids : IsBuy(i) /\ broker[i] \in {"open", "filled"}}
  <1>1. Taken \in SUBSET Ids /\ Pending \in SUBSET Ids /\ Committed \in SUBSET Ids
    BY DEF Pending, Committed
  <1>2. Committed \subseteq Taken \cup Pending
    <2> SUFFICES ASSUME NEW i \in Committed, i \notin Taken PROVE i \in Pending
      OBVIOUS
    <2>1. i \in Ids /\ IsBuy(i) /\ (broker[i] = "sent" \/ (status[i] \in Blocking /\ broker[i] = "unsent"))
      BY DEF Committed, OnBook
    <2>2. status[i] \in Blocking
      BY <2>1 DEF OrderInv, Verdicts, OnBook
    <2>3. i \notin attributed
      BY <2>1 DEF FundInv, FillsOnly
    <2> QED
      BY <2>1, <2>2, <2>3 DEF Pending
  <1>3. /\ IsFiniteSet(Taken) /\ IsFiniteSet(Pending)
        /\ Cardinality(Taken) \in Nat /\ Cardinality(Pending) \in Nat /\ Cardinality(Committed) \in Nat
    BY <1>1, IntentSets
  <1>4. Cardinality(Taken \cup Pending) <= Cardinality(Taken) + Cardinality(Pending)
    <2>1. /\ Cardinality(Taken \cup Pending) = Cardinality(Taken) + Cardinality(Pending) - Cardinality(Taken \cap Pending)
      BY <1>3, FS_Union
    <2>2. Cardinality(Taken \cap Pending) \in Nat
      BY <1>1, IntentSets
    <2>3. Cardinality(Taken \cup Pending) \in Nat
      BY <1>1, IntentSets
    <2> QED
      BY <1>3, <2>1, <2>2, <2>3
  <1>5. Cardinality(Committed) <= Cardinality(Taken \cup Pending) /\ Cardinality(Taken \cup Pending) \in Nat
    BY <1>1, <1>2, IntentSets
  <1>6. Cardinality(Pending) < AccountFigure
    BY DEF Funded
  <1>7. Cardinality(Pending) + Cardinality(Taken) < Cash
    <2>1. AccountFigure = IF Cardinality(Taken) >= Cash THEN 0 ELSE Cash - Cardinality(Taken)
      BY DEF AccountFigure
    <2> HIDE DEF Taken
    <2> QED
      BY <1>3, <1>6, <2>1, ExecutionAssumption
  <1> QED
    BY <1>3, <1>4, <1>5, <1>7, ExecutionAssumption

\* A buyer that may approve commits the one order there is room for.
LEMMA ApproveFunds ==
    ASSUME Timely, OrderInv, FundInv, NEW l \in Lanes, Approve(l)
    PROVE  FundInv'
  <1> USE ExecutionAssumption
  <1>0. TypeOK /\ Owners /\ Rows
    BY DEF OrderInv, CallInv
  <1> DEFINE i == work[l]
  <1>1. /\ i \in Ids /\ by[i] = l /\ status[i] = "proposed" /\ broker[i] = "unsent" /\ pc[l] = "decided"
    BY <1>0 DEF Approve, At, TypeOK, Owners, Rows, BeforePost, Lanes
  <1>2. /\ status' = [status EXCEPT ![i] = "risk_approved"] /\ pc' = [pc EXCEPT ![l] = "approved"]
        /\ UNCHANGED <<by, work, sweep, attributed, broker>>
    BY DEF Approve, SetStatus, Goto
  <1>3. Answered' /\ Found' /\ FillsOnly'
    BY <1>0, <1>2 DEF FundInv, Answered, Found, FillsOnly, TypeOK
  <1>4. Committed' \subseteq Committed \cup (IF l \in Buyers THEN {i} ELSE {})
    BY <1>0, <1>1, <1>2 DEF Committed, IsBuy, Known, Blocking, IN_FLIGHT_STATUSES, TypeOK
  <1>5. CASE l \in Exits
    <2>1. Committed' \subseteq Committed
      BY <1>4, <1>5
    <2>2. \A b \in Buyers : pc'[b] = "decided" /\ portfolio' = b => pc[b] = "decided" /\ portfolio = b
      BY <1>0, <1>2, <1>5 DEF Approve, TypeOK, Lanes
    <2> QED
      BY <1>3, <2>1, <2>2, RoomStays DEF FundInv
  <1>6. CASE l \in Buyers
    <2>1. portfolio = l /\ portfolio' = "free"
      BY <1>6 DEF Approve
    <2>2. Room'
      BY <1>6, <2>1 DEF Room, Lanes
    <2>3. Cardinality(Committed) < Cash
      BY <1>1, <1>6, <2>1 DEF FundInv, Room
    <2>4. Committed \in SUBSET Ids /\ Committed' \in SUBSET Ids
      BY DEF Committed
    <2>5. /\ IsFiniteSet(Committed) /\ Cardinality(Committed) \in Nat /\ Cardinality(Committed') \in Nat
          /\ Cardinality(Committed \cup {i}) \in Nat
          /\ Cardinality(Committed') <= Cardinality(Committed \cup {i})
      BY <1>1, <1>4, <2>4, IntentSets
    <2>6. Cardinality(Committed \cup {i}) <= Cardinality(Committed) + 1
      BY <1>1, <2>4, OneMore
    <2>7. FundedOnce'
      BY <2>3, <2>5, <2>6 DEF FundedOnce
    <2> QED
      BY <1>3, <2>2, <2>7 DEF FundInv
  <1> QED
    BY <1>5, <1>6 DEF Lanes

\* A lane that does not approve commits nothing: a row that becomes blocking
\* was blocking, or its POST had gone out.
LEMMA LaneFunds ==
    ASSUME Timely, ~AccountMayAge, OrderInv, FundInv, NEW l \in Lanes, Lane(l)
    PROVE  FundInv'
  <1> USE ExecutionAssumption
  <1>0. TypeOK /\ Owners /\ Rows /\ Verdicts /\ Answered /\ Found /\ FillsOnly
    BY DEF OrderInv, CallInv, FundInv
  <1>a. SUFFICES ASSUME ~Approve(l) PROVE FundInv'
    BY ApproveFunds
  <1>1. CASE Reserve(l) \/ Skip(l) \/ Recheck(l)
    <2>1. Answered' /\ Found' /\ FillsOnly'
      BY <1>0, <1>1 DEF Reserve, Skip, Recheck, Return, Goto, At, TypeOK, Steps, Answered, Found, FillsOnly, locks
    <2>2. Committed' \subseteq Committed
      BY <1>1 DEF Reserve, Skip, Recheck, Committed, IsBuy, Known
    <2>3. \A b \in Buyers : pc'[b] = "decided" /\ portfolio' = b => pc[b] = "decided" /\ portfolio = b
      BY <1>0, <1>1 DEF Reserve, Skip, Recheck, Return, Goto, TypeOK, locks, Lanes
    <2> QED
      BY <2>1, <2>2, <2>3, RoomStays DEF FundInv
  <1>2. CASE Propose(l)
    <2>1. PICK i \in Ids \ Known : /\ status' = [status EXCEPT ![i] = "proposed"]
                                  /\ by' = [by EXCEPT ![i] = l]
                                  /\ work' = [work EXCEPT ![l] = i]
      BY <1>2 DEF Propose, SetStatus
    <2>2. /\ pc' = [pc EXCEPT ![l] = "proposed"] /\ UNCHANGED <<sweep, attributed, broker>>
          /\ portfolio' \in {portfolio, l}
      BY <1>2 DEF Propose, Goto
    <2>3. status[i] = "absent" /\ broker[i] = "unsent"
      BY <1>0, <2>1 DEF Known, Verdicts
    <2>4. Answered' /\ Found' /\ FillsOnly'
      BY <1>0, <2>1, <2>2 DEF TypeOK, Answered, Found, FillsOnly
    <2>5. Committed' \subseteq Committed
      BY <1>0, <2>1, <2>2, <2>3 DEF TypeOK, Committed, IsBuy, Known, Blocking, IN_FLIGHT_STATUSES, OnBook
    <2>6. \A b \in Buyers : pc'[b] = "decided" /\ portfolio' = b => pc[b] = "decided" /\ portfolio = b
      BY <1>0, <2>2 DEF TypeOK, Lanes
    <2> QED
      BY <2>4, <2>5, <2>6, RoomStays DEF FundInv
  <1>3. CASE Decide(l)
    <2>1. /\ pc' = [pc EXCEPT ![l] = "decided"] /\ UNCHANGED <<status, by, portfolio, work, sweep, attributed, broker>>
      BY <1>3 DEF Decide, GoOn, Goto, locks
    <2>2. Answered' /\ Found' /\ FillsOnly'
      BY <1>0, <2>1 DEF TypeOK, Answered, Found, FillsOnly
    <2>3. Committed' = Committed
      BY <2>1 DEF Committed, IsBuy, Known
    <2>4. l \in Buyers => Cardinality(Committed) < Cash
      BY <1>3, FundedHasRoom DEF Decide
    <2>5. Room' /\ FundedOnce'
      BY <1>0, <2>1, <2>3, <2>4 DEF FundInv, Room, FundedOnce, TypeOK, Lanes
    <2> QED
      BY <2>2, <2>5 DEF FundInv
  <1>4. CASE MarkSubmitted(l) \/ RejectBeforeSubmission(l)
    <2> DEFINE i == work[l]
    <2>1. i \in Ids /\ broker[i] = "unsent" /\ status[i] \in Statuses
      BY <1>0, <1>4 DEF MarkSubmitted, RejectBeforeSubmission, At, TypeOK, Owners, Rows, BeforePost
    <2>2. PICK new \in {"submitted", "rejected"} : status' = [status EXCEPT ![i] = new]
      BY <1>4 DEF MarkSubmitted, RejectBeforeSubmission, SetStatus
    <2>3. UNCHANGED <<by, sweep, attributed, broker>>
      BY <1>4 DEF MarkSubmitted, RejectBeforeSubmission
    <2>4. new = "submitted" => status[i] = "risk_approved"
      BY <1>0, <1>4, <2>1, <2>2 DEF MarkSubmitted, RejectBeforeSubmission, SetStatus, At, TypeOK, Rows
    <2>5. Answered' /\ Found' /\ FillsOnly'
      BY <1>0, <1>4, <2>3
         DEF MarkSubmitted, RejectBeforeSubmission, Return, GoOn, Goto, TypeOK, Answered, Found, FillsOnly
    <2>6. Committed' \subseteq Committed
      BY <1>0, <2>1, <2>2, <2>3, <2>4 DEF TypeOK, Committed, IsBuy, Known, Blocking, IN_FLIGHT_STATUSES, OnBook
    <2>7. \A b \in Buyers : pc'[b] = "decided" /\ portfolio' = b => pc[b] = "decided" /\ portfolio = b
      BY <1>0, <1>4 DEF MarkSubmitted, RejectBeforeSubmission, Return, GoOn, Goto, TypeOK, locks, Lanes
    <2> QED
      BY <2>5, <2>6, <2>7, RoomStays DEF FundInv
  <1>5. CASE PlaceOrder(l)
    <2> DEFINE i == work[l]
    <2>1. i \in Ids /\ broker[i] = "unsent" /\ status[i] = "submitted"
      BY <1>0, <1>5 DEF PlaceOrder, At, TypeOK, Owners, Rows, BeforePost
    <2>2. /\ broker' = [broker EXCEPT ![i] = "sent"] /\ pc' = [pc EXCEPT ![l] = "sent"]
          /\ UNCHANGED <<status, by, portfolio, work, sweep, attributed>>
      BY <1>5 DEF PlaceOrder, GoOn, Goto, locks
    <2>3. Answered' /\ Found' /\ FillsOnly'
      BY <1>0, <2>1, <2>2 DEF TypeOK, Answered, Found, FillsOnly, Live, Ended
    <2>4. Committed' \subseteq Committed
      BY <1>0, <2>1, <2>2 DEF TypeOK, Committed, IsBuy, Known, Blocking, IN_FLIGHT_STATUSES, OnBook
    <2>5. \A b \in Buyers : pc'[b] = "decided" /\ portfolio' = b => pc[b] = "decided" /\ portfolio = b
      BY <1>0, <2>2 DEF TypeOK, Lanes
    <2> QED
      BY <2>3, <2>4, <2>5, RoomStays DEF FundInv
  <1>6. CASE Accepted(l) \/ DefinitivelyRejected(l) \/ Ambiguous(l) \/ Finalize(l) \/ PollTimeout(l)
    <2> DEFINE i == work[l]
    <2>1. i \in Ids /\ broker[i] # "unsent" /\ status[i] # "absent"
      BY <1>0, <1>6
         DEF Accepted, DefinitivelyRejected, Ambiguous, Finalize, PollTimeout, At, TypeOK, Owners, Answered
    <2>2. PICK new : status' = [status EXCEPT ![i] = new]
      BY <1>6 DEF Accepted, DefinitivelyRejected, Ambiguous, Finalize, PollTimeout, SetStatus
    <2>3. UNCHANGED <<by, sweep, attributed, broker>>
      BY <1>6 DEF Accepted, DefinitivelyRejected, Ambiguous, Finalize, PollTimeout
    <2>4. Answered' /\ Found' /\ FillsOnly'
      BY <1>0, <1>6, <2>1, <2>3
         DEF Accepted, DefinitivelyRejected, Ambiguous, Finalize, PollTimeout, Return, GoOn, Goto, TypeOK,
             Answered, Found, FillsOnly
    <2>5. Committed' \subseteq Committed
      BY <1>0, <2>1, <2>2, <2>3 DEF TypeOK, Committed, IsBuy, Known
    <2>6. \A b \in Buyers : pc'[b] = "decided" /\ portfolio' = b => pc[b] = "decided" /\ portfolio = b
      BY <1>0, <1>6
         DEF Accepted, DefinitivelyRejected, Ambiguous, Finalize, PollTimeout, Return, GoOn, Goto, TypeOK,
             locks, Lanes
    <2> QED
      BY <2>4, <2>5, <2>6, RoomStays DEF FundInv
  <1> QED
    BY <1>a, <1>1, <1>2, <1>3, <1>4, <1>5, <1>6 DEF Lane

\* Neither the broker, nor reconciliation, nor the operator commits anything.
LEMMA OthersFund ==
    ASSUME Timely, OrderInv, FundInv,
           \/ \E i \in Ids : Deliver(i) \/ EndOrder(i) \/ Attribute(i) \/ RecoverInflight(i)
           \/ Sweep \/ Lapse \/ Crash \/ Expire \/ Stop \/ Start
    PROVE  FundInv'
  <1> USE ExecutionAssumption
  <1>0. TypeOK /\ Swept /\ Verdicts /\ Owners /\ Answered /\ Found /\ FillsOnly
    BY DEF OrderInv, CallInv, FundInv
  <1>1. ASSUME NEW i \in Ids, Deliver(i) \/ EndOrder(i)
        PROVE  FundInv'
    <2>1. PICK fate \in {"open", "none", "filled", "canceled"} : broker' = [broker EXCEPT ![i] = fate]
      BY <1>1 DEF Deliver, EndOrder, Ended
    <2>2. broker[i] \in {"sent", "open"} /\ (broker[i] = "open" => fate \in {"filled", "canceled"})
      BY <1>0, <1>1, <2>1 DEF Deliver, EndOrder, Ended, TypeOK
    <2>3. UNCHANGED <<status, by, portfolio, pc, work, sweep, attributed>>
      BY <1>1 DEF Deliver, EndOrder, locks, caller
    <2>4. Answered' /\ FillsOnly'
      BY <1>0, <2>1, <2>2, <2>3 DEF TypeOK, Answered, FillsOnly
    <2>5. Found'
      BY <1>0, <2>1, <2>2, <2>3 DEF TypeOK, Swept, Found, Live, Ended
    <2>6. Committed' \subseteq Committed
      BY <1>0, <2>1, <2>2, <2>3 DEF TypeOK, Committed, IsBuy, Known, OnBook
    <2> QED
      BY <2>3, <2>4, <2>5, <2>6, RoomStays DEF FundInv
  <1>2. ASSUME NEW i \in Ids, Attribute(i)
        PROVE  FundInv'
    <2>1. Answered' /\ Found' /\ FillsOnly'
      BY <1>0, <1>2 DEF Attribute, locks, caller, Answered, Found, FillsOnly
    <2>2. Committed' = Committed
      BY <1>2 DEF Attribute, Committed, IsBuy, Known
    <2> QED
      BY <1>2, <2>1, <2>2, RoomStays DEF FundInv, Attribute, locks, caller
  <1>3. ASSUME NEW i \in Ids, RecoverInflight(i)
        PROVE  FundInv'
    <2>1. /\ status' = [status EXCEPT ![i] = broker[i]] /\ broker[i] \in Ended /\ status[i] = "accepted"
          /\ UNCHANGED <<by, portfolio, pc, work, sweep, attributed, broker>>
      BY <1>3 DEF RecoverInflight, SetStatus, Resolved, locks, caller
    <2>2. Answered' /\ Found' /\ FillsOnly'
      BY <1>0, <2>1 DEF Answered, Found, FillsOnly
    <2>3. Committed' \subseteq Committed
      BY <1>0, <2>1 DEF TypeOK, Committed, IsBuy, Known, Ended
    <2> QED
      BY <2>1, <2>2, <2>3, RoomStays DEF FundInv
  <1>4. CASE Sweep
    <2>1. UNCHANGED <<by, portfolio, pc, work, attributed, broker>>
      BY <1>4 DEF Sweep, SweepLookup, SweepGivesUp, SweepCommits, SweepReserve, SweepEnds, locks, caller
    <2>2. Answered' /\ FillsOnly'
      BY <1>0, <2>1 DEF Answered, FillsOnly
    <2>3. Found'
      BY <1>0, <1>4
         DEF Sweep, SweepLookup, SweepGivesUp, SweepCommits, SweepReserve, SweepEnds, NoSweep, TypeOK, Found
    <2>4. Committed' \subseteq Committed
      <3>1. CASE SweepCommits
        <4>1. /\ status' = [status EXCEPT ![sweep.on] = Verdict] /\ sweep.on \in Ids /\ status[sweep.on] # "absent"
          BY <1>0, <3>1 DEF SweepCommits, SetStatus, TypeOK, Swept
        <4>2. Verdict = "rejected" \/ broker[sweep.on] \in Live
          BY <1>0 DEF Verdict, Found
        <4> QED
          BY <1>0, <2>1, <4>1, <4>2
             DEF TypeOK, Committed, IsBuy, Known, Blocking, IN_FLIGHT_STATUSES, Live, Ended
      <3>2. CASE ~SweepCommits
        <4>1. UNCHANGED status
          BY <1>4, <3>2 DEF Sweep, SweepLookup, SweepGivesUp, SweepReserve
        <4> QED
          BY <2>1, <4>1 DEF Committed, IsBuy, Known
      <3> QED
        BY <3>1, <3>2
    <2> QED
      BY <2>1, <2>2, <2>3, <2>4, RoomStays DEF FundInv
  <1>5. CASE Lapse \/ Expire \/ Stop \/ Start
    <2>1. /\ UNCHANGED <<status, by, pc, work, sweep, attributed, broker>>
          /\ portfolio' \in {portfolio, "free"}
      BY <1>5 DEF Lapse, Expire, Stop, Start, locks, caller
    <2>2. Answered' /\ Found' /\ FillsOnly'
      BY <1>0, <2>1 DEF Answered, Found, FillsOnly
    <2>3. Committed' = Committed
      BY <2>1 DEF Committed, IsBuy, Known
    <2>4. \A b \in Buyers : pc'[b] = "decided" /\ portfolio' = b => pc[b] = "decided" /\ portfolio = b
      BY <2>1 DEF Lanes
    <2> QED
      BY <2>2, <2>3, <2>4, RoomStays DEF FundInv
  <1>6. CASE Crash
    <2>1. /\ UNCHANGED <<status, by, attributed, broker>> /\ sweep' = NoSweep
          /\ \A l \in Lanes : pc'[l] = "idle"
      BY <1>6 DEF Crash
    <2>2. Answered' /\ Found' /\ FillsOnly'
      BY <1>0, <2>1 DEF Answered, Found, FillsOnly, NoSweep
    <2>3. Committed' = Committed
      BY <2>1 DEF Committed, IsBuy, Known
    <2>4. \A b \in Buyers : pc'[b] # "decided"
      BY <2>1 DEF Lanes
    <2> QED
      BY <2>2, <2>3, <2>4, RoomStays DEF FundInv
  <1> QED
    BY <1>1, <1>2, <1>3, <1>4, <1>5, <1>6

\* Buys approved one by one never commit more than the account can pay
\* (pending_buy_funding), when the sweep is timely and the account is as it was
\* read when the decision falls; Execution!FundedOnce fails without the second.
THEOREM BuysAreFunded == ASSUME Timely, ~AccountMayAge PROVE Spec => []FundedOnce
  <1>1. Init => OrderInv /\ FundInv
    <2> SUFFICES ASSUME Init PROVE FundInv
      BY Initially
    <2>1. Committed = {} /\ Cardinality(Committed) = 0
      BY FS_EmptySet DEF Init, Committed, IsBuy, Known
    <2>2. Answered /\ Found /\ FillsOnly /\ Room
      BY DEF Init, NoSweep, Answered, Found, FillsOnly, Room, Lanes
    <2>3. FundedOnce
      BY <2>1, ExecutionAssumption DEF FundedOnce
    <2> QED
      BY <2>2, <2>3 DEF FundInv
  <1>2. OrderInv /\ FundInv /\ [Next]_vars => (OrderInv /\ FundInv)'
    <2>1. ASSUME OrderInv, FundInv, [Next]_vars PROVE OrderInv'
      BY <2>1, OrdersInductive
    <2>2. ASSUME OrderInv, FundInv, Next PROVE FundInv'
      BY <2>2, LaneFunds, OthersFund DEF Next
    <2>3. ASSUME FundInv, UNCHANGED vars PROVE FundInv'
      BY <2>3 DEF vars, FundInv, Answered, Found, FillsOnly, Room, FundedOnce, Committed, IsBuy, Known
    <2> QED
      BY <2>1, <2>2, <2>3
  <1>3. FundInv => FundedOnce
    BY DEF FundInv
  <1> QED BY <1>1, <1>2, <1>3, PTL DEF Spec
=============================================================================
