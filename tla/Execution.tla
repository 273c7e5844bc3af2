------------------------------ MODULE Execution ------------------------------
(***************************************************************************)
(* How an order reaches the broker: the lanes that call execute_intent     *)
(* (tradepulse/execution/gateway.py), the two advisory locks they take,    *)
(* the broker, and the reconciliation sweeps that finish what a crash or   *)
(* an ambiguous answer left open.                                          *)
(*                                                                         *)
(* Every lane works under the execution reservation of its asset; a buyer  *)
(* also decides under the portfolio-risk lock.  Both are leases: they may  *)
(* lapse under a live holder that renews too late.  Every return runs the  *)
(* caller's finally, which releases what the lane still owns.  An order    *)
(* fills whole.                                                            *)
(***************************************************************************)
EXTENDS Naturals, FiniteSets

CONSTANTS
    Buyers,         \* scan lanes, which buy
    Exits,          \* monitor lanes, which sell to protect a position
    AssetOf,        \* the asset each lane is about to trade
    Cash,           \* what the account can pay for, in orders
    MaxIntents,     \* bound: trade intents
    Timely,         \* the grace period of the sweep outlasts every submission
    AccountMayAge   \* time passes between the account read and the decision

Lanes == Buyers \cup Exits
Assets == {AssetOf[l] : l \in Lanes}
Ids == 1..MaxIntents

ASSUME ExecutionAssumption ==
    /\ Buyers \cap Exits = {}
    /\ DOMAIN AssetOf = Lanes
    /\ {"nobody", "free", "dead", "sweep"} \cap Lanes = {}
    /\ Cash \in Nat /\ MaxIntents \in Nat
    /\ Timely \in BOOLEAN /\ AccountMayAge \in BOOLEAN

VARIABLES
    status,       \* trade_intents: TradeIntentStatus
    by,           \* trade_intents: the lane that proposed it, hence asset and side
    reservation,  \* locks rows execution:<asset>: the owner of an unexpired lease
    portfolio,    \* locks row portfolio-risk-evaluation, likewise
    session,      \* may new exposure be taken?
    pc,           \* where each lane is
    work,         \* the intent each lane works on, 0 for none
    seen,         \* the account as a buyer read it
    sweep,        \* the stranded-intent sweep: the candidate, what it read and found
    attributed,   \* intents whose fill is recorded as Fill and SettlementEvent
    broker,       \* each intent's POST and, once it has arrived, its order
    barred        \* history: lanes that had yet to pass the last session check at a stop

locks  == <<reservation, portfolio>>
caller == <<pc, work, seen>>
vars   == <<status, by, reservation, portfolio, session, pc, work, seen, sweep, attributed, broker, barred>>

-----------------------------------------------------------------------------
(* Statuses                                                                 *)

TERMINAL_STATUSES == {"filled", "canceled", "rejected"}
IN_FLIGHT_STATUSES == {"risk_approved", "submitted", "accepted"}
Blocking == IN_FLIGHT_STATUSES \cup {"submission_unknown"}
\* Mutant: the sweep forgets approvals that were never marked submitted.
StrandedSubmissions == {"submitted", "submission_unknown"}

\* An intent without a broker order id that blocks its asset.
Stranded == {"risk_approved", "submitted", "submission_unknown"}
Statuses == TERMINAL_STATUSES \cup Blocking \cup {"absent", "proposed"}

\* The POST is unsent, on its way, or there is and will be no order ("none").
Live == {"open", "filled", "canceled"}
Ended == {"filled", "canceled"}
BrokerStates == Live \cup {"unsent", "sent", "none"}

Asset(i) == AssetOf[by[i]]
Known == {i \in Ids : status[i] # "absent"}
IsBuy(i) == i \in Known /\ by[i] \in Buyers

BeforePost == {"proposed", "decided", "approved", "cleared", "submitted"}
Steps == BeforePost \cup {"idle", "reserved", "sent", "polling"}
NoSweep == [on |-> 0, saw |-> "absent", at |-> "idle"]

TypeOK ==
    /\ status \in [Ids -> Statuses] /\ by \in [Ids -> Lanes \cup {"nobody"}]
    /\ \A i \in Ids : status[i] = "absent" \/ by[i] \in Lanes
    /\ reservation \in [Assets -> Lanes \cup {"free", "dead", "sweep"}]
    /\ portfolio \in Buyers \cup {"free", "dead"}
    /\ session \in {"active", "stopped"}
    /\ pc \in [Lanes -> Steps] /\ work \in [Lanes -> Ids \cup {0}] /\ seen \in [Lanes -> 0..Cash]
    /\ sweep \in [on : Ids \cup {0}, saw : Statuses, at : {"idle", "reading", "found", "absent"}]
    /\ attributed \subseteq Ids
    /\ broker \in [Ids -> BrokerStates]
    /\ barred \subseteq Buyers

Init ==
    /\ status = [i \in Ids |-> "absent"] /\ by = [i \in Ids |-> "nobody"]
    /\ reservation = [a \in Assets |-> "free"] /\ portfolio = "free"
    /\ session = "active"
    /\ pc = [l \in Lanes |-> "idle"] /\ work = [l \in Lanes |-> 0] /\ seen = [l \in Lanes |-> 0]
    /\ sweep = NoSweep
    /\ attributed = {}
    /\ broker = [i \in Ids |-> "unsent"]
    /\ barred = {}

-----------------------------------------------------------------------------
(* Helpers                                                                  *)

At(l, label) == pc[l] = label
Goto(l, label) == pc' = [pc EXCEPT ![l] = label]
SetStatus(i, value) == status' = [status EXCEPT ![i] = value]

\* release_lock deletes only the row of its own token.
ReleaseReservation(owner) == [a \in Assets |-> IF reservation[a] = owner THEN "free" ELSE reservation[a]]

\* The lane returns and its caller releases the reservation.
Return(l) ==
    /\ reservation' = ReleaseReservation(l)
    /\ portfolio' = IF portfolio = l THEN "free" ELSE portfolio
    /\ work' = [work EXCEPT ![l] = 0] /\ seen' = [seen EXCEPT ![l] = 0]
    /\ barred' = barred \ {l}
    /\ Goto(l, "idle")

\* The lane goes on and holds what it holds.
GoOn(l, label) == Goto(l, label) /\ UNCHANGED <<locks, work, seen, barred>>

\* min(cash, buying power) of the account: an order the broker has accepted
\* takes buying power, a filled one cash.
AccountFigure ==
    LET spent == Cardinality({i \in Ids : IsBuy(i) /\ broker[i] \in {"open", "filled"}})
    IN  IF spent >= Cash THEN 0 ELSE Cash - spent

\* pending_buy_funding: approved buys without a fill attributed to them.
Pending == {i \in Ids : IsBuy(i) /\ status[i] \in Blocking /\ i \notin attributed}

\* execution_session_decision: a protective exit is never held back.
SessionAllows(l) == l \in Exits \/ session = "active"

-----------------------------------------------------------------------------
(* A lane before the submission                                             *)

\* reserve_symbol_for_execution: a lane never waits for a held asset.
Reserve(l) ==
    /\ At(l, "idle") /\ reservation[AssetOf[l]] = "free"
    /\ reservation' = [reservation EXCEPT ![AssetOf[l]] = l]
    /\ Goto(l, "reserved")
    /\ UNCHANGED <<status, by, portfolio, session, work, seen, sweep, attributed, broker, barred>>

InFlight(asset, statuses) == \E i \in Known : Asset(i) = asset /\ status[i] \in statuses

\* Mutant: an ambiguous submission does not count as in flight.
OnlyInFlight(l) == ~InFlight(AssetOf[l], IN_FLIGHT_STATUSES)

\* has_in_flight_intent, under the reservation; _authorize_sell asks again
\* for sells and renews the reservation.
MayPropose(l) ==
    /\ ~InFlight(AssetOf[l], Blocking)
    /\ l \in Exits => reservation[AssetOf[l]] = l

\* The in-flight rule, the portfolio lock of a buyer, the session, the quote
\* and the account; then the PROPOSED row, under a fresh idempotency key.
Propose(l) ==
    /\ At(l, "reserved") /\ MayPropose(l) /\ SessionAllows(l)
    /\ IF l \in Buyers THEN portfolio = "free" /\ portfolio' = l ELSE UNCHANGED portfolio
    /\ \E i \in Ids \ Known :
         /\ \A j \in Ids \ Known : i <= j
         /\ SetStatus(i, "proposed")
         /\ by' = [by EXCEPT ![i] = l]
         /\ work' = [work EXCEPT ![l] = i]
    /\ seen' = [seen EXCEPT ![l] = IF l \in Buyers /\ AccountMayAge THEN AccountFigure ELSE 0]
    /\ Goto(l, "proposed")
    /\ UNCHANGED <<reservation, session, sweep, attributed, broker, barred>>

\* Anything that fails before the row exists sends the lane away with nothing
\* written: in flight, locked, stopped, quarantined, adopted, no quote.
Skip(l) ==
    /\ At(l, "reserved")
    /\ Return(l)
    /\ UNCHANGED <<status, by, session, sweep, attributed, broker>>

\* funding_available: the account less what is committed to pending buys.
Funded(l) == Cardinality(Pending) < IF AccountMayAge THEN seen[l] ELSE AccountFigure

\* Entry authorization and evaluate_risk let the intent pass.
Decide(l) ==
    /\ At(l, "proposed") /\ (l \in Buyers => Funded(l))
    /\ GoOn(l, "decided")
    /\ UNCHANGED <<status, by, session, sweep, attributed, broker>>

\* Mutant: the RISK_APPROVED write is not fenced on the portfolio lease.
ApproveUnfenced(l) ==
    /\ At(l, "decided")
    /\ SetStatus(work[l], "risk_approved")
    /\ Goto(l, "approved")
    /\ portfolio' = IF portfolio = l THEN "free" ELSE portfolio
    /\ UNCHANGED <<by, reservation, session, work, seen, sweep, attributed, broker, barred>>

\* The RISK_APPROVED write, for a buyer in one transaction with the check of
\* its portfolio lease; the lock is then released.
Approve(l) ==
    /\ At(l, "decided") /\ (l \in Buyers => portfolio = l)
    /\ SetStatus(work[l], "risk_approved")
    /\ Goto(l, "approved")
    /\ portfolio' = IF portfolio = l THEN "free" ELSE portfolio
    /\ UNCHANGED <<by, reservation, session, work, seen, sweep, attributed, broker, barred>>

\* Mutant: the approval stands in for the second session check.
NoRecheck(l) ==
    /\ At(l, "approved")
    /\ GoOn(l, "cleared")
    /\ UNCHANGED <<status, by, session, sweep, attributed, broker>>

\* The session is asked again, immediately before the submission boundary.
Recheck(l) ==
    /\ At(l, "approved") /\ SessionAllows(l)
    /\ Goto(l, "cleared") /\ barred' = barred \ {l}
    /\ UNCHANGED <<status, by, locks, session, work, seen, sweep, attributed, broker>>

\* Mutant: the reservation is not renewed before the submission.
MarkSubmittedUnfenced(l) ==
    /\ At(l, "cleared")
    /\ SetStatus(work[l], "submitted")
    /\ GoOn(l, "submitted")
    /\ UNCHANGED <<by, session, sweep, attributed, broker>>

\* The reservation, renewed, must still be this lane's; the SUBMITTED write
\* goes over whatever the row says by now.
MarkSubmitted(l) ==
    /\ At(l, "cleared") /\ reservation[AssetOf[l]] = l
    /\ SetStatus(work[l], "submitted")
    /\ GoOn(l, "submitted")
    /\ UNCHANGED <<by, session, sweep, attributed, broker>>

\* Closed unsent: a refusal of the decision, a lost lease, a stopped session,
\* a closed market, a stale quote.
RejectBeforeSubmission(l) ==
    /\ pc[l] \in BeforePost
    /\ SetStatus(work[l], "rejected")
    /\ Return(l)
    /\ UNCHANGED <<by, session, sweep, attributed, broker>>

-----------------------------------------------------------------------------
(* The submission and its answer                                            *)

\* place_order: the POST is on its way, under the intent's id.
PlaceOrder(l) ==
    /\ At(l, "submitted")
    /\ broker' = [broker EXCEPT ![work[l]] = "sent"]
    /\ GoOn(l, "sent")
    /\ UNCHANGED <<status, by, session, sweep, attributed>>

\* The POST arrives and the order is taken, or it is refused or lost.
Deliver(i) ==
    /\ broker[i] = "sent"
    /\ \E fate \in {"open", "none"} : broker' = [broker EXCEPT ![i] = fate]
    /\ UNCHANGED <<status, by, locks, session, caller, sweep, attributed, barred>>

\* An open order fills, or is canceled by its expiry or by someone else.
EndOrder(i) ==
    /\ broker[i] = "open"
    /\ \E end \in Ended : broker' = [broker EXCEPT ![i] = end]
    /\ UNCHANGED <<status, by, locks, session, caller, sweep, attributed, barred>>

\* An answer with an order id, to the POST or to the lookup by client order
\* id that follows an ambiguous one (_recover_unknown_submission).
Accepted(l) ==
    /\ At(l, "sent") /\ broker[work[l]] \in Live
    /\ SetStatus(work[l], "accepted")
    /\ GoOn(l, "polling")
    /\ UNCHANGED <<by, session, sweep, attributed, broker>>

\* is_definitive_rejection: a 4xx other than 429.
DefinitivelyRejected(l) ==
    /\ At(l, "sent") /\ broker[work[l]] = "none"
    /\ SetStatus(work[l], "rejected")
    /\ Return(l)
    /\ UNCHANGED <<by, session, sweep, attributed, broker>>

\* Mutant: an ambiguous answer is taken for a rejection.
AmbiguousIsRejection(l) ==
    /\ At(l, "sent")
    /\ SetStatus(work[l], "rejected")
    /\ Return(l)
    /\ UNCHANGED <<by, session, sweep, attributed, broker>>

\* A timeout, 429, 5xx or an answer without an order id says nothing about
\* the order, nor does a lookup that fails or comes before the POST does.
Ambiguous(l) ==
    /\ At(l, "sent")
    /\ SetStatus(work[l], "submission_unknown")
    /\ Return(l)
    /\ UNCHANGED <<by, session, sweep, attributed, broker>>

\* attribute_order_fills: the broker's fill becomes a Fill and a
\* SettlementEvent, by the polling lane or by a reconciliation pass.
Attribute(i) ==
    /\ broker[i] = "filled" /\ i \notin attributed
    /\ status[i] \in {"accepted"} \cup Ended
    /\ attributed' = attributed \cup {i}
    /\ UNCHANGED <<status, by, locks, session, caller, sweep, broker, barred>>

\* terminal_status_for_order says so once every fill is attributed.
Resolved(i) == broker[i] \in Ended /\ (broker[i] = "filled" => i \in attributed)

Finalize(l) ==
    /\ At(l, "polling") /\ Resolved(work[l])
    /\ SetStatus(work[l], broker[work[l]])
    /\ Return(l)
    /\ UNCHANGED <<by, session, sweep, attributed, broker>>

\* The poll window closes on the last order read: ACCEPTED is written over
\* whatever reconciliation has made of the row meanwhile.
PollTimeout(l) ==
    /\ At(l, "polling")
    /\ SetStatus(work[l], "accepted")
    /\ Return(l)
    /\ UNCHANGED <<by, session, sweep, attributed, broker>>

-----------------------------------------------------------------------------
(* Reconciliation                                                           *)

\* STRANDED_INTENT_GRACE_SECONDS after its creation.
PastGrace(i) ==
    Timely => /\ broker[i] # "sent"
              /\ \A l \in Lanes : work[l] = i => pc[l] \notin BeforePost

\* _recover_stranded_intents: an old enough candidate without a broker id
\* whose asset no execution holds; it is read again under the reservation.
SweepReserve(i) ==
    /\ sweep.on = 0
    /\ status[i] \in Stranded /\ PastGrace(i)
    /\ reservation[Asset(i)] = "free"
    /\ reservation' = [reservation EXCEPT ![Asset(i)] = "sweep"]
    /\ sweep' = [on |-> i, saw |-> status[i], at |-> "reading"]
    /\ UNCHANGED <<status, by, portfolio, session, caller, attributed, broker, barred>>

\* get_order_by_client_order_id.
SweepLookup ==
    /\ sweep.at = "reading"
    /\ sweep' = [sweep EXCEPT !.at = IF broker[sweep.on] \in Live THEN "found" ELSE "absent"]
    /\ UNCHANGED <<status, by, locks, session, caller, attributed, broker, barred>>

SweepEnds ==
    /\ sweep' = NoSweep
    /\ reservation' = ReleaseReservation("sweep")
    /\ UNCHANGED <<by, portfolio, session, caller, attributed, broker, barred>>

\* The lookup failed, the fence tripped, or the commit was refused.
SweepGivesUp == sweep.on # 0 /\ UNCHANGED status /\ SweepEnds

Verdict == IF sweep.at = "found" THEN "accepted" ELSE "rejected"

\* _commit_stranded: the reservation must still be the sweep's and the row
\* what was read, in one transaction with the verdict.
SweepCommits ==
    /\ sweep.at \in {"found", "absent"}
    /\ reservation[Asset(sweep.on)] = "sweep" /\ status[sweep.on] = sweep.saw
    /\ SetStatus(sweep.on, Verdict)
    /\ SweepEnds

\* Mutant: recovery asks for submitted orders and forgets accepted ones.
RecoverSubmittedOnly(i) ==
    /\ status[i] = "submitted" /\ Resolved(i)
    /\ SetStatus(i, broker[i])
    /\ UNCHANGED <<by, locks, session, caller, sweep, attributed, broker, barred>>

\* _recover_inflight_orders: an order known by its id is asked for and, once
\* it has ended and its fill is attributed, closes the intent.
RecoverInflight(i) ==
    /\ status[i] = "accepted" /\ Resolved(i)
    /\ SetStatus(i, broker[i])
    /\ UNCHANGED <<by, locks, session, caller, sweep, attributed, broker, barred>>

-----------------------------------------------------------------------------
(* Time, crashes and the operator                                           *)

\* A lease runs out under a holder that is late to renew it.
Lapse ==
    /\ \/ /\ \E a \in Assets : /\ reservation[a] \in Lanes \cup {"sweep"}
                               /\ reservation' = [reservation EXCEPT ![a] = "free"]
          /\ UNCHANGED portfolio
       \/ /\ portfolio \in Buyers /\ portfolio' = "free"
          /\ UNCHANGED reservation
    /\ UNCHANGED <<status, by, session, caller, sweep, attributed, broker, barred>>

\* The process dies: its leases stay until their time is over.
Crash ==
    /\ pc' = [l \in Lanes |-> "idle"] /\ work' = [l \in Lanes |-> 0] /\ seen' = [l \in Lanes |-> 0]
    /\ sweep' = NoSweep /\ barred' = {}
    /\ reservation' = [a \in Assets |-> IF reservation[a] = "free" THEN "free" ELSE "dead"]
    /\ portfolio' = IF portfolio = "free" THEN "free" ELSE "dead"
    /\ UNCHANGED <<status, by, session, attributed, broker>>

Expire ==
    /\ "dead" \in {portfolio} \cup {reservation[a] : a \in Assets}
    /\ reservation' = ReleaseReservation("dead")
    /\ portfolio' = IF portfolio = "dead" THEN "free" ELSE portfolio
    /\ UNCHANGED <<status, by, session, caller, sweep, attributed, broker, barred>>

\* run_stop or a latch; run_start.
Stop ==
    /\ session = "active" /\ session' = "stopped"
    /\ barred' = {l \in Buyers : pc[l] \in {"proposed", "decided", "approved"}}
    /\ UNCHANGED <<status, by, locks, caller, sweep, attributed, broker>>

Start ==
    /\ session = "stopped" /\ session' = "active"
    /\ UNCHANGED <<status, by, locks, caller, sweep, attributed, broker, barred>>

-----------------------------------------------------------------------------

Lane(l) ==
    \/ Reserve(l) \/ Propose(l) \/ Skip(l) \/ Decide(l) \/ Approve(l) \/ Recheck(l)
    \/ MarkSubmitted(l) \/ RejectBeforeSubmission(l) \/ PlaceOrder(l) \/ Accepted(l)
    \/ DefinitivelyRejected(l) \/ Ambiguous(l) \/ Finalize(l) \/ PollTimeout(l)

Sweep == SweepLookup \/ SweepGivesUp \/ SweepCommits \/ \E i \in Ids : SweepReserve(i)

Next ==
    \/ \E l \in Lanes : Lane(l)
    \/ \E i \in Ids : Deliver(i) \/ EndOrder(i) \/ Attribute(i) \/ RecoverInflight(i)
    \/ Sweep
    \/ Lapse \/ Crash \/ Expire \/ Stop \/ Start

Spec == Init /\ [][Next]_vars

\* A lane goes on or is refused, the broker answers, leases run out, and
\* reconciliation passes come again and again: a candidate is taken, a lookup
\* answered and a verdict committed under an unbroken lease some time.
Fairness ==
    /\ \A l \in Lanes : WF_vars(~At(l, "idle") /\ Lane(l))
    /\ \A i \in Ids : /\ WF_vars(Deliver(i)) /\ WF_vars(Attribute(i)) /\ WF_vars(RecoverInflight(i))
                      /\ SF_vars(SweepReserve(i))
    /\ WF_vars(Sweep) /\ SF_vars(SweepLookup /\ reservation[Asset(sweep.on)] = "sweep") /\ SF_vars(SweepCommits)
    /\ WF_vars(Expire)

FairSpec == Spec /\ Fairness

-----------------------------------------------------------------------------
(* Properties                                                               *)

OnBook == {"sent", "open"}

\* At most one order per asset is on its way to the broker or open there,
\* however leases lapse, answers get lost and processes die: the asset's
\* reservation and the in-flight rule together, neither of them alone
\* (execution/idempotency.py).
OneLiveOrderPerAsset ==
    \A i, j \in Known : i # j /\ Asset(i) = Asset(j) => ~(broker[i] \in OnBook /\ broker[j] \in OnBook)

\* An intent closed as rejected has no order, now or on its way: an ambiguous
\* submission stays open until the broker disproves it
\* (_recover_unknown_submission, _resolve_stranded).
ClosedMeansNoOrder ==
    \A i \in Ids : status[i] = "rejected" => broker[i] \notin Live \cup {"sent"}

\* Buys approved one by one never commit more than the account can pay,
\* whatever their orders and fills are doing meanwhile (pending_buy_funding).
Committed == {i \in Ids : IsBuy(i) /\ \/ (status[i] \in Blocking /\ broker[i] = "unsent")
                                       \/ broker[i] \in OnBook \cup {"filled"}}
FundedOnce == Cardinality(Committed) <= Cash

\* A stop holds back every buyer that has yet to pass the last session check
\* (execute_intent), until a start lets it pass.
StopHoldsBack == [][\A l \in barred : pc'[l] # "sent"]_vars

\* No asset stays blocked for good by an approval, a submission or an answer
\* that got lost: its intent reaches a verdict unless its order stays open
\* (_recover_stranded_intents, _recover_inflight_orders).
EveryIntentDecided ==
    \A i \in Ids : status[i] \in Blocking ~> (status[i] \in TERMINAL_STATUSES \/ broker[i] = "open")

\* A filled order ends as FILLED with its fill on record, although the poll
\* window of a lane may write ACCEPTED over what reconciliation has found.
FillIsFound ==
    \A i \in Ids : broker[i] = "filled" ~> [](status[i] = "filled" /\ i \in attributed)
=============================================================================
