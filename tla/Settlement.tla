----------------------------- MODULE Settlement -----------------------------
(***************************************************************************)
(* The settlement processor (tradepulse/settlement): several concurrent    *)
(* callers of SettlementProcessor.process_pending project the broker fills *)
(* of one asset into lots, attributions, cash, holdings and trade PnL.     *)
(*                                                                         *)
(* Every database.run(write=True) is one BEGIN IMMEDIATE transaction and   *)
(* one atomic step here; a handler that makes several of them is several   *)
(* steps, and any other caller may run between two of them.  A stage's     *)
(* flag is durable only once its checkpoint step has run.                  *)
(***************************************************************************)
EXTENDS SignedLots, FiniteSets

CONSTANTS
    Fills,        \* broker FILL activities of the asset
    Procs,        \* callers of process_pending: settle lane, gateway, reconcile
    Orders,       \* broker orders
    Buys,         \* the fills on the buy side; the others sell
    Qty,          \* units of each fill
    OrderOf,      \* the broker order (and trade intent) of each fill
    Rank,         \* occurred_at order of the fills
    Oversells,    \* sell fills the broker executed beyond what was authorised
    Disputable,   \* orders whose broker evidence may turn contradictory
    MaxAttempts,  \* MAX_SETTLEMENT_ATTEMPTS
    StaleLease,   \* stale_lease_seconds, in clock ticks
    RetryDelay,   \* retry_delay_seconds, in clock ticks
    MaxClock,     \* bound: last clock tick; beyond it the recorded times recede
    MaxFaults,    \* bound: crashes, lost leases and failed verifications together
    SlowBatches,  \* TRUE: a batch may outlive the stale lease
    Auditing,     \* TRUE: the reconcile lane checks the accounting too
    NoFill

ASSUME SettlementAssumption ==
    /\ IsFiniteSet(Fills)
    /\ Buys \subseteq Fills
    /\ NoFill \notin Fills
    /\ Qty \in [Fills -> Nat \ {0}]
    /\ OrderOf \in [Fills -> Orders]
    /\ Rank \in [Fills -> Nat]
    /\ Oversells \subseteq Fills \ Buys
    /\ Disputable \subseteq Orders
    /\ MaxAttempts \in Nat \ {0}
    /\ {StaleLease, RetryDelay, MaxClock, MaxFaults} \subseteq Nat
    /\ {SlowBatches, Auditing} \subseteq BOOLEAN

VARIABLES
    fills,        \* table fills: the recorded broker fills
    events,       \* table settlements: one settlement event per fill
    lots,         \* table position_lots, keyed by originating_fill_id
    liability,    \* table short_exposure_liabilities, units by fill
    attribution,  \* table trade_attributions: units by lot and closing fill
    cash,         \* table cash_ledger: fills with their fill:cash row
    pnl,          \* table pnl_records: units by lot and closing fill
    holding,      \* table holdings: units of the asset's row, 0 for no row
    intent,       \* table trade_intents: fills counted in filled_quantity and
                  \* settlement events counted in realized_pnl, by order
    hold,         \* table integrity_holds, by broker order
    latched,      \* the session is FINANCIAL_INTEGRITY_BLOCKED
    pc,           \* where each caller of process_pending is
    batch,        \* its batch: start time, candidates left, attempts snapshot
    job,          \* the event in its hands, with its local plan and reads
    failure,      \* the kind of the exception it is handling
    clock, faults, dispute, auditor,
    overlapped    \* history: two callers have been in their batches at once

books  == <<lots, liability, attribution, cash, pnl, holding, intent>>
caller == <<pc, batch, job, failure>>
world  == <<clock, faults, dispute, auditor, overlapped>>
vars   == <<fills, events, books, hold, latched, caller, world>>

-----------------------------------------------------------------------------
(* Records                                                                  *)

\* SETTLEMENT_STAGES: a flag is set only after the ones before it, so the
\* number of flags set stands for the seven of them.
Lot == 1
Attribution == 2
Cash == 3
Holding == 4
Trade == 5
Verified == 6
Flags == 7

Statuses == {"absent", "PENDING", "PROCESSING", "COMPLETED",
             "RETRYABLE_FAILED", "TERMINAL_FAILED", "INTEGRITY_BLOCKED"}
Holds == {"none", "verification_pending", "fill_quantity_disputed", "short_exposure"}
Failures == {"none", "INTEGRITY_VIOLATION", "other"}

Nothing == [f \in Fills |-> 0]

Event == [status : Statuses, done : 0 .. Flags, started : Nat,
          attempts : Nat, retryAt : Nat, realized : [Fills -> Nat]]

Pending == [status |-> "PENDING", done |-> 0, started |-> 0,
            attempts |-> 0, retryAt |-> 0, realized |-> Nothing]
Absent == [Pending EXCEPT !.status = "absent"]
NoLot  == [opened |-> 0, remaining |-> 0, closures |-> Nothing]
NoTrade == [filled |-> {}, realized |-> {}]
NoView == [units |-> Nothing, row |-> FALSE, trade |-> NoTrade]
NoJob == [fill |-> NoFill, claimed |-> Absent, state |-> Absent, tries |-> 0,
          take |-> Nothing, rest |-> 0, view |-> NoView]
NoBatch == [now |-> 0, due |-> {}, tries |-> Nothing]

PCs == {"idle", "batch", "precheck", "lot", "close", "open", "attribution", "cash",
        "holding", "holdingRow", "writeHolding", "trade", "readTrade", "writeTrade", "verify",
        "verifyHolding", "liability", "holdOrder", "checkpoint", "complete",
        "fail", "latch"}

\* The handler after each number of flags; the eighth writes COMPLETED.
StageAfter == <<"lot", "attribution", "cash", "holding", "trade", "verify", "liability", "complete">>

\* The stage to run next (run_settlement_stages skips the flags already set).
NextStage(done) == StageAfter[done + 1]

ClosedBy(f) == [l \in Fills |-> lots[l].closures[f]]
OpenUnits == [l \in Fills |-> lots[l].remaining]
LongUnits == SumFunction(OpenUnits)
Working(p) == pc[p] \notin {"idle", "batch", "latch"}

-----------------------------------------------------------------------------
(* Guards                                                                   *)

\* Mutant: a lease is stale one tick early.
ProcessableAtExpiry(e, t) ==
    \/ e.status = "PENDING"
    \/ e.status = "RETRYABLE_FAILED" /\ e.retryAt <= t
    \/ e.status = "PROCESSING" /\ t - e.started >= StaleLease
\* Mutant: an event abandoned by a crash is never taken up again.
ProcessableNeverStale(e, t) ==
    \/ e.status = "PENDING"
    \/ e.status = "RETRYABLE_FAILED" /\ e.retryAt <= t

\* is_settlement_processable with force_retry = FALSE.
IsSettlementProcessable(e, t) ==
    \/ e.status = "PENDING"
    \/ e.status = "RETRYABLE_FAILED" /\ e.retryAt <= t
    \/ e.status = "PROCESSING" /\ t - e.started > StaleLease

\* Mutant: every hold is reported as an integrity violation.
HoldFailureAlwaysFinal(f) == "INTEGRITY_VIOLATION"

\* The failure an integrity hold raises: only a disputed quantity is an
\* INTEGRITY_VIOLATION, every other hold is a retryable VERIFICATION_PENDING.
HoldFailure(f) ==
    IF hold[OrderOf[f]] = "fill_quantity_disputed" THEN "INTEGRITY_VIOLATION" ELSE "other"
Held(f) == hold[OrderOf[f]] # "none"

\* classify_settlement_failure.
FailureStatus(kind, attempts) ==
    IF kind = "INTEGRITY_VIOLATION" THEN "INTEGRITY_BLOCKED"
    ELSE IF attempts >= MaxAttempts THEN "TERMINAL_FAILED" ELSE "RETRYABLE_FAILED"

\* The fill's cash row is there (cash_evidence, _persist with write=False).
CashProven(f) == f \in cash

\* A lot's units are all accounted for: still open or closed by some fill.
LotBalanced(l) == lots[l].remaining + SumFunction(lots[l].closures) = lots[l].opened

\* pnl_evidence: the lots the fill opened or closed balance, each closure has
\* its attribution and no other attribution exists, the whole fill is
\* allocated, and the event's realized PnL is that of the closures.
PnlEvidence(f, e) ==
    /\ lots[f].opened > 0 => LotBalanced(f)
    /\ \A l \in Fills : ClosedBy(f)[l] > 0 => LotBalanced(l)
    /\ \A l \in Fills : attribution[l][f] = ClosedBy(f)[l]
    /\ SumFunction(ClosedBy(f)) + lots[f].opened + liability[f] = Qty[f]
    /\ e.realized = ClosedBy(f)

\* The durable PnL rows are exactly the ones the evidence calls for.
PnlProven(f, e) ==
    /\ PnlEvidence(f, e)
    /\ \A l \in Fills : ClosedBy(f)[l] > 0 => pnl[l][f] = ClosedBy(f)[l]

\* project(event, cash=cash_projected, trade=trade_projected) inside a
\* checkpoint: a flag is never trusted without its rows.
Proven(f, e) ==
    /\ e.done >= Cash => CashProven(f)
    /\ e.done >= Trade => PnlProven(f, e)

-----------------------------------------------------------------------------
(* Steps of a caller p of process_pending.                                  *)

Goto(p, label) == pc' = [pc EXCEPT ![p] = label]

\* An exception inside the try block of a batch.
Raise(p, kind) ==
    /\ Goto(p, "fail")
    /\ failure' = [failure EXCEPT ![p] = kind]

\* The caller's local state once no event is in its hands.
Idle(p) ==
    /\ job' = [job EXCEPT ![p] = NoJob]
    /\ failure' = [failure EXCEPT ![p] = "none"]

EndOfBatch(p) ==
    /\ Goto(p, "idle")
    /\ batch' = [batch EXCEPT ![p] = NoBatch]
    /\ Idle(p)

\* The candidate snapshot: `now` is read once, for the whole batch.
StartBatch(p) ==
    LET candidates == {f \in Fills : IsSettlementProcessable(events[f], clock)} IN
    /\ pc[p] = "idle"
    /\ candidates # {}
    /\ Goto(p, "batch")
    /\ batch' = [batch EXCEPT ![p] =
          [now |-> clock, due |-> candidates,
           tries |-> [f \in Fills |-> IF f \in candidates THEN events[f].attempts ELSE 0]]]
    /\ overlapped' = (overlapped \/ \E q \in Procs : pc[q] # "idle")
    /\ UNCHANGED <<fills, events, books, hold, latched, job, failure, clock, faults, dispute, auditor>>

\* The status and start time a claim writes.
ClaimedBy(p, e) == [e EXCEPT !.status = "PROCESSING", !.started = batch[p].now]

\* Mutant: the claim trusts the candidate snapshot.
ClaimUnchecked(p) ==
    /\ pc[p] = "batch"
    /\ \E f \in batch[p].due :
        /\ batch' = [batch EXCEPT ![p].due = @ \ {f}]
        /\ events' = [events EXCEPT ![f] = ClaimedBy(p, @)]
        /\ job' = [job EXCEPT ![p] = [NoJob EXCEPT !.fill = f, !.tries = batch[p].tries[f],
                        !.claimed = ClaimedBy(p, events[f]), !.state = ClaimedBy(p, events[f])]]
        /\ Goto(p, "precheck")
    /\ UNCHANGED <<fills, books, hold, latched, failure, world>>

\* claim_if_processable: re-decide on the current row, in its transaction.
Claim(p) ==
    /\ pc[p] = "batch"
    /\ \E f \in batch[p].due :
        /\ \A g \in batch[p].due : Rank[f] <= Rank[g]
        /\ batch' = [batch EXCEPT ![p].due = @ \ {f}]
        /\ \/ /\ IsSettlementProcessable(events[f], batch[p].now)
              /\ events' = [events EXCEPT ![f] = ClaimedBy(p, @)]
              /\ job' = [job EXCEPT ![p] = [NoJob EXCEPT !.fill = f, !.tries = batch[p].tries[f],
                              !.claimed = ClaimedBy(p, events[f]), !.state = ClaimedBy(p, events[f])]]
              /\ Goto(p, "precheck")
           \/ /\ ~IsSettlementProcessable(events[f], batch[p].now)
              /\ UNCHANGED <<events, job, pc>>
    /\ UNCHANGED <<fills, books, hold, latched, failure, world>>

FinishBatch(p) ==
    /\ pc[p] = "batch" /\ batch[p].due = {}
    /\ EndOfBatch(p)
    /\ UNCHANGED <<fills, events, books, hold, latched, world>>

\* The settle lane's command lease was lost: no new work is started.
LeaseLost(p) ==
    /\ pc[p] = "batch" /\ batch[p].due # {} /\ faults < MaxFaults
    /\ faults' = faults + 1
    /\ EndOfBatch(p)
    /\ UNCHANGED <<fills, events, books, hold, latched, clock, dispute, auditor, overlapped>>

\* _verify_integrity(check_lots=False): the hold check before the first stage.
PreCheck(p) ==
    LET f == job[p].fill IN
    /\ pc[p] = "precheck"
    /\ \/ Held(f) /\ Raise(p, HoldFailure(f))
       \/ ~Held(f) /\ Goto(p, NextStage(job[p].state.done)) /\ UNCHANGED failure
    /\ UNCHANGED <<fills, events, books, hold, latched, batch, job, world>>

-----------------------------------------------------------------------------
(* Stage 1, project_lot: plan from a snapshot of the lots, then one write    *)
(* transaction per closure, then one for the remainder.                      *)

\* Mutant: what the open lots do not cover is dropped.
LotStepNoRest(t, r) == IF \E l \in Fills : t[l] > 0 THEN "close" ELSE "checkpoint"

\* Where project_lot goes with a plan: closures left, a remainder left, done.
LotStep(t, r) ==
    IF \E l \in Fills : t[l] > 0 THEN "close" ELSE IF r > 0 THEN "open" ELSE "checkpoint"

\* The lots a sell may close, as seen by the planner; a buy closes none (the
\* only short lots are legacy ones, which settlement refuses to close).
ClosableUnits(f) == [l \in Fills |-> IF f \in Buys THEN 0 ELSE lots[l].remaining]

PlanLots(p) ==
    LET f == job[p].fill
        spent == Spent(ClosedBy(f), lots[f].opened) IN
    /\ pc[p] = "lot"
    /\ \/ spent > Qty[f] /\ Raise(p, "INTEGRITY_VIOLATION") /\ UNCHANGED job
       \/ /\ spent <= Qty[f]
          /\ \E t \in [Fills -> 0 .. Qty[f]], r \in 0 .. Qty[f] :
              /\ IsFifoTake(ClosableUnits(f), Rank, Qty[f] - spent, t)
              /\ spent + SumFunction(t) + r = Qty[f]
              /\ job' = [job EXCEPT ![p] = [@ EXCEPT !.take = t, !.rest = r,
                            !.state.realized = [l \in Fills |-> ClosedBy(f)[l] + t[l]]]]
              /\ Goto(p, LotStep(t, r))
          /\ UNCHANGED failure
    /\ UNCHANGED <<fills, events, books, hold, latched, batch, world>>

\* Mutant: the closure is not recorded in the lot.
ClosedUnrecorded(row, f, quantity) == [row EXCEPT !.remaining = @ - quantity]

\* The row a closure writes: the quantity is taken from the fresh row, the
\* closure entry is set whatever the row already records for the fill.
Closed(row, f, quantity) ==
    [row EXCEPT !.remaining = @ - quantity, !.closures[f] = quantity]

\* Mutant: a negative remainder passes validation.
CloseLotUnvalidated(p) ==
    LET f == job[p].fill IN
    /\ pc[p] = "close"
    /\ \E l \in Fills :
        /\ job[p].take[l] > 0
        /\ lots' = [lots EXCEPT ![l] = Closed(@, f, job[p].take[l])]
        /\ job' = [job EXCEPT ![p].take[l] = 0]
        /\ Goto(p, LotStep([job[p].take EXCEPT ![l] = 0], job[p].rest))
    /\ UNCHANGED <<fills, events, liability, attribution, cash, pnl, holding, intent, hold, latched,
                   batch, failure, world>>

\* One closure: position_lots.mutate, guarded by the order's integrity hold.
\* A negative remainder fails the model's validation and rolls back.
CloseLot(p) ==
    LET f == job[p].fill IN
    /\ pc[p] = "close"
    /\ \E l \in Fills :
        /\ job[p].take[l] > 0
        /\ \A k \in Fills : job[p].take[k] > 0 => Rank[l] <= Rank[k]
        /\ \/ Held(f) /\ Raise(p, HoldFailure(f)) /\ UNCHANGED <<lots, job>>
           \/ /\ ~Held(f) /\ job[p].take[l] > lots[l].remaining
              /\ Raise(p, "other") /\ UNCHANGED <<lots, job>>
           \/ /\ ~Held(f) /\ job[p].take[l] <= lots[l].remaining
              /\ lots' = [lots EXCEPT ![l] = Closed(@, f, job[p].take[l])]
              /\ job' = [job EXCEPT ![p].take[l] = 0]
              /\ Goto(p, LotStep([job[p].take EXCEPT ![l] = 0], job[p].rest))
              /\ UNCHANGED failure
    /\ UNCHANGED <<fills, events, liability, attribution, cash, pnl, holding, intent, hold, latched,
                   batch, world>>

\* The remainder of a buy opens a lot (guarded by the hold); the remainder of
\* a sell is an actual oversell and becomes a liability (not guarded).  Both
\* are create_once: a second row for the fill is silently ignored.
OpenRemainder(p) ==
    LET f == job[p].fill IN
    /\ pc[p] = "open"
    /\ \/ /\ f \in Buys /\ Held(f)
          /\ Raise(p, HoldFailure(f)) /\ UNCHANGED <<lots, liability>>
       \/ /\ f \in Buys /\ ~Held(f)
          /\ lots' = IF lots[f].opened > 0 THEN lots
                     ELSE [lots EXCEPT ![f] = [@ EXCEPT !.opened = job[p].rest, !.remaining = job[p].rest]]
          /\ Goto(p, "checkpoint") /\ UNCHANGED <<liability, failure>>
       \/ /\ f \notin Buys
          /\ liability' = IF liability[f] > 0 THEN liability ELSE [liability EXCEPT ![f] = job[p].rest]
          /\ Goto(p, "checkpoint") /\ UNCHANGED <<lots, failure>>
    /\ UNCHANGED <<fills, events, attribution, cash, pnl, holding, intent, hold, latched,
                   batch, job, world>>

-----------------------------------------------------------------------------
(* Stage 2, project_attribution: one create_once row per lot the fill closed *)
(* (write-only evidence; not guarded by the hold).                           *)
ProjectAttribution(p) ==
    LET f == job[p].fill IN
    /\ pc[p] = "attribution"
    /\ attribution' = [l \in Fills |->
          [attribution[l] EXCEPT ![f] = IF @ = 0 THEN lots[l].closures[f] ELSE @]]
    /\ Goto(p, "checkpoint")
    /\ UNCHANGED <<fills, events, lots, liability, cash, pnl, holding, intent, hold, latched,
                   batch, job, failure, world>>

\* Mutant: the cash row is written without the hold guard.
ProjectCashUnguarded(p) ==
    /\ pc[p] = "cash"
    /\ cash' = cash \cup {job[p].fill} /\ Goto(p, "checkpoint")
    /\ UNCHANGED <<fills, events, lots, liability, attribution, pnl, holding, intent, hold, latched,
                   batch, job, failure, world>>

\* Stage 3, project_cash: project_accounting(cash=True), one transaction.
ProjectCash(p) ==
    LET f == job[p].fill IN
    /\ pc[p] = "cash"
    /\ \/ Held(f) /\ Raise(p, HoldFailure(f)) /\ UNCHANGED cash
       \/ ~Held(f) /\ cash' = cash \cup {f} /\ Goto(p, "checkpoint") /\ UNCHANGED failure
    /\ UNCHANGED <<fills, events, lots, liability, attribution, pnl, holding, intent, hold, latched,
                   batch, job, world>>

-----------------------------------------------------------------------------
(* Stage 4, project_holding: the lots are read, then the holding row, then    *)
(* the row is written from that view in a transaction of its own.            *)
ReadLots(p) ==
    /\ pc[p] = "holding"
    /\ job' = [job EXCEPT ![p].view.units = OpenUnits]
    /\ Goto(p, "holdingRow")
    /\ UNCHANGED <<fills, events, books, hold, latched, batch, failure, world>>

ReadHoldingRow(p) ==
    /\ pc[p] = "holdingRow"
    /\ job' = [job EXCEPT ![p].view.row = holding > 0]
    /\ Goto(p, IF SumFunction(job[p].view.units) = 0 /\ holding = 0 THEN "checkpoint" ELSE "writeHolding")
    /\ UNCHANGED <<fills, events, books, hold, latched, batch, failure, world>>

\* What the write leaves: delete without open lots, mutate (which needs the
\* row) or create_once (ignored when the row is there by now).
HoldingWritten(view) ==
    LET total == SumFunction(view.units) IN
    CASE total = 0 -> 0
      [] total > 0 /\ view.row -> IF holding = 0 THEN 0 ELSE total
      [] total > 0 /\ ~view.row -> IF holding > 0 THEN holding ELSE total

WriteHolding(p) ==
    LET f == job[p].fill IN
    /\ pc[p] = "writeHolding"
    /\ \/ Held(f) /\ Raise(p, HoldFailure(f)) /\ UNCHANGED holding
       \/ ~Held(f) /\ holding' = HoldingWritten(job[p].view) /\ Goto(p, "checkpoint") /\ UNCHANGED failure
    /\ UNCHANGED <<fills, events, lots, liability, attribution, cash, pnl, intent, hold, latched,
                   batch, job, world>>

-----------------------------------------------------------------------------
(* Stage 5, project_trade: project_accounting(trade=True), then the intent is *)
(* recomputed from the fills and settlement events read and written back.    *)
ProjectPnl(p) ==
    LET f == job[p].fill
        conflict == \E l \in Fills : pnl[l][f] > 0 /\ ClosedBy(f)[l] \notin {0, pnl[l][f]} IN
    /\ pc[p] = "trade"
    /\ \/ Held(f) /\ Raise(p, HoldFailure(f)) /\ UNCHANGED pnl
       \/ /\ ~Held(f) /\ (~PnlEvidence(f, job[p].state) \/ conflict)
          /\ Raise(p, "other") /\ UNCHANGED pnl
       \/ /\ ~Held(f) /\ PnlEvidence(f, job[p].state) /\ ~conflict
          /\ pnl' = [l \in Fills |-> IF ClosedBy(f)[l] > 0
                                     THEN [pnl[l] EXCEPT ![f] = ClosedBy(f)[l]] ELSE pnl[l]]
          /\ Goto(p, "readTrade") /\ UNCHANGED failure
    /\ UNCHANGED <<fills, events, lots, liability, attribution, cash, holding, intent, hold, latched,
                   batch, job, world>>

\* The fills and realized settlement events of an order, as the tables have them.
TradeOf(o) ==
    [filled |-> {g \in fills : OrderOf[g] = o},
     realized |-> {g \in fills : OrderOf[g] = o /\ events[g].done >= Lot}]

\* Mutant: only completed events count, which leaves out the one in hand.
ReadTradeCompleted(p) ==
    LET o == OrderOf[job[p].fill] IN
    /\ pc[p] = "readTrade"
    /\ job' = [job EXCEPT ![p].view.trade =
                  [TradeOf(o) EXCEPT !.realized = {g \in @ : events[g].status = "COMPLETED"}]]
    /\ Goto(p, "writeTrade")
    /\ UNCHANGED <<fills, events, books, hold, latched, batch, failure, world>>

ReadTrade(p) ==
    /\ pc[p] = "readTrade"
    /\ job' = [job EXCEPT ![p].view.trade = TradeOf(OrderOf[job[p].fill])]
    /\ Goto(p, "writeTrade")
    /\ UNCHANGED <<fills, events, books, hold, latched, batch, failure, world>>

WriteTrade(p) ==
    LET f == job[p].fill IN
    /\ pc[p] = "writeTrade"
    /\ \/ Held(f) /\ Raise(p, HoldFailure(f)) /\ UNCHANGED intent
       \/ /\ ~Held(f) /\ intent' = [intent EXCEPT ![OrderOf[f]] = job[p].view.trade]
          /\ Goto(p, "checkpoint") /\ UNCHANGED failure
    /\ UNCHANGED <<fills, events, lots, liability, attribution, cash, pnl, holding, hold, latched,
                   batch, job, world>>

-----------------------------------------------------------------------------
(* Stage 6, verify_integrity: the hold and the lots, then the holding row.   *)
VerifyLots(p) ==
    LET f == job[p].fill IN
    /\ pc[p] = "verify"
    /\ \/ Held(f) /\ Raise(p, HoldFailure(f)) /\ UNCHANGED job
       \/ /\ ~Held(f) /\ job' = [job EXCEPT ![p].view.units = OpenUnits]
          /\ Goto(p, "verifyHolding") /\ UNCHANGED failure
    /\ UNCHANGED <<fills, events, books, hold, latched, batch, world>>

\* Mutant: the holding row is not compared with the lots.
VerifyHoldingUnchecked(p) ==
    /\ pc[p] = "verifyHolding" /\ Goto(p, "checkpoint")
    /\ UNCHANGED <<fills, events, books, hold, latched, batch, job, failure, world>>

VerifyHolding(p) ==
    /\ pc[p] = "verifyHolding"
    /\ \/ SumFunction(job[p].view.units) # holding /\ Raise(p, "INTEGRITY_VIOLATION")
       \/ SumFunction(job[p].view.units) = holding /\ Goto(p, "checkpoint") /\ UNCHANGED failure
    /\ UNCHANGED <<fills, events, books, hold, latched, batch, job, world>>

-----------------------------------------------------------------------------
(* Stage 7, project_liability_hold: latch, then hold the broker order.        *)
\* Mutant: the order is held but trading goes on.
LatchLiabilitySilently(p) ==
    /\ pc[p] = "liability"
    /\ Goto(p, IF liability[job[p].fill] = 0 THEN "checkpoint" ELSE "holdOrder")
    /\ UNCHANGED <<fills, events, books, hold, latched, batch, job, failure, world>>
\* Mutant: trading stops whether or not there is a liability.
LatchLiabilityAlways(p) ==
    /\ pc[p] = "liability"
    /\ latched' = TRUE /\ Goto(p, "holdOrder")
    /\ UNCHANGED <<fills, events, books, hold, batch, job, failure, world>>

LatchLiability(p) ==
    LET f == job[p].fill IN
    /\ pc[p] = "liability"
    /\ \/ liability[f] = 0 /\ Goto(p, "checkpoint") /\ UNCHANGED latched
       \/ liability[f] > 0 /\ latched' = TRUE /\ Goto(p, "holdOrder")
    /\ UNCHANGED <<fills, events, books, hold, batch, job, failure, world>>

HoldOrder(p) ==
    LET o == OrderOf[job[p].fill] IN
    /\ pc[p] = "holdOrder"
    /\ hold' = IF hold[o] = "none" THEN [hold EXCEPT ![o] = "short_exposure"] ELSE hold
    /\ Goto(p, "checkpoint")
    /\ UNCHANGED <<fills, events, books, latched, batch, job, failure, world>>

-----------------------------------------------------------------------------
(* Checkpoints: an unconditional UPDATE of the settlement row, after the     *)
(* evidence of the flags it carries is re-read in the same transaction.      *)

\* After a stage: its flag becomes durable.
Checkpoint(p) ==
    LET f == job[p].fill
        flagged == [job[p].state EXCEPT !.done = @ + 1] IN
    /\ pc[p] = "checkpoint"
    /\ \/ /\ Proven(f, flagged)
          /\ events' = [events EXCEPT ![f] = flagged]
          /\ job' = [job EXCEPT ![p] = [@ EXCEPT !.state = flagged, !.take = Nothing,
                                                !.rest = 0, !.view = NoView]]
          /\ Goto(p, NextStage(flagged.done))
          /\ UNCHANGED failure
       \/ ~Proven(f, flagged) /\ Raise(p, "other") /\ UNCHANGED <<events, job>>
    /\ UNCHANGED <<fills, books, hold, latched, batch, world>>

\* After the last stage: COMPLETED.
Complete(p) ==
    LET f == job[p].fill
        finished == [job[p].state EXCEPT !.status = "COMPLETED", !.started = 0, !.retryAt = 0] IN
    /\ pc[p] = "complete"
    /\ \/ /\ Proven(f, finished)
          /\ events' = [events EXCEPT ![f] = finished]
          /\ Goto(p, "batch") /\ Idle(p)
       \/ ~Proven(f, finished) /\ Raise(p, "other") /\ UNCHANGED <<events, job>>
    /\ UNCHANGED <<fills, books, hold, latched, batch, world>>

\* The failed state: the claimed event again, flags included, with the
\* classified status.
Failed(p) ==
    LET attempts == job[p].tries + 1
        status == FailureStatus(failure[p], attempts) IN
    [job[p].claimed EXCEPT !.status = status, !.attempts = attempts, !.started = 0,
                           !.retryAt = IF status = "RETRYABLE_FAILED" THEN batch[p].now + RetryDelay ELSE 0]

\* The except block.  If the claimed flags cannot be proven any more, the
\* checkpoint raises out of process_pending and the row stays PROCESSING.
FailCheckpoint(p) ==
    LET f == job[p].fill IN
    /\ pc[p] = "fail"
    /\ \/ /\ Proven(f, Failed(p))
          /\ events' = [events EXCEPT ![f] = Failed(p)]
          /\ Goto(p, IF Failed(p).status = "RETRYABLE_FAILED" THEN "batch" ELSE "latch")
          /\ Idle(p)
          /\ UNCHANGED batch
       \/ ~Proven(f, Failed(p)) /\ EndOfBatch(p) /\ UNCHANGED events
    /\ UNCHANGED <<fills, books, hold, latched, world>>

\* latch_financial_integrity_block after a permanent failure.
Latch(p) ==
    /\ pc[p] = "latch"
    /\ latched' = TRUE
    /\ Goto(p, "batch")
    /\ UNCHANGED <<fills, events, books, hold, batch, job, failure, world>>

\* The process dies (or is restarted): only the tables survive.
Crash(p) ==
    /\ pc[p] # "idle" /\ faults < MaxFaults
    /\ faults' = faults + 1
    /\ EndOfBatch(p)
    /\ UNCHANGED <<fills, events, books, hold, latched, clock, dispute, auditor, overlapped>>

-----------------------------------------------------------------------------
(* Fill attribution and reconciliation, as far as they write the tables the  *)
(* processor reads.                                                          *)

\* How much of a fill is in the books.
Allocated(f) == SumFunction(ClosedBy(f)) + lots[f].opened + liability[f]

\* The gateway authorises a sell only within the open lots that earlier sells
\* still to be projected leave (_authorize_sell); an oversell is not covered.
Covered(f) ==
    \/ f \in Buys \cup Oversells
    \/ Qty[f] + SumFunctionOnSet([g \in Fills |-> Qty[g] - Allocated(g)], fills \ Buys) <= LongUnits

\* attribute_order_fills: fills.create_once, then settlements.create_once.
RecordFill(f) ==
    /\ f \notin fills /\ Covered(f)
    /\ fills' = fills \cup {f}
    /\ UNCHANGED <<events, books, hold, latched, caller, world>>

EnqueueSettlement(f) ==
    /\ f \in fills /\ events[f] = Absent
    /\ events' = [events EXCEPT ![f] = Pending]
    /\ UNCHANGED <<fills, books, hold, latched, caller, world>>

\* get_order failed: a verification_pending hold unless a hold exists.
HoldForVerification(o) ==
    /\ hold[o] = "none" /\ faults < MaxFaults
    /\ hold' = [hold EXCEPT ![o] = "verification_pending"]
    /\ faults' = faults + 1
    /\ UNCHANGED <<fills, events, books, latched, caller, clock, dispute, auditor, overlapped>>

\* A later verification succeeded: only a verification_pending hold goes.
ReleaseVerification(o) ==
    /\ hold[o] = "verification_pending"
    /\ hold' = [hold EXCEPT ![o] = "none"]
    /\ UNCHANGED <<fills, events, books, latched, caller, world>>

NoDispute == [phase |-> "none", todo |-> {}]

\* More units attributed than the broker order reports: the order's existing
\* events are listed, blocked one by one, then the hold is placed or
\* upgraded, then the session is latched.
BeginDispute(o) ==
    /\ o \in Disputable /\ dispute[o] = NoDispute
    /\ dispute' = [dispute EXCEPT ![o] =
          [phase |-> "block", todo |-> {f \in fills : OrderOf[f] = o /\ events[f] # Absent}]]
    /\ UNCHANGED <<fills, events, books, hold, latched, caller, clock, faults, auditor, overlapped>>

BlockEvent(f) ==
    /\ f \in dispute[OrderOf[f]].todo
    /\ events' = IF events[f].status \in {"PENDING", "RETRYABLE_FAILED"}
                 THEN [events EXCEPT ![f] = [@ EXCEPT !.status = "INTEGRITY_BLOCKED", !.retryAt = 0]]
                 ELSE events
    /\ dispute' = [dispute EXCEPT ![OrderOf[f]].todo = @ \ {f}]
    /\ UNCHANGED <<fills, books, hold, latched, caller, clock, faults, auditor, overlapped>>

PlaceDisputeHold(o) ==
    /\ dispute[o] = [phase |-> "block", todo |-> {}]
    /\ hold' = [hold EXCEPT ![o] = "fill_quantity_disputed"]
    /\ dispute' = [dispute EXCEPT ![o].phase = "latch"]
    /\ UNCHANGED <<fills, events, books, latched, caller, clock, faults, auditor, overlapped>>

LatchDispute(o) ==
    /\ dispute[o].phase = "latch"
    /\ latched' = TRUE
    /\ dispute' = [dispute EXCEPT ![o].phase = "done"]
    /\ UNCHANGED <<fills, events, books, hold, caller, clock, faults, auditor, overlapped>>

\* Mutant: only the status of the settlement event is looked at.
AccountingIssueByStatus(f) == f \in fills /\ events[f].status # "COMPLETED"
\* Mutant: only the evidence is looked at.
AccountingIssueByEvidence(f) == f \in fills /\ ~Proven(f, events[f])

\* accounting_issues over one read snapshot: every recorded fill must have a
\* completed settlement event with all its evidence.
AccountingIssue(f) ==
    /\ f \in fills
    /\ \/ events[f].status # "COMPLETED"
       \/ ~Proven(f, events[f])

\* The last step of run_reconciliation: check, then latch what it found.
Audit ==
    /\ auditor = "idle" /\ Auditing
    /\ \E f \in Fills : AccountingIssue(f)
    /\ auditor' = "latch"
    /\ UNCHANGED <<fills, events, books, hold, latched, caller, clock, faults, dispute, overlapped>>

AuditLatch ==
    /\ auditor = "latch"
    /\ latched' = TRUE
    /\ auditor' = "idle"
    /\ UNCHANGED <<fills, events, books, hold, caller, clock, faults, dispute, overlapped>>

\* Time passes.  Unless SlowBatches, a batch is never older than StaleLease.
\* At the bound the recorded times recede instead of the clock advancing: the
\* code compares differences only, and one larger than StaleLease stays so.
Earlier(t) == IF t = 0 THEN 0 ELSE t - 1
Receded(e) == [e EXCEPT !.started = Earlier(@), !.retryAt = Earlier(@)]

Tick ==
    /\ SlowBatches \/ \A p \in Procs : pc[p] # "idle" => clock - batch[p].now < StaleLease
    /\ \/ clock < MaxClock /\ clock' = clock + 1 /\ UNCHANGED <<events, batch, job>>
       \/ /\ clock = MaxClock /\ MaxClock > 2 * StaleLease /\ ~SlowBatches
          /\ events' = [f \in Fills |-> Receded(events[f])]
          /\ batch' = [p \in Procs |-> [batch[p] EXCEPT !.now = Earlier(@)]]
          /\ job' = [p \in Procs |-> [job[p] EXCEPT !.claimed = Receded(@), !.state = Receded(@)]]
          /\ UNCHANGED clock
    /\ UNCHANGED <<fills, books, hold, latched, pc, failure, faults, dispute, auditor, overlapped>>

-----------------------------------------------------------------------------
Init ==
    /\ fills = {}
    /\ events = [f \in Fills |-> Absent]
    /\ lots = [f \in Fills |-> NoLot]
    /\ liability = Nothing
    /\ attribution = [l \in Fills |-> Nothing]
    /\ cash = {}
    /\ pnl = [l \in Fills |-> Nothing]
    /\ holding = 0
    /\ intent = [o \in Orders |-> NoTrade]
    /\ hold = [o \in Orders |-> "none"]
    /\ latched = FALSE
    /\ pc = [p \in Procs |-> "idle"]
    /\ batch = [p \in Procs |-> NoBatch]
    /\ job = [p \in Procs |-> NoJob]
    /\ failure = [p \in Procs |-> "none"]
    /\ clock = 0
    /\ faults = 0
    /\ dispute = [o \in Orders |-> NoDispute]
    /\ auditor = "idle"
    /\ overlapped = FALSE

LotStage(p) == PlanLots(p) \/ CloseLot(p) \/ OpenRemainder(p)
HoldingStage(p) == ReadLots(p) \/ ReadHoldingRow(p) \/ WriteHolding(p)
TradeStage(p) == ProjectPnl(p) \/ ReadTrade(p) \/ WriteTrade(p)
LaterStages(p) == VerifyLots(p) \/ VerifyHolding(p) \/ LatchLiability(p) \/ HoldOrder(p)

\* What process_pending does by itself once it is called.
Step(p) ==
    \/ StartBatch(p) \/ Claim(p) \/ FinishBatch(p) \/ PreCheck(p)
    \/ LotStage(p) \/ ProjectAttribution(p) \/ ProjectCash(p)
    \/ HoldingStage(p) \/ TradeStage(p) \/ LaterStages(p)
    \/ Checkpoint(p) \/ Complete(p) \/ FailCheckpoint(p) \/ Latch(p)

Attribute(f) == RecordFill(f) \/ EnqueueSettlement(f) \/ BlockEvent(f)

Verification(o) ==
    \/ HoldForVerification(o) \/ ReleaseVerification(o)
    \/ BeginDispute(o) \/ PlaceDisputeHold(o) \/ LatchDispute(o)

Next ==
    \/ \E p \in Procs : Step(p) \/ LeaseLost(p) \/ Crash(p)
    \/ \E f \in Fills : Attribute(f)
    \/ \E o \in Orders : Verification(o)
    \/ Audit \/ AuditLatch \/ Tick

Spec == Init /\ [][Next]_vars

-----------------------------------------------------------------------------
(* Properties                                                               *)

Job == [fill : Fills \cup {NoFill}, claimed : Event, state : Event, tries : Nat,
        take : [Fills -> Nat], rest : Nat,
        view : [units : [Fills -> Int], row : BOOLEAN,
                trade : [filled : SUBSET Fills, realized : SUBSET Fills]]]
LotRow == [opened : Nat, remaining : Int, closures : [Fills -> Nat]]
Dispute == [phase : {"none", "block", "latch", "done"}, todo : SUBSET Fills]
Batch == [now : Nat, due : SUBSET Fills, tries : [Fills -> Nat]]

\* The type invariant.  The holding row is the one variable it leaves out: its
\* value is a sum over lots, the subject of SettledHoldingMatchesLots.
TypeOK ==
    /\ fills \in SUBSET Fills
    /\ events \in [Fills -> Event]
    /\ lots \in [Fills -> LotRow]
    /\ liability \in [Fills -> Nat]
    /\ attribution \in [Fills -> [Fills -> Nat]]
    /\ cash \in SUBSET Fills
    /\ pnl \in [Fills -> [Fills -> Nat]]
    /\ intent \in [Orders -> [filled : SUBSET Fills, realized : SUBSET Fills]]
    /\ hold \in [Orders -> Holds]
    /\ latched \in BOOLEAN
    /\ pc \in [Procs -> PCs]
    /\ batch \in [Procs -> Batch]
    /\ job \in [Procs -> Job]
    /\ failure \in [Procs -> Failures]
    /\ clock \in Nat
    /\ faults \in Nat
    /\ dispute \in [Orders -> Dispute]
    /\ auditor \in {"idle", "latch"}
    /\ overlapped \in BOOLEAN

\* No two callers ever have the same settlement event in their hands
\* (claim_if_processable, the compare-and-swap that replaces a lease).
ExclusiveClaim ==
    \A p, q \in Procs : Working(p) /\ Working(q) /\ job[p].fill = job[q].fill => p = q

\* The units of every lot are open or closed by some fill: nothing is closed
\* twice, however the callers' read-plan-write sequences interleave.
LotConservation == \A l \in Fills : LotBalanced(l)

\* No lot ever gives more units than it has left: a closure planned from stale
\* lots is re-derived on the fresh row and rolled back when it does not fit.
NoLotOversold == \A l \in Fills : lots[l].remaining >= 0

\* Whatever overlapping callers do to the books, they cannot hide it: as long
\* as a lot does not balance or a fill is allocated beyond its quantity, the
\* accounting check of reconciliation reports some fill.
DamageIsVisible ==
    (\E f \in Fills : ~LotBalanced(f) \/ Allocated(f) > Qty[f]) => \E f \in Fills : AccountingIssue(f)

\* No fill is ever projected beyond its own quantity, and a durable lot flag
\* means that it is projected in full, retries and resumptions included.
FillAllocation ==
    \A f \in Fills : /\ Allocated(f) <= Qty[f]
                     /\ events[f].done >= Lot => Allocated(f) = Qty[f]

\* What COMPLETED promises: the cash row, attribution and PnL rows for exactly
\* the closures in the lots, and a liability only on a held order and a
\* latched session.
CompletedIsProven ==
    \A f \in Fills : events[f].status = "COMPLETED" =>
        /\ events[f].done = Flags
        /\ CashProven(f) /\ PnlProven(f, events[f])
        /\ liability[f] > 0 => latched /\ Held(f)

\* Once every recorded fill has completed, the holding row is the sum of the
\* lots: a stale holding write never survives its writer's verify stage.
SettledHoldingMatchesLots ==
    (\A f \in fills : events[f].status = "COMPLETED") => holding = LongUnits

Decided(e) == e.status \in {"COMPLETED", "INTEGRITY_BLOCKED", "TERMINAL_FAILED"}

\* A settlement verdict is final: no late checkpoint of another caller ever
\* overwrites a completed, blocked or terminally failed event.
VerdictStands == \A f \in Fills : Decided(events[f]) => events'[f] = events[f]
VerdictIsFinal == [][VerdictStands]_vars

\* While an order is under an integrity hold nothing of its fills enters lots,
\* cash or PnL, whatever stage a caller had reached when the hold appeared.
Frozen(f) ==
    /\ lots'[f].opened = lots[f].opened
    /\ \A l \in Fills : lots'[l].closures[f] = lots[l].closures[f]
    /\ \A l \in Fills : pnl'[l][f] = pnl[l][f]
    /\ f \in cash' => f \in cash
HeldOrderIsFrozen == [][\A f \in Fills : Held(f) => Frozen(f)]_vars

\* Only evidence that contradicts the broker order ever makes an event
\* INTEGRITY_BLOCKED: well-formed fills settle, callers need no other lock.
BlockedIsDisputed(f) == events[f].status = "INTEGRITY_BLOCKED" => dispute[OrderOf[f]] # NoDispute
BlockedMeansDisputed == \A f \in Fills : BlockedIsDisputed(f)

\* The session is latched only by a genuine failure: a permanently failed or
\* blocked settlement, an oversell or contradictory broker evidence.
LatchIsGenuine ==
    latched => \/ \E f \in Fills : events[f].status \in {"INTEGRITY_BLOCKED", "TERMINAL_FAILED"}
               \/ \E f \in Fills : liability[f] > 0
               \/ \E o \in Orders : dispute[o] # NoDispute

\* Once every fill of an order has completed, its intent carries the filled
\* quantity and the realized PnL of all of them.
TradeTotalsComplete ==
    \A o \in Orders :
        (\A f \in fills : OrderOf[f] = o => events[f].status = "COMPLETED") => intent[o] = TradeOf(o)

\* The books seen as the ledger of FillLedger.
Ledger == INSTANCE FillLedger WITH
    allocated <- [f \in Fills |-> Allocated(f)],
    settled <- {f \in Fills : events[f].status = "COMPLETED"}

\* Settlement implements the ledger: units enter once, and settled is final.
ImplementsLedger == Ledger!Spec

-----------------------------------------------------------------------------
(* Liveness: the settle lane calls process_pending every minute and asyncio  *)
(* runs every ready task; an attribution that wrote a fill goes on to its    *)
(* settlement event, a dispute to its latch, reconciliation to its check.    *)
Fairness ==
    /\ \A p \in Procs : WF_vars(Step(p))
    /\ \A f \in Fills : WF_vars(EnqueueSettlement(f) \/ BlockEvent(f))
    /\ \A o \in Orders : WF_vars(PlaceDisputeHold(o) \/ LatchDispute(o))
    /\ WF_vars(Audit) /\ WF_vars(AuditLatch) /\ WF_vars(Tick)

FairSpec == Spec /\ Fairness

\* Every recorded fill ends with a verdict, crashes and holds notwithstanding.
EveryFillDecided == \A f \in Fills : f \in fills ~> Decided(events[f])

\* A settlement given up on always stops trading in the end, even when the
\* caller dies between writing the verdict and latching the session.
GivenUpIsLatched ==
    \A f \in Fills : events[f].status \in {"INTEGRITY_BLOCKED", "TERMINAL_FAILED"} ~> latched

\* The books balance at every moment: lots against closures, fills against what
\* they allocated, verdicts against their evidence, the row against the lots.
BooksBalance == LotConservation /\ FillAllocation /\ CompletedIsProven /\ SettledHoldingMatchesLots

\* Whatever two callers do to one book between each other's reads, the damage
\* is within what the lots show and the accounting check reports it.
DamageIsContained == NoLotOversold /\ DamageIsVisible

\* Callers that have never been in their batches at once, whichever of them runs
\* and dies, leave every trade intent with the totals of its order, and latch the
\* session for a genuine failure only.
LoneCallerIsExact == ~overlapped => TradeTotalsComplete /\ LatchIsGenuine

\* A verdict that gives up is about a dispute, and never goes unnoticed.
GivingUpIsHonest == [](\A f \in Fills : BlockedIsDisputed(f)) /\ GivenUpIsLatched
=============================================================================
