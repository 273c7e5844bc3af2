------------------------------- MODULE Monitor -------------------------------
(***************************************************************************)
(* The position monitor (monitor/coordinator.py) on one long position: the *)
(* stop it ratchets up, the ladder it sells by, and the two other writers  *)
(* of the holding row, settlement and reconciliation.                      *)
(*                                                                         *)
(* A price is a natural number and every level of RiskLimits a distance    *)
(* from the average price.  A buy opens a position in one lot; scale-ins,  *)
(* shorts and option expiry (one more reason to sell everything) are left  *)
(* out.                                                                    *)
(***************************************************************************)
EXTENDS Integers, FiniteSets

CONSTANTS
    Prices,        \* the prices the broker may show
    EntryPrices,   \* the prices a position may be opened at
    Sizes,         \* the units a position may have
    MaxPositions,  \* bound: positions opened one after the other
    MaxFaults,     \* bound: crashes, refused orders and failed candle reads
    Risk,          \* average_price - stop_loss
    BreakEvenAt, ScaleOutAt, SingleAt, FinalAt, Trail,  \* levels of RiskLimits
    StallDays, StallMin, MaxHold,
    Reentry        \* whether a position may be replaced during a cycle

ASSUME LevelsAssumption ==
    /\ Prices \subseteq Nat \ {0} /\ EntryPrices \subseteq Prices /\ Sizes \subseteq Nat \ {0}
    /\ {Risk, BreakEvenAt, ScaleOutAt, SingleAt, FinalAt, Trail} \subseteq Nat \ {0}
    /\ {StallDays, StallMin, MaxHold, MaxPositions, MaxFaults} \subseteq Nat
    /\ Reentry \in BOOLEAN

VARIABLES
    market,    \* the broker's price and clock
    broker,    \* the units the broker holds
    order,     \* the units of the sell order in flight, 0: none
    lot,       \* position_lots: the last position's lot
    unsettled, \* what settlement has not written yet
    holding,   \* the holdings row
    monitor,   \* the monitor lane and its locals
    rebuild,   \* the reconcile lane and its locals
    scaleOuts, \* history: the scale-outs sent for this position
    rebuilt,   \* history: reconciliation has rewritten a holding row
    faults     \* the faults so far

vars == <<market, broker, order, lot, unsettled, holding, monitor, rebuild, scaleOuts, rebuilt, faults>>

None == 0
Larger(a, b) == IF a >= b THEN a ELSE b
Smaller(a, b) == IF a <= b THEN a ELSE b

NoLot == [id |-> 0, qty |-> 0, cost |-> None, mfe |-> None, age |-> 0]
NoHolding == [id |-> 0, qty |-> 0, average |-> None, stop |-> None, scaledOut |-> FALSE]
NoPlan == [qty |-> 0, scale |-> FALSE]
Waiting == [pc |-> "idle", qty |-> 0, price |-> None, lot |-> NoLot, row |-> NoHolding,
            candidate |-> None, plan |-> NoPlan]
NoRebuild == [pc |-> "idle", broker |-> 0, lots |-> 0, previous |-> NoHolding]

Held == holding # NoHolding

LotRecords == [id : 0..MaxPositions, qty : Nat, cost : Prices \cup {None}, mfe : Prices \cup {None}, age : Nat]
HoldingRows == [id : 0..MaxPositions, qty : Nat, average : Prices \cup {None}, stop : Nat, scaledOut : BOOLEAN]
Sales == [qty : Nat, scale : BOOLEAN]

TypeOK ==
    /\ market \in [price : Prices, open : BOOLEAN] /\ broker \in Nat /\ order \in Nat
    /\ lot \in LotRecords /\ unsettled \in [units : Nat, view : BOOLEAN] /\ holding \in HoldingRows
    /\ monitor \in [pc : {"idle", "lots", "holding", "fold", "ratchet", "fetch", "decide", "reserve", "mark", "sell",
                          "unmark"},
                    qty : Nat, price : Prices \cup {None}, lot : LotRecords, row : HoldingRows, candidate : Nat,
                    plan : Sales]
    /\ rebuild \in [pc : {"idle", "compare", "write"}, broker : Nat, lots : Nat, previous : HoldingRows]
    /\ scaleOuts \in Nat /\ rebuilt \in BOOLEAN /\ faults \in 0..MaxFaults

Init ==
    /\ market \in [price : Prices, open : {TRUE}] /\ broker = 0 /\ order = 0
    /\ lot = NoLot /\ unsettled = [units |-> 0, view |-> FALSE] /\ holding = NoHolding
    /\ monitor = Waiting /\ rebuild = NoRebuild /\ scaleOuts = 0 /\ rebuilt = FALSE /\ faults = 0

-----------------------------------------------------------------------------
(* The broker and the buyer.                                               *)

PriceMoves ==
    /\ \E p \in Prices \ {market.price} : market' = [market EXCEPT !.price = p]
    /\ UNCHANGED <<broker, order, lot, unsettled, holding, monitor, rebuild, scaleOuts, rebuilt, faults>>

MarketTurns ==
    /\ market' = [market EXCEPT !.open = ~@]
    /\ UNCHANGED <<broker, order, lot, unsettled, holding, monitor, rebuild, scaleOuts, rebuilt, faults>>

(* The monitor holds the asset's execution reservation.                    *)
Reserved == monitor.pc \in {"mark", "sell", "unmark"}

(* A scan lane opens a position (its order, fill and lot in one step) once *)
(* the last one has settled.                                               *)
Buy ==
    /\ ~Reserved /\ (monitor # Waiting => Reentry)
    /\ broker = 0 /\ order = 0 /\ unsettled = [units |-> 0, view |-> FALSE] /\ ~Held
    /\ lot.id < MaxPositions /\ market.price \in EntryPrices
    /\ \E size \in Sizes :
          /\ broker' = size
          /\ lot' = [id |-> lot.id + 1, qty |-> size, cost |-> market.price, mfe |-> market.price, age |-> 0]
    /\ unsettled' = [units |-> 0, view |-> TRUE]
    /\ scaleOuts' = 0
    /\ UNCHANGED <<market, order, holding, monitor, rebuild, rebuilt, faults>>

Fill ==
    /\ order > 0 /\ order' = order - 1
    /\ broker' = broker - 1
    /\ unsettled' = [unsettled EXCEPT !.units = @ + 1]
    /\ UNCHANGED <<market, lot, holding, monitor, rebuild, scaleOuts, rebuilt, faults>>

Fault == faults < MaxFaults /\ faults' = faults + 1

CancelOrder ==
    /\ order > 0 /\ Fault /\ order' = 0
    /\ UNCHANGED <<market, broker, lot, unsettled, holding, monitor, rebuild, scaleOuts, rebuilt>>

NextDay ==
    /\ lot.qty > 0 /\ lot.age < MaxHold
    /\ lot' = [lot EXCEPT !.age = @ + 1]
    /\ UNCHANGED <<market, broker, order, unsettled, holding, monitor, rebuild, scaleOuts, rebuilt, faults>>

-----------------------------------------------------------------------------
(* Settlement, as far as it writes lots and holdings.                      *)

ProjectLot ==
    /\ unsettled.units > 0
    /\ lot' = [lot EXCEPT !.qty = @ - unsettled.units]
    /\ unsettled' = [units |-> 0, view |-> TRUE]
    /\ UNCHANGED <<market, broker, order, holding, monitor, rebuild, scaleOuts, rebuilt, faults>>

(* The row that the lots make, with the protective state given.            *)
RowOf(stop, scaledOut) ==
    [id |-> lot.id, qty |-> lot.qty, average |-> lot.cost, stop |-> stop, scaledOut |-> scaledOut]

(* Mutant: the row is written without what the monitor has kept in it.     *)
ProjectedAfresh == IF lot.qty = 0 THEN NoHolding ELSE RowOf(None, FALSE)

(* current_stop and scaled_out are carried forward within the write.       *)
Projected ==
    IF lot.qty = 0 THEN NoHolding
    ELSE IF Held THEN RowOf(holding.stop, holding.scaledOut)
    ELSE RowOf(None, FALSE)

ProjectHolding ==
    /\ unsettled.view /\ unsettled.units = 0
    /\ holding' = Projected
    /\ unsettled' = [unsettled EXCEPT !.view = FALSE]
    /\ UNCHANGED <<market, broker, order, lot, monitor, rebuild, scaleOuts, rebuilt, faults>>

-----------------------------------------------------------------------------
(* Reconciliation compares the three views and repairs the holding row.    *)

ReadForRebuild ==
    /\ rebuild.pc = "idle" /\ (broker > 0 \/ lot.qty > 0 \/ Held)
    /\ rebuild' = [rebuild EXCEPT !.pc = "compare", !.broker = broker, !.lots = lot.qty]
    /\ UNCHANGED <<market, broker, order, lot, unsettled, holding, monitor, scaleOuts, rebuilt, faults>>

(* The broker agrees with the lots and the holding row does not.           *)
Compare ==
    /\ rebuild.pc = "compare"
    /\ rebuild' = IF rebuild.broker = rebuild.lots /\ holding.qty # rebuild.lots
                  THEN [rebuild EXCEPT !.pc = "write", !.previous = holding]
                  ELSE NoRebuild
    /\ UNCHANGED <<market, broker, order, lot, unsettled, holding, monitor, scaleOuts, rebuilt, faults>>

(* The row is rebuilt from the lots alone.                                 *)
Rebuild ==
    /\ rebuild.pc = "write"
    /\ holding' = IF rebuild.lots = 0 THEN NoHolding
                  ELSE IF lot.qty = 0 \/ (rebuild.previous # NoHolding) # Held THEN holding
                  ELSE RowOf(None, FALSE)
    /\ rebuilt' = (rebuilt \/ (Held /\ holding' # holding))
    /\ rebuild' = NoRebuild
    /\ UNCHANGED <<market, broker, order, lot, unsettled, monitor, scaleOuts, faults>>

-----------------------------------------------------------------------------
(* One cycle of the monitor.                                               *)

Step(at, next) ==
    /\ monitor.pc = at
    /\ monitor' = next
    /\ UNCHANGED <<market, broker, order, unsettled, rebuild, scaleOuts, rebuilt>>

ReadPositions ==
    /\ broker > 0
    /\ Step("idle", [monitor EXCEPT !.pc = "lots", !.qty = broker, !.price = market.price])
    /\ UNCHANGED <<lot, holding, faults>>

(* The clock, then every open lot once.  With the market closed nothing is *)
(* folded, ratcheted or sold.                                              *)
ReadLots ==
    /\ Step("lots", IF market.open
                    THEN [monitor EXCEPT !.pc = "holding", !.lot = IF lot.qty > 0 THEN lot ELSE NoLot]
                    ELSE Waiting)
    /\ UNCHANGED <<lot, holding, faults>>

ReadHolding ==
    /\ Step("holding", IF Held THEN [monitor EXCEPT !.pc = "fold", !.row = holding] ELSE Waiting)
    /\ UNCHANGED <<lot, holding, faults>>

(* fold_price_extremum, unless the lot has been closed since.              *)
FoldExtrema ==
    /\ Step("fold", [monitor EXCEPT !.pc = "ratchet"])
    /\ lot' = IF lot.id = monitor.lot.id /\ lot.qty > 0 THEN [lot EXCEPT !.mfe = Larger(@, monitor.price)] ELSE lot
    /\ UNCHANGED <<holding, faults>>

Gain == monitor.price - monitor.row.average

(* Break-even once earned; the ATR trail below the best price on file.     *)
BreakEven == monitor.row.average
Trailing == IF monitor.lot.mfe > Trail THEN Larger(BreakEven, monitor.lot.mfe - Trail) ELSE BreakEven

RatchetNothing ==
    /\ monitor.row.stop = None /\ Gain < BreakEvenAt
    /\ Step("ratchet", [monitor EXCEPT !.pc = "decide"])
    /\ UNCHANGED <<lot, holding, faults>>

(* The candles are read over the network; without them break-even alone.   *)
Ratchet ==
    /\ ~(monitor.row.stop = None /\ Gain < BreakEvenAt)
    /\ \/ Step("ratchet", [monitor EXCEPT !.pc = "fetch", !.candidate = Trailing]) /\ UNCHANGED faults
       \/ Step("ratchet", [monitor EXCEPT !.pc = "fetch", !.candidate = BreakEven]) /\ Fault
    /\ UNCHANGED <<lot, holding>>

Merged(row) == IF row.stop = None THEN monitor.candidate ELSE Larger(row.stop, monitor.candidate)

WriteStop ==
    /\ holding' = IF Held THEN [holding EXCEPT !.stop = Merged(holding)] ELSE holding
    /\ Step("fetch", IF Held THEN [monitor EXCEPT !.pc = "decide", !.row = holding', !.candidate = None] ELSE Waiting)
    /\ UNCHANGED <<lot, faults>>

(* The stop in force: current_stop if there is one, else stop_loss.        *)
EffectiveStop(row) == IF row.stop # None THEN row.stop ELSE row.average - Risk

(* Mutant: a price at the stop is not yet a breach.                        *)
BreachedStrictly == monitor.price < EffectiveStop(monitor.row)

Breached == monitor.price <= EffectiveStop(monitor.row)

TimeStopped == monitor.lot.qty > 0 /\ MaxHold > 0 /\ monitor.lot.age >= MaxHold

(* scale_out_fraction is one half; a single unit cannot be split.          *)
Part == monitor.qty \div 2

Everything == [qty |-> monitor.qty, scale |-> FALSE]

Stalled ==
    /\ StallDays > 0 /\ monitor.lot.qty > 0 /\ monitor.lot.age >= StallDays
    /\ Larger(monitor.price, monitor.lot.mfe) - monitor.row.average < StallMin

(* plan_ladder_exit                                                        *)
Ladder ==
    IF Gain >= FinalAt THEN Everything
    ELSE IF monitor.row.scaledOut THEN NoPlan
    ELSE IF Part = 0 /\ Gain >= SingleAt THEN Everything
    ELSE IF Part > 0 /\ Gain >= ScaleOutAt THEN [qty |-> Part, scale |-> TRUE]
    ELSE IF Stalled THEN Everything
    ELSE NoPlan

Plan == IF Breached \/ TimeStopped THEN Everything ELSE Ladder

Decide ==
    /\ Step("decide", IF Plan = NoPlan THEN Waiting ELSE [monitor EXCEPT !.pc = "reserve", !.plan = Plan])
    /\ UNCHANGED <<lot, holding, faults>>

Reserve ==
    /\ Step("reserve", IF order # 0 THEN Waiting
                       ELSE [monitor EXCEPT !.pc = IF monitor.plan.scale THEN "mark" ELSE "sell"])
    /\ UNCHANGED <<lot, holding, faults>>

(* Mutant: the scale-out is recorded only in the monitor's own copy.        *)
MarkNothing ==
    /\ Step("mark", IF Held /\ ~holding.scaledOut THEN [monitor EXCEPT !.pc = "sell"] ELSE Waiting)
    /\ UNCHANGED <<lot, holding, faults>>

(* The scale-out is on record, and the stop at break-even, before it is sold. *)
Mark ==
    /\ Step("mark", IF Held /\ ~holding.scaledOut THEN [monitor EXCEPT !.pc = "sell"] ELSE Waiting)
    /\ holding' = IF Held /\ ~holding.scaledOut
                  THEN [holding EXCEPT !.scaledOut = TRUE, !.stop = Larger(@, holding.average)]
                  ELSE holding
    /\ UNCHANGED <<lot, faults>>

(* What the gateway lets go: at most what the lots and the broker have.    *)
Sellable == Smaller(lot.qty - unsettled.units, broker)

SellAccepted ==
    /\ Sellable > 0 /\ (monitor.plan.qty <= broker \/ monitor.plan.qty <= Sellable)
    /\ monitor.pc = "sell" /\ monitor' = Waiting
    /\ order' = Smaller(monitor.plan.qty, Sellable)
    /\ scaleOuts' = scaleOuts + (IF monitor.plan.scale THEN 1 ELSE 0)
    /\ UNCHANGED <<market, broker, lot, unsettled, holding, rebuild, rebuilt, faults>>

(* Rejected or skipped, and nothing sold.                                  *)
SellRefused ==
    /\ Step("sell", IF monitor.plan.scale THEN [monitor EXCEPT !.pc = "unmark"] ELSE Waiting)
    /\ IF Sellable > 0 /\ monitor.plan.qty <= broker THEN Fault ELSE UNCHANGED faults
    /\ UNCHANGED <<lot, holding>>

(* The next cycle may scale out; the break-even stop stays.                *)
Unmark ==
    /\ Step("unmark", Waiting)
    /\ holding' = IF Held THEN [holding EXCEPT !.scaledOut = FALSE] ELSE holding
    /\ UNCHANGED <<lot, faults>>

(* The process dies, or an account-wide failure ends the cycle.            *)
MonitorDies ==
    /\ monitor # Waiting /\ Fault /\ monitor' = Waiting
    /\ UNCHANGED <<market, broker, order, lot, unsettled, holding, rebuild, scaleOuts, rebuilt>>

MonitorStep ==
    \/ ReadPositions \/ ReadLots \/ ReadHolding \/ FoldExtrema \/ RatchetNothing \/ Ratchet \/ WriteStop
    \/ Decide \/ Reserve \/ Mark \/ SellAccepted \/ SellRefused \/ Unmark

Next ==
    \/ PriceMoves \/ MarketTurns \/ Buy \/ Fill \/ CancelOrder \/ NextDay
    \/ ProjectLot \/ ProjectHolding \/ ReadForRebuild \/ Compare \/ Rebuild
    \/ MonitorStep \/ MonitorDies

Spec == Init /\ [][Next]_vars

Fairness ==
    /\ WF_vars(MonitorStep)
    /\ WF_vars(Fill \/ CancelOrder)
    /\ WF_vars(ProjectLot \/ ProjectHolding)

-----------------------------------------------------------------------------
(* Properties                                                              *)

NotLoosened ==
    Held /\ holding' # NoHolding /\ holding'.id = holding.id
        => EffectiveStop(holding') >= EffectiveStop(holding)

(* The stop in force for a position never falls, whatever the monitor,     *)
(* settlement and a crash between them do to the row, unless               *)
(* reconciliation rewrites it.                                             *)
StopNeverLoosens == [][~rebuilt' => NotLoosened]_vars

(* What settlement's comment says, without the exception (false: the       *)
(* rebuilt row has neither current_stop nor scaled_out).                   *)
OnlyTheRatchetMovesTheStop == [][NotLoosened]_vars

(* A stop comes from this position's own prices: it is never above the     *)
(* best price seen since it was opened.                                    *)
StopIsItsOwn == Held /\ holding.id = lot.id => holding.stop <= lot.mfe

(* A position is scaled out at most once, across refusals, crashes and     *)
(* settlements in between, unless reconciliation has rewritten the row.     *)
ScaledOutOnce == ~rebuilt => scaleOuts <= 1

(* A position whose price stays at or below its stop while the market is   *)
(* open is sold in the end, whatever order was in flight before.           *)
StopIsHonoured ==
    (Held /\ broker > 0 /\ market.open /\ market.price <= EffectiveStop(holding))
        ~> (broker = 0 \/ ~market.open \/ (Held => market.price > EffectiveStop(holding)))
=============================================================================
