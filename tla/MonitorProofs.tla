----------------------------- MODULE MonitorProofs -----------------------------
(***************************************************************************)
(* Theorems about the position monitor (module Monitor), for any prices,   *)
(* sizes, levels and bounds.                                               *)
(*                                                                         *)
(* The argument.  The row a position has is the row of its one lot         *)
(* (RowIsLots) and goes only with the lot's last unit, so while units are  *)
(* left nothing but the monitor itself, or reconciliation, takes the mark  *)
(* of a scale-out away, and the monitor does so only when nothing was sent *)
(* (ScaleInv).  What it folds and ratchets with are a price and a lot of   *)
(* this position (CopyInv), as long as no position is replaced during a    *)
(* cycle (~Reentry): only then is a candidate never below break-even.      *)
(***************************************************************************)
EXTENDS Monitor, TLAPS

\* Every unit of the lot is at the broker or sold and not yet settled, and no
\* order is larger than what the broker holds.
Units == broker + unsettled.units = lot.qty /\ order <= broker

RowIsLots == Held => holding.id = lot.id /\ holding.average = lot.cost

\* The scale-out is on record, or the position is over and its row gone.
OnRecord == (Held /\ holding.scaledOut) \/ (~Held /\ lot.qty = 0)

\* A scale-out that was sent is on record; one that is marked or being taken
\* back is the first.
ScaleInv ==
    /\ scaleOuts = 0 \/ (scaleOuts = 1 /\ OnRecord)
    /\ monitor.pc = "sell" /\ monitor.plan.scale => scaleOuts = 0 /\ OnRecord
    /\ monitor.pc = "unmark" => scaleOuts = 0

LadderInv == TypeOK /\ Units /\ RowIsLots /\ (~rebuilt => ScaleInv)

\* The stages after the row has been read.
Following == {"fold", "ratchet", "fetch", "decide", "reserve", "mark", "sell", "unmark"}

\* The monitor's copies are of this position, and so is its candidate stop.
CopyInv ==
    /\ monitor.pc \in Following => monitor.row.average = lot.cost
    /\ monitor.pc # "idle" => monitor.lot.mfe <= lot.mfe
    /\ monitor.pc = "fetch" => lot.cost <= monitor.candidate /\ monitor.candidate <= lot.mfe
    /\ monitor.pc = "idle" => monitor = Waiting
    /\ lot.cost <= lot.mfe

StopInv == LadderInv /\ CopyInv /\ StopIsItsOwn

-----------------------------------------------------------------------------
(* Types.                                                                  *)

Stages == {"idle", "lots", "holding", "fold", "ratchet", "fetch", "decide", "reserve", "mark", "sell", "unmark"}

Locals == [pc : Stages, qty : Nat, price : Prices \cup {None}, lot : LotRecords, row : HoldingRows,
           candidate : Nat, plan : Sales]

\* The records of the module, a field at a time.
LEMMA Constants ==
    /\ NoLot \in LotRecords /\ NoHolding \in HoldingRows /\ NoPlan \in Sales /\ Waiting \in Locals
    /\ \A p \in Prices \cup {None} : p \in Nat
  BY LevelsAssumption DEF NoLot, LotRecords, NoHolding, HoldingRows, NoPlan, Sales, Waiting, Locals, Stages, None

\* The records of a cycle and of a rebuild, and the row the lots make.
Rebuilds == [pc : {"idle", "compare", "write"}, broker : Nat, lots : Nat, previous : HoldingRows]

LEMMA RowType ==
    ASSUME TypeOK, NEW stop \in Nat, NEW scaledOut \in BOOLEAN
    PROVE  /\ RowOf(stop, scaledOut) \in HoldingRows
           /\ lot.qty # 0 => RowOf(stop, scaledOut) # NoHolding
  BY DEF TypeOK, RowOf, HoldingRows, LotRecords, NoHolding

LEMMA NoRebuildType == NoRebuild \in Rebuilds
  BY Constants DEF NoRebuild, Rebuilds

\* The plan of a cycle is a quantity and whether it is a scale-out.
LEMMA PlanType ==
    ASSUME TypeOK
    PROVE  Plan \in Sales
  <1>1. monitor.qty \in Nat /\ Part \in Nat
    <2>1. monitor.qty \in Nat
      BY DEF TypeOK
    <2> QED
      BY <2>1 DEF Part
  <1>2. Everything \in Sales /\ NoPlan \in Sales /\ [qty |-> Part, scale |-> TRUE] \in Sales
    BY <1>1 DEF Everything, NoPlan, Sales
  <1> QED
    BY <1>2 DEF Plan, Ladder

\* The steps of the broker, the buyer, settlement and reconciliation.
LEMMA OthersType ==
    ASSUME TypeOK, Units,
           \/ PriceMoves \/ MarketTurns \/ Buy \/ Fill \/ CancelOrder \/ NextDay
           \/ ProjectLot \/ ProjectHolding \/ ReadForRebuild \/ Compare \/ Rebuild
    PROVE  TypeOK' /\ Units'
  <1> USE LevelsAssumption
  <1>0. /\ broker \in Nat /\ order \in Nat /\ lot \in LotRecords /\ unsettled \in [units : Nat, view : BOOLEAN]
        /\ holding \in HoldingRows /\ lot.qty \in Nat /\ unsettled.units \in Nat /\ monitor \in Locals
        /\ market \in [price : Prices, open : BOOLEAN] /\ scaleOuts \in Nat /\ rebuilt \in BOOLEAN
        /\ rebuild \in [pc : {"idle", "compare", "write"}, broker : Nat, lots : Nat, previous : HoldingRows]
        /\ faults \in 0 .. MaxFaults
    BY DEF TypeOK, LotRecords, Locals, Stages
  <1>00. rebuild \in Rebuilds
    BY DEF TypeOK, Rebuilds
  <1>1. CASE PriceMoves \/ MarketTurns
    BY <1>0, <1>1 DEF PriceMoves, MarketTurns, TypeOK, Units
  <1>2. CASE Buy
    <2>1. /\ lot.id \in 0 .. MaxPositions /\ lot.id < MaxPositions /\ lot.id + 1 \in 0 .. MaxPositions
          /\ market.price \in Prices
      BY <1>0, <1>2 DEF Buy, LotRecords
    <2>2. PICK size \in Sizes :
            /\ broker' = size
            /\ lot' = [id |-> lot.id + 1, qty |-> size, cost |-> market.price, mfe |-> market.price, age |-> 0]
      BY <1>2 DEF Buy
    <2>3. lot' \in LotRecords /\ lot'.qty = size /\ broker' \in Nat
      BY <2>1, <2>2 DEF LotRecords
    <2> QED
      BY <1>0, <1>2, <2>2, <2>3 DEF Buy, TypeOK, Units
  <1>3. CASE Fill
    BY <1>0, <1>3 DEF Fill, TypeOK, Units
  <1>4. CASE CancelOrder
    BY <1>0, <1>4 DEF CancelOrder, Fault, TypeOK, Units
  <1>5. CASE NextDay
    BY <1>0, <1>5 DEF NextDay, LotRecords, TypeOK, Units
  <1>6. CASE ProjectLot
    BY <1>0, <1>6 DEF ProjectLot, LotRecords, TypeOK, Units
  <1>7. CASE ProjectHolding \/ Rebuild
    <2>1. holding.stop \in Nat /\ holding.scaledOut \in BOOLEAN /\ None \in Nat
      BY <1>0 DEF HoldingRows, None
    <2>2. holding' \in {NoHolding, holding, RowOf(None, FALSE), RowOf(holding.stop, holding.scaledOut)}
      BY <1>7 DEF ProjectHolding, Rebuild, Projected
    <2>3. holding' \in HoldingRows
      BY <1>0, <2>1, <2>2, RowType, Constants
    <2>4. rebuilt' \in BOOLEAN
      <3>1. CASE ProjectHolding
        BY <1>0, <3>1 DEF ProjectHolding
      <3>2. CASE Rebuild
        BY <3>2 DEF Rebuild
      <3> QED
        BY <1>7, <3>1, <3>2
    <2>5. unsettled' \in [units : Nat, view : BOOLEAN] /\ unsettled'.units = unsettled.units
      BY <1>0, <1>7 DEF ProjectHolding, Rebuild
    <2>6. rebuild' \in Rebuilds
      BY <1>00, <1>7, NoRebuildType DEF ProjectHolding, Rebuild
    <2>7. UNCHANGED <<market, broker, order, lot, monitor, scaleOuts, faults>>
      BY <1>7 DEF ProjectHolding, Rebuild
    <2> QED
      BY <1>0, <2>3, <2>4, <2>5, <2>6, <2>7 DEF TypeOK, Units, Locals, Stages, Rebuilds
  <1>8. CASE ReadForRebuild \/ Compare
    <2>1. rebuild' \in Rebuilds
      <3>1. CASE ReadForRebuild
        BY <1>0, <1>00, <3>1 DEF ReadForRebuild, Rebuilds
      <3>2. CASE Compare
        BY <1>0, <1>00, <3>2, NoRebuildType DEF Compare, Rebuilds
      <3> QED
        BY <1>8, <3>1, <3>2
    <2>2. UNCHANGED <<market, broker, order, lot, unsettled, holding, monitor, scaleOuts, rebuilt, faults>>
      BY <1>8 DEF ReadForRebuild, Compare
    <2> QED
      BY <1>0, <2>1, <2>2 DEF TypeOK, Units, Locals, Stages, Rebuilds
  <1> QED
    BY <1>1, <1>2, <1>3, <1>4, <1>5, <1>6, <1>7, <1>8

\* The steps of the monitor.
LEMMA MonitorType ==
    ASSUME TypeOK, Units, MonitorStep \/ MonitorDies
    PROVE  TypeOK' /\ Units'
  <1> USE LevelsAssumption
  <1>0. /\ broker \in Nat /\ order \in Nat /\ lot \in LotRecords /\ unsettled \in [units : Nat, view : BOOLEAN]
        /\ holding \in HoldingRows /\ lot.qty \in Nat /\ unsettled.units \in Nat /\ monitor \in Locals
        /\ market \in [price : Prices, open : BOOLEAN] /\ scaleOuts \in Nat /\ rebuilt \in BOOLEAN
        /\ rebuild \in Rebuilds /\ faults \in 0 .. MaxFaults
    BY DEF TypeOK, LotRecords, Locals, Stages, Rebuilds
  <1>a. /\ monitor.qty \in Nat /\ monitor.price \in Prices \cup {None} /\ monitor.lot \in LotRecords
        /\ monitor.row \in HoldingRows /\ monitor.candidate \in Nat /\ monitor.plan \in Sales
        /\ monitor.plan.qty \in Nat /\ monitor.plan.scale \in BOOLEAN
    BY <1>0 DEF Locals, Sales
  <1>b. \A stage \in Stages : [monitor EXCEPT !.pc = stage] \in Locals
    BY <1>0 DEF Locals
  <1>c. {"idle", "lots", "holding", "fold", "ratchet", "fetch", "decide", "reserve", "mark", "sell", "unmark"} \subseteq Stages
    BY DEF Stages
  <1>1. CASE ReadPositions
    <2>1. monitor' \in Locals
      BY <1>0, <1>1, <1>c DEF ReadPositions, Step, Locals
    <2> QED
      BY <1>0, <1>1, <2>1 DEF ReadPositions, Step, TypeOK, Units, Locals, Stages, Rebuilds
  <1>2. CASE ReadLots
    <2>1. monitor' \in Locals
      BY <1>0, <1>2, <1>c, Constants DEF ReadLots, Step, Locals
    <2> QED
      BY <1>0, <1>2, <2>1 DEF ReadLots, Step, TypeOK, Units, Locals, Stages, Rebuilds
  <1>3. CASE ReadHolding
    <2>1. monitor' \in Locals
      BY <1>0, <1>3, <1>c, Constants DEF ReadHolding, Step, Locals
    <2> QED
      BY <1>0, <1>3, <2>1 DEF ReadHolding, Step, TypeOK, Units, Locals, Stages, Rebuilds
  <1>4. CASE FoldExtrema
    <2>1. lot.mfe \in Prices \cup {None} /\ Larger(lot.mfe, monitor.price) \in Prices \cup {None}
      BY <1>0, <1>a DEF LotRecords, Larger
    <2>2. lot' \in LotRecords /\ lot'.qty = lot.qty
      BY <1>0, <1>4, <2>1 DEF FoldExtrema, LotRecords
    <2>3. monitor' \in Locals
      BY <1>4, <1>b, <1>c DEF FoldExtrema, Step
    <2> QED
      BY <1>0, <1>4, <2>2, <2>3 DEF FoldExtrema, Step, TypeOK, Units, Locals, Stages, Rebuilds
  <1>5. CASE RatchetNothing
    <2>1. monitor' \in Locals
      BY <1>5, <1>b, <1>c DEF RatchetNothing, Step
    <2> QED
      BY <1>0, <1>5, <2>1 DEF RatchetNothing, Step, TypeOK, Units, Locals, Stages, Rebuilds
  <1>6. CASE Ratchet
    <2>1. monitor.row.average \in Nat /\ monitor.lot.mfe \in Nat
      BY <1>a, Constants DEF HoldingRows, LotRecords
    <2>2. BreakEven \in Nat /\ Trailing \in Nat
      BY <2>1 DEF BreakEven, Trailing, Larger
    <2>3. PICK c \in {Trailing, BreakEven} : monitor' = [monitor EXCEPT !.pc = "fetch", !.candidate = c]
      BY <1>6 DEF Ratchet, Step
    <2>4. monitor' \in Locals
      BY <1>0, <1>c, <2>2, <2>3 DEF Locals
    <2>5. faults' \in 0 .. MaxFaults
      BY <1>0, <1>6 DEF Ratchet, Fault
    <2>6. UNCHANGED <<market, broker, order, lot, unsettled, holding, rebuild, scaleOuts, rebuilt>>
      BY <1>6 DEF Ratchet, Step
    <2> QED
      BY <1>0, <2>4, <2>5, <2>6 DEF TypeOK, Units, Locals, Stages, Rebuilds
  <1>7. CASE WriteStop
    <2>1. Merged(holding) \in Nat
      BY <1>0, <1>a DEF Merged, Larger, HoldingRows
    <2>2. holding' \in HoldingRows
      BY <1>0, <1>7, <2>1 DEF WriteStop, HoldingRows
    <2>3. monitor' = Waiting \/ monitor' = [monitor EXCEPT !.pc = "decide", !.row = holding', !.candidate = None]
      BY <1>7 DEF WriteStop, Step
    <2>4. monitor' \in Locals
      BY <1>0, <1>c, <2>2, <2>3, Constants DEF Locals, None
    <2>5. UNCHANGED <<market, broker, order, lot, unsettled, rebuild, scaleOuts, rebuilt, faults>>
      BY <1>7 DEF WriteStop, Step
    <2> QED
      BY <1>0, <2>2, <2>4, <2>5 DEF TypeOK, Units, Locals, Stages, Rebuilds
  <1>8. CASE Decide
    <2>1. Plan \in Sales
      BY PlanType
    <2>2. monitor' = Waiting \/ monitor' = [monitor EXCEPT !.pc = "reserve", !.plan = Plan]
      BY <1>8 DEF Decide, Step
    <2>3. monitor' \in Locals
      BY <1>0, <1>c, <2>1, <2>2, Constants DEF Locals
    <2> QED
      BY <1>0, <1>8, <2>3 DEF Decide, Step, TypeOK, Units, Locals, Stages, Rebuilds
  <1>9. CASE Reserve
    <2>1. PICK stage \in {"mark", "sell"} : monitor' \in {Waiting, [monitor EXCEPT !.pc = stage]}
      BY <1>9 DEF Reserve, Step
    <2>2. monitor' \in Locals
      BY <1>b, <1>c, <2>1, Constants
    <2> QED
      BY <1>0, <1>9, <2>2 DEF Reserve, Step, TypeOK, Units, Locals, Stages, Rebuilds
  <1>10. CASE Mark
    <2>1. holding.stop \in Nat /\ holding.average \in Nat
      BY <1>0, Constants DEF HoldingRows
    <2>2. holding' \in HoldingRows
      BY <1>0, <1>10, <2>1 DEF Mark, Larger, HoldingRows
    <2>3. monitor' \in Locals
      BY <1>10, <1>b, <1>c, Constants DEF Mark, Step
    <2> QED
      BY <1>0, <1>10, <2>2, <2>3 DEF Mark, Step, TypeOK, Units, Locals, Stages, Rebuilds
  <1>11. CASE SellAccepted
    <2>1. order' \in Nat /\ order' <= broker
      BY <1>0, <1>11, <1>a DEF SellAccepted, Sellable, Smaller, Units
    <2>2. scaleOuts' \in Nat
      BY <1>0, <1>11 DEF SellAccepted
    <2> QED
      BY <1>0, <1>11, <2>1, <2>2, Constants DEF SellAccepted, TypeOK, Units, Locals, Stages, Rebuilds
  <1>12. CASE SellRefused
    <2>1. monitor' \in Locals
      BY <1>12, <1>b, <1>c, Constants DEF SellRefused, Step
    <2>2. faults' \in 0 .. MaxFaults
      BY <1>0, <1>12 DEF SellRefused, Fault
    <2> QED
      BY <1>0, <1>12, <2>1, <2>2 DEF SellRefused, Step, TypeOK, Units, Locals, Stages, Rebuilds
  <1>13. CASE Unmark
    <2>1. holding' \in HoldingRows
      BY <1>0, <1>13 DEF Unmark, HoldingRows
    <2> QED
      BY <1>0, <1>13, <2>1, Constants DEF Unmark, Step, TypeOK, Units, Locals, Stages, Rebuilds
  <1>14. CASE MonitorDies
    <2>1. faults' \in 0 .. MaxFaults
      BY <1>0, <1>14 DEF MonitorDies, Fault
    <2> QED
      BY <1>0, <1>14, <2>1, Constants DEF MonitorDies, TypeOK, Units, Locals, Stages, Rebuilds
  <1> QED
    BY <1>1, <1>2, <1>3, <1>4, <1>5, <1>6, <1>7, <1>8, <1>9, <1>10, <1>11, <1>12, <1>13, <1>14 DEF MonitorStep

\* Every step keeps the types and every unit accounted for.
LEMMA NextType ==
    ASSUME TypeOK, Units, [Next]_vars
    PROVE  TypeOK' /\ Units'
  <1>1. CASE UNCHANGED vars
    BY <1>1 DEF vars, TypeOK, Units
  <1> QED
    BY <1>1, OthersType, MonitorType DEF Next

-----------------------------------------------------------------------------
(* One scale-out.                                                          *)

\* What the market, the buyer, settlement and reconciliation do to the row.
LEMMA OthersLadder ==
    ASSUME LadderInv,
           \/ PriceMoves \/ MarketTurns \/ Buy \/ Fill \/ CancelOrder \/ NextDay
           \/ ProjectLot \/ ProjectHolding \/ ReadForRebuild \/ Compare \/ Rebuild
    PROVE  LadderInv'
  <1>0. TypeOK /\ Units /\ RowIsLots /\ (~rebuilt => ScaleInv) /\ TypeOK' /\ Units'
    BY OthersType DEF LadderInv
  <1>a. lot \in LotRecords /\ lot.qty \in Nat /\ unsettled.units \in Nat /\ broker \in Nat
    BY <1>0 DEF TypeOK, LotRecords
  <1>1. CASE PriceMoves \/ MarketTurns \/ Fill \/ CancelOrder \/ ReadForRebuild \/ Compare
    BY <1>0, <1>1
       DEF PriceMoves, MarketTurns, Fill, CancelOrder, ReadForRebuild, Compare, LadderInv, RowIsLots, Held,
           ScaleInv, OnRecord
  <1>2. CASE Buy
    BY <1>0, <1>2, LevelsAssumption
       DEF Buy, Reserved, LadderInv, RowIsLots, Held, ScaleInv, OnRecord
  <1>3. CASE NextDay \/ ProjectLot
    <2>1. /\ lot'.id = lot.id /\ lot'.cost = lot.cost /\ (lot.qty = 0 => lot'.qty = 0)
          /\ UNCHANGED <<holding, monitor, scaleOuts, rebuilt>>
      BY <1>0, <1>a, <1>3 DEF NextDay, ProjectLot, LotRecords, Units
    <2> QED
      BY <1>0, <2>1 DEF LadderInv, RowIsLots, Held, ScaleInv, OnRecord
  <1>4. CASE ProjectHolding
    <2>1. /\ lot.qty = 0 => ~Held'
          /\ lot.qty # 0 => /\ holding'.id = lot.id /\ holding'.average = lot.cost
                            /\ Held => Held' /\ holding'.scaledOut = holding.scaledOut
      <3>1. lot.qty = 0 => ~Held'
        BY <1>4 DEF ProjectHolding, Projected, Held
      <3>2. ASSUME lot.qty # 0, Held
            PROVE  /\ holding'.id = lot.id /\ holding'.average = lot.cost
                   /\ Held' /\ holding'.scaledOut = holding.scaledOut
        <4>1. holding' = RowOf(holding.stop, holding.scaledOut)
          BY <1>4, <3>2 DEF ProjectHolding, Projected
        <4>2. holding.stop \in Nat /\ holding.scaledOut \in BOOLEAN
          BY <1>0 DEF TypeOK, HoldingRows
        <4>3. Held'
          BY <1>0, <3>2, <4>1, <4>2, RowType DEF Held
        <4> QED
          BY <4>1, <4>3 DEF RowOf
      <3>3. ASSUME lot.qty # 0, ~Held
            PROVE  holding'.id = lot.id /\ holding'.average = lot.cost
        BY <1>4, <3>3 DEF ProjectHolding, Projected, RowOf
      <3> QED
        BY <3>1, <3>2, <3>3
    <2>2. UNCHANGED <<lot, monitor, scaleOuts, rebuilt>>
      BY <1>4 DEF ProjectHolding
    <2> QED
      BY <1>0, <1>a, <2>1, <2>2 DEF LadderInv, RowIsLots, ScaleInv, OnRecord, Held
  <1>5. CASE Rebuild
    <2>1. UNCHANGED <<lot, monitor, scaleOuts>> /\ (~rebuilt' => ~rebuilt)
      BY <1>5, Zenon DEF Rebuild
    <2>2. \/ holding' = holding
          \/ holding' = NoHolding
          \/ lot.qty # 0 /\ holding' = RowOf(None, FALSE)
      BY <1>5 DEF Rebuild
    <2>3. ~rebuilt' => holding' = holding \/ ~Held
      BY <1>5, Zenon DEF Rebuild
    <2>4. RowIsLots'
      BY <1>0, <2>1, <2>2 DEF RowIsLots, Held, RowOf
    <2>5. ASSUME ~rebuilt' PROVE ScaleInv'
      <3>1. ScaleInv
        BY <1>0, <2>1, <2>5
      <3>2. CASE holding' = holding
        BY <2>1, <3>1, <3>2 DEF ScaleInv, OnRecord, Held
      <3>3. CASE holding' # holding /\ ~Held
        BY <2>1, <2>2, <3>1, <3>3 DEF ScaleInv, OnRecord, Held
      <3> QED
        BY <2>3, <2>5, <3>2, <3>3
    <2> QED
      BY <1>0, <2>4, <2>5 DEF LadderInv
  <1> QED
    BY <1>1, <1>2, <1>3, <1>4, <1>5

\* What the monitor does: it marks before it sends and takes the mark back
\* only when nothing was sent.
LEMMA MonitorLadder ==
    ASSUME LadderInv, MonitorStep \/ MonitorDies
    PROVE  LadderInv'
  <1>0. TypeOK /\ Units /\ RowIsLots /\ (~rebuilt => ScaleInv) /\ TypeOK' /\ Units'
    BY MonitorType DEF LadderInv
  <1>a. /\ lot \in LotRecords /\ lot.qty \in Nat /\ unsettled.units \in Nat /\ broker \in Nat
        /\ holding \in HoldingRows /\ monitor \in Locals
    BY <1>0 DEF TypeOK, LotRecords, Locals, Stages
  <1>w. Waiting.pc = "idle"
    BY DEF Waiting
  <1>1. CASE \/ ReadPositions \/ ReadLots \/ ReadHolding \/ RatchetNothing \/ Ratchet \/ Decide \/ MonitorDies
    <2>1. UNCHANGED <<lot, holding, scaleOuts, rebuilt>> /\ monitor'.pc \notin {"sell", "unmark"}
      <3>1. CASE ReadPositions
        <4>1. monitor' = [monitor EXCEPT !.pc = "lots", !.qty = broker, !.price = market.price]
          BY <3>1 DEF ReadPositions, Step
        <4>2. monitor'.pc = "lots"
          BY <4>1, <1>a DEF Locals
        <4> QED
          BY <3>1, <4>2 DEF ReadPositions, Step
      <3>2. CASE ReadLots
        <4>1. \/ monitor' = Waiting
              \/ monitor' = [monitor EXCEPT !.pc = "holding", !.lot = IF lot.qty > 0 THEN lot ELSE NoLot]
          BY <3>2 DEF ReadLots, Step
        <4>2. monitor'.pc \in {"idle", "holding"}
          BY <4>1, <1>a, <1>w DEF Locals
        <4> QED
          BY <3>2, <4>2 DEF ReadLots, Step
      <3>3. CASE ReadHolding
        <4>1. monitor' = Waiting \/ monitor' = [monitor EXCEPT !.pc = "fold", !.row = holding]
          BY <3>3 DEF ReadHolding, Step
        <4>2. monitor'.pc \in {"idle", "fold"}
          BY <4>1, <1>a, <1>w DEF Locals
        <4> QED
          BY <3>3, <4>2 DEF ReadHolding, Step
      <3>4. CASE RatchetNothing \/ Ratchet
        BY <3>4, <1>a DEF RatchetNothing, Ratchet, Step, Locals
      <3>5. CASE Decide
        <4>1. monitor' = Waiting \/ monitor' = [monitor EXCEPT !.pc = "reserve", !.plan = Plan]
          BY <3>5 DEF Decide, Step
        <4>2. monitor'.pc \in {"idle", "reserve"}
          BY <4>1, <1>a, <1>w DEF Locals
        <4> QED
          BY <3>5, <4>2 DEF Decide, Step
      <3>6. CASE MonitorDies
        BY <3>6 DEF MonitorDies, Waiting
      <3> QED
        BY <1>1, <3>1, <3>2, <3>3, <3>4, <3>5, <3>6
    <2> QED
      BY <1>0, <2>1 DEF LadderInv, RowIsLots, Held, ScaleInv, OnRecord
  <1>2. CASE FoldExtrema
    <2>1. /\ lot'.id = lot.id /\ lot'.cost = lot.cost /\ lot'.qty = lot.qty
          /\ UNCHANGED <<holding, scaleOuts, rebuilt>> /\ monitor'.pc = "ratchet"
      BY <1>2, <1>a DEF FoldExtrema, Step, LotRecords, Locals
    <2> QED
      BY <1>0, <2>1 DEF LadderInv, RowIsLots, Held, ScaleInv, OnRecord
  <1>3. CASE WriteStop
    <2>1. /\ Held => holding'.id = holding.id /\ holding'.average = holding.average
                     /\ holding'.scaledOut = holding.scaledOut
          /\ ~Held => holding' = holding
      BY <1>3, <1>a DEF WriteStop, HoldingRows
    <2>2. Held => Held'
      <3>1. CASE Held
        <4>1. holding' = [holding EXCEPT !.stop = Merged(holding)]
          BY <1>3, <3>1 DEF WriteStop
        <4>2. Merged(holding) = 0 => holding.stop = 0
          BY <1>a DEF Merged, Larger, None, HoldingRows, Locals
        <4> QED
          BY <1>a, <3>1, <4>1, <4>2 DEF Held, NoHolding, HoldingRows, None
      <3> QED
        BY <3>1
    <2>3. UNCHANGED <<lot, scaleOuts, rebuilt>> /\ monitor'.pc \in {"idle", "decide"}
      BY <1>3, <1>a DEF WriteStop, Step, Waiting, Locals
    <2> QED
      BY <1>0, <2>1, <2>2, <2>3 DEF LadderInv, RowIsLots, Held, ScaleInv, OnRecord
  <1>4. CASE Reserve
    <2>1. /\ UNCHANGED <<lot, holding, scaleOuts, rebuilt>>
          /\ monitor'.pc = "sell" => ~monitor'.plan.scale
          /\ monitor'.pc # "unmark"
      BY <1>4, <1>a DEF Reserve, Step, Waiting, Locals
    <2> QED
      BY <1>0, <2>1 DEF LadderInv, RowIsLots, Held, ScaleInv, OnRecord
  <1>5. CASE Mark
    <2>1. /\ UNCHANGED <<lot, scaleOuts, rebuilt>> /\ monitor'.pc # "unmark"
          /\ monitor'.pc = "sell" => Held /\ ~holding.scaledOut
      BY <1>5, <1>a DEF Mark, Step, Waiting, Locals
    <2>2. CASE Held /\ ~holding.scaledOut
      <3>1. holding'.scaledOut /\ holding'.id = holding.id /\ holding'.average = holding.average /\ Held'
        BY <1>5, <1>a, <2>2 DEF Mark, HoldingRows, Held, NoHolding
      <3> QED
        BY <1>0, <2>1, <2>2, <3>1 DEF LadderInv, RowIsLots, Held, ScaleInv, OnRecord
    <2>3. CASE ~(Held /\ ~holding.scaledOut)
      <3>1. holding' = holding
        BY <1>5, <2>3 DEF Mark
      <3> QED
        BY <1>0, <2>1, <2>3, <3>1 DEF LadderInv, RowIsLots, Held, ScaleInv, OnRecord
    <2> QED
      BY <2>2, <2>3
  <1>6. CASE SellAccepted
    <2>1. /\ UNCHANGED <<lot, holding, rebuilt>> /\ monitor' = Waiting /\ monitor.pc = "sell"
          /\ scaleOuts' = scaleOuts + (IF monitor.plan.scale THEN 1 ELSE 0)
      BY <1>6 DEF SellAccepted
    <2> QED
      BY <1>0, <2>1 DEF LadderInv, RowIsLots, Held, ScaleInv, OnRecord, Waiting, TypeOK
  <1>7. CASE SellRefused
    <2>1. /\ UNCHANGED <<lot, holding, scaleOuts, rebuilt>> /\ monitor'.pc # "sell"
          /\ monitor'.pc = "unmark" => monitor.pc = "sell" /\ monitor.plan.scale
      BY <1>7, <1>a DEF SellRefused, Step, Waiting, Locals
    <2> QED
      BY <1>0, <2>1 DEF LadderInv, RowIsLots, Held, ScaleInv, OnRecord
  <1>8. CASE Unmark
    <2>1. /\ UNCHANGED <<lot, scaleOuts, rebuilt>> /\ monitor' = Waiting /\ monitor.pc = "unmark"
          /\ ~Held => holding' = holding
          /\ Held => holding' = [holding EXCEPT !.scaledOut = FALSE]
      BY <1>8 DEF Unmark, Step
    <2>2. Held => holding'.id = holding.id /\ holding'.average = holding.average
      BY <1>a, <2>1 DEF HoldingRows
    <2> QED
      BY <1>0, <2>1, <2>2 DEF LadderInv, RowIsLots, Held, ScaleInv, OnRecord, Waiting
  <1> QED
    BY <1>1, <1>2, <1>3, <1>4, <1>5, <1>6, <1>7, <1>8 DEF MonitorStep

\* Before the first position.
LEMMA InitLadder == Init => LadderInv
  <1> SUFFICES ASSUME Init PROVE LadderInv
    OBVIOUS
  <1>1. market \in [price : Prices, open : BOOLEAN] /\ 0 \in 0 .. MaxFaults
    <2>1. market \in [price : Prices, open : {TRUE}] /\ {TRUE} \subseteq BOOLEAN
      BY DEF Init
    <2>2. market \in [price : Prices, open : BOOLEAN]
      BY <2>1
    <2>3. 0 \in 0 .. MaxFaults
      BY LevelsAssumption
    <2> QED
      BY <2>2, <2>3
  <1>2. TypeOK
    BY <1>1, Constants, NoRebuildType DEF Init, TypeOK, Locals, Stages, Rebuilds
  <1>3. Units /\ RowIsLots /\ ScaleInv
    BY DEF Init, Units, RowIsLots, Held, ScaleInv, NoLot, Waiting
  <1> QED
    BY <1>2, <1>3 DEF LadderInv

\* Every step keeps it.
LEMMA NextLadder ==
    ASSUME LadderInv, [Next]_vars
    PROVE  LadderInv'
  <1>1. CASE UNCHANGED vars
    BY <1>1, NextType DEF vars, LadderInv, RowIsLots, Held, ScaleInv, OnRecord
  <1> QED
    BY <1>1, OthersLadder, MonitorLadder DEF Next

LEMMA LadderInvHolds == Spec => []LadderInv
  BY InitLadder, NextLadder, PTL DEF Spec

\* Every state of the monitor model is well typed.
THEOREM MonitorTypes == Spec => []TypeOK
  <1>1. LadderInv => TypeOK
    BY DEF LadderInv
  <1> QED
    BY <1>1, LadderInvHolds, PTL

\* A position is scaled out at most once (monitor/coordinator.py marks the row
\* before it sells and clears the mark only after a refusal), whatever settlement
\* writes in between and wherever the monitor dies; the rows reconciliation has
\* rebuilt are the exception.
THEOREM OneScaleOut == Spec => []ScaledOutOnce
  <1>1. LadderInv => ScaledOutOnce
    BY DEF LadderInv, ScaleInv, ScaledOutOnce
  <1> QED
    BY <1>1, LadderInvHolds, PTL

-----------------------------------------------------------------------------
(* The stop.                                                               *)

\* The values the stop is compared with.
LEMMA Levels ==
    ASSUME LadderInv
    PROVE  /\ holding.stop \in Nat /\ holding.average \in Nat /\ holding \in HoldingRows
           /\ lot.cost \in Nat /\ lot.mfe \in Nat /\ lot \in LotRecords /\ lot.qty \in Nat
           /\ monitor.row.average \in Nat /\ monitor.lot.mfe \in Nat /\ monitor.candidate \in Nat
           /\ monitor.price \in Nat /\ monitor \in Locals
           /\ RowIsLots /\ unsettled.units \in Nat /\ broker \in Nat
  <1>1. /\ holding \in HoldingRows /\ lot \in LotRecords /\ monitor \in Locals
        /\ RowIsLots /\ unsettled.units \in Nat /\ broker \in Nat
    BY DEF LadderInv, TypeOK, Locals, Stages
  <1>2. holding.stop \in Nat /\ holding.average \in Nat
    BY <1>1, Constants DEF HoldingRows
  <1>3. lot.cost \in Nat /\ lot.mfe \in Nat /\ lot.qty \in Nat
    BY <1>1, Constants DEF LotRecords
  <1>4. monitor.row \in HoldingRows /\ monitor.lot \in LotRecords /\ monitor.candidate \in Nat /\ monitor.price \in Nat
    BY <1>1, Constants DEF Locals
  <1>5. monitor.row.average \in Nat /\ monitor.lot.mfe \in Nat
    BY <1>4, Constants DEF HoldingRows, LotRecords
  <1> QED
    BY <1>1, <1>2, <1>3, <1>4, <1>5

\* A row whose stop is kept, or raised and no lower than break-even, is not looser.
LEMMA NoLooser ==
    ASSUME LadderInv, LadderInv',
           Held /\ Held' => /\ holding'.average = holding.average
                            /\ \/ holding'.stop = holding.stop
                               \/ holding'.stop >= holding.stop /\ holding'.stop >= holding.average
    PROVE  NotLoosened
  <1> SUFFICES ASSUME Held, holding' # NoHolding
               PROVE  EffectiveStop(holding') >= EffectiveStop(holding)
    BY DEF NotLoosened
  <1>1. holding.stop \in Nat /\ holding.average \in Nat
    BY Levels
  <1>2. holding'.stop \in Nat /\ holding'.average \in Nat
    BY Constants DEF LadderInv, TypeOK, HoldingRows
  <1>3. Held'
    BY DEF Held
  <1>4. Risk \in Nat
    BY LevelsAssumption
  <1> QED
    BY <1>1, <1>2, <1>3, <1>4 DEF EffectiveStop, None

\* The market, the buyer and settlement leave the monitor's copies true of the
\* position; reconciliation may take the stop away but never raises it.
LEMMA OthersStop ==
    ASSUME ~Reentry, StopInv, LadderInv',
           \/ PriceMoves \/ MarketTurns \/ Buy \/ Fill \/ CancelOrder \/ NextDay
           \/ ProjectLot \/ ProjectHolding \/ ReadForRebuild \/ Compare \/ Rebuild
    PROVE  CopyInv' /\ StopIsItsOwn' /\ (~rebuilt' => NotLoosened)
  <1>0. LadderInv /\ CopyInv /\ StopIsItsOwn
    BY DEF StopInv
  <1>1. CASE \/ PriceMoves \/ MarketTurns \/ Fill \/ CancelOrder \/ NextDay \/ ProjectLot
             \/ ReadForRebuild \/ Compare
    <2>1. /\ lot'.id = lot.id /\ lot'.cost = lot.cost /\ lot'.mfe = lot.mfe
          /\ UNCHANGED <<holding, monitor>>
      BY <1>0, <1>1, Levels
         DEF PriceMoves, MarketTurns, Fill, CancelOrder, NextDay, ProjectLot, ReadForRebuild, Compare, LotRecords
    <2> QED
      BY <1>0, <2>1, NoLooser DEF CopyInv, StopIsItsOwn, Held
  <1>2. CASE Buy
    <2>1. monitor = Waiting /\ monitor' = monitor /\ holding' = holding /\ ~Held
      BY <1>2 DEF Buy
    <2>2. lot'.cost = market.price /\ lot'.mfe = market.price /\ market.price \in Nat
      BY <1>0, <1>2, Constants DEF Buy, LadderInv, TypeOK
    <2> QED
      BY <2>1, <2>2 DEF CopyInv, StopIsItsOwn, NotLoosened, Held, Waiting, Following
  <1>3. CASE ProjectHolding
    <2>1. UNCHANGED <<lot, monitor>>
      BY <1>3 DEF ProjectHolding
    <2>2. CASE lot.qty = 0
      <3>1. holding' = NoHolding
        BY <1>3, <2>2 DEF ProjectHolding, Projected
      <3> QED
        BY <1>0, <2>1, <3>1 DEF CopyInv, StopIsItsOwn, NotLoosened, Held
    <2>3. CASE lot.qty # 0 /\ Held
      <3>1. holding' = RowOf(holding.stop, holding.scaledOut)
        BY <1>3, <2>3 DEF ProjectHolding, Projected
      <3>2. holding'.stop = holding.stop /\ holding'.average = holding.average /\ holding'.id = holding.id
        BY <1>0, <2>3, <3>1, Levels DEF RowOf, RowIsLots
      <3> QED
        BY <1>0, <2>1, <2>3, <3>2, NoLooser DEF CopyInv, StopIsItsOwn, Held
    <2>4. CASE lot.qty # 0 /\ ~Held
      <3>1. holding' = RowOf(None, FALSE)
        BY <1>3, <2>4 DEF ProjectHolding, Projected
      <3>2. holding'.stop = 0
        BY <3>1 DEF RowOf, None
      <3> QED
        BY <1>0, <2>1, <2>4, <3>2, Levels DEF CopyInv, StopIsItsOwn, NotLoosened
    <2> QED
      BY <2>2, <2>3, <2>4
  <1>4. CASE Rebuild
    <2>1. UNCHANGED <<lot, monitor>>
      BY <1>4 DEF Rebuild
    <2>2. holding' \in {holding, NoHolding, RowOf(None, FALSE)}
      BY <1>4 DEF Rebuild
    <2>3. ~rebuilt' => holding' = holding \/ ~Held
      BY <1>4, Zenon DEF Rebuild
    <2>4. holding' = holding \/ holding'.stop = 0
      BY <2>2 DEF RowOf, NoHolding, None
    <2>5. StopIsItsOwn'
      BY <1>0, <2>1, <2>4, Levels DEF StopIsItsOwn, Held
    <2>6. ~rebuilt' => NotLoosened
      BY <1>0, <2>3, NoLooser DEF NotLoosened, Held
    <2> QED
      BY <1>0, <2>1, <2>5, <2>6 DEF CopyInv
  <1> QED
    BY <1>1, <1>2, <1>3, <1>4

\* A step of the monitor that leaves the row and the lot alone.
LEMMA OnlyTheCopies ==
    ASSUME StopInv, LadderInv', UNCHANGED <<lot, holding>>, CopyInv'
    PROVE  CopyInv' /\ StopIsItsOwn' /\ NotLoosened
  BY NoLooser DEF StopInv, StopIsItsOwn, Held

\* Nothing of a cycle is left when it ends.
LEMMA EndOfCycle ==
    ASSUME StopInv, monitor' = Waiting, lot' = lot
    PROVE  CopyInv'
  <1>1. Waiting.pc = "idle" /\ "idle" \notin Following
    BY DEF Waiting, Following
  <1> QED
    BY <1>1 DEF StopInv, CopyInv

\* The monitor reads the price, the lots and the row and plans a sale: its copies
\* are of this position, and a candidate is between break-even and the best price.
LEMMA ReadingStop ==
    ASSUME StopInv, LadderInv',
           ReadPositions \/ ReadLots \/ ReadHolding \/ RatchetNothing \/ Ratchet \/ Decide \/ Reserve \/ MonitorDies
    PROVE  CopyInv' /\ StopIsItsOwn' /\ NotLoosened
  <1>0. LadderInv /\ CopyInv /\ StopIsItsOwn
    BY DEF StopInv
  <1>a. monitor \in Locals
    BY <1>0, Levels
  <1>b. UNCHANGED <<lot, holding>>
    BY DEF ReadPositions, ReadLots, ReadHolding, RatchetNothing, Ratchet, Decide, Reserve, MonitorDies, Step
  <1>c. CASE monitor' = Waiting
    BY <1>b, <1>c, EndOfCycle, OnlyTheCopies
  <1>1. CASE ReadPositions
    <2>1. /\ monitor' = [monitor EXCEPT !.pc = "lots", !.qty = broker, !.price = market.price]
          /\ monitor = Waiting
      BY <1>0, <1>1 DEF ReadPositions, Step, CopyInv
    <2>2. monitor'.pc = "lots" /\ monitor'.lot = monitor.lot
      BY <1>a, <2>1 DEF Locals
    <2>3. monitor.lot.mfe = 0
      BY <2>1 DEF Waiting, NoLot, None
    <2>4. CopyInv'
      BY <1>0, <1>b, <2>2, <2>3, Levels DEF CopyInv, Following
    <2> QED
      BY <1>b, <2>4, OnlyTheCopies
  <1>2. CASE ReadLots /\ monitor' # Waiting
    <2>1. monitor' = [monitor EXCEPT !.pc = "holding", !.lot = IF lot.qty > 0 THEN lot ELSE NoLot]
      BY <1>2 DEF ReadLots, Step
    <2>2. monitor'.pc = "holding" /\ monitor'.lot = IF lot.qty > 0 THEN lot ELSE NoLot
      BY <1>a, <2>1 DEF Locals
    <2>3. monitor'.lot.mfe <= lot.mfe
      BY <1>0, <2>2, Levels DEF NoLot, None
    <2>4. CopyInv'
      BY <1>0, <1>b, <2>2, <2>3 DEF CopyInv, Following
    <2> QED
      BY <1>b, <2>4, OnlyTheCopies
  <1>3. CASE ReadHolding /\ monitor' # Waiting
    <2>1. monitor' = [monitor EXCEPT !.pc = "fold", !.row = holding] /\ Held /\ monitor.pc = "holding"
      BY <1>3 DEF ReadHolding, Step
    <2>2. monitor'.pc = "fold" /\ monitor'.row = holding /\ monitor'.lot = monitor.lot
      BY <1>a, <2>1 DEF Locals
    <2>3. holding.average = lot.cost
      BY <1>0, <2>1 DEF LadderInv, RowIsLots
    <2>4. CopyInv'
      BY <1>0, <1>b, <2>1, <2>2, <2>3 DEF CopyInv
    <2> QED
      BY <1>b, <2>4, OnlyTheCopies
  <1>4. CASE RatchetNothing
    <2>1. monitor' = [monitor EXCEPT !.pc = "decide"] /\ monitor.pc = "ratchet"
      BY <1>4 DEF RatchetNothing, Step
    <2>2. monitor'.pc = "decide" /\ monitor'.row = monitor.row /\ monitor'.lot = monitor.lot
      BY <1>a, <2>1 DEF Locals
    <2>3. CopyInv'
      BY <1>0, <1>b, <2>1, <2>2 DEF CopyInv, Following
    <2> QED
      BY <1>b, <2>3, OnlyTheCopies
  <1>5. CASE Ratchet
    <2>1. monitor.pc = "ratchet"
      BY <1>5 DEF Ratchet, Step
    <2>2. PICK c \in {Trailing, BreakEven} : monitor' = [monitor EXCEPT !.pc = "fetch", !.candidate = c]
      BY <1>5 DEF Ratchet, Step
    <2>3. /\ monitor'.pc = "fetch" /\ monitor'.row = monitor.row /\ monitor'.lot = monitor.lot
          /\ monitor'.candidate = c
      BY <1>a, <2>2 DEF Locals
    <2>4. monitor.row.average = lot.cost /\ monitor.lot.mfe <= lot.mfe /\ lot.cost <= lot.mfe
      BY <1>0, <2>1 DEF CopyInv, Following
    <2>5. BreakEven = lot.cost
      BY <2>4 DEF BreakEven
    <2>6. Trail \in Nat
      BY LevelsAssumption
    <2>7. lot.cost <= Trailing /\ Trailing <= lot.mfe
      BY <1>0, <2>4, <2>5, <2>6, Levels DEF Trailing, Larger
    <2>8. lot.cost <= c /\ c <= lot.mfe
      BY <1>0, <2>4, <2>5, <2>7, Levels
    <2>9. CopyInv'
      BY <1>0, <1>b, <2>3, <2>4, <2>8 DEF CopyInv
    <2> QED
      BY <1>b, <2>9, OnlyTheCopies
  <1>6. CASE Decide /\ monitor' # Waiting
    <2>1. monitor' = [monitor EXCEPT !.pc = "reserve", !.plan = Plan] /\ monitor.pc = "decide"
      BY <1>6 DEF Decide, Step
    <2>2. monitor'.pc = "reserve" /\ monitor'.row = monitor.row /\ monitor'.lot = monitor.lot
      BY <1>a, <2>1 DEF Locals
    <2>3. CopyInv'
      BY <1>0, <1>b, <2>1, <2>2 DEF CopyInv, Following
    <2> QED
      BY <1>b, <2>3, OnlyTheCopies
  <1>7. CASE Reserve /\ monitor' # Waiting
    <2>1. monitor.pc = "reserve"
      BY <1>7 DEF Reserve, Step
    <2>2. PICK stage \in {"mark", "sell"} : monitor' = [monitor EXCEPT !.pc = stage]
      BY <1>7 DEF Reserve, Step
    <2>3. monitor'.pc \in {"mark", "sell"} /\ monitor'.row = monitor.row /\ monitor'.lot = monitor.lot
      BY <1>a, <2>2 DEF Locals
    <2>4. CopyInv'
      BY <1>0, <1>b, <2>1, <2>3 DEF CopyInv, Following
    <2> QED
      BY <1>b, <2>4, OnlyTheCopies
  <1>8. MonitorDies => monitor' = Waiting
    BY DEF MonitorDies
  <1> QED
    BY <1>c, <1>1, <1>2, <1>3, <1>4, <1>5, <1>6, <1>7, <1>8

\* The monitor writes: the best price of the lot, the stop, the mark of a scale-out.
LEMMA WritingStop ==
    ASSUME StopInv, LadderInv', FoldExtrema \/ WriteStop \/ Mark \/ SellAccepted \/ SellRefused \/ Unmark
    PROVE  CopyInv' /\ StopIsItsOwn' /\ NotLoosened
  <1>0. LadderInv /\ CopyInv /\ StopIsItsOwn
    BY DEF StopInv
  <1>a. monitor \in Locals /\ holding \in HoldingRows
    BY <1>0, Levels
  <1>1. CASE FoldExtrema
    <2>1. monitor' = [monitor EXCEPT !.pc = "ratchet"] /\ monitor.pc = "fold" /\ holding' = holding
      BY <1>1 DEF FoldExtrema, Step
    <2>2. monitor'.pc = "ratchet" /\ monitor'.row = monitor.row /\ monitor'.lot = monitor.lot
      BY <1>a, <2>1 DEF Locals
    <2>3. /\ lot'.id = lot.id /\ lot'.cost = lot.cost
          /\ lot.mfe <= lot'.mfe /\ lot'.mfe \in Nat
      BY <1>0, <1>1, Levels DEF FoldExtrema, LotRecords, Larger
    <2>4. CopyInv'
      BY <1>0, <2>1, <2>2, <2>3, Levels DEF CopyInv, Following
    <2>5. StopIsItsOwn'
      BY <1>0, <2>1, <2>3, Levels DEF StopIsItsOwn, Held
    <2> QED
      BY <1>0, <2>1, <2>4, <2>5, NoLooser
  <1>2. CASE WriteStop
    <2>1. lot' = lot /\ monitor.pc = "fetch"
      BY <1>2 DEF WriteStop, Step
    <2>2. lot.cost <= monitor.candidate /\ monitor.candidate <= lot.mfe
      BY <1>0, <2>1 DEF CopyInv
    <2>3. CASE ~Held
      <3>1. holding' = holding /\ monitor' = Waiting
        BY <1>2, <2>3 DEF WriteStop, Step
      <3> QED
        BY <2>1, <3>1, EndOfCycle, OnlyTheCopies
    <2>4. CASE Held
      <3>1. /\ holding' = [holding EXCEPT !.stop = Merged(holding)]
            /\ monitor' = [monitor EXCEPT !.pc = "decide", !.row = holding', !.candidate = None]
        BY <1>2, <2>4 DEF WriteStop, Step
      <3>2. /\ holding'.stop = Merged(holding) /\ holding'.average = holding.average
            /\ holding'.id = holding.id
        BY <1>a, <3>1 DEF HoldingRows
      <3>3. monitor'.pc = "decide" /\ monitor'.row = holding' /\ monitor'.lot = monitor.lot
        BY <1>a, <3>1 DEF Locals
      <3>4. holding.average = lot.cost /\ holding.id = lot.id
        BY <1>0, <2>4, Levels DEF RowIsLots
      <3>5. holding.stop <= lot.mfe
        BY <1>0, <2>4, <3>4 DEF StopIsItsOwn
      <3>6. /\ Merged(holding) <= lot.mfe
            /\ Merged(holding) = holding.stop
                  \/ (Merged(holding) >= holding.stop /\ Merged(holding) >= holding.average)
        BY <1>0, <2>2, <3>4, <3>5, Levels DEF Merged, Larger, None
      <3>7. CopyInv'
        BY <1>0, <2>1, <3>2, <3>3, <3>4 DEF CopyInv
      <3>8. StopIsItsOwn'
        BY <2>1, <3>2, <3>6 DEF StopIsItsOwn
      <3>9. NotLoosened
        BY <1>0, <3>2, <3>6, NoLooser
      <3> QED
        BY <3>7, <3>8, <3>9
    <2> QED
      BY <2>3, <2>4
  <1>3. CASE Mark
    <2>1. lot' = lot /\ monitor.pc = "mark"
      BY <1>3 DEF Mark, Step
    <2>2. CASE ~(Held /\ ~holding.scaledOut)
      <3>1. holding' = holding /\ monitor' = Waiting
        BY <1>3, <2>2 DEF Mark, Step
      <3> QED
        BY <2>1, <3>1, EndOfCycle, OnlyTheCopies
    <2>3. CASE Held /\ ~holding.scaledOut
      <3>1. /\ holding' = [holding EXCEPT !.scaledOut = TRUE, !.stop = Larger(@, holding.average)]
            /\ monitor' = [monitor EXCEPT !.pc = "sell"]
        BY <1>3, <2>3 DEF Mark, Step
      <3>2. /\ holding'.stop = Larger(holding.stop, holding.average) /\ holding'.average = holding.average
            /\ holding'.id = holding.id
        BY <1>a, <3>1 DEF HoldingRows
      <3>3. monitor'.pc = "sell" /\ monitor'.row = monitor.row /\ monitor'.lot = monitor.lot
        BY <1>a, <3>1 DEF Locals
      <3>4. holding.average = lot.cost /\ holding.id = lot.id
        BY <1>0, <2>3, Levels DEF RowIsLots
      <3>5. holding.stop <= lot.mfe /\ lot.cost <= lot.mfe
        BY <1>0, <2>3, <3>4 DEF StopIsItsOwn, CopyInv
      <3>6. /\ Larger(holding.stop, holding.average) <= lot.mfe
            /\ Larger(holding.stop, holding.average) >= holding.stop
            /\ Larger(holding.stop, holding.average) >= holding.average
        BY <1>0, <3>4, <3>5, Levels DEF Larger
      <3>7. CopyInv'
        BY <1>0, <2>1, <3>3 DEF CopyInv, Following
      <3>8. StopIsItsOwn'
        BY <2>1, <3>2, <3>6 DEF StopIsItsOwn
      <3>9. NotLoosened
        BY <1>0, <3>2, <3>6, NoLooser
      <3> QED
        BY <3>7, <3>8, <3>9
    <2> QED
      BY <2>2, <2>3
  <1>4. CASE SellAccepted
    <2>1. monitor' = Waiting /\ UNCHANGED <<lot, holding>>
      BY <1>4 DEF SellAccepted
    <2> QED
      BY <2>1, EndOfCycle, OnlyTheCopies
  <1>5. CASE SellRefused
    <2>1. UNCHANGED <<lot, holding>> /\ monitor.pc = "sell"
      BY <1>5 DEF SellRefused, Step
    <2>2. CASE monitor' = Waiting
      BY <2>1, <2>2, EndOfCycle, OnlyTheCopies
    <2>3. CASE monitor' # Waiting
      <3>1. monitor' = [monitor EXCEPT !.pc = "unmark"]
        BY <1>5, <2>3 DEF SellRefused, Step
      <3>2. monitor'.pc = "unmark" /\ monitor'.row = monitor.row /\ monitor'.lot = monitor.lot
        BY <1>a, <3>1 DEF Locals
      <3>3. CopyInv'
        BY <1>0, <2>1, <3>2 DEF CopyInv, Following
      <3> QED
        BY <2>1, <3>3, OnlyTheCopies
    <2> QED
      BY <2>2, <2>3
  <1>6. CASE Unmark
    <2>1. monitor' = Waiting /\ lot' = lot
      BY <1>6 DEF Unmark, Step
    <2>2. Held => /\ holding'.stop = holding.stop /\ holding'.average = holding.average
                  /\ holding'.id = holding.id
      BY <1>6, <1>a DEF Unmark, HoldingRows
    <2>3. ~Held => holding' = holding
      BY <1>6 DEF Unmark
    <2>4. CopyInv'
      BY <2>1, EndOfCycle
    <2>5. StopIsItsOwn'
      BY <1>0, <2>1, <2>2, <2>3 DEF StopIsItsOwn, Held
    <2>6. NotLoosened
      BY <1>0, <2>2, <2>3, NoLooser
    <2> QED
      BY <2>4, <2>5, <2>6
  <1> QED
    BY <1>1, <1>2, <1>3, <1>4, <1>5, <1>6

\* Every step keeps the copies and the stop true of the position.
LEMMA NextStop ==
    ASSUME ~Reentry, StopInv, [Next]_vars
    PROVE  StopInv' /\ (~rebuilt' => NotLoosened)
  <1>0. LadderInv /\ LadderInv'
    BY NextLadder DEF StopInv
  <1>1. CASE UNCHANGED vars
    <2>1. CopyInv' /\ StopIsItsOwn'
      BY <1>1 DEF vars, StopInv, CopyInv, StopIsItsOwn, Held
    <2>2. NotLoosened
      BY <1>0, <1>1, NoLooser DEF vars
    <2> QED
      BY <1>0, <2>1, <2>2 DEF StopInv
  <1>2. CASE Next
    BY <1>0, <1>2, OthersStop, ReadingStop, WritingStop DEF Next, MonitorStep, StopInv
  <1> QED
    BY <1>1, <1>2

LEMMA InitStop == Init => StopInv
  BY InitLadder
     DEF Init, StopInv, CopyInv, StopIsItsOwn, Held, Waiting, NoLot, None, Following

LEMMA StopInvHolds == ASSUME ~Reentry PROVE Spec => []StopInv
  BY InitStop, NextStop, PTL DEF Spec

\* The stop in force for a position never falls (monitor/coordinator.py ratchets
\* inside one write, settlement carries it forward), wherever the monitor dies and
\* whatever is written in between, except where reconciliation rewrites the row.
\* No position is replaced during a cycle: the monitor would ratchet the new one
\* with the old one's prices.
THEOREM StopsNeverLoosen == ASSUME ~Reentry PROVE Spec => StopNeverLoosens
  <1>1. StopInv /\ [Next]_vars => [~rebuilt' => NotLoosened]_vars
    BY NextStop
  <1> QED
    BY <1>1, StopInvHolds, PTL DEF Spec, StopNeverLoosens

\* Without that, a stop is never above the best price of its own position.
THEOREM StopsAreTheirOwn == ASSUME ~Reentry PROVE Spec => []StopIsItsOwn
  <1>1. StopInv => StopIsItsOwn
    BY DEF StopInv
  <1> QED
    BY <1>1, StopInvHolds, PTL

=============================================================================
