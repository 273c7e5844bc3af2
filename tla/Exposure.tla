------------------------------- MODULE Exposure -------------------------------
(***************************************************************************)
(* The portfolio view a buy is decided on (risk/engine.py,                 *)
(* build_portfolio_view), read table by table while the orders approved    *)
(* before it fill, are attributed and settle.  The portfolio lock keeps    *)
(* other approvals out, not these.                                         *)
(*                                                                         *)
(* One asset, buys only, every unit at the same price: a unit of an order  *)
(* is one broker fill, and the exposure is a number of units.              *)
(***************************************************************************)
EXTENDS Integers, FiniteSets

CONSTANTS
    Units,    \* the units of the approved buys
    Intents,  \* the approved trade intents
    Of        \* the intent each unit was ordered by

UnitsAssumption == IsFiniteSet(Units) /\ Of \in [Units -> Intents]

VARIABLES
    unit,      \* how far each unit has come
    status,    \* trade_intents: pending or terminal
    view,      \* the locals of build_portfolio_view
    slipped,   \* history: units projected while the view was being read
    quiet      \* history: nothing has moved, or was half done, since the read began

vars == <<unit, status, view, slipped, quiet>>

(* At the broker (open, canceled, filled), then the Fill row (recorded),   *)
(* the SettlementEvent (attributed), the holding row (held), and           *)
(* holding_projected in the event (projected).                             *)
Canceled == {"canceled"}
Filled == {"filled", "recorded", "attributed", "held", "projected"}
Recorded == Filled \ {"filled"}
Attributed == Recorded \ {"recorded"}
Held == {"held", "projected"}
In(stages) == {u \in Units : unit[u] \in stages}
UnitsOf(S) == {u \in Units : Of[u] \in S}
Pending == {i \in Intents : status[i] = "pending"}

(* The reads, in their order; "events" is one query for each intent.       *)
Reads == {"positions", "holdings", "intents", "events", "unsettled", "fills", "done"}

NoView == [at |-> "positions", positions |-> {}, holdings |-> {}, pending |-> {}, todo |-> {},
           remaining |-> 0, unsettled |-> {}, catchall |-> {}, fills |-> {}]

TypeOK ==
    /\ unit \in [Units -> Filled \cup Canceled \cup {"open"}]
    /\ status \in [Intents -> {"pending", "terminal"}]
    /\ view \in [at : Reads, positions : SUBSET Units, holdings : SUBSET Units, pending : SUBSET Intents,
                 todo : SUBSET Intents, remaining : Int, unsettled : SUBSET Units, catchall : SUBSET Units,
                 fills : SUBSET Intents]
    /\ slipped \subseteq Units /\ quiet \in BOOLEAN

Init ==
    /\ unit = [u \in Units |-> "open"]
    /\ status = [i \in Intents |-> "pending"]
    /\ view = NoView /\ slipped = {} /\ quiet = FALSE

-----------------------------------------------------------------------------
(* The orders, as they go on beside the view.                              *)

Move(u, from, to) ==
    /\ unit[u] = from
    /\ unit' = [unit EXCEPT ![u] = to]
    /\ quiet' = FALSE
    /\ UNCHANGED <<status, view>>

Fill(u) == status[Of[u]] = "pending" /\ Move(u, "open", "filled") /\ UNCHANGED slipped
RecordFill(u) == Move(u, "filled", "recorded") /\ UNCHANGED slipped
Enqueue(u) == Move(u, "recorded", "attributed") /\ UNCHANGED slipped
WriteHolding(u) == Move(u, "attributed", "held") /\ UNCHANGED slipped

(* Whether the view will still see the unit's event as unprojected.        *)
EventRead(u) ==
    \/ view.at \in {"fills", "done"}
    \/ u \in view.unsettled

(* The checkpoint of holding_projected.                                    *)
Project(u) ==
    /\ Move(u, "held", "projected")
    /\ slipped' = IF view.at \in {"intents", "events", "unsettled"} /\ u \notin view.holdings /\ ~EventRead(u)
                  THEN slipped \cup {u} ELSE slipped

(* The broker cancels or expires what is left of an order.                 *)
Cancel(i) ==
    /\ \E u \in UnitsOf({i}) : unit[u] = "open"
    /\ unit' = [u \in Units |-> IF Of[u] = i /\ unit[u] = "open" THEN "canceled" ELSE unit[u]]
    /\ quiet' = FALSE
    /\ UNCHANGED <<status, view, slipped>>

(* An intent ends once its order has ended and all its fills are attributed. *)
Finish(i) ==
    /\ status[i] = "pending"
    /\ \A u \in UnitsOf({i}) : unit[u] \in Attributed \cup Canceled
    /\ status' = [status EXCEPT ![i] = "terminal"]
    /\ quiet' = FALSE
    /\ UNCHANGED <<unit, view, slipped>>

-----------------------------------------------------------------------------
(* The reads.                                                              *)

Read(at, next) == view.at = at /\ view' = next /\ UNCHANGED <<unit, status, slipped>>

(* The gateway reads the broker's positions first of all.                  *)
ReadPositions ==
    /\ Read("positions", [view EXCEPT !.at = "holdings", !.positions = In(Filled)])
    /\ quiet' = (In({"filled", "recorded", "held"}) = {})

ReadHoldings ==
    /\ Read("holdings", [view EXCEPT !.at = "intents", !.holdings = In(Held)])
    /\ UNCHANGED quiet

(* Every intent of a pending status, either from approval on.              *)
ReadIntents ==
    /\ Read("intents", [view EXCEPT !.at = IF Pending = {} THEN "unsettled" ELSE "events",
                                    !.pending = Pending, !.todo = Pending])
    /\ UNCHANGED quiet

(* An intent's units without a SettlementEvent, and its events without     *)
(* holding_projected: the events are the only truth about what it filled.  *)
Remainder(i) == [remaining |-> Cardinality(UnitsOf({i}) \ In(Attributed)),
                 unsettled |-> UnitsOf({i}) \cap In(Attributed \ {"projected"})]

ReadEvents(i) ==
    /\ i \in view.todo
    /\ LET r == Remainder(i) left == view.todo \ {i} IN
       Read("events", [view EXCEPT !.at = IF left = {} THEN "unsettled" ELSE "events", !.todo = left,
                                   !.remaining = @ + r.remaining, !.unsettled = @ \cup r.unsettled])
    /\ UNCHANGED quiet

(* Mutant: only the events of pending intents.                             *)
CatchAllPending(counted) == (In(Attributed \ {"projected"}) \cap UnitsOf(view.pending)) \ counted

(* Mutant: an event the intent loop has counted is counted again.          *)
CatchAllTwice(counted) == In(Attributed \ {"projected"})

(* Every event of a settlement not COMPLETED and not projected, once.      *)
CatchAll(counted) == In(Attributed \ {"projected"}) \ counted

ReadUnsettled ==
    /\ Read("unsettled", [view EXCEPT !.at = "fills", !.catchall = CatchAll(view.unsettled)])
    /\ UNCHANGED quiet

(* The day's fills, for the number of trades.                              *)
ReadFills ==
    /\ Read("fills", [view EXCEPT !.at = "done", !.fills = {Of[u] : u \in In(Recorded)}])
    /\ UNCHANGED quiet

(* The evaluation ends and another begins.                                 *)
NextEvaluation ==
    /\ view.at = "done"
    /\ view' = NoView /\ slipped' = {} /\ quiet' = FALSE
    /\ UNCHANGED <<unit, status>>

Next ==
    \/ \E u \in Units : Fill(u) \/ RecordFill(u) \/ Enqueue(u) \/ WriteHolding(u) \/ Project(u)
    \/ \E i \in Intents : Cancel(i) \/ Finish(i) \/ ReadEvents(i)
    \/ ReadPositions \/ ReadHoldings \/ ReadIntents \/ ReadUnsettled \/ ReadFills \/ NextEvaluation

Spec == Init /\ [][Next]_vars

-----------------------------------------------------------------------------
(* What the view says.                                                     *)

(* Broker inventory beyond the holdings and the unprojected buys.          *)
Excess ==
    LET local == Cardinality(view.holdings) + Cardinality(view.unsettled) + Cardinality(view.catchall)
        beyond == Cardinality(view.positions) - local
    IN IF beyond > 0 THEN beyond ELSE 0

HoldingsValue ==
    Cardinality(view.holdings) + view.remaining + Cardinality(view.unsettled) + Cardinality(view.catchall) + Excess

TradesToday == view.fills \cup view.pending

(* position_keys holds the asset.                                          *)
SlotHeld == \/ view.holdings # {} \/ view.positions # {} \/ view.pending # {}
            \/ view.unsettled # {} \/ view.catchall # {}

Committed == {u \in Units : unit[u] # "canceled"}

-----------------------------------------------------------------------------
(* Properties                                                              *)

(* No unit the account has bought or may still buy is missing from the     *)
(* exposure a new buy is sized against, whatever settles, ends or is       *)
(* attributed while it is read -- except a unit whose holding row and      *)
(* holding_projected are both written between two of the reads.            *)
NothingUncounted == view.at = "done" => HoldingsValue >= Cardinality(Committed \ slipped)

(* The number of trades and the position slot forget no order that has     *)
(* bought or may still buy.                                                *)
NoEntryForgotten ==
    view.at = "done" =>
        /\ {Of[u] : u \in Committed} \subseteq TradesToday
        /\ Committed \ slipped # {} => SlotHeld

(* With no fill between two tables, every unit is counted exactly once:    *)
(* held, unprojected or still to come (a canceled one until its intent     *)
(* ends).                                                                  *)
QuietViewIsExact ==
    view.at = "done" /\ quiet =>
        HoldingsValue = Cardinality({u \in Units : unit[u] # "canceled" \/ status[Of[u]] = "pending"})

(* What the code's comment says (false: a fill the broker shows and nothing *)
(* has attributed counts as a remainder and as unmanaged excess).          *)
NothingCountedTwice == view.at = "done" => HoldingsValue <= Cardinality(Units)

(* No exception for units projected during the read (false).               *)
EveryUnitCounted == view.at = "done" => HoldingsValue >= Cardinality(Committed)

(* The exposure a buy is sized against, whatever moves while it is read.   *)
ExposureIsCounted == NothingUncounted /\ NoEntryForgotten /\ QuietViewIsExact
=============================================================================
