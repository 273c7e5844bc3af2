-------------------------- MODULE SellAuthorization --------------------------
(***************************************************************************)
(* How much of an asset a sell may take: _authorize_sell of the gateway    *)
(* (tradepulse/execution/gateway.py) and the two bounds it computes        *)
(* (tradepulse/execution/sellable.py), against a broker and a settlement   *)
(* that go on while it reads, a position feed that lags, and orders that   *)
(* someone else places on the account.                                     *)
(*                                                                         *)
(* One asset, long inventory only.  Orders fill unit by unit; the n-th     *)
(* fill of an order is its n-th activity.  The execution reservation keeps *)
(* further sells of TradePulse itself away meanwhile.                      *)
(***************************************************************************)
EXTENDS Integers, FiniteSets, Functions

CONSTANTS
    Own,              \* earlier sells of TradePulse, accepted by the broker
    External,         \* sells somebody else may place
    Quantity,         \* of each order
    InitialHolding,
    MaxBuys,          \* bound: units bought meanwhile
    PassInBetween     \* a reconciliation pass may commit between the unresolved check and the cursor read

Orders == Own \cup External

SellAssumption ==
    /\ Own \cap External = {} /\ IsFiniteSet(Orders)
    /\ Quantity \in [Orders -> Nat \ {0}]
    /\ InitialHolding \in Nat /\ MaxBuys \in Nat /\ PassInBetween \in BOOLEAN

VARIABLES
    order,     \* at the broker: "unplaced", "open" or "ended"
    filled,    \* units filled
    unshown,   \* filled units the positions endpoint does not show yet
    buys,      \* units bought
    booked,    \* of these, opened as lots
    accounted, \* fills recorded as Fill and SettlementEvent
    closed,    \* fills that have closed their lots
    completed, \* fills whose SettlementEvent is COMPLETED
    terminal,  \* own intents with a terminal status
    passed,    \* fills at or before the fill cursor
    pc,        \* where the authorization is
    view       \* what it has read

broker     == <<order, filled, unshown, buys>>
settlement == <<booked, accounted, closed, completed, terminal>>
vars       == <<broker, settlement, passed, pc, view>>

Total(f, S) == SumFunctionOnSet(f, S)
Zero == [o \in Orders |-> 0]
NoOrders == [o \in Orders |-> -1]

TypeOK ==
    /\ order \in [Orders -> {"unplaced", "open", "ended"}]
    /\ \A f \in {filled, accounted, closed, completed, passed} :
         DOMAIN f = Orders /\ \A o \in Orders : f[o] \in 0..Quantity[o]
    /\ unshown \in 0..Total(filled, Orders)
    /\ buys \in 0..MaxBuys /\ booked \in 0..buys
    /\ terminal \subseteq Own
    /\ pc \in {"idle", "checked", "intents", "cursor", "settled", "local", "first", "position", "second", "ready"}
    /\ \A o \in Orders : completed[o] <= closed[o] /\ closed[o] <= accounted[o] /\ accounted[o] <= filled[o]

Nothing == [terminal |-> {}, cursor |-> Zero, settled |-> Zero, local |-> 0,
            first |-> NoOrders, position |-> 0]

Init ==
    /\ order = [o \in Orders |-> IF o \in Own THEN "open" ELSE "unplaced"]
    /\ filled = Zero /\ accounted = Zero /\ closed = Zero /\ completed = Zero /\ passed = Zero
    /\ unshown = 0 /\ buys = 0 /\ booked = 0 /\ terminal = {}
    /\ pc = "idle" /\ view = Nothing

-----------------------------------------------------------------------------
(* The world                                                                *)

Held == InitialHolding + buys - Total(filled, Orders)
LocalLong == InitialHolding + booked - Total(closed, Orders)
IsOpen(o) == order[o] = "open"
Add(f, o) == [f EXCEPT ![o] = @ + 1]

\* What is truly free to sell: the holding less the open remainders.
Free == Held - Total([o \in Orders |-> Quantity[o] - filled[o]], {o \in Orders : IsOpen(o)})

Fill(o) ==
    /\ IsOpen(o)
    /\ filled' = Add(filled, o)
    /\ order' = IF filled'[o] = Quantity[o] THEN [order EXCEPT ![o] = "ended"] ELSE order
    /\ unshown' = unshown + 1
    /\ UNCHANGED <<buys, settlement, passed, pc, view>>

Cancel(o) ==
    /\ IsOpen(o)
    /\ order' = [order EXCEPT ![o] = "ended"]
    /\ UNCHANGED <<filled, unshown, buys, settlement, passed, pc, view>>

\* Nothing bounds an order placed after the last read of the open orders:
\* the rule that nothing else trades the account excludes it.
PlaceExternal(o) ==
    /\ o \in External /\ order[o] = "unplaced" /\ pc \notin {"second", "ready"}
    /\ Free >= Quantity[o]
    /\ order' = [order EXCEPT ![o] = "open"]
    /\ UNCHANGED <<filled, unshown, buys, settlement, passed, pc, view>>

Buy ==
    /\ buys < MaxBuys /\ buys' = buys + 1
    /\ UNCHANGED <<order, filled, unshown, settlement, passed, pc, view>>

\* The positions endpoint catches up.
Reflect ==
    /\ unshown > 0 /\ unshown' = unshown - 1
    /\ UNCHANGED <<order, filled, buys, settlement, passed, pc, view>>

\* Settlement of a buy.
OpenLot ==
    /\ booked < buys /\ booked' = booked + 1
    /\ UNCHANGED <<broker, accounted, closed, completed, terminal, passed, pc, view>>

\* attribute_order_fills.
Attribute(o) ==
    /\ o \in Own /\ accounted[o] < filled[o]
    /\ accounted' = Add(accounted, o)
    /\ UNCHANGED <<broker, booked, closed, completed, terminal, passed, pc, view>>

\* Settlement of a sell closes the lots first and completes the event later.
CloseLots(o) ==
    /\ closed[o] < accounted[o]
    /\ closed' = Add(closed, o)
    /\ UNCHANGED <<broker, booked, accounted, completed, terminal, passed, pc, view>>

Complete(o) ==
    /\ completed[o] < closed[o]
    /\ completed' = Add(completed, o)
    /\ UNCHANGED <<broker, booked, accounted, closed, terminal, passed, pc, view>>

\* The intent gets its terminal status once every fill is attributed.
Finish(o) ==
    /\ o \in Own \ terminal /\ order[o] = "ended" /\ accounted[o] = filled[o]
    /\ terminal' = terminal \cup {o}
    /\ UNCHANGED <<broker, booked, accounted, closed, completed, passed, pc, view>>

\* record_pass: in one transaction, every unaccounted fill becomes an
\* unresolved execution and the cursor moves past it.
RecordPass ==
    /\ passed # filled /\ passed' = filled
    /\ PassInBetween \/ pc \notin {"checked", "intents"}
    /\ UNCHANGED <<broker, settlement, pc, view>>

-----------------------------------------------------------------------------
(* _authorize_sell                                                          *)

Read(from, to, what) ==
    /\ pc = from /\ pc' = to
    /\ view' = what
    /\ UNCHANGED <<broker, settlement, passed>>

\* open_unresolved: recorded and not yet matched by a fill.
Unresolved == {o \in Orders : passed[o] > accounted[o]}

CheckUnresolved == Unresolved = {} /\ Read("idle", "checked", view)
ReadIntents == Read("checked", "intents", [view EXCEPT !.terminal = terminal])
ReadCursor == Read("intents", "cursor", [view EXCEPT !.cursor = passed])

\* Mutant: every settlement event counts, completed or not.
ReadSettledAttributed == Read("cursor", "settled", [view EXCEPT !.settled = accounted])

\* Only COMPLETED events count.
ReadSettled == Read("cursor", "settled", [view EXCEPT !.settled = completed])
ReadLocal == Read("settled", "local", [view EXCEPT !.local = LocalLong])

OpenOrders == [o \in Orders |-> IF IsOpen(o) THEN filled[o] ELSE -1]

ReadFirst == Read("local", "first", [view EXCEPT !.first = OpenOrders])

\* get_positions: sells that are not reflected yet are still in it.
ReadPosition == Read("first", "position", [view EXCEPT !.position = Held + unshown])

\* SELLABLE_SNAPSHOT_UNSTABLE: the reads begin again.
ReadSecond == Read("position", IF OpenOrders = view.first THEN "second" ELSE "local", view)

\* Activities after the cursor, each of which must be a known fill.
Unreconciled == \E o \in Orders : \E n \in 1..filled[o] : n > view.cursor[o] /\ n > accounted[o]

ReadActivities == ~Unreconciled /\ Read("second", "ready", view)

\* A refusal, or the order is sized and goes out.
Return ==
    /\ pc # "idle" /\ pc' = "idle" /\ view' = Nothing
    /\ UNCHANGED <<broker, settlement, passed>>

-----------------------------------------------------------------------------
(* compute_sellable                                                         *)

\* The own part of the order set: not yet terminal and fully settled.  What
\* a terminal intent has filled no longer changes.
PendingOwn == {o \in Own : o \notin view.terminal \/ view.settled[o] < accounted[o]}
PendingExternal == {o \in External : view.first[o] >= 0}

LocalBound ==
    view.local - Total([o \in Orders |-> Quantity[o] - view.settled[o]], PendingOwn) - Total(Quantity, PendingExternal)

BrokerBound == view.position - Total(Quantity, PendingOwn \cup PendingExternal)

Sellable ==
    LET least == IF LocalBound < BrokerBound THEN LocalBound ELSE BrokerBound
    IN  IF least > 0 THEN least ELSE 0

-----------------------------------------------------------------------------

World ==
    \/ \E o \in Orders : \/ Fill(o) \/ Cancel(o) \/ PlaceExternal(o)
                         \/ Attribute(o) \/ CloseLots(o) \/ Complete(o) \/ Finish(o)
    \/ Buy \/ Reflect \/ OpenLot \/ RecordPass

Authorization ==
    \/ CheckUnresolved \/ ReadIntents \/ ReadCursor \/ ReadSettled \/ ReadLocal
    \/ ReadFirst \/ ReadPosition \/ ReadSecond \/ ReadActivities \/ Return

Next == World \/ Authorization
Spec == Init /\ [][Next]_vars

-----------------------------------------------------------------------------
(* Properties                                                               *)

\* Whatever lags and whatever happens between the reads, a sell takes no
\* more than what is free (the lemma of sellable.py).
SellWithinFree == pc = "ready" => Sellable <= IF Free > 0 THEN Free ELSE 0
=============================================================================
