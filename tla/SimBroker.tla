------------------------------ MODULE SimBroker ------------------------------
(***************************************************************************)
(* The simulated broker (broker/simulated.py): a script of quotes and      *)
(* orders is turned into events on a timeline, and an event is applied     *)
(* when the first read at or after its time comes.  Two copies go through  *)
(* the same script: `lazy` is read now and then, `eager` at every instant. *)
(*                                                                         *)
(* Bid and ask are one price, an order's quantity is in whole units, and a *)
(* fill posts one fee a moment later; the injected faults are left out.    *)
(***************************************************************************)
EXTENDS Integers, Sequences, FiniteSets

CONSTANTS
    Symbols,
    Prices,
    Orders,      \* client_order_ids
    Script,      \* of each order: symbol, side, qty, limit (0: market), day, fills, end
    Sessions,    \* the [open, close) times of the market
    FeeDelay,    \* from a fill to its fee
    Seeded,      \* the position in each symbol at the start
    MaxTime,     \* bound: the clock
    MaxEvents,   \* bound: events applied by one read
    AtObserved   \* whether a quote may be scripted for an instant already read

Times == 0..MaxTime

VARIABLES
    clock,  \* ManualClock
    lazy,   \* the broker
    eager   \* the same broker, read at every instant

vars == <<clock, lazy, eager>>

OpenStatuses == {"new", "accepted", "partially_filled"}
Terminal == {"filled", "canceled", "expired"}

NewBroker == [quote |-> [s \in Symbols |-> [t \in Times |-> IF t = 0 THEN 1 ELSE 0]],
              status |-> [o \in Orders |-> "unplaced"], filled |-> [o \in Orders |-> 0],
              held |-> Seeded, cash |-> 0, log |-> << >>,
              events |-> {}, seq |-> 0, parked |-> [s \in Symbols |-> << >>]]

TypeOK ==
    /\ clock \in Times
    /\ \A b \in {lazy, eager} :
         /\ b.status \in [Orders -> OpenStatuses \cup Terminal \cup {"unplaced"}]
         /\ b.filled \in [Orders -> Nat] /\ b.held \in [Symbols -> Nat] /\ b.cash \in Int
         /\ \A e \in b.events : e.seq \in 1..b.seq

Init == clock = 0 /\ lazy = NewBroker /\ eager = NewBroker

-----------------------------------------------------------------------------
(* Market data and sessions.                                               *)

IsOpen(t) == \E s \in Sessions : s[1] <= t /\ t < s[2]
After(S, t) == {x \in S : x > t}
Earliest(S) == CHOOSE x \in S : \A y \in S : x <= y
NextOpen(t) == After({s[1] : s \in Sessions}, t)
NextClose(t) == After({s[2] : s \in Sessions}, t)

(* The latest quote at or before t; each symbol has one from the start on. *)
QuoteAt(b, s, t) ==
    b.quote[s][CHOOSE u \in 0..t : b.quote[s][u] > 0 /\ \A v \in u + 1 .. t : b.quote[s][v] = 0]

-----------------------------------------------------------------------------
(* The timeline.                                                           *)

Event(at, kind, o, qty) == [at |-> at, kind |-> kind, order |-> o, qty |-> qty, seq |-> 0]
Push(b, e) == [b EXCEPT !.seq = @ + 1, !.events = @ \cup {[e EXCEPT !.seq = b.seq + 1]}]
PushIf(b, condition, e) == IF condition THEN Push(b, e) ELSE b

Before(e, f) == e.at < f.at \/ (e.at = f.at /\ e.seq <= f.seq)
NextEvent(b) == CHOOSE e \in b.events : \A f \in b.events : Before(e, f)

Remaining(b, o) == Script[o].qty - b.filled[o]
Signed(o, qty) == IF Script[o].side = "buy" THEN qty ELSE -qty

Marketable(b, o, t) ==
    LET price == QuoteAt(b, Script[o].symbol, t) IN
    \/ Script[o].limit = 0
    \/ Script[o].side = "buy" /\ price <= Script[o].limit
    \/ Script[o].side = "sell" /\ price >= Script[o].limit

(* A fill that is not marketable waits for the next quote, which may be    *)
(* scripted already.                                                       *)
Rearm(b, e) ==
    LET s == Script[e.order].symbol
        later == {t \in After(Times, e.at) : b.quote[s][t] > 0}
    IN IF later # {} THEN Push(b, [e EXCEPT !.at = Earliest(later)])
       ELSE [b EXCEPT !.parked[s] = Append(@, e)]

(* qty 0 is everything still open.                                         *)
Fill(b, e) ==
    LET o == e.order
        qty == IF e.qty = 0 THEN Remaining(b, o) ELSE e.qty
        price == QuoteAt(b, Script[o].symbol, e.at)
    IN Push([b EXCEPT !.filled[o] = @ + qty,
                      !.status[o] = IF b.filled[o] + qty >= Script[o].qty THEN "filled" ELSE "partially_filled",
                      !.held[Script[o].symbol] = @ + Signed(o, qty),
                      !.cash = @ - Signed(o, qty) * price,
                      !.log = Append(@, [order |-> o, at |-> e.at, qty |-> qty, price |-> price])],
            Event(e.at + FeeDelay, "fee", o, qty))

PostFee(b, e) == [b EXCEPT !.cash = @ - 1, !.log = Append(@, [order |-> e.order, at |-> e.at, qty |-> 0, price |-> 0])]

(* Nothing changes a terminal order: later events lapse.                   *)
Apply(b, e) ==
    CASE e.kind = "fee" -> PostFee(b, e)
      [] e.kind # "fee" /\ b.status[e.order] \in Terminal -> b
      [] e.kind = "start" /\ b.status[e.order] \notin Terminal -> [b EXCEPT !.status[e.order] = "new"]
      [] e.kind = "end" /\ b.status[e.order] \notin Terminal -> [b EXCEPT !.status[e.order] = Script[e.order].end]
      [] e.kind = "expire" /\ b.status[e.order] \notin Terminal -> [b EXCEPT !.status[e.order] = "expired"]
      [] e.kind = "fill" /\ b.status[e.order] \notin Terminal ->
             IF Marketable(b, e.order, e.at) THEN Fill(b, e) ELSE Rearm(b, e)

(* _materialize: every event that is due, in the order of time, once.      *)
Materialize(b, now) ==
    LET applied[n \in 0..MaxEvents] ==
            IF n = 0 THEN b
            ELSE LET before == applied[n - 1] IN
                 IF \E e \in before.events : e.at <= now
                 THEN LET e == NextEvent(before) IN Apply([before EXCEPT !.events = @ \ {e}], e)
                 ELSE before
    IN applied[MaxEvents]

-----------------------------------------------------------------------------
(* The calls, on either copy.                                              *)

(* set_quote: it does not read, and pushes what was waiting for it.        *)
Quoted(b, s, price, at) ==
    LET waiting == b.parked[s]
        pushed[n \in 0..Len(waiting)] ==
            IF n = 0 THEN [b EXCEPT !.quote[s][at] = price, !.parked[s] = << >>]
            ELSE Push(pushed[n - 1], [waiting[n] EXCEPT !.at = IF at > @ THEN at ELSE @])
    IN pushed[Len(waiting)]

Committed(b, s) ==
    LET sells == {o \in Orders : Script[o].symbol = s /\ Script[o].side = "sell" /\ b.status[o] \in OpenStatuses}
        units == {u \in sells \X (1..10) : u[2] <= Remaining(b, u[1])}
    IN Cardinality(units)

(* Mutant: what open sells will still take is not set aside.               *)
SellableAll(b, o) == Script[o].side = "sell" => Script[o].qty <= b.held[Script[o].symbol]

(* The 403 of place_order.                                                 *)
Sellable(b, o) ==
    Script[o].side = "sell" => Script[o].qty <= b.held[Script[o].symbol] - Committed(b, Script[o].symbol)

StartOf(now) == IF IsOpen(now) THEN now ELSE Earliest(NextOpen(now))

(* Mutant: the order is placed before what is due has been applied.        *)
PlacedUnread(b, o, now) ==
    LET start == StartOf(now) IN
    IF Sellable(b, o) THEN Push([b EXCEPT !.status[o] = "new"], Event(start, "fill", o, 0)) ELSE b

(* _place: the order's events are pushed in the order of their kinds.      *)
Placed(b, o, now) ==
    LET read == Materialize(b, now)
        start == StartOf(now)
        accepted == [read EXCEPT !.status[o] = IF IsOpen(now) THEN "new" ELSE "accepted"]
        started == PushIf(accepted, ~IsOpen(now), Event(start, "start", o, 0))
        fills == Script[o].fills
        filled[n \in 0..Len(fills)] ==
            IF n = 0 THEN started ELSE Push(filled[n - 1], Event(start + fills[n][1], "fill", o, fills[n][2]))
        ended == PushIf(filled[Len(fills)], Script[o].end # "filled", Event(start + fills[Len(fills)][1], "end", o, 0))
    IN IF Sellable(read, o)
       THEN PushIf(ended, Script[o].day /\ NextClose(start) # {}, Event(Earliest(NextClose(start)), "expire", o, 0))
       ELSE read

(* cancel_order: a terminal order stays as it is (422).                    *)
Canceled(b, o, now) ==
    LET read == Materialize(b, now) IN
    IF read.status[o] \in Terminal THEN read ELSE [read EXCEPT !.status[o] = "canceled"]

-----------------------------------------------------------------------------

(* ManualClock.advance.                                                    *)
Advance ==
    /\ clock < MaxTime
    /\ clock' = clock + 1
    /\ eager' = Materialize(eager, clock + 1)
    /\ UNCHANGED lazy

(* get_account, get_positions, get_order, get_open_orders, get_activities. *)
Poll ==
    /\ lazy' = Materialize(lazy, clock)
    /\ UNCHANGED <<clock, eager>>

(* Quote times increase, and the past is not scripted.                     *)
SetQuote(s) ==
    /\ \E at \in Times, price \in Prices :
         /\ at > clock \/ (AtObserved /\ at = clock)
         /\ \A t \in at..MaxTime : lazy.quote[s][t] = 0
         /\ lazy' = Quoted(lazy, s, price, at)
         /\ eager' = Materialize(Quoted(eager, s, price, at), clock)
    /\ UNCHANGED clock

PlaceOrder(o) ==
    /\ lazy.status[o] = "unplaced"
    /\ IsOpen(clock) \/ NextOpen(clock) # {}
    /\ lazy' = Placed(lazy, o, clock)
    /\ eager' = Materialize(Placed(eager, o, clock), clock)
    /\ UNCHANGED clock

CancelOrder(o) ==
    /\ lazy.status[o] \in OpenStatuses
    /\ lazy' = Canceled(lazy, o, clock) /\ eager' = Canceled(eager, o, clock)
    /\ UNCHANGED clock

Next ==
    \/ Advance \/ Poll
    \/ \E s \in Symbols : SetQuote(s)
    \/ \E o \in Orders : PlaceOrder(o) \/ CancelOrder(o)

Spec == Init /\ [][Next]_vars

-----------------------------------------------------------------------------
(* Properties                                                              *)

Entries(b) == {b.log[n] : n \in DOMAIN b.log}

(* How often the broker is read never changes what happens: a read that    *)
(* comes late finds what a read at every instant would have found.         *)
PollingChangesNothing ==
    LET read == Materialize(lazy, clock) IN
    /\ read.status = eager.status /\ read.filled = eager.filled
    /\ read.held = eager.held /\ read.cash = eager.cash
    /\ Entries(read) = Entries(eager) /\ Len(read.log) = Len(eager.log)

(* What is sold is held, whatever is placed, filled or waits meanwhile.    *)
SoldIsHeld == \A s \in Symbols : lazy.held[s] >= 0

(* What the simulated broker does is what its script says, and possible.   *)
SimulationIsFaithful == PollingChangesNothing /\ SoldIsHeld
=============================================================================
