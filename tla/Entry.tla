-------------------------------- MODULE Entry --------------------------------
(***************************************************************************)
(* What a buy may cost: the entry policy and funding of dbae/ and the      *)
(* sizing of risk/engine.py, as execution/gateway.py runs them for one     *)
(* buy after the other (_authorize_entry, evaluate_risk, _shape_entry),    *)
(* while orders fill, prices move and the operator changes the profile.    *)
(*                                                                         *)
(* Quantities are counted in lots, the finest step an order may have;      *)
(* prices are dollars per lot, and every other amount of money is in       *)
(* cents.  Decisions are one at a time here (the portfolio lock; see       *)
(* Execution) and a fill is attributed and settled at once (see Exposure). *)
(***************************************************************************)
EXTENDS Integers, FiniteSets, FiniteSetsExt, Functions

CONSTANTS
    Assets,        \* the assets, all of one sector
    Crypto,        \* those traded around the clock, with a taker fee
    WholeOnly,     \* equities not verified fractionable
    Multiplier,    \* contract_multiplier_of
    Unit,          \* the lots of one share
    Increment,     \* min_trade_increment and
    MinOrder,      \* min_order_size of a crypto asset
    PricesOf,      \* the prices each asset may have
    Asked,         \* the quantities a strategy may ask for
    StopBelow,     \* how far below the price its stop may be
    Confidences,   \* the confidences it may have
    Regimes,       \* and the regime multipliers, both in tenths
    Spreads,       \* the bid-ask spreads of the quote, in percent
    Fee,           \* FEE_PCT_PER_SIDE of crypto
    Profiles,      \* the risk profiles: see Limits
    MinLot,        \* min_lot_notional, and the least value a broker sells
    CryptoFrom,    \* BAND_THRESHOLDS: the equity from which crypto is unlocked,
    WholeFrom,     \* whole shares are,
    TradesFrom,    \* and anything is
    OpeningCash,   \* the account at the start
    OutsideLots,   \* the lots of each that TradePulse may find it has not bought
    MaxOrders,     \* bounds: buy orders,
    MaxSessions    \* and changes of session

Limits == [risk : Nat, openRisk : Nat, position : Nat, sector : Nat, exposure : Nat, slippage : Nat, spread : Nat,
           cost : Nat, confidence : 0..9, floor : 0..10, loss : Nat, positions : Nat, orders : Nat, trades : Nat,
           perSymbol : Nat]

Orders == 1..MaxOrders

EntryAssumption ==
    /\ IsFiniteSet(Assets) /\ Crypto \subseteq Assets /\ WholeOnly \subseteq Assets \ Crypto
    /\ Multiplier \in [Assets -> Nat \ {0}]
    /\ \A a \in Assets : PricesOf[a] \subseteq Nat \ {0} /\ OutsideLots[a] \subseteq Nat
    /\ {Unit, Increment, MinOrder} \subseteq Nat \ {0} /\ StopBelow \subseteq Nat \ {0}
    /\ Asked \cup Confidences \cup Regimes \cup Spreads \cup {Fee, MinLot} \subseteq Nat
    /\ Profiles \subseteq Limits /\ MaxOrders \in Nat /\ MaxSessions \in Nat /\ OpeningCash \in Nat

VARIABLES
    price,    \* the price of each asset
    cash,     \* the broker's cash
    held,     \* holdings: lots, cost and the enforced stop
    outside,  \* lots at the broker without a holding
    order,    \* the approved buys, with the block frozen at approval
    close,    \* the equity at the close of the session before
    session,  \* the number of this session
    profile   \* the RiskLimits in force

vars == <<price, cash, held, outside, order, close, session, profile>>

NoHolding == [lots |-> 0, cost |-> 0, stop |-> 0]
NoOrder == [asset |-> "none", left |-> 0, price |-> 0, slippage |-> 0, stop |-> 0, today |-> FALSE]

TypeOK ==
    /\ \A a \in Assets : price[a] \in PricesOf[a]
    /\ cash \in Int /\ close \in Int /\ session \in 0..MaxSessions /\ profile \in Profiles
    /\ held \in [Assets -> [lots : Nat, cost : Nat, stop : Nat]]
    /\ outside \in [Assets -> Nat]
    /\ order \in [Orders -> [asset : Assets \cup {"none"}, left : Nat, price : Nat, slippage : Nat, stop : Int,
                             today : BOOLEAN]]

Init ==
    /\ price \in [Assets -> UNION {PricesOf[a] : a \in Assets}] /\ \A a \in Assets : price[a] \in PricesOf[a]
    /\ cash = OpeningCash /\ close = OpeningCash /\ session = 0
    /\ held = [a \in Assets |-> NoHolding] /\ outside \in [Assets -> UNION {OutsideLots[a] : a \in Assets}]
    /\ \A a \in Assets : outside[a] \in OutsideLots[a]
    /\ order = [o \in Orders |-> NoOrder] /\ profile \in Profiles

-----------------------------------------------------------------------------
(* Figures of the account.                                                 *)

Least(a, b) == IF a <= b THEN a ELSE b
Most(a, b) == IF a >= b THEN a ELSE b

(* Dollar notional per lot, in cents.                                      *)
PerLot(a, p) == 100 * p * Multiplier[a]

Open == {o \in Orders : order[o].left > 0}
Used == {o \in Orders : order[o] # NoOrder}
OpenOf(a) == {o \in Open : order[o].asset = a}

Value(a, lots) == lots * PerLot(a, price[a])
(* Holdings and inventory beyond them, at the market.                      *)
Worth == [a \in Assets |-> Value(a, held[a].lots + outside[a])]
Equity == cash + SumFunction(Worth)

(* build_portfolio_view: holdings and inventory beyond them at the market, *)
(* what is left of pending buys at their reference price.                  *)
PendingValue(a) == SumFunction([o \in OpenOf(a) |-> order[o].left * PerLot(a, order[o].price)])
Exposed == SumFunction([a \in Assets |-> Worth[a] + PendingValue(a)])

Slots == {a \in Assets : held[a].lots + outside[a] > 0 \/ OpenOf(a) # {}}

(* The day's entries: pending, or with a fill of today.                    *)
Entries == {o \in Used : order[o].left > 0 \/ order[o].today}

(* open_portfolio_risk: holdings and pending buys down to their stops,     *)
(* inventory beyond them down to nothing.                                  *)
OpenRisk ==
    LET holding(a) == Most(0, held[a].cost - held[a].lots * PerLot(a, held[a].stop)) + Value(a, outside[a])
        pending(o) == Most(0, order[o].price - order[o].stop) * order[o].left * 100 * Multiplier[order[o].asset]
    IN SumFunction([a \in Assets |-> holding(a)]) + SumFunction([o \in Open |-> pending(o)])

FeeOf(a) == IF a \in Crypto THEN Fee ELSE 0

(* funding_for: the order with its slippage allowance and its fee.         *)
FundingFor(a, lots, p, slippage) == lots * p * Multiplier[a] * (100 + slippage + FeeOf(a))

Frozen(o) == FundingFor(order[o].asset, order[o].left, order[o].price, order[o].slippage)
Current(o) == FundingFor(order[o].asset, order[o].left, order[o].price, profile.slippage)

(* Mutant: pending buys are priced by the profile now in force.            *)
PendingAsNow == SumFunction([o \in Open |-> Current(o)])

(* pending_buy_funding: a change of the profile can only raise it.         *)
PendingFunding == SumFunction([o \in Open |-> Most(Frozen(o), Current(o))])

Available == cash - PendingFunding

-----------------------------------------------------------------------------
(* evaluate_risk, for a buy.                                               *)

Floor(bound, per) == IF bound <= 0 THEN 0 ELSE bound \div per

StopOf(e) == price[e.asset] - e.below

(* An add-on is protected by the holding's stop, if that is the lower one. *)
SizingStop(e) == IF held[e.asset].lots > 0 THEN Least(held[e.asset].stop, StopOf(e)) ELSE StopOf(e)
UnitRisk(e) == 100 * (price[e.asset] - SizingStop(e)) * Multiplier[e.asset]

(* Reasons that refuse the buy whatever its size.                          *)
Refused(e) ==
    \/ e.spread > profile.spread
    \/ (e.spread + 2 * FeeOf(e.asset)) * price[e.asset] * 100
           > profile.cost * 100 * (price[e.asset] - SizingStop(e))
    \/ e.confidence < profile.confidence
    \/ Cardinality(Entries) >= profile.trades
    \/ Cardinality(Slots) >= profile.positions /\ e.asset \notin Slots
    \/ 100 * (Equity - close) <= -profile.loss * close
    \/ Cardinality({o \in Entries : order[o].asset = e.asset}) >= profile.perSymbol
    \/ Cardinality(Open) >= profile.orders

(* _confidence_multiplier.                                                 *)
Scaled(confidence) ==
    profile.floor + ((10 - profile.floor) * (confidence - profile.confidence)) \div (10 - profile.confidence)

Budget(e) == (profile.risk * Equity * Scaled(e.confidence) * e.regime) \div 10000
RiskLeft == (profile.openRisk * Equity) \div 100 - OpenRisk
PositionLeft(a) == (profile.position * Equity) \div 100 - Value(a, held[a].lots + outside[a])
SectorLeft == (profile.sector * Equity) \div 100 - Exposed
ExposureLeft == (profile.exposure * Equity) \div 100 - Exposed

(* fundable_notional of what is available, less the buffer of one percent  *)
(* that check_cash_sufficiency keeps.                                      *)
Affordable(a) == Floor(99 * Available, 100 * (100 + profile.slippage + FeeOf(a)) * price[a] * Multiplier[a])

(* Mutant: the order is sized by the cash, without slippage and fee.       *)
BoundsByNotional(e) ==
    {Floor(Budget(e), UnitRisk(e)), Floor(RiskLeft, UnitRisk(e)), Floor(PositionLeft(e.asset), PerLot(e.asset, price[e.asset])),
     Floor(99 * Available, 10000 * price[e.asset] * Multiplier[e.asset])}

(* Each cap can only lower the quantity the caps before it have left.      *)
Bounds(e) ==
    LET per == PerLot(e.asset, price[e.asset]) IN
    {Floor(Budget(e), UnitRisk(e)), Floor(RiskLeft, UnitRisk(e)), Floor(PositionLeft(e.asset), per),
     Floor(SectorLeft, per), Floor(ExposureLeft, per), Affordable(e.asset)}

Sized(e, asked) == Min(Bounds(e) \cup {asked})

Approved(e, asked) ==
    LET q == Sized(e, asked) IN
    IF Refused(e) \/ q < 1 \/ q * PerLot(e.asset, price[e.asset]) < MinLot THEN 0 ELSE q

-----------------------------------------------------------------------------
(* The entry policy around it.                                             *)

(* The band is the one of the lower of this equity and the last close.     *)
BandEquity == Least(Equity, close)
Allowed(a) ==
    /\ BandEquity >= TradesFrom
    /\ a \in Crypto => BandEquity >= CryptoFrom
    /\ a \in WholeOnly => BandEquity >= WholeFrom

Step(a) == IF a \in Crypto THEN Increment ELSE IF a \in WholeOnly THEN Unit ELSE 1

(* shape_quantity rounds down, never up.                                   *)
Shaped(a, q) ==
    LET down == (q \div Step(a)) * Step(a) IN
    IF a \in Crypto /\ down < MinOrder THEN 0 ELSE down

(* exit_feasible: at the stop it is sized against, the broker still takes  *)
(* the sell order.                                                         *)
ExitValue(e, q) == q * PerLot(e.asset, SizingStop(e))
Threshold(e) == IF e.asset \in Crypto THEN Most(MinLot, MinOrder * PerLot(e.asset, SizingStop(e))) ELSE MinLot
ExitFeasible(e, q) == ExitValue(e, q) >= Threshold(e)

(* The quantity that is submitted, 0 for a refusal: a quantity the         *)
(* rounding has changed has to be approved again, as it is.                *)
Submitted(e) ==
    LET first == Approved(e, e.asked)
        q     == Shaped(e.asset, first)
    IN IF /\ Allowed(e.asset) /\ Available > 0 /\ q > 0
          /\ q # first => Approved(e, q) = q
          /\ ExitFeasible(e, q)
       THEN q ELSE 0

Requests == {e \in [asset : Assets, asked : Asked, below : StopBelow, confidence : Confidences, regime : Regimes,
                    spread : Spreads] : e.below < price[e.asset]}

-----------------------------------------------------------------------------
(* The account goes on.                                                    *)

(* An asset with an order in flight takes no other (see Execution).        *)
Buy(e) ==
    /\ OpenOf(e.asset) = {} /\ Submitted(e) > 0
    /\ \E o \in Orders :
         /\ o = Cardinality(Used) + 1
         /\ order' = [order EXCEPT ![o] = [asset |-> e.asset, left |-> Submitted(e), price |-> price[e.asset],
                                           slippage |-> profile.slippage, stop |-> StopOf(e), today |-> FALSE]]
    /\ UNCHANGED <<price, cash, held, outside, close, session, profile>>

(* A fill of all that is left or of all but one lot, at the worst price    *)
(* that the order's slippage allows.                                       *)
Fill(o) ==
    /\ o \in Open
    /\ \E lots \in {order[o].left - 1, order[o].left} \ {0} :
         LET a == order[o].asset
             paid == lots * order[o].price * Multiplier[a] * (100 + order[o].slippage)
         IN
         /\ order' = [order EXCEPT ![o].left = @ - lots, ![o].today = TRUE]
         /\ cash' = cash - paid - lots * order[o].price * Multiplier[a] * FeeOf(a)
         /\ held' = [held EXCEPT ![a] = [lots |-> @.lots + lots, cost |-> @.cost + paid,
                                         stop |-> IF @.lots = 0 THEN order[o].stop ELSE @.stop]]
    /\ UNCHANGED <<price, outside, close, session, profile>>

Cancel(o) ==
    /\ o \in Open
    /\ order' = [order EXCEPT ![o].left = 0]
    /\ UNCHANGED <<price, cash, held, outside, close, session, profile>>

Exit(a) ==
    /\ held[a].lots > 0
    /\ cash' = cash + Value(a, held[a].lots)
    /\ held' = [held EXCEPT ![a] = NoHolding]
    /\ UNCHANGED <<price, outside, order, close, session, profile>>

PriceMoves(a) ==
    /\ \E p \in PricesOf[a] \ {price[a]} : price' = [price EXCEPT ![a] = p]
    /\ UNCHANGED <<cash, held, outside, order, close, session, profile>>

(* A new session: the baseline is captured from the last close.            *)
NextSession ==
    /\ session < MaxSessions
    /\ session' = session + 1 /\ close' = Equity
    /\ order' = [o \in Orders |-> [order[o] EXCEPT !.today = FALSE]]
    /\ UNCHANGED <<price, cash, held, outside, profile>>

(* A restart under another profile of the configuration.                   *)
ChangeProfile ==
    /\ \E p \in Profiles \ {profile} : profile' = p
    /\ UNCHANGED <<price, cash, held, outside, order, close, session>>

Next ==
    \/ \E e \in Requests : Buy(e)
    \/ \E o \in Orders : Fill(o) \/ Cancel(o)
    \/ \E a \in Assets : Exit(a) \/ PriceMoves(a)
    \/ NextSession \/ ChangeProfile

Spec == Init /\ [][Next]_vars

-----------------------------------------------------------------------------
(* Properties                                                              *)

(* Every pending buy can be paid for, at the worst price its own profile   *)
(* allowed, whatever fills first and whatever profile is in force since.   *)
EveryBuyIsFunded == cash >= SumFunction([o \in Open |-> Frozen(o)])

(* What a limit means for a buy of q lots.                                 *)
Fits(e, q) ==
    LET notional == q * PerLot(e.asset, price[e.asset]) IN
    /\ 10000 * q * UnitRisk(e) <= profile.risk * Equity * Scaled(e.confidence) * e.regime
    /\ 100 * (OpenRisk + q * UnitRisk(e)) <= profile.openRisk * Equity
    /\ 100 * (Value(e.asset, held[e.asset].lots + outside[e.asset]) + notional) <= profile.position * Equity
    /\ 100 * (Exposed + notional) <= Least(profile.sector, profile.exposure) * Equity
    /\ 100 * FundingFor(e.asset, q, price[e.asset], profile.slippage) <= 99 * Available
    /\ notional >= MinLot /\ ExitFeasible(e, q)
    /\ q % Step(e.asset) = 0 /\ (e.asset \in Crypto => q >= MinOrder)

(* A buy gets the largest quantity that keeps within every limit at once   *)
(* and none if there is no such quantity, in whatever order the caps, the  *)
(* rounding and the second approval come.                                  *)
SizedToTheLimit ==
    \A e \in {r \in Requests : OpenOf(r.asset) = {}} :
        LET fitting == {q \in 1..e.asked : Fits(e, q)} IN
        Submitted(e) = IF Refused(e) \/ ~Allowed(e.asset) \/ fitting = {} THEN 0 ELSE Max(fitting)

(* A buy is as large as its limits allow and no larger, and all of them    *)
(* together can be paid.                                                   *)
BuysFitTheirLimits == EveryBuyIsFunded /\ SizedToTheLimit
=============================================================================
