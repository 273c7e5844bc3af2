---------------------------- MODULE MCComponents ----------------------------
(***************************************************************************)
(* The instances of Components that its runs check, and beside them five   *)
(* more topics, which are checked only: what their components compute is   *)
(* defined by recursion or by sorting.  A behaviour of MCSpec whose topic  *)
(* is one of Components is a behaviour of Spec.                            *)
(***************************************************************************)
EXTENDS Components

\* One sell of TradePulse of two units, one of somebody else.
MCQuantity == "own" :> 2 @@ "external" :> 1

\* One order of two units and one of one.
MCUnitOf == 1 :> "two" @@ 2 :> "two" @@ 3 :> "one"

\* Three oversells, one of them by old code, two covers and a sale.
MCOversold == "s0" :> 1 @@ "s1" :> 1 @@ "s2" :> 2
MCSize == "b1" :> 2 @@ "b2" :> 3 @@ "x" :> 1
MCAt == "s0" :> 0 @@ "s1" :> 1 @@ "s2" :> 3 @@ "b1" :> 2 @@ "b2" :> 4 @@ "x" :> 5

\* A stock that is sold whole and a coin, and two profiles that differ in their
\* slippage allowance, their risk per trade and their caps.
MCMultiplier == "stock" :> 1 @@ "coin" :> 1
MCPricesOf == "stock" :> {10, 13} @@ "coin" :> {7}
MCOutsideLots == "stock" :> {0} @@ "coin" :> {2}
MCStrict == [risk |-> 15, openRisk |-> 40, position |-> 50, sector |-> 99, exposure |-> 98, slippage |-> 1,
             spread |-> 2, cost |-> 8, confidence |-> 6, floor |-> 5, loss |-> 10, positions |-> 2, orders |-> 2,
             trades |-> 2, perSymbol |-> 2]
MCLoose == [MCStrict EXCEPT !.slippage = 20, !.risk = 40, !.openRisk = 60, !.position = 70, !.sector = 80,
                            !.exposure = 90, !.cost = 20, !.positions = 1, !.trades = 3, !.perSymbol = 1]
MCProfiles == {MCStrict, MCLoose}

\* Four days, the third a holiday of the library.  The broker's calendar agrees,
\* closes the second day early, drops it, or trades the holiday.
MCLibrary == <<"full", "full", "none", "full">>
MCBrokers == {MCLibrary, [MCLibrary EXCEPT ![2] = "half"], [MCLibrary EXCEPT ![2] = "none"],
              [MCLibrary EXCEPT ![3] = "full"]}

\* Three activities, read one by one.
MCActivities == 1..3

-----------------------------------------------------------------------------
(* Three lots of up to two units, and a sell of up to five.                  *)

Plans == INSTANCE MCSignedLots WITH
    Lots <- {1, 2, 3}, MaxUnits <- 2, MaxQuantity <- 5, rank <- s1, opened <- s2,
    quantity <- s3, closed <- s4

PlansInit ==
    /\ "lots" \in Topics /\ topic = "lots" /\ Plans!Init
    /\ s5 = Empty /\ s6 = Empty /\ s7 = Empty /\ s8 = Empty /\ s9 = Empty /\ s10 = Empty /\ s11 = Empty /\ s12 = Empty
PlansNext == topic = "lots" /\ Plans!Next /\ UNCHANGED <<topic, s5, s6, s7, s8, s9, s10, s11, s12>>

-----------------------------------------------------------------------------
(* A day order to buy, a market sell and a limit sell of one symbol.          *)
Script ==
    "a" :> [symbol |-> "x", side |-> "buy", qty |-> 2, limit |-> 1, day |-> TRUE,
            fills |-> <<<<0, 1>>, <<1, 1>>>>, end |-> "filled"]
    @@ "b" :> [symbol |-> "x", side |-> "sell", qty |-> 1, limit |-> 0, day |-> FALSE,
               fills |-> <<<<1, 1>>>>, end |-> "filled"]
    @@ "c" :> [symbol |-> "x", side |-> "sell", qty |-> 2, limit |-> 2, day |-> FALSE,
               fills |-> <<<<1, 0>>>>, end |-> "canceled"]

Sim == INSTANCE SimBroker WITH
    Symbols <- {"x"}, Prices <- {1, 2}, Orders <- {"a", "b", "c"}, Script <- Script,
    Sessions <- {<<1, 3>>}, FeeDelay <- 1, Seeded <- [s \in {"x"} |-> 2], MaxTime <- 3,
    MaxEvents <- 16, AtObserved <- Variant("quote at an observed instant"), clock <- s1,
    lazy <- s2, eager <- s3

SimInit ==
    /\ "broker" \in Topics /\ topic = "broker" /\ Sim!Init
    /\ s4 = Empty /\ s5 = Empty /\ s6 = Empty /\ s7 = Empty /\ s8 = Empty /\ s9 = Empty /\ s10 = Empty /\ s11 = Empty /\ s12 = Empty
SimNext == topic = "broker" /\ Sim!Next /\ UNCHANGED <<topic, s4, s5, s6, s7, s8, s9, s10, s11, s12>>

-----------------------------------------------------------------------------
(* Two lanes, one with three candidates, one of them correlated; or two      *)
(* workers of the one lane.                                                  *)
OneLane == Variant("two scans of a lane")
Other == IF OneLane THEN "b" ELSE "c"
LaneOf == "a" :> "equity" @@ "b" :> "equity" @@ "c" :> "crypto"
Universe == "equity" :> {1, 2, 3} @@ "crypto" :> {}
Outside == IF OneLane THEN {} ELSE {4}
Held == IF OneLane THEN {3} ELSE {4}
Correlated == IF OneLane THEN {{1, 3}} ELSE {{1, 2}, {1, 4}}
MaxRuns == "equity" :> (IF OneLane THEN 2 ELSE 1) @@ "crypto" :> 1

Scan == INSTANCE Scanner WITH
    Workers <- {"a", Other}, LaneOf <- LaneOf, Universe <- Universe, Outside <- Outside,
    Monitored <- {}, Correlations <- {Correlated}, Holdings <- {Held}, MaxRuns <- MaxRuns,
    MaxCrashes <- 1, None <- Empty, correlated <- s1, held <- s2, lease <- s3, run <- s4,
    rejected <- s5, cycle <- s6, reserved <- s7, crashes <- s8

ScanInit ==
    /\ "scanner" \in Topics /\ topic = "scanner" /\ Scan!Init
    /\ s9 = Empty /\ s10 = Empty /\ s11 = Empty /\ s12 = Empty
ScanNext == topic = "scanner" /\ Scan!Next /\ UNCHANGED <<topic, s9, s10, s11, s12>>

-----------------------------------------------------------------------------
(* Two purchases of a coin with a fee each, three sales; a sale is larger     *)
(* than a fee, or as large.                                                  *)
FeeOf == "b1" :> "f1" @@ "b2" :> "f2"
Sold == IF Variant("small sales") THEN 1 ELSE 2
Units ==
    "b1" :> (IF Sold = 1 THEN 3 ELSE 5) @@ "b2" :> Sold + 1 @@ "f1" :> 1 @@ "f2" :> 1
    @@ "s1" :> Sold @@ "s2" :> Sold @@ "s3" :> Sold

Epochs == INSTANCE AccountingEpochs WITH
    Entries <- {"b1", "b2"}, Exits <- {"s1", "s2", "s3"}, Fees <- {"f1", "f2"}, FeeOf <- FeeOf,
    Qty <- Units, Usd <- "usd", AddOns <- Variant("add-on"),
    Rejections <- Variant("rejection"), history <- s1, posted <- s2, intent <- s3, fills <- s4,
    settled <- s5, lots <- s6, epochs <- s7, epoch <- s8, start <- s9, reconciled <- s10,
    reading <- s11, proof <- s12

EpochsInit ==
    /\ "epochs" \in Topics /\ topic = "epochs" /\ Epochs!Init
EpochsNext == topic = "epochs" /\ Epochs!Next /\ UNCHANGED <<topic>>

-----------------------------------------------------------------------------
(* Two dividends of three cents a share, the first with a withholding, and    *)
(* the reversal of the first.  Three lots, one of them sold in part and one  *)
(* bought in the evening before the first ex-date's eve.                     *)
Kinds == <<"income", "withholding", "income", "income", "withholding">>
On(d, e) == [day |-> d, evening |-> e]
Bought ==
    1 :> [opened |-> On(1, FALSE), quantity |-> 4, closures |-> {[quantity |-> 2, at |-> On(2, FALSE)]}]
    @@ 2 :> [opened |-> On(1, TRUE), quantity |-> 2, closures |-> {[quantity |-> 2, at |-> On(4, FALSE)]}]
    @@ 3 :> [opened |-> On(4, FALSE), quantity |-> 1, closures |-> {}]

Dividends == INSTANCE Dividends WITH
    Receipts <- 1..5, Kind <- Kinds, Reverses <- <<0, 0, 0, 1, 2>>,
    Credit <- <<5, 5, 6, 7, 7>>, Amount <- <<21, -5, 21, -21, 5>>, Units <- <<7, 7, 7, 7, 7>>,
    Rate <- <<3, 3, 3, 3, 3>>, Announcements <- {1, 2}, Ex <- <<3, 4>>, Payable <- <<5, 6>>,
    RateOf <- <<3, 3>>, Lots <- Bought, Opened <- 1, Opening <- 3, Foreign <- 0,
    Representation <- "gross", LastDay <- 4, ReversalAfter <- ~Variant("reversal first"),
    posted <- s1, status <- s2, used <- s3, rows <- s4, announced <- s5, stored <- s6,
    observed <- s7, late <- s8, pass <- s9

DividendsInit ==
    /\ "dividends" \in Topics /\ topic = "dividends" /\ Dividends!Init
    /\ s10 = Empty /\ s11 = Empty /\ s12 = Empty
DividendsNext == topic = "dividends" /\ Dividends!Next /\ UNCHANGED <<topic, s10, s11, s12>>

-----------------------------------------------------------------------------
MCInit == Init \/ PlansInit \/ SimInit \/ ScanInit \/ EpochsInit \/ DividendsInit
MCNext == Next \/ PlansNext \/ SimNext \/ ScanNext \/ EpochsNext \/ DividendsNext
MCSpec == MCInit /\ [][MCNext]_vars

-----------------------------------------------------------------------------
(* What the five promise; see the modules.                                   *)

\* plan_signed_lot_fill computes the only FIFO take there is, and a plan that is
\* interrupted and made again ends like one that was not.
PlansAreExact == topic = "lots" => Plans!PlansAreExact

\* How often SimulatedBroker is read never changes what happens, and it sells
\* only what is held.
SimulationIsFaithful == topic = "broker" => Sim!SimulationIsFaithful

\* A scan whose lease is lost stops ordering, accounts for every candidate, and
\* ranks them for spread.
ScanIsOrderly == topic = "scanner" => Scan!ScanIsOrderly

\* While every epoch of a coin is reconciled its lots are what the broker did to
\* it, and a pass that saw all of that reconciles it.
EpochsAreExact ==
    /\ [](topic = "epochs" => Epochs!EpochLots)
    /\ [][topic = "epochs" => Epochs!VerifiedReconciles]_vars

\* Every cent of an attributed dividend is somebody's, and two dividends never
\* claim one announcement.
DividendsPlaced == topic = "dividends" => Dividends!DividendsPlaced

-----------------------------------------------------------------------------
(* What fails there, as at the end of Components.                            *)

\* simulated.py takes a quote at an instant that was read already, and what was
\* read changes.
\* [broker, "quote at an observed instant"]
PollingCostsNothing == Sim!PollingChangesNothing

\* A stale read of a scan run is written over its verdict.
\* [scanner, "two scans of a lane"]
VerdictKept == Scan!VerdictStays

\* What correlates with a holding is ranked first when the holding is itself a
\* candidate.
\* [scanner, "two scans of a lane"]
HeldComesLast == Scan!HeldDemotes

\* The fee of an add-on is charged to the lot of an earlier epoch, and the coin is
\* not entered again.
\* [epochs, "add-on"]
AddOnReconciles == Epochs!SeenIsReconciled

\* gateway.py: "close the intent unsent; the next cycle ... re-authorizes".  The
\* epoch of the order that never was refuses every later entry.
\* [epochs, "rejection"]
RejectedLeavesNothing == Epochs!UnsentLeavesNothing

\* A sale between the reads that is as large as an unposted fee is taken for it.
\* [epochs, "small sales"]
FeeIsNoSale == Epochs!EpochLots

\* A reversal attributed before its original takes nothing back.
\* [dividends, "reversal first"]
ReversalInOrder == Dividends!CashIsPlaced

\* A withholding posted after its income was attributed stays unresolved.
\* [dividends]
LateWithholding == Dividends!WithholdingJoins
=============================================================================
