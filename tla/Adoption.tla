-------------------------------- MODULE Adoption --------------------------------
(***************************************************************************)
(* Adoption of a position that TradePulse does not manage.                 *)
(*                                                                         *)
(* A pass reads the broker's positions and adopts a position for which     *)
(* there is neither a holding nor an open lot: at once if the bound        *)
(* opening checkpoint lists it at this quantity, else when two sightings   *)
(* agree.  Meanwhile the owner trades the asset by hand, and TradePulse's  *)
(* own purchases and exits of it run through gateway and settlement.       *)
(* Purchases are of one unit; an exit sells all that is open.              *)
(***************************************************************************)
EXTENDS Integers, FiniteSets, Functions

CONSTANTS
    Passes,         \* monitor cycles that may overlap (an old process and a new one)
    Buys,           \* purchases of the gateway
    Opening,        \* the quantity of the asset in the bound checkpoint, 0: none
    MaxPosition, MaxTrades, MaxEpisodes,     \* bounds
    InFlight        \* a purchase may be underway while a pass runs

AdoptionAssumption == IsFiniteSet(Buys) /\ Opening \in Nat

VARIABLES
    position,   \* the broker's
    trades,     \* the owner's so far
    buy,        \* [Buys -> where a purchase is]
    managed,    \* purchases with an open lot
    adopted,    \* adoptions: [source, quantity, left]
    holding,    \* there is a holding of the asset
    episode,    \* the observing episode: [id, quantity], id 0: none
    episodes,   \* episodes so far
    pass,       \* [Passes -> what the cycle knows]
    exit,       \* "none", "filled", "lots": an exit sold everything that was open
    latched,    \* MIXED_LOT_ORIGIN: the session is blocked
    overtaken   \* an adoption was written between settlement's read and its lot

vars == <<position, trades, buy, managed, adopted, holding, episode, episodes, pass, exit, latched, overtaken>>
account == <<position, trades>>
ledger == <<buy, managed, exit, latched>>
adoptions == <<adopted, overtaken>>
sightings == <<episode, episodes>>

Checkpoint == 0         \* the source of opening inventory; other sources are episodes
NoEpisode == [id |-> 0, quantity |-> 0]
Idle == [at |-> "idle", quantity |-> 0, source |-> 0]

-----------------------------------------------------------------------------
AdoptedOpen == {a \in adopted : a.left > 0}
OpenUnits == Cardinality(managed) + SumFunctionOnSet([a \in AdoptedOpen |-> a.left], AdoptedOpen)
Managed == holding \/ OpenUnits > 0     \* _open_lots, or a row of holdings

\* Purchases that are sent and not yet in the lots.
Underway == {b \in Buys : buy[b] \in {"checked", "sent", "filled", "read", "lot"}}

Init ==
    /\ position = Opening /\ trades = 0
    /\ buy = [b \in Buys |-> "none"] /\ managed = {} /\ exit = "none" /\ latched = FALSE
    /\ adopted = {} /\ overtaken = FALSE /\ holding = FALSE
    /\ episode = NoEpisode /\ episodes = 0 /\ pass = [p \in Passes |-> Idle]

-----------------------------------------------------------------------------
(* The owner.                                                                *)

TradeByHand(n) ==
    /\ trades < MaxTrades /\ position + n \in 0..MaxPosition
    /\ trades' = trades + 1 /\ position' = position + n
    /\ UNCHANGED <<ledger, adoptions, holding, sightings, pass>>

-----------------------------------------------------------------------------
(* adoption_pass                                                             *)

At(p, where, q, s) == pass' = [pass EXCEPT ![p] = [at |-> where, quantity |-> q, source |-> s]]

Begin(p) ==
    /\ pass[p].at = "idle" /\ (InFlight \/ Underway = {})
    /\ At(p, "read", position, 0)
    /\ UNCHANGED <<account, ledger, adoptions, holding, sightings>>

\* close_vanished; a position that is gone is not looked at any further.
CloseVanished(p) ==
    /\ pass[p].at = "read"
    /\ episode' = IF pass[p].quantity = 0 THEN NoEpisode ELSE episode
    /\ At(p, IF pass[p].quantity = 0 THEN "idle" ELSE "listed", pass[p].quantity, 0)
    /\ UNCHANGED <<account, ledger, adoptions, holding, episodes>>

\* _eligible and classify
Classify(p) ==
    /\ pass[p].at = "listed"
    /\ At(p, CASE Managed -> "idle"
               [] ~Managed /\ pass[p].quantity = Opening -> "stable"
               [] OTHER -> "unexpected",
          pass[p].quantity, Checkpoint)
    /\ UNCHANGED <<account, ledger, adoptions, holding, sightings>>

\* observe: the second sighting that agrees makes the episode the source.
Observe(p) ==
    /\ pass[p].at = "unexpected"
    /\ LET q == pass[p].quantity
           again == episode.id # 0 /\ episode.quantity = q
       IN
       IF Managed \/ again
       THEN /\ UNCHANGED sightings
            /\ At(p, IF Managed THEN "idle" ELSE "stable", q, episode.id)
       ELSE /\ episodes < MaxEpisodes /\ episodes' = episodes + 1 /\ episode' = [id |-> episodes', quantity |-> q]
            /\ At(p, "idle", 0, 0)
    /\ UNCHANGED <<account, ledger, adoptions, holding>>

\* No price, no candles, no stop; or the process dies.
GiveUp(p) ==
    /\ pass[p].at # "idle" /\ At(p, "idle", 0, 0)
    /\ UNCHANGED <<account, ledger, adoptions, holding, sightings>>

\* write_adoption: checked again in the transaction that writes all of it.
AdoptableBySource(p) == \A a \in adopted : a.source # pass[p].source
Adoptable(p) == ~Managed /\ \A a \in adopted : a.source # pass[p].source
WriteAdoption(p) ==
    /\ pass[p].at = "stable" /\ At(p, "idle", 0, 0)
    /\ IF Adoptable(p)
       THEN /\ adopted' = adopted \cup {[source |-> pass[p].source, quantity |-> pass[p].quantity, left |-> pass[p].quantity]}
            /\ holding' = TRUE
            /\ episode' = IF pass[p].source = episode.id THEN NoEpisode ELSE episode
            /\ overtaken' = (overtaken \/ \E b \in Buys : buy[b] = "read")
       ELSE UNCHANGED <<adoptions, holding, episode>>
    /\ UNCHANGED <<account, ledger, episodes>>

-----------------------------------------------------------------------------
(* The gateway and settlement                                                *)

\* reentry_excluded: every adoption of this generation is in the way.
CheckBuy(b) ==
    /\ buy[b] = "none" /\ Opening = 0 /\ ~latched
    /\ Underway = {} /\ exit = "none" /\ adopted = {}
    /\ InFlight \/ \A p \in Passes : pass[p].at = "idle"
    /\ buy' = [buy EXCEPT ![b] = "checked"]
    /\ UNCHANGED <<account, managed, exit, latched, adoptions, holding, sightings, pass>>

SendBuy(b) ==
    /\ buy[b] = "checked" /\ buy' = [buy EXCEPT ![b] = "sent"]
    /\ UNCHANGED <<account, managed, exit, latched, adoptions, holding, sightings, pass>>

FillBuy(b) ==
    /\ buy[b] = "sent" /\ position < MaxPosition
    /\ buy' = [buy EXCEPT ![b] = "filled"] /\ position' = position + 1
    /\ UNCHANGED <<trades, managed, exit, latched, adoptions, holding, sightings, pass>>

\* _project_lot reads the lots, and refuses to open one beside an adopted lot ...
ReadLots(b) ==
    /\ buy[b] = "filled"
    /\ latched' = (latched \/ AdoptedOpen # {})
    /\ buy' = [buy EXCEPT ![b] = IF AdoptedOpen # {} THEN "refused" ELSE "read"]
    /\ UNCHANGED <<account, managed, exit, adoptions, holding, sightings, pass>>

\* ... and creates it in a transaction of its own, the holding in another.
CreateLot(b) ==
    /\ buy[b] = "read" /\ buy' = [buy EXCEPT ![b] = "lot"] /\ managed' = managed \cup {b}
    /\ UNCHANGED <<account, exit, latched, adoptions, holding, sightings, pass>>

ProjectHolding(b) ==
    /\ buy[b] = "lot" /\ buy' = [buy EXCEPT ![b] = "settled"] /\ holding' = TRUE
    /\ UNCHANGED <<account, managed, exit, latched, adoptions, sightings, pass>>

\* An exit of all that is open, within the sellable quantity.
SellAll ==
    /\ exit = "none" /\ Underway = {} /\ OpenUnits \in 1..position
    /\ exit' = "filled" /\ position' = position - OpenUnits
    /\ UNCHANGED <<trades, buy, managed, latched, adoptions, holding, sightings, pass>>

CloseLots ==
    /\ exit = "filled" /\ exit' = "lots"
    /\ managed' = {} /\ adopted' = {[a EXCEPT !.left = 0] : a \in adopted}
    /\ UNCHANGED <<account, buy, latched, overtaken, holding, sightings, pass>>

CloseHolding ==
    /\ exit = "lots" /\ exit' = "none" /\ holding' = FALSE
    /\ UNCHANGED <<account, buy, managed, latched, adoptions, sightings, pass>>

-----------------------------------------------------------------------------
Next ==
    \/ \E n \in {-1, 1} : TradeByHand(n)
    \/ \E p \in Passes :
          \/ Begin(p) \/ CloseVanished(p) \/ Classify(p) \/ Observe(p) \/ GiveUp(p) \/ WriteAdoption(p)
    \/ \E b \in Buys :
          \/ CheckBuy(b) \/ SendBuy(b) \/ FillBuy(b) \/ ReadLots(b) \/ CreateLot(b) \/ ProjectHolding(b)
    \/ SellAll \/ CloseLots \/ CloseHolding

Spec == Init /\ [][Next]_vars

-----------------------------------------------------------------------------
\* The lots of a coin or share have one origin, whichever passes overlap and
\* whenever an own purchase arrives: never two adopted lots, and never an
\* adopted lot beside a managed one, but for an adoption that settlement's
\* read of the lots did not see.
OneOrigin ==
    /\ Cardinality(AdoptedOpen) <= 1
    /\ AdoptedOpen # {} /\ managed # {} => overtaken

\* "The scanner and gateway refuse such a BUY earlier; reaching here is an
\* incident": settlement never meets an adopted lot.
MixedOriginUnreached == ~latched
=============================================================================
