---------------------------- MODULE AccountingEpochs ----------------------------
(***************************************************************************)
(* Accounting epochs of one coin, and the replay that assigns its fees.    *)
(*                                                                         *)
(* A purchase of a coin pays its fee in the coin: the broker debits the    *)
(* position at once and posts the receipt later.  An entry is admitted     *)
(* only while every epoch of the coin is reconciled; a fill makes its      *)
(* epoch pending in the transaction that records it; the fee pass reads    *)
(* the position, then the whole feed, and if both agree with the settled   *)
(* fills it restates the lots, fees included, in order of time and decides *)
(* every epoch.                                                            *)
(***************************************************************************)
EXTENDS Integers, Sequences, FiniteSetsExt, SequencesExt

CONSTANTS
    Entries, Exits,     \* intents, each with the one fill it may get
    Fees,               \* one receipt in the coin per entry
    FeeOf,              \* [Entries -> Fees]
    Qty,                \* [Entries \cup Exits \cup Fees -> units]
    Usd,                \* the account's cash fee: evidence for every epoch
    AddOns,             \* an entry may be placed while the coin is held
    Rejections          \* an order may be closed unsent, or rejected

Intents == Entries \cup Exits

VARIABLES
    history,    \* what the broker executed, debited and charged, in order
    posted,     \* what of it the activity feed shows
    intent,     \* [Intents -> "none", "sent", "filled", "rejected"]
    fills, settled,
    lots,       \* [left, sold, fee]: what is left of, sold from and charged to each lot
    epochs,     \* epochs in order, each named by the intent that opened it
    epoch,      \* [Intents -> the epoch it belongs to, or None]
    start,      \* [Intents -> the position when the epoch was opened]
    reconciled, \* the epochs that are reconciled_net; the others are pending
    reading,    \* the pass: at "rest", or has read the "positions", or the "feed" too
    proof       \* the population last applied

vars == <<history, posted, intent, fills, settled, lots, epochs, epoch, start, reconciled, reading, proof>>
broker == <<history, posted>>
epochVars == <<epochs, epoch, start>>
ledger == <<fills, settled, lots>>
pass == <<reading, proof>>

None == "none"

-----------------------------------------------------------------------------
Sum(f, S) == MapThenSumSet(LAMBDA x : f[x], S)
Happened == ToSet(history)
Net(S) == Sum(Qty, S \cap Entries) - Sum(Qty, S \cap Exits) - Sum(Qty, S \cap Fees)
Position == Net(Happened)

When(x) == CHOOSE k \in DOMAIN history : history[k] = x
NoLots == [left |-> [b \in Entries |-> 0],
           sold |-> [p \in Entries \X Exits |-> 0],
           fee |-> [p \in Entries \X Fees |-> 0]]

\* n units of the oldest lots: min(remaining, lot.remaining_quantity) in turn.
Take(left, n) ==
    [b \in Entries |->
        LET older == Sum(left, {c \in Entries : left[c] > 0 /\ left[b] > 0 /\ When(c) < When(b)})
        IN Max({0, Min({left[b], n - older})})]

\* One event of the chronology, applied to the lots.
Booked(l, x) ==
    LET t == Take(l.left, Qty[x]) IN
    IF x \in Entries THEN [l EXCEPT !.left[x] = Qty[x]]
    ELSE IF x \in Exits
    THEN [l EXCEPT !.left = [b \in Entries |-> @[b] - t[b]],
                   !.sold = [p \in DOMAIN @ |-> @[p] + IF p[2] = x THEN t[p[1]] ELSE 0]]
    ELSE [l EXCEPT !.left = [b \in Entries |-> @[b] - t[b]],
                   !.fee = [p \in DOMAIN @ |-> @[p] + IF p[2] = x THEN t[p[1]] ELSE 0]]

\* preview_fee_replay: fills and coin fees in order of time, from nothing.
Replay(S) == FoldLeft(Booked, NoLots, SelectSeq(history, LAMBDA x : x \in S \ {Usd}))

Resting == [at |-> "rest", position |-> 0, feed |-> {}]

-----------------------------------------------------------------------------
Init ==
    /\ history = <<>> /\ posted = {} /\ intent = [i \in Intents |-> "none"]
    /\ fills = {} /\ settled = {} /\ lots = NoLots
    /\ epochs = <<>> /\ epoch = [i \in Intents |-> None] /\ start = [i \in Intents |-> 0]
    /\ reconciled = {} /\ reading = Resting /\ proof = {}

-----------------------------------------------------------------------------
(* The gateway: reserve_epoch, then the order.                               *)

Open(i, e) ==
    /\ epochs' = IF e = i THEN Append(epochs, i) ELSE epochs
    /\ start' = IF e = i THEN [start EXCEPT ![i] = Position] ELSE start
    /\ epoch' = [epoch EXCEPT ![i] = e]
    /\ intent' = [intent EXCEPT ![i] = "sent"]
    /\ UNCHANGED <<broker, ledger, reconciled, pass>>

Pending == ToSet(epochs) \ reconciled

\* One order per coin is underway (the gateway's execution lock).
Quiet == \A i \in Intents : intent[i] # "sent"

ReserveEntry(i) ==
    /\ intent[i] = "none" /\ Quiet /\ Pending = {} /\ (AddOns \/ Position = 0)
    /\ Open(i, i)

\* A protective order joins the latest pending epoch.
ReserveExit(i) ==
    /\ intent[i] = "none" /\ Quiet /\ Position >= Qty[i] /\ Sum(lots.left, Entries) >= Qty[i]
    /\ Open(i, IF Pending = {} THEN i
               ELSE epochs[Max({k \in DOMAIN epochs : epochs[k] \in Pending})])

\* Its quote went stale at dispatch, or the broker rejected it.
Reject(i) ==
    /\ Rejections /\ intent[i] = "sent" /\ i \notin Happened
    /\ intent' = [intent EXCEPT ![i] = "rejected"]
    /\ UNCHANGED <<broker, ledger, epochVars, reconciled, pass>>

\* The broker executes it, and debits the fee of a purchase.
Execute(i) ==
    /\ intent[i] = "sent" /\ i \notin Happened
    /\ history' = history \o (IF i \in Entries THEN <<i, FeeOf[i]>> ELSE <<i>>)
    /\ posted' = posted \cup {i}
    /\ UNCHANGED <<intent, ledger, epochVars, reconciled, pass>>

PostFee(f) ==
    /\ f \in (Happened \cap Fees) \ posted /\ posted' = posted \cup {f}
    /\ UNCHANGED <<history, intent, ledger, epochVars, reconciled, pass>>

ChargeAccount ==
    /\ history # <<>> /\ Usd \notin Happened
    /\ history' = Append(history, Usd) /\ posted' = posted \cup {Usd}
    /\ UNCHANGED <<intent, ledger, epochVars, reconciled, pass>>

-----------------------------------------------------------------------------
(* Fill attribution and settlement.                                          *)

\* record_gross_fill: the fill and its pending epoch, in one transaction.
RecordGrossFill(i) ==
    /\ i \in Happened \ fills /\ intent[i] = "sent"
    /\ fills' = fills \cup {i} /\ reconciled' = reconciled \ {epoch[i]}
    /\ intent' = [intent EXCEPT ![i] = "filled"]
    /\ UNCHANGED <<broker, settled, lots, epochVars, pass>>

Settle(i) ==
    /\ i \in fills \ settled /\ settled' = settled \cup {i}
    /\ lots' = Booked(lots, i)
    /\ UNCHANGED <<broker, intent, fills, epochVars, reconciled, pass>>

-----------------------------------------------------------------------------
(* reconcile_asset_fees: positions, then the feed, then one transaction.     *)

ReadPositions ==
    /\ reading.at = "rest" /\ settled # {}
    /\ reading' = [Resting EXCEPT !.at = "positions", !.position = Position]
    /\ UNCHANGED <<broker, intent, ledger, epochVars, reconciled, proof>>

ReadFeed ==
    /\ reading.at = "positions"
    /\ reading' = [reading EXCEPT !.at = "feed", !.feed = posted]
    /\ UNCHANGED <<broker, intent, ledger, epochVars, reconciled, proof>>

\* validate_fee_population and the settlement checks of the replay.
VerifiedByFeed(r) == r.feed \cap Intents = fills /\ settled = fills
Verified(r) ==
    /\ r.feed \cap Intents = fills /\ settled = fills
    /\ Net(r.feed) = r.position

\* finalize_population, for one epoch: what it bought, sold and was charged on
\* its own lots, against what it began with.
Charged(e, l) == {f \in Fees : \E b \in Entries : epoch[b] = e /\ l.fee[b, f] > 0}
ConservedGross(e, l) ==
    \/ e # Last(epochs)
    \/ start[e] + Net({i \in fills : epoch[i] = e}) = Sum(l.left, Entries)
Conserved(e, l) ==
    LET own == {i \in fills : epoch[i] = e} IN
    \/ e # Last(epochs)             \* a later epoch bounds it: its ending is computed
    \/ start[e] + Net(own) - Sum(Qty, Charged(e, l)) = Sum(l.left, Entries)
Complete(e, feed, l) ==
    LET own == {i \in fills : epoch[i] = e} IN
    /\ own \cap Entries = {} \/ Charged(e, l) # {} \/ Usd \in feed
    /\ own \cap Exits = {} \/ Usd \in feed
    /\ \A i \in Intents : epoch[i] = e => intent[i] \in {"filled", "rejected"}
\* An epoch without a fill is passed over.
Finalized(e, feed, l) ==
    IF \E i \in fills : epoch[i] = e THEN Conserved(e, l) /\ Complete(e, feed, l)
    ELSE e \in reconciled

Apply ==
    /\ reading.at = "feed" /\ reading' = Resting
    /\ LET l == Replay(reading.feed) IN
       \/ /\ Verified(reading)
          /\ lots' = l /\ proof' = reading.feed
          /\ reconciled' = {e \in ToSet(epochs) : Finalized(e, reading.feed, l)}
       \/ /\ ~Verified(reading)     \* block_asset: the latest epoch
          /\ reconciled' = reconciled \ {Last(epochs)} /\ UNCHANGED <<lots, proof>>
    /\ UNCHANGED <<broker, intent, fills, settled, epochVars>>

-----------------------------------------------------------------------------
Next ==
    \/ \E i \in Entries : ReserveEntry(i)
    \/ \E i \in Exits : ReserveExit(i)
    \/ \E i \in Intents : Reject(i) \/ Execute(i) \/ RecordGrossFill(i) \/ Settle(i)
    \/ \E f \in Fees : PostFee(f)
    \/ ChargeAccount \/ ReadPositions \/ ReadFeed \/ Apply

Spec == Init /\ [][Next]_vars

-----------------------------------------------------------------------------
\* While every epoch of the coin is reconciled, so that an entry is admitted,
\* every fill is settled and the lots are what all that the broker executed and
\* debited gives in order of time: a fee that it debits at once and posts late,
\* and fills recorded and settled between the reads of the pass, included.
ReconciledIsReplay ==
    epochs # <<>> /\ Pending = {}
        => /\ settled = Happened \cap Intents /\ lots = Replay(Happened)
           /\ Sum(lots.left, Entries) = Position

\* Conservation of every lot, whatever settled before its fee was posted.
LotsConserve ==
    \A b \in Entries :
        /\ lots.left[b] >= 0
        /\ b \in settled => lots.left[b] + Sum(lots.sold, {b} \X Exits) + Sum(lots.fee, {b} \X Fees) = Qty[b]

EpochLots == ReconciledIsReplay /\ LotsConserve

\* A verified pass that saw everything leaves no epoch pending, so the coin
\* can be entered again.  (Not so with AddOns, where a fee is charged to the
\* lot of an earlier epoch, nor with Rejections.)
VerifiedReconciles ==
    reading.at = "feed" /\ reading' = Resting /\ Verified(reading)
    /\ reading.feed = Happened /\ Usd \in Happened /\ Quiet
        => Pending' = {}
SeenIsReconciled ==
    [][VerifiedReconciles]_vars

\* Epochs that are reconciled are right, and what is right is reconciled.
EpochsAreExact == []EpochLots /\ SeenIsReconciled

-----------------------------------------------------------------------------
\* "close the intent unsent; the next cycle fetches a new quote and
\* re-authorizes": an epoch opened by an order that never was is in the way
\* of every later entry.
UnsentLeavesNothing ==
    \A e \in Pending : \E i \in Intents : epoch[i] = e /\ intent[i] # "rejected"
=============================================================================
