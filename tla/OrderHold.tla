------------------------------- MODULE OrderHold -------------------------------
(***************************************************************************)
(* The integrity hold of one order: attribute_order_fills compares the     *)
(* activities of the order with the order itself, and settlement projects  *)
(* a fill only while the order has no hold.  The gateway's poll loop and    *)
(* three sweeps of reconciliation make such calls, and no lease is shared   *)
(* between them.  Each fill counts one unit.                               *)
(***************************************************************************)
EXTENDS Integers, FiniteSets

CONSTANTS
    Fills,       \* FILL activities of the order
    Polls,       \* calls by the gateway and by recovery
    Rechecks,    \* calls by _reverify_pending_holds
    Overlap      \* calls for the order may overlap

Calls == Polls \cup Rechecks

VARIABLES
    filled,      \* order.filled_qty at the broker
    shown,       \* activities in the broker's feed
    event,       \* table settlements, by fill
    hold,        \* table integrity_holds, the row of the order
    latched,     \* the session is FINANCIAL_INTEGRITY_BLOCKED
    call,        \* locals of each call
    confirmed    \* history: fills that a comparison has covered

vars == <<filled, shown, event, hold, latched, call, confirmed>>

Holds == {"none", "verification_pending", "fill_quantity_disputed"}
Events == {"none", "pending", "processing", "completed", "integrity_blocked"}
Steps == {"idle", "fetch", "verify", "consistent", "clear", "unavailable", "hold", "list", "block",
          "dispute", "upgrade", "latch", "record", "reread", "advance"}

TypeOK ==
    /\ filled \in Nat
    /\ shown \subseteq Fills
    /\ event \in [Fills -> Events]
    /\ hold \in Holds
    /\ latched \in BOOLEAN
    /\ call \in [Calls -> [pc : Steps, seen : SUBSET Fills, todo : SUBSET Fills]]
    /\ confirmed \subseteq Fills

Idle == [pc |-> "idle", seen |-> {}, todo |-> {}]

Init ==
    /\ filled = 0 /\ shown = {}
    /\ event = [f \in Fills |-> "none"]
    /\ hold = "none" /\ latched = FALSE
    /\ call = [c \in Calls |-> Idle]
    /\ confirmed = {}

At(c, step) == call[c].pc = step
Go(c, step) == call' = [call EXCEPT ![c].pc = step]

tables == <<event, hold, latched>>
account == <<filled, shown>>

-----------------------------------------------------------------------------
(* The broker.  Nothing orders the feed and the order's status: an activity  *)
(* may show before the order counts it, or without ever being counted.       *)

Execute == filled < Cardinality(Fills) /\ filled' = filled + 1 /\ UNCHANGED <<shown, tables, call, confirmed>>

Show(f) == f \notin shown /\ shown' = shown \cup {f} /\ UNCHANGED <<filled, tables, call, confirmed>>

-----------------------------------------------------------------------------
(* attribute_order_fills(verify_order_filled_qty=True).                      *)

\* A re-verification is begun for an order whose hold is listed as pending.
Begin(c) ==
    /\ At(c, "idle")
    /\ Overlap \/ \A d \in Calls : At(d, "idle")
    /\ c \in Rechecks => hold = "verification_pending"
    /\ Go(c, "fetch") /\ UNCHANGED <<account, tables, confirmed>>

Fetch(c) ==
    /\ At(c, "fetch")
    /\ call' = [call EXCEPT ![c].pc = "verify", ![c].seen = shown]
    /\ UNCHANGED <<account, tables, confirmed>>

\* The order is read after the activities: total_qty > order.filled_qty.
Verify(c) ==
    /\ At(c, "verify")
    /\ \/ /\ Cardinality(call[c].seen) =< filled
          /\ Go(c, "consistent") /\ confirmed' = confirmed \cup call[c].seen
       \/ /\ Cardinality(call[c].seen) > filled
          /\ Go(c, "list") /\ UNCHANGED confirmed
       \/ Go(c, "unavailable") /\ UNCHANGED confirmed      \* AlpacaError
    /\ UNCHANGED <<account, tables>>

\* After the comparison every way leads to the records.
Recording(c) == call' = [call EXCEPT ![c].pc = "record", ![c].todo = call[c].seen]

\* Mutant: any hold is deleted once the order compares well.
ReadToClearAny(c) ==
    /\ At(c, "consistent")
    /\ IF hold # "none" THEN Go(c, "clear") ELSE Recording(c)
    /\ UNCHANGED <<account, tables, confirmed>>

\* Consistent: the row is read, and a pending one deleted by its key.
ReadToClear(c) ==
    /\ At(c, "consistent")
    /\ IF hold = "verification_pending" THEN Go(c, "clear") ELSE Recording(c)
    /\ UNCHANGED <<account, tables, confirmed>>

Clear(c) ==
    /\ At(c, "clear")
    /\ hold' = "none"
    /\ Recording(c) /\ UNCHANGED <<account, event, latched, confirmed>>

\* Mutant: an order that could not be compared is not held.
ReadToHoldNever(c) == At(c, "unavailable") /\ Recording(c) /\ UNCHANGED <<account, tables, confirmed>>

\* Unavailable: without a row one is created, which leaves another's alone.
ReadToHold(c) ==
    /\ At(c, "unavailable")
    /\ IF hold = "none" THEN Go(c, "hold") ELSE Recording(c)
    /\ UNCHANGED <<account, tables, confirmed>>

Hold(c) ==
    /\ At(c, "hold")
    /\ hold' = IF hold = "none" THEN "verification_pending" ELSE hold
    /\ Recording(c) /\ UNCHANGED <<account, event, latched, confirmed>>

\* Disputed: the events there are, one claim each.
ListEvents(c) ==
    /\ At(c, "list")
    /\ call' = [call EXCEPT ![c].pc = "block", ![c].todo = {f \in Fills : event[f] # "none"}]
    /\ UNCHANGED <<account, tables, confirmed>>

BlockEvent(c) ==
    /\ At(c, "block")
    /\ \/ \E f \in call[c].todo :
            /\ event' = [event EXCEPT ![f] = IF @ = "pending" THEN "integrity_blocked" ELSE @]
            /\ call' = [call EXCEPT ![c].todo = @ \ {f}]
       \/ call[c].todo = {} /\ Go(c, "dispute") /\ UNCHANGED event
    /\ UNCHANGED <<account, hold, latched, confirmed>>

\* create_once, and update when a row is there; the update of a row that has
\* gone in between writes nothing.
Dispute(c) ==
    /\ At(c, "dispute")
    /\ IF hold = "none"
         THEN hold' = "fill_quantity_disputed" /\ Go(c, "latch")
         ELSE UNCHANGED hold /\ Go(c, "upgrade")
    /\ UNCHANGED <<account, event, latched, confirmed>>

Rewritten(type) == hold' = IF hold = "none" THEN "none" ELSE type

Upgrade(c) ==
    /\ At(c, "upgrade")
    /\ Rewritten("fill_quantity_disputed")
    /\ Go(c, "latch") /\ UNCHANGED <<account, event, latched, confirmed>>

LatchFinancialIntegrityBlock(c) ==
    /\ At(c, "latch")
    /\ latched' = TRUE
    /\ Recording(c) /\ UNCHANGED <<account, event, hold, confirmed>>

\* Every event is created PENDING, whatever the comparison said.
Record(c) ==
    /\ At(c, "record")
    /\ \/ \E f \in call[c].todo :
            /\ event' = [event EXCEPT ![f] = IF @ = "none" THEN "pending" ELSE @]
            /\ call' = [call EXCEPT ![c].todo = @ \ {f}]
       \/ /\ call[c].todo = {} /\ UNCHANGED event
          /\ call' = [call EXCEPT ![c] = IF c \in Rechecks THEN [Idle EXCEPT !.pc = "reread"] ELSE Idle]
    /\ UNCHANGED <<account, hold, latched, confirmed>>

-----------------------------------------------------------------------------
(* _reverify_pending_holds after its call: the backoff of a hold that is      *)
(* still pending is advanced by writing the whole row.                       *)

Reread(c) ==
    /\ At(c, "reread")
    /\ IF hold = "verification_pending" THEN Go(c, "advance") ELSE Go(c, "idle")
    /\ UNCHANGED <<account, tables, confirmed>>

Advance(c) ==
    /\ At(c, "advance")
    /\ Rewritten("verification_pending")
    /\ Go(c, "idle") /\ UNCHANGED <<account, event, latched, confirmed>>

\* A call raises, is cancelled, or dies with its process.
Die(c) ==
    /\ ~At(c, "idle")
    /\ call' = [call EXCEPT ![c] = Idle] /\ UNCHANGED <<account, tables, confirmed>>

-----------------------------------------------------------------------------
(* Settlement of one fill (see Settlement).                                  *)

Claim(f) ==
    /\ event[f] = "pending"
    /\ event' = [event EXCEPT ![f] = "processing"]
    /\ UNCHANGED <<account, hold, latched, call, confirmed>>

\* The guard of a projection is read in the transaction of its write: a pending
\* hold postpones the event, a disputed one ends it and latches.
Project(f) ==
    /\ event[f] = "processing"
    /\ \/ hold = "none" /\ event' = [event EXCEPT ![f] = "completed"] /\ UNCHANGED latched
       \/ hold = "verification_pending" /\ event' = [event EXCEPT ![f] = "pending"] /\ UNCHANGED latched
       \/ /\ hold = "fill_quantity_disputed"
          /\ event' = [event EXCEPT ![f] = "integrity_blocked"] /\ latched' = TRUE
    /\ UNCHANGED <<account, hold, call, confirmed>>

-----------------------------------------------------------------------------
Attribute(c) ==
    \/ Begin(c) \/ Fetch(c) \/ Verify(c)
    \/ ReadToClear(c) \/ Clear(c) \/ ReadToHold(c) \/ Hold(c)
    \/ ListEvents(c) \/ BlockEvent(c) \/ Dispute(c) \/ Upgrade(c) \/ LatchFinancialIntegrityBlock(c)
    \/ Record(c)

Next ==
    \/ Execute
    \/ \E f \in Fills : Show(f) \/ Claim(f) \/ Project(f)
    \/ \E c \in Calls : Attribute(c) \/ Reread(c) \/ Advance(c) \/ Die(c)

Spec == Init /\ [][Next]_vars

-----------------------------------------------------------------------------
\* fill_attribution.py: a fill nobody could compare with its order does not enter
\* the books, although its event is PENDING from the start: the hold is there
\* before the event and goes only after a comparison that covers the fill.
BookedIsConfirmed == \A f \in Fills : event[f] = "completed" => f \in confirmed

\* "that one is permanent": no later comparison, failure or backoff of another
\* call takes a disputed order's hold away or back to pending.
HoldStays == hold = "fill_quantity_disputed" => hold' = "fill_quantity_disputed"

\* The latch does not outlive the hold it was set for: reset-integrity, which
\* refuses while a hold is there, cannot unlock over a disputed order.
LatchIsHeld == latched => hold = "fill_quantity_disputed"

OrderIsHeld == [](BookedIsConfirmed /\ LatchIsHeld) /\ [][HoldStays]_vars
================================================================================
