--------------------------- MODULE ComponentProofs ---------------------------
(***************************************************************************)
(* Theorems about the components that Components puts side by side, for    *)
(* every instance of them: OrderHold, SellAuthorization, Exposure, Entry,  *)
(* Quarantine, Adoption, Calendar, Verification and Membership.            *)
(*                                                                         *)
(* In a behaviour of Components one topic moves, with its component's own  *)
(* steps (StepOfTopic), so that each part proves an inductive invariant    *)
(* of its component and the theorems at the end put them together.         *)
(***************************************************************************)
EXTENDS Components, SumProofs, TLAPS

-----------------------------------------------------------------------------
(***************************************************************************)
(* OrderHold.  While calls do not overlap, a call that has fetched has     *)
(* every recorded fill in its list (OrderReads), because the feed only     *)
(* grows.  So when it finds the order consistent and deletes a pending     *)
(* hold, no fill with an open event is left unconfirmed (OrderCovered);    *)
(* and the row it writes is the row it has read (OrderLocal).              *)
(*                                                                         *)
(* In Components s1 is filled, s2 is shown, s3 is event, s4 is hold, s5 is *)
(* latched, s6 is call, s7 is confirmed.                                   *)
(***************************************************************************)

\* One call at a time works on the order.
OrderOneCall == \A c, d \in Order!Calls : ~Order!At(c, "idle") /\ ~Order!At(d, "idle") => c = d

OrderBefore == {"idle", "fetch", "reread", "advance"}

\* The feed has shown whatever is recorded or listed.
OrderFeed ==
    /\ \A f \in OrderFills : s3[f] # "none" => f \in s2
    /\ \A c \in Order!Calls : s6[c].seen \subseteq s2

\* A call that has fetched lists every recorded fill.
OrderReads ==
    \A c \in Order!Calls : s6[c].pc \notin OrderBefore =>
        \A f \in OrderFills : s3[f] # "none" => f \in s6[c].seen

\* A fill with an open event is confirmed, or the order is held.
OrderCovered ==
    \A f \in OrderFills :
        /\ s3[f] = "completed" => f \in s7
        /\ s3[f] \in {"pending", "processing"} => f \in s7 \/ s4 # "none"

\* What each step of a call knows.
OrderLocal ==
    \A c \in Order!Calls :
        /\ s6[c].pc \in {"consistent", "clear"} => s6[c].seen \subseteq s7
        /\ s6[c].pc \in {"clear", "advance"} => s4 = "verification_pending"
        /\ Order!At(c, "upgrade") => s4 # "none"
        /\ Order!At(c, "latch") => s4 = "fill_quantity_disputed"
        /\ Order!At(c, "record") => /\ s6[c].todo \subseteq s6[c].seen
                                    /\ s4 = "none" => s6[c].seen \subseteq s7

OrderInv == Order!TypeOK /\ OrderOneCall /\ OrderFeed /\ OrderReads /\ OrderCovered /\ OrderLocal /\ Order!LatchIsHeld

-----------------------------------------------------------------------------
\* Any step of a call leaves the others' locals alone.
LEMMA OrderOthersKeep ==
    ASSUME Order!TypeOK, NEW c \in Order!Calls, Order!Attribute(c) \/ Order!Reread(c) \/ Order!Advance(c) \/ Order!Die(c)
    PROVE  \A d \in Order!Calls : d # c => s6'[d] = s6[d]
  BY DEF Order!TypeOK, Order!Attribute, Order!Begin, Order!Fetch, Order!Verify, Order!ReadToClear, Order!Clear,
        Order!ReadToHold, Order!Hold, Order!ListEvents, Order!BlockEvent, Order!Dispute, Order!Upgrade,
        Order!LatchFinancialIntegrityBlock, Order!Record, Order!Reread, Order!Advance, Order!Die, Order!Go,
        Order!Recording, Order!Idle

\* The steps of a call keep the invariant.
LEMMA OrderCallKeeps ==
    ASSUME OrderInv, ~CallsOverlap, NEW c \in Order!Calls, Order!Attribute(c) \/ Order!Reread(c) \/ Order!Advance(c) \/ Order!Die(c)
    PROVE  OrderInv'
  <1>0. Order!TypeOK /\ OrderOneCall /\ OrderFeed /\ OrderReads /\ OrderCovered /\ OrderLocal /\ Order!LatchIsHeld
    BY DEF OrderInv
  <1>a. \A d \in Order!Calls : d # c => s6'[d] = s6[d]
    BY <1>0, OrderOthersKeep
  <1>b. Order!At(c, "idle") \/ \A d \in Order!Calls : d # c => Order!At(d, "idle")
    BY <1>0 DEF OrderOneCall
  <1>1. CASE Order!Begin(c)
    <2>1. Order!TypeOK'
      BY <1>0, <1>a, <1>b, <1>1 DEF Order!TypeOK, Order!Holds, Order!Events, Order!Steps, Order!Calls,
            Order!Begin, Order!At, Order!Go, Order!account, Order!tables
    <2>2. OrderOneCall'
      BY <1>0, <1>a, <1>b, <1>1 DEF Order!TypeOK, OrderOneCall, Order!Begin, Order!At, Order!Go, Order!account,
            Order!tables
    <2>3. OrderFeed'
      BY <1>0, <1>a, <1>b, <1>1 DEF Order!TypeOK, OrderFeed, Order!Begin, Order!At, Order!Go, Order!account,
            Order!tables
    <2>4. OrderReads'
      BY <1>0, <1>a, <1>b, <1>1 DEF Order!TypeOK, OrderReads, OrderBefore, Order!Begin, Order!At, Order!Go,
            Order!account, Order!tables
    <2>5. OrderCovered'
      BY <1>0, <1>a, <1>b, <1>1 DEF Order!TypeOK, OrderCovered, Order!Begin, Order!At, Order!Go, Order!account,
            Order!tables
    <2>6. OrderLocal'
      BY <1>0, <1>a, <1>b, <1>1 DEF Order!TypeOK, OrderLocal, Order!Begin, Order!At, Order!Go, Order!account,
            Order!tables
    <2>7. Order!LatchIsHeld'
      BY <1>0, <1>a, <1>b, <1>1 DEF Order!TypeOK, Order!LatchIsHeld, Order!Begin, Order!At, Order!Go,
            Order!account, Order!tables
    <2> QED BY <2>1, <2>2, <2>3, <2>4, <2>5, <2>6, <2>7 DEF OrderInv
  <1>2. CASE Order!Fetch(c)
    <2>1. Order!TypeOK'
      BY <1>0, <1>a, <1>b, <1>2 DEF Order!TypeOK, Order!Holds, Order!Events, Order!Steps, Order!Calls,
            Order!Fetch, Order!At, Order!account, Order!tables
    <2>2. OrderOneCall'
      BY <1>0, <1>a, <1>b, <1>2 DEF Order!TypeOK, OrderOneCall, Order!Fetch, Order!At, Order!account,
            Order!tables
    <2>3. OrderFeed'
      BY <1>0, <1>a, <1>b, <1>2 DEF Order!TypeOK, OrderFeed, Order!Fetch, Order!At, Order!account, Order!tables
    <2>4. OrderReads'
      BY <1>0, <1>a, <1>b, <1>2 DEF Order!TypeOK, OrderReads, OrderBefore, OrderFeed, Order!Fetch, Order!At,
            Order!account, Order!tables
    <2>5. OrderCovered'
      BY <1>0, <1>a, <1>b, <1>2 DEF Order!TypeOK, OrderCovered, Order!Fetch, Order!At, Order!account,
            Order!tables
    <2>6. OrderLocal'
      BY <1>0, <1>a, <1>b, <1>2 DEF Order!TypeOK, OrderLocal, Order!Fetch, Order!At, Order!account, Order!tables
    <2>7. Order!LatchIsHeld'
      BY <1>0, <1>a, <1>b, <1>2 DEF Order!TypeOK, Order!LatchIsHeld, Order!Fetch, Order!At, Order!account,
            Order!tables
    <2> QED BY <2>1, <2>2, <2>3, <2>4, <2>5, <2>6, <2>7 DEF OrderInv
  <1>3. CASE Order!Verify(c)
    <2>1. Order!TypeOK'
      BY <1>0, <1>a, <1>b, <1>3 DEF Order!TypeOK, Order!Holds, Order!Events, Order!Steps, Order!Calls,
            Order!Verify, Order!At, Order!Go, Order!account, Order!tables
    <2>2. OrderOneCall'
      BY <1>0, <1>a, <1>b, <1>3 DEF Order!TypeOK, OrderOneCall, Order!Verify, Order!At, Order!Go, Order!account,
            Order!tables
    <2>3. OrderFeed'
      BY <1>0, <1>a, <1>b, <1>3 DEF Order!TypeOK, OrderFeed, Order!Verify, Order!At, Order!Go, Order!account,
            Order!tables
    <2>4. OrderReads'
      BY <1>0, <1>a, <1>b, <1>3 DEF Order!TypeOK, OrderReads, OrderBefore, Order!Verify, Order!At, Order!Go,
            Order!account, Order!tables
    <2>5. OrderCovered'
      BY <1>0, <1>a, <1>b, <1>3 DEF Order!TypeOK, OrderCovered, Order!Verify, Order!At, Order!Go, Order!account,
            Order!tables
    <2>6. OrderLocal'
      BY <1>0, <1>a, <1>b, <1>3 DEF Order!TypeOK, OrderLocal, Order!Verify, Order!At, Order!Go, Order!account,
            Order!tables
    <2>7. Order!LatchIsHeld'
      BY <1>0, <1>a, <1>b, <1>3 DEF Order!TypeOK, Order!LatchIsHeld, Order!Verify, Order!At, Order!Go,
            Order!account, Order!tables
    <2> QED BY <2>1, <2>2, <2>3, <2>4, <2>5, <2>6, <2>7 DEF OrderInv
  <1>4. CASE Order!ReadToClear(c)
    <2>1. Order!TypeOK'
      BY <1>0, <1>a, <1>b, <1>4 DEF Order!TypeOK, Order!Holds, Order!Events, Order!Steps, Order!Calls,
            Order!ReadToClear, Order!At, Order!Go, Order!Recording, Order!account, Order!tables
    <2>2. OrderOneCall'
      BY <1>0, <1>a, <1>b, <1>4 DEF Order!TypeOK, OrderOneCall, Order!ReadToClear, Order!At, Order!Go,
            Order!Recording, Order!account, Order!tables
    <2>3. OrderFeed'
      BY <1>0, <1>a, <1>b, <1>4 DEF Order!TypeOK, OrderFeed, Order!ReadToClear, Order!At, Order!Go,
            Order!Recording, Order!account, Order!tables
    <2>4. OrderReads'
      BY <1>0, <1>a, <1>b, <1>4 DEF Order!TypeOK, OrderReads, OrderBefore, Order!ReadToClear, Order!At,
            Order!Go, Order!Recording, Order!account, Order!tables
    <2>5. OrderCovered'
      BY <1>0, <1>a, <1>b, <1>4 DEF Order!TypeOK, OrderCovered, Order!ReadToClear, Order!At, Order!Go,
            Order!Recording, Order!account, Order!tables
    <2>6. OrderLocal'
      BY <1>0, <1>a, <1>b, <1>4 DEF Order!TypeOK, OrderLocal, Order!ReadToClear, Order!At, Order!Go,
            Order!Recording, Order!account, Order!tables
    <2>7. Order!LatchIsHeld'
      BY <1>0, <1>a, <1>b, <1>4 DEF Order!TypeOK, Order!LatchIsHeld, Order!ReadToClear, Order!At, Order!Go,
            Order!Recording, Order!account, Order!tables
    <2> QED BY <2>1, <2>2, <2>3, <2>4, <2>5, <2>6, <2>7 DEF OrderInv
  <1>5. CASE Order!Clear(c)
    <2>1. Order!TypeOK'
      BY <1>0, <1>a, <1>b, <1>5 DEF Order!TypeOK, Order!Holds, Order!Events, Order!Steps, Order!Calls,
            Order!Clear, Order!At, Order!Recording, Order!account, Order!tables
    <2>2. OrderOneCall'
      BY <1>0, <1>a, <1>b, <1>5 DEF Order!TypeOK, OrderOneCall, Order!Clear, Order!At, Order!Recording,
            Order!account, Order!tables
    <2>3. OrderFeed'
      BY <1>0, <1>a, <1>b, <1>5 DEF Order!TypeOK, OrderFeed, Order!Clear, Order!At, Order!Recording,
            Order!account, Order!tables
    <2>4. OrderReads'
      BY <1>0, <1>a, <1>b, <1>5 DEF Order!TypeOK, OrderReads, OrderBefore, Order!Clear, Order!At,
            Order!Recording, Order!account, Order!tables
    <2>5. OrderCovered'
      BY <1>0, <1>a, <1>b, <1>5 DEF Order!TypeOK, OrderCovered, OrderReads, OrderLocal, OrderBefore,
            Order!Clear, Order!At, Order!Recording, Order!account, Order!tables
    <2>6. OrderLocal'
      BY <1>0, <1>a, <1>b, <1>5 DEF Order!TypeOK, OrderLocal, Order!Clear, Order!At, Order!Recording,
            Order!account, Order!tables
    <2>7. Order!LatchIsHeld'
      BY <1>0, <1>a, <1>b, <1>5 DEF Order!TypeOK, Order!LatchIsHeld, OrderLocal, Order!Clear, Order!At,
            Order!Recording, Order!account, Order!tables
    <2> QED BY <2>1, <2>2, <2>3, <2>4, <2>5, <2>6, <2>7 DEF OrderInv
  <1>6. CASE Order!ReadToHold(c)
    <2>1. Order!TypeOK'
      BY <1>0, <1>a, <1>b, <1>6 DEF Order!TypeOK, Order!Holds, Order!Events, Order!Steps, Order!Calls,
            Order!ReadToHold, Order!At, Order!Go, Order!Recording, Order!account, Order!tables
    <2>2. OrderOneCall'
      BY <1>0, <1>a, <1>b, <1>6 DEF Order!TypeOK, OrderOneCall, Order!ReadToHold, Order!At, Order!Go,
            Order!Recording, Order!account, Order!tables
    <2>3. OrderFeed'
      BY <1>0, <1>a, <1>b, <1>6 DEF Order!TypeOK, OrderFeed, Order!ReadToHold, Order!At, Order!Go,
            Order!Recording, Order!account, Order!tables
    <2>4. OrderReads'
      BY <1>0, <1>a, <1>b, <1>6 DEF Order!TypeOK, OrderReads, OrderBefore, Order!ReadToHold, Order!At, Order!Go,
            Order!Recording, Order!account, Order!tables
    <2>5. OrderCovered'
      BY <1>0, <1>a, <1>b, <1>6 DEF Order!TypeOK, OrderCovered, Order!ReadToHold, Order!At, Order!Go,
            Order!Recording, Order!account, Order!tables
    <2>6. OrderLocal'
      BY <1>0, <1>a, <1>b, <1>6 DEF Order!TypeOK, OrderLocal, Order!ReadToHold, Order!At, Order!Go,
            Order!Recording, Order!account, Order!tables
    <2>7. Order!LatchIsHeld'
      BY <1>0, <1>a, <1>b, <1>6 DEF Order!TypeOK, Order!LatchIsHeld, Order!ReadToHold, Order!At, Order!Go,
            Order!Recording, Order!account, Order!tables
    <2> QED BY <2>1, <2>2, <2>3, <2>4, <2>5, <2>6, <2>7 DEF OrderInv
  <1>7. CASE Order!Hold(c)
    <2>1. Order!TypeOK'
      BY <1>0, <1>a, <1>b, <1>7 DEF Order!TypeOK, Order!Holds, Order!Events, Order!Steps, Order!Calls,
            Order!Hold, Order!At, Order!Recording, Order!account, Order!tables
    <2>2. OrderOneCall'
      BY <1>0, <1>a, <1>b, <1>7 DEF Order!TypeOK, OrderOneCall, Order!Hold, Order!At, Order!Recording,
            Order!account, Order!tables
    <2>3. OrderFeed'
      BY <1>0, <1>a, <1>b, <1>7 DEF Order!TypeOK, OrderFeed, Order!Hold, Order!At, Order!Recording,
            Order!account, Order!tables
    <2>4. OrderReads'
      BY <1>0, <1>a, <1>b, <1>7 DEF Order!TypeOK, OrderReads, OrderBefore, Order!Hold, Order!At,
            Order!Recording, Order!account, Order!tables
    <2>5. OrderCovered'
      BY <1>0, <1>a, <1>b, <1>7 DEF Order!TypeOK, OrderCovered, Order!Hold, Order!At, Order!Recording,
            Order!account, Order!tables
    <2>6. OrderLocal'
      BY <1>0, <1>a, <1>b, <1>7 DEF Order!TypeOK, OrderLocal, Order!Hold, Order!At, Order!Recording,
            Order!account, Order!tables
    <2>7. Order!LatchIsHeld'
      BY <1>0, <1>a, <1>b, <1>7 DEF Order!TypeOK, Order!LatchIsHeld, Order!Hold, Order!At, Order!Recording,
            Order!account, Order!tables
    <2> QED BY <2>1, <2>2, <2>3, <2>4, <2>5, <2>6, <2>7 DEF OrderInv
  <1>8. CASE Order!ListEvents(c)
    <2>1. Order!TypeOK'
      BY <1>0, <1>a, <1>b, <1>8 DEF Order!TypeOK, Order!Holds, Order!Events, Order!Steps, Order!Calls,
            Order!ListEvents, Order!At, Order!account, Order!tables
    <2>2. OrderOneCall'
      BY <1>0, <1>a, <1>b, <1>8 DEF Order!TypeOK, OrderOneCall, Order!ListEvents, Order!At, Order!account,
            Order!tables
    <2>3. OrderFeed'
      BY <1>0, <1>a, <1>b, <1>8 DEF Order!TypeOK, OrderFeed, Order!ListEvents, Order!At, Order!account,
            Order!tables
    <2>4. OrderReads'
      BY <1>0, <1>a, <1>b, <1>8 DEF Order!TypeOK, OrderReads, OrderBefore, Order!ListEvents, Order!At,
            Order!account, Order!tables
    <2>5. OrderCovered'
      BY <1>0, <1>a, <1>b, <1>8 DEF Order!TypeOK, OrderCovered, Order!ListEvents, Order!At, Order!account,
            Order!tables
    <2>6. OrderLocal'
      BY <1>0, <1>a, <1>b, <1>8 DEF Order!TypeOK, OrderLocal, Order!ListEvents, Order!At, Order!account,
            Order!tables
    <2>7. Order!LatchIsHeld'
      BY <1>0, <1>a, <1>b, <1>8 DEF Order!TypeOK, Order!LatchIsHeld, Order!ListEvents, Order!At, Order!account,
            Order!tables
    <2> QED BY <2>1, <2>2, <2>3, <2>4, <2>5, <2>6, <2>7 DEF OrderInv
  <1>9. CASE Order!BlockEvent(c)
    <2>1. Order!TypeOK'
      BY <1>0, <1>a, <1>b, <1>9 DEF Order!TypeOK, Order!Holds, Order!Events, Order!Steps, Order!Calls,
            Order!BlockEvent, Order!At, Order!Go, Order!account, Order!tables
    <2>2. OrderOneCall'
      BY <1>0, <1>a, <1>b, <1>9 DEF Order!TypeOK, OrderOneCall, Order!BlockEvent, Order!At, Order!Go,
            Order!account, Order!tables
    <2>3. OrderFeed'
      BY <1>0, <1>a, <1>b, <1>9 DEF Order!TypeOK, OrderFeed, Order!BlockEvent, Order!At, Order!Go,
            Order!account, Order!tables
    <2>4. OrderReads'
      BY <1>0, <1>a, <1>b, <1>9 DEF Order!TypeOK, OrderReads, OrderBefore, Order!BlockEvent, Order!At, Order!Go,
            Order!account, Order!tables
    <2>5. OrderCovered'
      BY <1>0, <1>a, <1>b, <1>9 DEF Order!TypeOK, OrderCovered, Order!BlockEvent, Order!At, Order!Go,
            Order!account, Order!tables
    <2>6. OrderLocal'
      BY <1>0, <1>a, <1>b, <1>9 DEF Order!TypeOK, OrderLocal, Order!BlockEvent, Order!At, Order!Go,
            Order!account, Order!tables
    <2>7. Order!LatchIsHeld'
      BY <1>0, <1>a, <1>b, <1>9 DEF Order!TypeOK, Order!LatchIsHeld, Order!BlockEvent, Order!At, Order!Go,
            Order!account, Order!tables
    <2> QED BY <2>1, <2>2, <2>3, <2>4, <2>5, <2>6, <2>7 DEF OrderInv
  <1>10. CASE Order!Dispute(c)
    <2>1. Order!TypeOK'
      BY <1>0, <1>a, <1>b, <1>10 DEF Order!TypeOK, Order!Holds, Order!Events, Order!Steps, Order!Calls,
            Order!Dispute, Order!At, Order!Go, Order!account, Order!tables
    <2>2. OrderOneCall'
      BY <1>0, <1>a, <1>b, <1>10 DEF Order!TypeOK, OrderOneCall, Order!Dispute, Order!At, Order!Go,
            Order!account, Order!tables
    <2>3. OrderFeed'
      BY <1>0, <1>a, <1>b, <1>10 DEF Order!TypeOK, OrderFeed, Order!Dispute, Order!At, Order!Go, Order!account,
            Order!tables
    <2>4. OrderReads'
      BY <1>0, <1>a, <1>b, <1>10 DEF Order!TypeOK, OrderReads, OrderBefore, Order!Dispute, Order!At, Order!Go,
            Order!account, Order!tables
    <2>5. OrderCovered'
      BY <1>0, <1>a, <1>b, <1>10 DEF Order!TypeOK, OrderCovered, Order!Dispute, Order!At, Order!Go,
            Order!account, Order!tables
    <2>6. OrderLocal'
      BY <1>0, <1>a, <1>b, <1>10 DEF Order!TypeOK, OrderLocal, Order!Dispute, Order!At, Order!Go, Order!account,
            Order!tables
    <2>7. Order!LatchIsHeld'
      BY <1>0, <1>a, <1>b, <1>10 DEF Order!TypeOK, Order!LatchIsHeld, Order!Dispute, Order!At, Order!Go,
            Order!account, Order!tables
    <2> QED BY <2>1, <2>2, <2>3, <2>4, <2>5, <2>6, <2>7 DEF OrderInv
  <1>11. CASE Order!Upgrade(c)
    <2>1. Order!TypeOK'
      BY <1>0, <1>a, <1>b, <1>11 DEF Order!TypeOK, Order!Holds, Order!Events, Order!Steps, Order!Calls,
            Order!Upgrade, Order!At, Order!Go, Order!Rewritten, Order!account, Order!tables
    <2>2. OrderOneCall'
      BY <1>0, <1>a, <1>b, <1>11 DEF Order!TypeOK, OrderOneCall, Order!Upgrade, Order!At, Order!Go,
            Order!Rewritten, Order!account, Order!tables
    <2>3. OrderFeed'
      BY <1>0, <1>a, <1>b, <1>11 DEF Order!TypeOK, OrderFeed, Order!Upgrade, Order!At, Order!Go,
            Order!Rewritten, Order!account, Order!tables
    <2>4. OrderReads'
      BY <1>0, <1>a, <1>b, <1>11 DEF Order!TypeOK, OrderReads, OrderBefore, Order!Upgrade, Order!At, Order!Go,
            Order!Rewritten, Order!account, Order!tables
    <2>5. OrderCovered'
      BY <1>0, <1>a, <1>b, <1>11 DEF Order!TypeOK, OrderCovered, Order!Upgrade, Order!At, Order!Go,
            Order!Rewritten, Order!account, Order!tables
    <2>6. OrderLocal'
      BY <1>0, <1>a, <1>b, <1>11 DEF Order!TypeOK, OrderLocal, Order!Upgrade, Order!At, Order!Go,
            Order!Rewritten, Order!account, Order!tables
    <2>7. Order!LatchIsHeld'
      BY <1>0, <1>a, <1>b, <1>11 DEF Order!TypeOK, Order!LatchIsHeld, Order!Upgrade, Order!At, Order!Go,
            Order!Rewritten, Order!account, Order!tables
    <2> QED BY <2>1, <2>2, <2>3, <2>4, <2>5, <2>6, <2>7 DEF OrderInv
  <1>12. CASE Order!LatchFinancialIntegrityBlock(c)
    <2>1. Order!TypeOK'
      BY <1>0, <1>a, <1>b, <1>12 DEF Order!TypeOK, Order!Holds, Order!Events, Order!Steps, Order!Calls,
            Order!LatchFinancialIntegrityBlock, Order!At, Order!Recording, Order!account, Order!tables
    <2>2. OrderOneCall'
      BY <1>0, <1>a, <1>b, <1>12 DEF Order!TypeOK, OrderOneCall, Order!LatchFinancialIntegrityBlock, Order!At,
            Order!Recording, Order!account, Order!tables
    <2>3. OrderFeed'
      BY <1>0, <1>a, <1>b, <1>12 DEF Order!TypeOK, OrderFeed, Order!LatchFinancialIntegrityBlock, Order!At,
            Order!Recording, Order!account, Order!tables
    <2>4. OrderReads'
      BY <1>0, <1>a, <1>b, <1>12 DEF Order!TypeOK, OrderReads, OrderBefore, Order!LatchFinancialIntegrityBlock,
            Order!At, Order!Recording, Order!account, Order!tables
    <2>5. OrderCovered'
      BY <1>0, <1>a, <1>b, <1>12 DEF Order!TypeOK, OrderCovered, Order!LatchFinancialIntegrityBlock, Order!At,
            Order!Recording, Order!account, Order!tables
    <2>6. OrderLocal'
      BY <1>0, <1>a, <1>b, <1>12 DEF Order!TypeOK, OrderLocal, Order!LatchFinancialIntegrityBlock, Order!At,
            Order!Recording, Order!account, Order!tables
    <2>7. Order!LatchIsHeld'
      BY <1>0, <1>a, <1>b, <1>12 DEF Order!TypeOK, Order!LatchIsHeld, OrderLocal,
            Order!LatchFinancialIntegrityBlock, Order!At, Order!Recording, Order!account, Order!tables
    <2> QED BY <2>1, <2>2, <2>3, <2>4, <2>5, <2>6, <2>7 DEF OrderInv
  <1>13. CASE Order!Record(c)
    <2>1. Order!TypeOK'
      BY <1>0, <1>a, <1>b, <1>13 DEF Order!TypeOK, Order!Holds, Order!Events, Order!Steps, Order!Calls,
            Order!Record, Order!At, Order!Idle, Order!account, Order!tables
    <2>2. OrderOneCall'
      BY <1>0, <1>a, <1>b, <1>13 DEF Order!TypeOK, OrderOneCall, Order!Record, Order!At, Order!Idle,
            Order!account, Order!tables
    <2>3. OrderFeed'
      BY <1>0, <1>a, <1>b, <1>13 DEF Order!TypeOK, OrderFeed, OrderLocal, Order!Record, Order!At, Order!Idle,
            Order!account, Order!tables
    <2>4. OrderReads'
      BY <1>0, <1>a, <1>b, <1>13 DEF Order!TypeOK, OrderReads, OrderBefore, OrderLocal, Order!Record, Order!At,
            Order!Idle, Order!account, Order!tables
    <2>5. OrderCovered'
      BY <1>0, <1>a, <1>b, <1>13 DEF Order!TypeOK, OrderCovered, OrderLocal, Order!Record, Order!At, Order!Idle,
            Order!account, Order!tables
    <2>6. OrderLocal'
      BY <1>0, <1>a, <1>b, <1>13 DEF Order!TypeOK, OrderLocal, Order!Record, Order!At, Order!Idle,
            Order!account, Order!tables
    <2>7. Order!LatchIsHeld'
      BY <1>0, <1>a, <1>b, <1>13 DEF Order!TypeOK, Order!LatchIsHeld, Order!Record, Order!At, Order!Idle,
            Order!account, Order!tables
    <2> QED BY <2>1, <2>2, <2>3, <2>4, <2>5, <2>6, <2>7 DEF OrderInv
  <1>14. CASE Order!Reread(c)
    <2>1. Order!TypeOK'
      BY <1>0, <1>a, <1>b, <1>14 DEF Order!TypeOK, Order!Holds, Order!Events, Order!Steps, Order!Calls,
            Order!Reread, Order!At, Order!Go, Order!account, Order!tables
    <2>2. OrderOneCall'
      BY <1>0, <1>a, <1>b, <1>14 DEF Order!TypeOK, OrderOneCall, Order!Reread, Order!At, Order!Go,
            Order!account, Order!tables
    <2>3. OrderFeed'
      BY <1>0, <1>a, <1>b, <1>14 DEF Order!TypeOK, OrderFeed, Order!Reread, Order!At, Order!Go, Order!account,
            Order!tables
    <2>4. OrderReads'
      BY <1>0, <1>a, <1>b, <1>14 DEF Order!TypeOK, OrderReads, OrderBefore, Order!Reread, Order!At, Order!Go,
            Order!account, Order!tables
    <2>5. OrderCovered'
      BY <1>0, <1>a, <1>b, <1>14 DEF Order!TypeOK, OrderCovered, Order!Reread, Order!At, Order!Go,
            Order!account, Order!tables
    <2>6. OrderLocal'
      BY <1>0, <1>a, <1>b, <1>14 DEF Order!TypeOK, OrderLocal, Order!Reread, Order!At, Order!Go, Order!account,
            Order!tables
    <2>7. Order!LatchIsHeld'
      BY <1>0, <1>a, <1>b, <1>14 DEF Order!TypeOK, Order!LatchIsHeld, Order!Reread, Order!At, Order!Go,
            Order!account, Order!tables
    <2> QED BY <2>1, <2>2, <2>3, <2>4, <2>5, <2>6, <2>7 DEF OrderInv
  <1>15. CASE Order!Advance(c)
    <2>1. Order!TypeOK'
      BY <1>0, <1>a, <1>b, <1>15 DEF Order!TypeOK, Order!Holds, Order!Events, Order!Steps, Order!Calls,
            Order!Advance, Order!At, Order!Go, Order!Rewritten, Order!account, Order!tables
    <2>2. OrderOneCall'
      BY <1>0, <1>a, <1>b, <1>15 DEF Order!TypeOK, OrderOneCall, Order!Advance, Order!At, Order!Go,
            Order!Rewritten, Order!account, Order!tables
    <2>3. OrderFeed'
      BY <1>0, <1>a, <1>b, <1>15 DEF Order!TypeOK, OrderFeed, Order!Advance, Order!At, Order!Go,
            Order!Rewritten, Order!account, Order!tables
    <2>4. OrderReads'
      BY <1>0, <1>a, <1>b, <1>15 DEF Order!TypeOK, OrderReads, OrderBefore, Order!Advance, Order!At, Order!Go,
            Order!Rewritten, Order!account, Order!tables
    <2>5. OrderCovered'
      BY <1>0, <1>a, <1>b, <1>15 DEF Order!TypeOK, OrderCovered, Order!Advance, Order!At, Order!Go,
            Order!Rewritten, Order!account, Order!tables
    <2>6. OrderLocal'
      BY <1>0, <1>a, <1>b, <1>15 DEF Order!TypeOK, OrderLocal, Order!Advance, Order!At, Order!Go,
            Order!Rewritten, Order!account, Order!tables
    <2>7. Order!LatchIsHeld'
      BY <1>0, <1>a, <1>b, <1>15 DEF Order!TypeOK, Order!LatchIsHeld, OrderLocal, Order!Advance, Order!At,
            Order!Go, Order!Rewritten, Order!account, Order!tables
    <2> QED BY <2>1, <2>2, <2>3, <2>4, <2>5, <2>6, <2>7 DEF OrderInv
  <1>16. CASE Order!Die(c)
    <2>1. Order!TypeOK'
      BY <1>0, <1>a, <1>b, <1>16 DEF Order!TypeOK, Order!Holds, Order!Events, Order!Steps, Order!Calls,
            Order!Die, Order!At, Order!Idle, Order!account, Order!tables
    <2>2. OrderOneCall'
      BY <1>0, <1>a, <1>b, <1>16 DEF Order!TypeOK, OrderOneCall, Order!Die, Order!At, Order!Idle, Order!account,
            Order!tables
    <2>3. OrderFeed'
      BY <1>0, <1>a, <1>b, <1>16 DEF Order!TypeOK, OrderFeed, Order!Die, Order!At, Order!Idle, Order!account,
            Order!tables
    <2>4. OrderReads'
      BY <1>0, <1>a, <1>b, <1>16 DEF Order!TypeOK, OrderReads, OrderBefore, Order!Die, Order!At, Order!Idle,
            Order!account, Order!tables
    <2>5. OrderCovered'
      BY <1>0, <1>a, <1>b, <1>16 DEF Order!TypeOK, OrderCovered, Order!Die, Order!At, Order!Idle, Order!account,
            Order!tables
    <2>6. OrderLocal'
      BY <1>0, <1>a, <1>b, <1>16 DEF Order!TypeOK, OrderLocal, Order!Die, Order!At, Order!Idle, Order!account,
            Order!tables
    <2>7. Order!LatchIsHeld'
      BY <1>0, <1>a, <1>b, <1>16 DEF Order!TypeOK, Order!LatchIsHeld, Order!Die, Order!At, Order!Idle,
            Order!account, Order!tables
    <2> QED BY <2>1, <2>2, <2>3, <2>4, <2>5, <2>6, <2>7 DEF OrderInv
  <1> QED BY <1>1, <1>2, <1>3, <1>4, <1>5, <1>6, <1>7, <1>8, <1>9, <1>10, <1>11, <1>12, <1>13, <1>14, <1>15,
        <1>16 DEF Order!Attribute

\* The steps of the broker and of settlement keep it.
LEMMA OrderOthersStepKeeps ==
    ASSUME OrderInv,
           \/ Order!Execute
           \/ \E f \in OrderFills : Order!Show(f) \/ Order!Claim(f) \/ Order!Project(f)
           \/ UNCHANGED Order!vars
    PROVE  OrderInv'
  <1>0. Order!TypeOK /\ OrderOneCall /\ OrderFeed /\ OrderReads /\ OrderCovered /\ OrderLocal /\ Order!LatchIsHeld
    BY DEF OrderInv
  <1>1. CASE Order!Execute
    <2>1. Order!TypeOK'
      BY <1>0, <1>1 DEF Order!TypeOK, Order!Holds, Order!Events, Order!Steps, Order!Calls, Order!Execute,
            Order!account, Order!tables
    <2>2. OrderOneCall'
      BY <1>0, <1>1 DEF Order!TypeOK, OrderOneCall, Order!At, Order!Execute, Order!account, Order!tables
    <2>3. OrderFeed'
      BY <1>0, <1>1 DEF Order!TypeOK, OrderFeed, Order!Execute, Order!account, Order!tables
    <2>4. OrderReads'
      BY <1>0, <1>1 DEF Order!TypeOK, OrderReads, OrderBefore, Order!Execute, Order!account, Order!tables
    <2>5. OrderCovered'
      BY <1>0, <1>1 DEF Order!TypeOK, OrderCovered, Order!Execute, Order!account, Order!tables
    <2>6. OrderLocal'
      BY <1>0, <1>1 DEF Order!TypeOK, OrderLocal, Order!At, Order!Execute, Order!account, Order!tables
    <2>7. Order!LatchIsHeld'
      BY <1>0, <1>1 DEF Order!TypeOK, Order!LatchIsHeld, Order!Execute, Order!account, Order!tables
    <2> QED BY <2>1, <2>2, <2>3, <2>4, <2>5, <2>6, <2>7 DEF OrderInv
  <1>2. ASSUME NEW f \in OrderFills, Order!Show(f) PROVE OrderInv'
    <2>1. Order!TypeOK'
      BY <1>0, <1>2 DEF Order!TypeOK, Order!Holds, Order!Events, Order!Steps, Order!Calls, Order!Show,
            Order!account, Order!tables
    <2>2. OrderOneCall'
      BY <1>0, <1>2 DEF Order!TypeOK, OrderOneCall, Order!At, Order!Show, Order!account, Order!tables
    <2>3. OrderFeed'
      BY <1>0, <1>2 DEF Order!TypeOK, OrderFeed, Order!Show, Order!account, Order!tables
    <2>4. OrderReads'
      BY <1>0, <1>2 DEF Order!TypeOK, OrderReads, OrderBefore, Order!Show, Order!account, Order!tables
    <2>5. OrderCovered'
      BY <1>0, <1>2 DEF Order!TypeOK, OrderCovered, Order!Show, Order!account, Order!tables
    <2>6. OrderLocal'
      BY <1>0, <1>2 DEF Order!TypeOK, OrderLocal, Order!At, Order!Show, Order!account, Order!tables
    <2>7. Order!LatchIsHeld'
      BY <1>0, <1>2 DEF Order!TypeOK, Order!LatchIsHeld, Order!Show, Order!account, Order!tables
    <2> QED BY <2>1, <2>2, <2>3, <2>4, <2>5, <2>6, <2>7 DEF OrderInv
  <1>3. ASSUME NEW f \in OrderFills, Order!Claim(f) PROVE OrderInv'
    <2>1. Order!TypeOK'
      BY <1>0, <1>3 DEF Order!TypeOK, Order!Holds, Order!Events, Order!Steps, Order!Calls, Order!Claim,
            Order!account, Order!tables
    <2>2. OrderOneCall'
      BY <1>0, <1>3 DEF Order!TypeOK, OrderOneCall, Order!At, Order!Claim, Order!account, Order!tables
    <2>3. OrderFeed'
      BY <1>0, <1>3 DEF Order!TypeOK, OrderFeed, Order!Claim, Order!account, Order!tables
    <2>4. OrderReads'
      BY <1>0, <1>3 DEF Order!TypeOK, OrderReads, OrderBefore, Order!Claim, Order!account, Order!tables
    <2>5. OrderCovered'
      BY <1>0, <1>3 DEF Order!TypeOK, OrderCovered, Order!Claim, Order!account, Order!tables
    <2>6. OrderLocal'
      BY <1>0, <1>3 DEF Order!TypeOK, OrderLocal, Order!At, Order!Claim, Order!account, Order!tables
    <2>7. Order!LatchIsHeld'
      BY <1>0, <1>3 DEF Order!TypeOK, Order!LatchIsHeld, Order!Claim, Order!account, Order!tables
    <2> QED BY <2>1, <2>2, <2>3, <2>4, <2>5, <2>6, <2>7 DEF OrderInv
  <1>4. ASSUME NEW f \in OrderFills, Order!Project(f) PROVE OrderInv'
    <2>1. Order!TypeOK'
      BY <1>0, <1>4 DEF Order!TypeOK, Order!Holds, Order!Events, Order!Steps, Order!Calls, Order!Project,
            Order!account, Order!tables
    <2>2. OrderOneCall'
      BY <1>0, <1>4 DEF Order!TypeOK, OrderOneCall, Order!At, Order!Project, Order!account, Order!tables
    <2>3. OrderFeed'
      BY <1>0, <1>4 DEF Order!TypeOK, OrderFeed, Order!Project, Order!account, Order!tables
    <2>4. OrderReads'
      BY <1>0, <1>4 DEF Order!TypeOK, OrderReads, OrderBefore, Order!Project, Order!account, Order!tables
    <2>5. OrderCovered'
      BY <1>0, <1>4 DEF Order!TypeOK, OrderCovered, Order!Project, Order!account, Order!tables
    <2>6. OrderLocal'
      BY <1>0, <1>4 DEF Order!TypeOK, OrderLocal, Order!At, Order!Project, Order!account, Order!tables
    <2>7. Order!LatchIsHeld'
      BY <1>0, <1>4 DEF Order!TypeOK, Order!LatchIsHeld, Order!Project, Order!account, Order!tables
    <2> QED BY <2>1, <2>2, <2>3, <2>4, <2>5, <2>6, <2>7 DEF OrderInv
  <1>5. CASE UNCHANGED Order!vars
    <2>1. Order!TypeOK'
      BY <1>0, <1>5 DEF Order!TypeOK, Order!Holds, Order!Events, Order!Steps, Order!Calls, Order!vars
    <2>2. OrderOneCall'
      BY <1>0, <1>5 DEF Order!TypeOK, OrderOneCall, Order!At, Order!vars
    <2>3. OrderFeed'
      BY <1>0, <1>5 DEF Order!TypeOK, OrderFeed, Order!vars
    <2>4. OrderReads'
      BY <1>0, <1>5 DEF Order!TypeOK, OrderReads, OrderBefore, Order!vars
    <2>5. OrderCovered'
      BY <1>0, <1>5 DEF Order!TypeOK, OrderCovered, Order!vars
    <2>6. OrderLocal'
      BY <1>0, <1>5 DEF Order!TypeOK, OrderLocal, Order!At, Order!vars
    <2>7. Order!LatchIsHeld'
      BY <1>0, <1>5 DEF Order!TypeOK, Order!LatchIsHeld, Order!vars
    <2> QED BY <2>1, <2>2, <2>3, <2>4, <2>5, <2>6, <2>7 DEF OrderInv
  <1> QED BY <1>1, <1>2, <1>3, <1>4, <1>5

LEMMA OrderStep ==
    ASSUME OrderInv, ~CallsOverlap, [Order!Next]_Order!vars
    PROVE  OrderInv'
  <1>1. CASE \E c \in Order!Calls : Order!Attribute(c) \/ Order!Reread(c) \/ Order!Advance(c) \/ Order!Die(c)
    BY <1>1, OrderCallKeeps
  <1>2. CASE Order!Execute \/ (\E f \in OrderFills : Order!Show(f) \/ Order!Claim(f) \/ Order!Project(f)) \/ UNCHANGED Order!vars
    BY <1>2, OrderOthersStepKeeps
  <1> QED BY <1>1, <1>2 DEF Order!Next

LEMMA OrderInitHolds == Order!Init => OrderInv
  <1> SUFFICES ASSUME Order!Init PROVE OrderInv
    OBVIOUS
  <1>1. Order!TypeOK
    BY DEF Order!Init, Order!TypeOK, Order!Holds, Order!Events, Order!Steps, Order!Idle
  <1>2. \A c \in Order!Calls : s6[c].pc = "idle" /\ s6[c].seen = {}
    BY DEF Order!Init, Order!Idle
  <1>3. OrderOneCall /\ OrderReads /\ OrderLocal
    BY <1>2 DEF OrderOneCall, OrderReads, OrderLocal, Order!At, OrderBefore
  <1>4. OrderFeed /\ OrderCovered /\ Order!LatchIsHeld
    BY <1>2 DEF Order!Init, OrderFeed, OrderCovered, Order!LatchIsHeld
  <1> QED BY <1>1, <1>3, <1>4 DEF OrderInv

\* A disputed hold is written over by none of the steps: what is deleted or
\* written back as pending is still pending then.
LEMMA OrderDisputeKept ==
    ASSUME OrderInv, [Order!Next]_Order!vars, s4 = "fill_quantity_disputed"
    PROVE  s4' = "fill_quantity_disputed"
  <1>0. OrderLocal
    BY DEF OrderInv
  <1>1. CASE \E c \in Order!Calls : Order!Attribute(c) \/ Order!Reread(c) \/ Order!Advance(c) \/ Order!Die(c)
    <2> PICK c \in Order!Calls : Order!Attribute(c) \/ Order!Reread(c) \/ Order!Advance(c) \/ Order!Die(c)
      BY <1>1
    <2>1. ~Order!Clear(c) /\ ~Order!Advance(c)
      BY <1>0 DEF OrderLocal, Order!Clear, Order!Advance, Order!At
    <2> QED
      BY <2>1 DEF Order!Attribute, Order!Begin, Order!Fetch, Order!Verify, Order!ReadToClear, Order!ReadToHold,
            Order!Hold, Order!ListEvents, Order!BlockEvent,
                  Order!Dispute, Order!Upgrade, Order!LatchFinancialIntegrityBlock, Order!Record, Order!Reread, Order!Die, Order!Rewritten, Order!tables
  <1>2. CASE Order!Execute \/ (\E f \in OrderFills : Order!Show(f) \/ Order!Claim(f) \/ Order!Project(f)) \/ UNCHANGED Order!vars
    BY <1>2 DEF Order!Execute, Order!Show, Order!Claim, Order!Project, Order!tables, Order!vars
  <1> QED BY <1>1, <1>2 DEF Order!Next

-----------------------------------------------------------------------------
(***************************************************************************)
(* SellAuthorization.  What the authorization has read is a lower bound    *)
(* of what it was read from (SellReads), and the lots it read had closed   *)
(* at least what it read as settled (SellLocal).  So the local bound       *)
(* reserves, beside the lots, what every pending sell may still take; and  *)
(* an external sell that the first list of open orders does not show is    *)
(* over or yet to come at the second (SellOutside).                        *)
(*                                                                         *)
(* In Components s1 is order, s2 is filled, s3 is unshown, s4 is buys, s5  *)
(* is booked, s6 is accounted, s7 is closed, s8 is completed, s9 is        *)
(* terminal, s10 is passed, s11 is pc, s12 is view.                        *)
(***************************************************************************)

SellTypes ==
    /\ s1 \in [Sell!Orders -> {"unplaced", "open", "ended"}]
    /\ s2 \in [Sell!Orders -> Nat] /\ s6 \in [Sell!Orders -> Nat] /\ s7 \in [Sell!Orders -> Nat]
    /\ s8 \in [Sell!Orders -> Nat] /\ s10 \in [Sell!Orders -> Nat]
    /\ s4 \in Nat /\ s3 \in Nat /\ s5 \in Nat /\ s9 \subseteq SellOwn
    /\ s12 \in [terminal : SUBSET SellOwn, cursor : [Sell!Orders -> Nat], settled : [Sell!Orders -> Nat], local : Int,
                 first : [Sell!Orders -> Int], position : Int]

\* A fill is completed after its lots are closed, which is after it is accounted.
SellChain ==
    /\ s5 <= s4
    /\ \A o \in Sell!Orders :
        /\ s8[o] <= s7[o] /\ s7[o] <= s6[o]
        /\ s6[o] <= s2[o] /\ s2[o] <= SellQuantity[o]
        /\ s10[o] <= s2[o]
        /\ s1[o] = "unplaced" => s2[o] = 0
        /\ s1[o] = "open" => s2[o] < SellQuantity[o]
    /\ \A o \in SellExternal : s6[o] = 0
    /\ \A o \in s9 : s1[o] = "ended" /\ s6[o] = s2[o]

SellStages == {"idle", "checked", "intents", "cursor", "settled", "local", "first", "position", "second", "ready"}
WithCursor == SellStages \ {"idle", "checked", "intents"}
WithSettled == WithCursor \ {"cursor"}
WithLocal == WithSettled \ {"settled"}

\* What is read stays below what it was read from.
SellReads ==
    /\ s11 \in SellStages
    /\ s11 \in {"checked", "intents"} => \A o \in Sell!Orders : s10[o] <= s6[o]
    /\ s12.terminal \subseteq s9
    /\ s11 \in WithCursor => \A o \in Sell!Orders : s12.cursor[o] <= s6[o]
    /\ s11 \in WithSettled => \A o \in Sell!Orders : s12.settled[o] <= s8[o]

\* The lots that were read had closed at least what was read as settled.
SellLocal ==
    s11 \in WithLocal =>
        \E c \in [Sell!Orders -> Nat], b \in Nat :
            /\ b <= s5 /\ s12.local = SellHolding + b - Sell!Total(c, Sell!Orders)
            /\ \A o \in Sell!Orders : s12.settled[o] <= c[o] /\ c[o] <= s7[o]

\* An order of somebody else that was not open is not, and has filled nothing.
SellOutside ==
    \A o \in SellExternal : s12.first[o] < 0 =>
        /\ s11 \in {"second", "ready"} => s1[o] # "open"
        /\ s11 = "ready" => s2[o] = 0

SellInv == SellTypes /\ SellChain /\ SellReads /\ SellLocal /\ SellOutside

-----------------------------------------------------------------------------
LEMMA SellConstants ==
    /\ IsFiniteSet(Sell!Orders) /\ SellOwn \subseteq Sell!Orders /\ SellExternal \subseteq Sell!Orders /\ SellOwn \cap SellExternal = {}
    /\ SellQuantity \in [Sell!Orders -> Nat \ {0}] /\ SellHolding \in Nat
    /\ Sell!Orders = SellOwn \cup SellExternal
  BY SellAssumed DEF Sell!SellAssumption, Sell!Orders, IsFiniteSet, Sell!IsFiniteSet

LEMMA SellTotal == \A f, S : Sell!Total(f, S) = SumFunctionOnSet(f, S)
  BY DEF Sell!Total, SumFunctionOnSet, Sell!SumFunctionOnSet, FoldFunctionOnSet, Sell!FoldFunctionOnSet,
        MapThenFoldSet, Sell!MapThenFoldSet

LEMMA SellInitHolds == Sell!Init => SellInv
  <1> SUFFICES ASSUME Sell!Init PROVE SellInv
    OBVIOUS
  <1>1. SellTypes
    BY SellConstants DEF Sell!Init, SellTypes, Sell!Zero, Sell!NoOrders, Sell!Nothing
  <1>2. SellChain
    BY SellConstants DEF Sell!Init, SellChain, Sell!Zero
  <1>3. SellReads /\ SellLocal /\ SellOutside
    BY SellConstants DEF Sell!Init, SellReads, SellLocal, SellOutside, SellStages, WithCursor, WithSettled,
          WithLocal, Sell!Nothing
  <1> QED BY <1>1, <1>2, <1>3 DEF SellInv

\* What was read of the lots is below them while they only close and open.
LEMMA SellLocalKept ==
    ASSUME SellTypes, SellTypes', SellLocal, s11' \in WithLocal => s11 \in WithLocal,
           s12'.local = s12.local, s12'.settled = s12.settled,
           s5 <= s5', \A o \in Sell!Orders : s7[o] <= s7'[o]
    PROVE  SellLocal'
  <1> SUFFICES ASSUME s11' \in WithLocal
               PROVE  \E c \in [Sell!Orders -> Nat], b \in Nat :
                          /\ b <= s5' /\ s12'.local = SellHolding + b - Sell!Total(c, Sell!Orders)
                          /\ \A o \in Sell!Orders : s12'.settled[o] <= c[o] /\ c[o] <= s7'[o]
    BY DEF SellLocal, WithLocal, WithSettled, WithCursor, SellStages
  <1>1. PICK c \in [Sell!Orders -> Nat], b \in Nat :
            /\ b <= s5 /\ s12.local = SellHolding + b - Sell!Total(c, Sell!Orders)
            /\ \A o \in Sell!Orders : s12.settled[o] <= c[o] /\ c[o] <= s7[o]
    BY DEF SellLocal
  <1>2. b <= s5' /\ s12'.local = SellHolding + b - Sell!Total(c, Sell!Orders)
    <2>1. b <= s5'
      BY <1>1 DEF SellTypes
    <2> QED BY <2>1, <1>1
  <1>3. \A o \in Sell!Orders : s12'.settled[o] <= c[o] /\ c[o] <= s7'[o]
    BY <1>1 DEF SellTypes
  <1> QED BY <1>2, <1>3

\* Fills, settlement and the reconciliation pass keep the invariant.
LEMMA SellWorld ==
    ASSUME SellInv, ~PassBetween, Sell!World
    PROVE  SellInv'
  <1>0. SellTypes /\ SellChain /\ SellReads /\ SellLocal /\ SellOutside
    BY DEF SellInv
  <1>1. ASSUME NEW o \in Sell!Orders, Sell!Fill(o) PROVE SellInv'
    <2>0. UNCHANGED <<s11, s12>>
      BY <1>1 DEF Sell!Fill
    <2>1. SellTypes'
      BY <1>0, <1>1, SellConstants DEF SellTypes, Sell!Fill, Sell!IsOpen, Sell!Add, Sell!broker, Sell!settlement
    <2>2. SellChain'
      BY <1>0, <1>1, SellConstants DEF SellTypes, SellChain, Sell!Fill, Sell!IsOpen, Sell!Add, Sell!broker,
            Sell!settlement
    <2>3. SellReads'
      BY <1>0, <1>1, SellConstants DEF SellTypes, SellReads, SellStages, WithCursor, WithSettled, Sell!Fill,
            Sell!IsOpen, Sell!Add, Sell!broker, Sell!settlement
    <2>4. s5 <= s5' /\ \A x \in Sell!Orders : s7[x] <= s7'[x]
      BY <1>0, <1>1, SellConstants DEF SellTypes, Sell!Fill, Sell!IsOpen, Sell!Add, Sell!broker, Sell!settlement
    <2>5. SellLocal'
      BY <1>0, <2>0, <2>1, <2>4, SellLocalKept
    <2>6. SellOutside'
      BY <1>0, <1>1, SellConstants DEF SellTypes, SellOutside, Sell!Fill, Sell!IsOpen, Sell!Add, Sell!broker,
            Sell!settlement
    <2> QED BY <2>1, <2>2, <2>3, <2>5, <2>6 DEF SellInv
  <1>2. ASSUME NEW o \in Sell!Orders, Sell!Cancel(o) PROVE SellInv'
    <2>0. UNCHANGED <<s11, s12>>
      BY <1>2 DEF Sell!Cancel
    <2>1. SellTypes'
      BY <1>0, <1>2, SellConstants DEF SellTypes, Sell!Cancel, Sell!IsOpen, Sell!broker, Sell!settlement
    <2>2. SellChain'
      BY <1>0, <1>2, SellConstants DEF SellTypes, SellChain, Sell!Cancel, Sell!IsOpen, Sell!broker,
            Sell!settlement
    <2>3. SellReads'
      BY <1>0, <1>2, SellConstants DEF SellTypes, SellReads, SellStages, WithCursor, WithSettled, Sell!Cancel,
            Sell!IsOpen, Sell!broker, Sell!settlement
    <2>4. s5 <= s5' /\ \A x \in Sell!Orders : s7[x] <= s7'[x]
      BY <1>0, <1>2, SellConstants DEF SellTypes, Sell!Cancel, Sell!IsOpen, Sell!broker, Sell!settlement
    <2>5. SellLocal'
      BY <1>0, <2>0, <2>1, <2>4, SellLocalKept
    <2>6. SellOutside'
      BY <1>0, <1>2, SellConstants DEF SellTypes, SellOutside, Sell!Cancel, Sell!IsOpen, Sell!broker,
            Sell!settlement
    <2> QED BY <2>1, <2>2, <2>3, <2>5, <2>6 DEF SellInv
  <1>3. ASSUME NEW o \in Sell!Orders, Sell!PlaceExternal(o) PROVE SellInv'
    <2>0. UNCHANGED <<s11, s12>>
      BY <1>3 DEF Sell!PlaceExternal
    <2>1. SellTypes'
      BY <1>0, <1>3, SellConstants DEF SellTypes, Sell!PlaceExternal, Sell!broker, Sell!settlement
    <2>2. SellChain'
      BY <1>0, <1>3, SellConstants DEF SellTypes, SellChain, Sell!PlaceExternal, Sell!broker, Sell!settlement
    <2>3. SellReads'
      BY <1>0, <1>3, SellConstants DEF SellTypes, SellReads, SellStages, WithCursor, WithSettled,
            Sell!PlaceExternal, Sell!broker, Sell!settlement
    <2>4. s5 <= s5' /\ \A x \in Sell!Orders : s7[x] <= s7'[x]
      BY <1>0, <1>3, SellConstants DEF SellTypes, Sell!PlaceExternal, Sell!broker, Sell!settlement
    <2>5. SellLocal'
      BY <1>0, <2>0, <2>1, <2>4, SellLocalKept
    <2>6. SellOutside'
      BY <1>0, <1>3, SellConstants DEF SellTypes, SellOutside, Sell!PlaceExternal, Sell!broker, Sell!settlement
    <2> QED BY <2>1, <2>2, <2>3, <2>5, <2>6 DEF SellInv
  <1>4. ASSUME NEW o \in Sell!Orders, Sell!Attribute(o) PROVE SellInv'
    <2>0. UNCHANGED <<s11, s12>>
      BY <1>4 DEF Sell!Attribute
    <2>1. SellTypes'
      BY <1>0, <1>4, SellConstants DEF SellTypes, Sell!Attribute, Sell!Add, Sell!broker, Sell!settlement
    <2>2. SellChain'
      BY <1>0, <1>4, SellConstants DEF SellTypes, SellChain, Sell!Attribute, Sell!Add, Sell!broker,
            Sell!settlement
    <2>3. SellReads'
      BY <1>0, <1>4, SellConstants DEF SellTypes, SellReads, SellStages, WithCursor, WithSettled,
            Sell!Attribute, Sell!Add, Sell!broker, Sell!settlement
    <2>4. s5 <= s5' /\ \A x \in Sell!Orders : s7[x] <= s7'[x]
      BY <1>0, <1>4, SellConstants DEF SellTypes, Sell!Attribute, Sell!Add, Sell!broker, Sell!settlement
    <2>5. SellLocal'
      BY <1>0, <2>0, <2>1, <2>4, SellLocalKept
    <2>6. SellOutside'
      BY <1>0, <1>4, SellConstants DEF SellTypes, SellOutside, Sell!Attribute, Sell!Add, Sell!broker,
            Sell!settlement
    <2> QED BY <2>1, <2>2, <2>3, <2>5, <2>6 DEF SellInv
  <1>5. ASSUME NEW o \in Sell!Orders, Sell!CloseLots(o) PROVE SellInv'
    <2>0. UNCHANGED <<s11, s12>>
      BY <1>5 DEF Sell!CloseLots
    <2>1. SellTypes'
      BY <1>0, <1>5, SellConstants DEF SellTypes, Sell!CloseLots, Sell!Add, Sell!broker, Sell!settlement
    <2>2. SellChain'
      BY <1>0, <1>5, SellConstants DEF SellTypes, SellChain, Sell!CloseLots, Sell!Add, Sell!broker,
            Sell!settlement
    <2>3. SellReads'
      BY <1>0, <1>5, SellConstants DEF SellTypes, SellReads, SellStages, WithCursor, WithSettled,
            Sell!CloseLots, Sell!Add, Sell!broker, Sell!settlement
    <2>4. s5 <= s5' /\ \A x \in Sell!Orders : s7[x] <= s7'[x]
      BY <1>0, <1>5, SellConstants DEF SellTypes, Sell!CloseLots, Sell!Add, Sell!broker, Sell!settlement
    <2>5. SellLocal'
      BY <1>0, <2>0, <2>1, <2>4, SellLocalKept
    <2>6. SellOutside'
      BY <1>0, <1>5, SellConstants DEF SellTypes, SellOutside, Sell!CloseLots, Sell!Add, Sell!broker,
            Sell!settlement
    <2> QED BY <2>1, <2>2, <2>3, <2>5, <2>6 DEF SellInv
  <1>6. ASSUME NEW o \in Sell!Orders, Sell!Complete(o) PROVE SellInv'
    <2>0. UNCHANGED <<s11, s12>>
      BY <1>6 DEF Sell!Complete
    <2>1. SellTypes'
      BY <1>0, <1>6, SellConstants DEF SellTypes, Sell!Complete, Sell!Add, Sell!broker, Sell!settlement
    <2>2. SellChain'
      BY <1>0, <1>6, SellConstants DEF SellTypes, SellChain, Sell!Complete, Sell!Add, Sell!broker,
            Sell!settlement
    <2>3. SellReads'
      BY <1>0, <1>6, SellConstants DEF SellTypes, SellReads, SellStages, WithCursor, WithSettled, Sell!Complete,
            Sell!Add, Sell!broker, Sell!settlement
    <2>4. s5 <= s5' /\ \A x \in Sell!Orders : s7[x] <= s7'[x]
      BY <1>0, <1>6, SellConstants DEF SellTypes, Sell!Complete, Sell!Add, Sell!broker, Sell!settlement
    <2>5. SellLocal'
      BY <1>0, <2>0, <2>1, <2>4, SellLocalKept
    <2>6. SellOutside'
      BY <1>0, <1>6, SellConstants DEF SellTypes, SellOutside, Sell!Complete, Sell!Add, Sell!broker,
            Sell!settlement
    <2> QED BY <2>1, <2>2, <2>3, <2>5, <2>6 DEF SellInv
  <1>7. ASSUME NEW o \in Sell!Orders, Sell!Finish(o) PROVE SellInv'
    <2>0. UNCHANGED <<s11, s12>>
      BY <1>7 DEF Sell!Finish
    <2>1. SellTypes'
      BY <1>0, <1>7, SellConstants DEF SellTypes, Sell!Finish, Sell!broker, Sell!settlement
    <2>2. SellChain'
      BY <1>0, <1>7, SellConstants DEF SellTypes, SellChain, Sell!Finish, Sell!broker, Sell!settlement
    <2>3. SellReads'
      BY <1>0, <1>7, SellConstants DEF SellTypes, SellReads, SellStages, WithCursor, WithSettled, Sell!Finish,
            Sell!broker, Sell!settlement
    <2>4. s5 <= s5' /\ \A x \in Sell!Orders : s7[x] <= s7'[x]
      BY <1>0, <1>7, SellConstants DEF SellTypes, Sell!Finish, Sell!broker, Sell!settlement
    <2>5. SellLocal'
      BY <1>0, <2>0, <2>1, <2>4, SellLocalKept
    <2>6. SellOutside'
      BY <1>0, <1>7, SellConstants DEF SellTypes, SellOutside, Sell!Finish, Sell!broker, Sell!settlement
    <2> QED BY <2>1, <2>2, <2>3, <2>5, <2>6 DEF SellInv
  <1>8. CASE Sell!Buy
    <2>0. UNCHANGED <<s11, s12>>
      BY <1>8 DEF Sell!Buy
    <2>1. SellTypes'
      BY <1>0, <1>8, SellConstants DEF SellTypes, Sell!Buy, Sell!broker, Sell!settlement
    <2>2. SellChain'
      BY <1>0, <1>8, SellConstants DEF SellTypes, SellChain, Sell!Buy, Sell!broker, Sell!settlement
    <2>3. SellReads'
      BY <1>0, <1>8, SellConstants DEF SellTypes, SellReads, SellStages, WithCursor, WithSettled, Sell!Buy,
            Sell!broker, Sell!settlement
    <2>4. s5 <= s5' /\ \A x \in Sell!Orders : s7[x] <= s7'[x]
      BY <1>0, <1>8, SellConstants DEF SellTypes, Sell!Buy, Sell!broker, Sell!settlement
    <2>5. SellLocal'
      BY <1>0, <2>0, <2>1, <2>4, SellLocalKept
    <2>6. SellOutside'
      BY <1>0, <1>8, SellConstants DEF SellTypes, SellOutside, Sell!Buy, Sell!broker, Sell!settlement
    <2> QED BY <2>1, <2>2, <2>3, <2>5, <2>6 DEF SellInv
  <1>9. CASE Sell!Reflect
    <2>0. UNCHANGED <<s11, s12>>
      BY <1>9 DEF Sell!Reflect
    <2>1. SellTypes'
      BY <1>0, <1>9, SellConstants DEF SellTypes, Sell!Reflect, Sell!broker, Sell!settlement
    <2>2. SellChain'
      BY <1>0, <1>9, SellConstants DEF SellTypes, SellChain, Sell!Reflect, Sell!broker, Sell!settlement
    <2>3. SellReads'
      BY <1>0, <1>9, SellConstants DEF SellTypes, SellReads, SellStages, WithCursor, WithSettled, Sell!Reflect,
            Sell!broker, Sell!settlement
    <2>4. s5 <= s5' /\ \A x \in Sell!Orders : s7[x] <= s7'[x]
      BY <1>0, <1>9, SellConstants DEF SellTypes, Sell!Reflect, Sell!broker, Sell!settlement
    <2>5. SellLocal'
      BY <1>0, <2>0, <2>1, <2>4, SellLocalKept
    <2>6. SellOutside'
      BY <1>0, <1>9, SellConstants DEF SellTypes, SellOutside, Sell!Reflect, Sell!broker, Sell!settlement
    <2> QED BY <2>1, <2>2, <2>3, <2>5, <2>6 DEF SellInv
  <1>10. CASE Sell!OpenLot
    <2>0. UNCHANGED <<s11, s12>>
      BY <1>10 DEF Sell!OpenLot
    <2>1. SellTypes'
      BY <1>0, <1>10, SellConstants DEF SellTypes, Sell!OpenLot, Sell!broker, Sell!settlement
    <2>2. SellChain'
      BY <1>0, <1>10, SellConstants DEF SellTypes, SellChain, Sell!OpenLot, Sell!broker, Sell!settlement
    <2>3. SellReads'
      BY <1>0, <1>10, SellConstants DEF SellTypes, SellReads, SellStages, WithCursor, WithSettled, Sell!OpenLot,
            Sell!broker, Sell!settlement
    <2>4. s5 <= s5' /\ \A x \in Sell!Orders : s7[x] <= s7'[x]
      BY <1>0, <1>10, SellConstants DEF SellTypes, Sell!OpenLot, Sell!broker, Sell!settlement
    <2>5. SellLocal'
      BY <1>0, <2>0, <2>1, <2>4, SellLocalKept
    <2>6. SellOutside'
      BY <1>0, <1>10, SellConstants DEF SellTypes, SellOutside, Sell!OpenLot, Sell!broker, Sell!settlement
    <2> QED BY <2>1, <2>2, <2>3, <2>5, <2>6 DEF SellInv
  <1>11. CASE Sell!RecordPass
    <2>0. UNCHANGED <<s11, s12>>
      BY <1>11 DEF Sell!RecordPass
    <2>1. SellTypes'
      BY <1>0, <1>11, SellConstants DEF SellTypes, Sell!RecordPass, Sell!broker, Sell!settlement
    <2>2. SellChain'
      BY <1>0, <1>11, SellConstants DEF SellTypes, SellChain, Sell!RecordPass, Sell!broker, Sell!settlement
    <2>3. SellReads'
      BY <1>0, <1>11, SellConstants DEF SellTypes, SellReads, SellStages, WithCursor, WithSettled,
            Sell!RecordPass, Sell!broker, Sell!settlement
    <2>4. s5 <= s5' /\ \A x \in Sell!Orders : s7[x] <= s7'[x]
      BY <1>0, <1>11, SellConstants DEF SellTypes, Sell!RecordPass, Sell!broker, Sell!settlement
    <2>5. SellLocal'
      BY <1>0, <2>0, <2>1, <2>4, SellLocalKept
    <2>6. SellOutside'
      BY <1>0, <1>11, SellConstants DEF SellTypes, SellOutside, Sell!RecordPass, Sell!broker, Sell!settlement
    <2> QED BY <2>1, <2>2, <2>3, <2>5, <2>6 DEF SellInv
  <1> QED BY <1>1, <1>2, <1>3, <1>4, <1>5, <1>6, <1>7, <1>8, <1>9, <1>10, <1>11 DEF Sell!World

\* So do the reads of the authorization.
LEMMA SellReading ==
    ASSUME SellInv, Sell!Authorization
    PROVE  SellInv'
  <1>0. SellTypes /\ SellChain /\ SellReads /\ SellLocal /\ SellOutside
    BY DEF SellInv
  <1>a. UNCHANGED <<s1, s2, s3, s4, s5, s6, s7, s8, s9, s10>>
    BY DEF Sell!Authorization, Sell!CheckUnresolved, Sell!ReadIntents, Sell!ReadCursor, Sell!ReadSettled,
          Sell!ReadLocal, Sell!ReadFirst, Sell!ReadPosition,
           Sell!ReadSecond, Sell!ReadActivities, Sell!Return, Sell!Read, Sell!broker, Sell!settlement
  <1>b. SellChain'
    BY <1>0, <1>a DEF SellChain
  <1>1. CASE Sell!CheckUnresolved
    <2>1. SellTypes'
      BY <1>0, <1>a, <1>1, SellConstants DEF SellTypes, Sell!CheckUnresolved, Sell!Unresolved, Sell!Read,
            Sell!broker, Sell!settlement
    <2>2. SellReads'
      BY <1>0, <1>a, <1>1, SellConstants DEF SellTypes, SellChain, SellReads, SellStages, WithCursor,
            WithSettled, Sell!CheckUnresolved, Sell!Unresolved, Sell!Read, Sell!broker, Sell!settlement
    <2>3. SellLocal'
      <3>1. s11' \in WithLocal => s11 \in WithLocal /\ s12'.local = s12.local /\ s12'.settled = s12.settled
        BY <1>0, <1>1 DEF SellTypes, WithLocal, WithSettled, WithCursor, SellStages, Sell!CheckUnresolved,
              Sell!Read, Sell!broker
      <3>2. s5 <= s5' /\ \A o \in Sell!Orders : s7[o] <= s7'[o]
        BY <1>0, <1>a DEF SellTypes
      <3>3. CASE s11' \notin WithLocal
        BY <3>3 DEF SellLocal
      <3>4. CASE s11' \in WithLocal
        BY <1>0, <2>1, <3>1, <3>2, <3>4, SellLocalKept
      <3> QED BY <3>3, <3>4
    <2>4. SellOutside'
      BY <1>0, <1>a, <1>1, SellConstants DEF SellTypes, SellReads, SellOutside, SellStages,
            Sell!CheckUnresolved, Sell!Unresolved, Sell!Read, Sell!broker, Sell!settlement
    <2> QED BY <1>b, <2>1, <2>2, <2>3, <2>4 DEF SellInv
  <1>2. CASE Sell!ReadIntents
    <2>1. SellTypes'
      BY <1>0, <1>a, <1>2, SellConstants DEF SellTypes, Sell!ReadIntents, Sell!Read, Sell!broker,
            Sell!settlement
    <2>2. SellReads'
      BY <1>0, <1>a, <1>2, SellConstants DEF SellTypes, SellChain, SellReads, SellStages, WithCursor,
            WithSettled, Sell!ReadIntents, Sell!Read, Sell!broker, Sell!settlement
    <2>3. SellLocal'
      <3>1. s11' \in WithLocal => s11 \in WithLocal /\ s12'.local = s12.local /\ s12'.settled = s12.settled
        BY <1>0, <1>2 DEF SellTypes, WithLocal, WithSettled, WithCursor, SellStages, Sell!ReadIntents,
              Sell!Read, Sell!broker
      <3>2. s5 <= s5' /\ \A o \in Sell!Orders : s7[o] <= s7'[o]
        BY <1>0, <1>a DEF SellTypes
      <3>3. CASE s11' \notin WithLocal
        BY <3>3 DEF SellLocal
      <3>4. CASE s11' \in WithLocal
        BY <1>0, <2>1, <3>1, <3>2, <3>4, SellLocalKept
      <3> QED BY <3>3, <3>4
    <2>4. SellOutside'
      BY <1>0, <1>a, <1>2, SellConstants DEF SellTypes, SellReads, SellOutside, SellStages, Sell!ReadIntents,
            Sell!Read, Sell!broker, Sell!settlement
    <2> QED BY <1>b, <2>1, <2>2, <2>3, <2>4 DEF SellInv
  <1>3. CASE Sell!ReadCursor
    <2>1. SellTypes'
      BY <1>0, <1>a, <1>3, SellConstants DEF SellTypes, Sell!ReadCursor, Sell!Read, Sell!broker, Sell!settlement
    <2>2. SellReads'
      BY <1>0, <1>a, <1>3, SellConstants DEF SellTypes, SellChain, SellReads, SellStages, WithCursor,
            WithSettled, Sell!ReadCursor, Sell!Read, Sell!broker, Sell!settlement
    <2>3. SellLocal'
      <3>1. s11' \in WithLocal => s11 \in WithLocal /\ s12'.local = s12.local /\ s12'.settled = s12.settled
        BY <1>0, <1>3 DEF SellTypes, WithLocal, WithSettled, WithCursor, SellStages, Sell!ReadCursor, Sell!Read,
              Sell!broker
      <3>2. s5 <= s5' /\ \A o \in Sell!Orders : s7[o] <= s7'[o]
        BY <1>0, <1>a DEF SellTypes
      <3>3. CASE s11' \notin WithLocal
        BY <3>3 DEF SellLocal
      <3>4. CASE s11' \in WithLocal
        BY <1>0, <2>1, <3>1, <3>2, <3>4, SellLocalKept
      <3> QED BY <3>3, <3>4
    <2>4. SellOutside'
      BY <1>0, <1>a, <1>3, SellConstants DEF SellTypes, SellReads, SellOutside, SellStages, Sell!ReadCursor,
            Sell!Read, Sell!broker, Sell!settlement
    <2> QED BY <1>b, <2>1, <2>2, <2>3, <2>4 DEF SellInv
  <1>4. CASE Sell!ReadSettled
    <2>1. SellTypes'
      BY <1>0, <1>a, <1>4, SellConstants DEF SellTypes, Sell!ReadSettled, Sell!Read, Sell!broker,
            Sell!settlement
    <2>2. SellReads'
      BY <1>0, <1>a, <1>4, SellConstants DEF SellTypes, SellChain, SellReads, SellStages, WithCursor,
            WithSettled, Sell!ReadSettled, Sell!Read, Sell!broker, Sell!settlement
    <2>3. SellLocal'
      <3>1. s11' \in WithLocal => s11 \in WithLocal /\ s12'.local = s12.local /\ s12'.settled = s12.settled
        BY <1>0, <1>4 DEF SellTypes, WithLocal, WithSettled, WithCursor, SellStages, Sell!ReadSettled,
              Sell!Read, Sell!broker
      <3>2. s5 <= s5' /\ \A o \in Sell!Orders : s7[o] <= s7'[o]
        BY <1>0, <1>a DEF SellTypes
      <3>3. CASE s11' \notin WithLocal
        BY <3>3 DEF SellLocal
      <3>4. CASE s11' \in WithLocal
        BY <1>0, <2>1, <3>1, <3>2, <3>4, SellLocalKept
      <3> QED BY <3>3, <3>4
    <2>4. SellOutside'
      BY <1>0, <1>a, <1>4, SellConstants DEF SellTypes, SellReads, SellOutside, SellStages, Sell!ReadSettled,
            Sell!Read, Sell!broker, Sell!settlement
    <2> QED BY <1>b, <2>1, <2>2, <2>3, <2>4 DEF SellInv
  <1>5. CASE Sell!ReadLocal
    <2>0. Sell!LocalLong \in Int
      BY <1>0, SellConstants, SumType, SellTotal DEF SellTypes, Sell!LocalLong
    <2>1. SellTypes'
      BY <1>0, <1>a, <1>5, <2>0, SellConstants DEF SellTypes, Sell!ReadLocal, Sell!Read, Sell!broker,
            Sell!settlement
    <2>2. SellReads'
      BY <1>0, <1>a, <1>5, SellConstants DEF SellTypes, SellChain, SellReads, SellStages, WithCursor,
            WithSettled, Sell!ReadLocal, Sell!LocalLong, Sell!Read, Sell!broker, Sell!settlement
    <2>3. SellLocal'
      <3>1. s7 \in [Sell!Orders -> Nat] /\ s5 \in Nat /\ s12'.local = SellHolding + s5 - Sell!Total(s7, Sell!Orders)
        BY <1>0, <1>5 DEF SellTypes, Sell!ReadLocal, Sell!Read, Sell!LocalLong
      <3>2. \A o \in Sell!Orders : s12'.settled[o] <= s7[o]
        BY <1>0, <1>5 DEF SellTypes, SellChain, SellReads, Sell!ReadLocal, Sell!Read, WithSettled, WithCursor,
              SellStages
      <3>3. s5 <= s5' /\ \A o \in Sell!Orders : s7[o] <= s7'[o]
        BY <1>0, <1>a DEF SellTypes
      <3> QED BY <3>1, <3>2, <3>3 DEF SellLocal
    <2>4. SellOutside'
      BY <1>0, <1>a, <1>5, SellConstants DEF SellTypes, SellReads, SellOutside, SellStages, Sell!ReadLocal,
            Sell!LocalLong, Sell!Read, Sell!broker, Sell!settlement
    <2> QED BY <1>b, <2>1, <2>2, <2>3, <2>4 DEF SellInv
  <1>6. CASE Sell!ReadFirst
    <2>1. SellTypes'
      BY <1>0, <1>a, <1>6, SellConstants DEF SellTypes, Sell!ReadFirst, Sell!OpenOrders, Sell!IsOpen, Sell!Read,
            Sell!broker, Sell!settlement
    <2>2. SellReads'
      BY <1>0, <1>a, <1>6, SellConstants DEF SellTypes, SellChain, SellReads, SellStages, WithCursor,
            WithSettled, Sell!ReadFirst, Sell!OpenOrders, Sell!IsOpen, Sell!Read, Sell!broker, Sell!settlement
    <2>3. SellLocal'
      <3>1. s11' \in WithLocal => s11 \in WithLocal /\ s12'.local = s12.local /\ s12'.settled = s12.settled
        BY <1>0, <1>6 DEF SellTypes, WithLocal, WithSettled, WithCursor, SellStages, Sell!ReadFirst, Sell!Read,
              Sell!broker
      <3>2. s5 <= s5' /\ \A o \in Sell!Orders : s7[o] <= s7'[o]
        BY <1>0, <1>a DEF SellTypes
      <3>3. CASE s11' \notin WithLocal
        BY <3>3 DEF SellLocal
      <3>4. CASE s11' \in WithLocal
        BY <1>0, <2>1, <3>1, <3>2, <3>4, SellLocalKept
      <3> QED BY <3>3, <3>4
    <2>4. SellOutside'
      BY <1>0, <1>a, <1>6, SellConstants DEF SellTypes, SellReads, SellOutside, SellStages, Sell!ReadFirst,
            Sell!OpenOrders, Sell!IsOpen, Sell!Read, Sell!broker, Sell!settlement
    <2> QED BY <1>b, <2>1, <2>2, <2>3, <2>4 DEF SellInv
  <1>7. CASE Sell!ReadPosition
    <2>0. Sell!Held + s3 \in Int
      BY <1>0, SellConstants, SumType, SellTotal DEF SellTypes, Sell!Held
    <2>1. SellTypes'
      BY <1>0, <1>a, <1>7, <2>0, SellConstants DEF SellTypes, Sell!ReadPosition, Sell!Read, Sell!broker,
            Sell!settlement
    <2>2. SellReads'
      BY <1>0, <1>a, <1>7, SellConstants DEF SellTypes, SellChain, SellReads, SellStages, WithCursor,
            WithSettled, Sell!ReadPosition, Sell!Held, Sell!Read, Sell!broker, Sell!settlement
    <2>3. SellLocal'
      <3>1. s11' \in WithLocal => s11 \in WithLocal /\ s12'.local = s12.local /\ s12'.settled = s12.settled
        BY <1>0, <1>7 DEF SellTypes, WithLocal, WithSettled, WithCursor, SellStages, Sell!ReadPosition,
              Sell!Read, Sell!broker
      <3>2. s5 <= s5' /\ \A o \in Sell!Orders : s7[o] <= s7'[o]
        BY <1>0, <1>a DEF SellTypes
      <3>3. CASE s11' \notin WithLocal
        BY <3>3 DEF SellLocal
      <3>4. CASE s11' \in WithLocal
        BY <1>0, <2>1, <3>1, <3>2, <3>4, SellLocalKept
      <3> QED BY <3>3, <3>4
    <2>4. SellOutside'
      BY <1>0, <1>a, <1>7, SellConstants DEF SellTypes, SellReads, SellOutside, SellStages, Sell!ReadPosition,
            Sell!Held, Sell!Read, Sell!broker, Sell!settlement
    <2> QED BY <1>b, <2>1, <2>2, <2>3, <2>4 DEF SellInv
  <1>8. CASE Sell!ReadSecond
    <2>1. SellTypes'
      BY <1>0, <1>a, <1>8, SellConstants DEF SellTypes, Sell!ReadSecond, Sell!OpenOrders, Sell!IsOpen,
            Sell!Read, Sell!broker, Sell!settlement
    <2>2. SellReads'
      BY <1>0, <1>a, <1>8, SellConstants DEF SellTypes, SellChain, SellReads, SellStages, WithCursor,
            WithSettled, Sell!ReadSecond, Sell!OpenOrders, Sell!IsOpen, Sell!Read, Sell!broker, Sell!settlement
    <2>3. SellLocal'
      <3>1. s11' \in WithLocal => s11 \in WithLocal /\ s12'.local = s12.local /\ s12'.settled = s12.settled
        BY <1>0, <1>8 DEF SellTypes, WithLocal, WithSettled, WithCursor, SellStages, Sell!ReadSecond, Sell!Read,
              Sell!broker
      <3>2. s5 <= s5' /\ \A o \in Sell!Orders : s7[o] <= s7'[o]
        BY <1>0, <1>a DEF SellTypes
      <3>3. CASE s11' \notin WithLocal
        BY <3>3 DEF SellLocal
      <3>4. CASE s11' \in WithLocal
        BY <1>0, <2>1, <3>1, <3>2, <3>4, SellLocalKept
      <3> QED BY <3>3, <3>4
    <2>4. SellOutside'
      BY <1>0, <1>a, <1>8, SellConstants DEF SellTypes, SellReads, SellOutside, SellStages, Sell!ReadSecond,
            Sell!OpenOrders, Sell!IsOpen, Sell!Read, Sell!broker, Sell!settlement
    <2> QED BY <1>b, <2>1, <2>2, <2>3, <2>4 DEF SellInv
  <1>9. CASE Sell!ReadActivities
    <2>1. SellTypes'
      BY <1>0, <1>a, <1>9, SellConstants DEF SellTypes, Sell!ReadActivities, Sell!Unreconciled, Sell!Read,
            Sell!broker, Sell!settlement
    <2>2. SellReads'
      BY <1>0, <1>a, <1>9, SellConstants DEF SellTypes, SellChain, SellReads, SellStages, WithCursor,
            WithSettled, Sell!ReadActivities, Sell!Unreconciled, Sell!Read, Sell!broker, Sell!settlement
    <2>3. SellLocal'
      <3>1. s11' \in WithLocal => s11 \in WithLocal /\ s12'.local = s12.local /\ s12'.settled = s12.settled
        BY <1>0, <1>9 DEF SellTypes, WithLocal, WithSettled, WithCursor, SellStages, Sell!ReadActivities,
              Sell!Read, Sell!broker
      <3>2. s5 <= s5' /\ \A o \in Sell!Orders : s7[o] <= s7'[o]
        BY <1>0, <1>a DEF SellTypes
      <3>3. CASE s11' \notin WithLocal
        BY <3>3 DEF SellLocal
      <3>4. CASE s11' \in WithLocal
        BY <1>0, <2>1, <3>1, <3>2, <3>4, SellLocalKept
      <3> QED BY <3>3, <3>4
    <2>4. SellOutside'
      <3> SUFFICES ASSUME NEW o \in SellExternal, s12'.first[o] < 0
                   PROVE  s1'[o] # "open" /\ s2'[o] = 0
        BY DEF SellOutside
      <3>1. s1[o] # "open" /\ s11 = "second" /\ s12' = s12
        BY <1>0, <1>9 DEF SellOutside, Sell!ReadActivities, Sell!Read
      <3>2. s12.cursor[o] <= s6[o] /\ s6[o] = 0 /\ s12.cursor[o] \in Nat
        BY <1>0, <3>1, SellConstants DEF SellTypes, SellChain, SellReads, WithCursor, SellStages
      <3>3. \A n \in 1..s2[o] : ~(n > s12.cursor[o] /\ n > s6[o])
        BY <1>9, SellConstants DEF Sell!ReadActivities, Sell!Unreconciled
      <3>4. s2[o] \in Nat
        BY <1>0, SellConstants DEF SellTypes
      <3>5. s2[o] = 0
        <4> SUFFICES ASSUME s2[o] # 0 PROVE FALSE
          OBVIOUS
        <4>1. 1 \in 1..s2[o]
          BY <3>4
        <4> QED BY <4>1, <3>2, <3>3
      <3> QED BY <1>a, <3>1, <3>5
    <2> QED BY <1>b, <2>1, <2>2, <2>3, <2>4 DEF SellInv
  <1>10. CASE Sell!Return
    <2>1. SellTypes'
      BY <1>0, <1>a, <1>10, SellConstants DEF SellTypes, Sell!Return, Sell!Nothing, Sell!Zero, Sell!NoOrders,
            Sell!broker, Sell!settlement
    <2>2. SellReads'
      BY <1>0, <1>a, <1>10, SellConstants DEF SellTypes, SellChain, SellReads, SellStages, WithCursor,
            WithSettled, Sell!Return, Sell!Nothing, Sell!Zero, Sell!NoOrders, Sell!broker, Sell!settlement
    <2>3. SellLocal'
      <3>1. s11' \in WithLocal => s11 \in WithLocal /\ s12'.local = s12.local /\ s12'.settled = s12.settled
        BY <1>0, <1>10 DEF SellTypes, WithLocal, WithSettled, WithCursor, SellStages, Sell!Return, Sell!broker
      <3>2. s5 <= s5' /\ \A o \in Sell!Orders : s7[o] <= s7'[o]
        BY <1>0, <1>a DEF SellTypes
      <3>3. CASE s11' \notin WithLocal
        BY <3>3 DEF SellLocal
      <3>4. CASE s11' \in WithLocal
        BY <1>0, <2>1, <3>1, <3>2, <3>4, SellLocalKept
      <3> QED BY <3>3, <3>4
    <2>4. SellOutside'
      BY <1>0, <1>a, <1>10, SellConstants DEF SellTypes, SellReads, SellOutside, SellStages, Sell!Return,
            Sell!Nothing, Sell!Zero, Sell!NoOrders, Sell!broker, Sell!settlement
    <2> QED BY <1>b, <2>1, <2>2, <2>3, <2>4 DEF SellInv
  <1> QED BY <1>1, <1>2, <1>3, <1>4, <1>5, <1>6, <1>7, <1>8, <1>9, <1>10 DEF Sell!Authorization

LEMMA SellStep ==
    ASSUME SellInv, ~PassBetween, [Sell!Next]_Sell!vars
    PROVE  SellInv'
  <1>1. CASE UNCHANGED Sell!vars
    <2>1. UNCHANGED <<s1, s2, s3, s4, s5, s6, s7, s8, s9, s10, s11, s12>>
      BY <1>1 DEF Sell!vars, Sell!broker, Sell!settlement
    <2> QED BY <2>1 DEF SellInv, SellTypes, SellChain, SellReads, SellLocal, SellOutside
  <1> QED BY <1>1, SellWorld, SellReading DEF Sell!Next

\* A sum over some orders, as a sum over all of them.
LEMMA SellPart ==
    ASSUME NEW T \in SUBSET Sell!Orders, NEW f, \A x \in T : f[x] \in Int,
           NEW g, g = [x \in Sell!Orders |-> IF x \in T THEN f[x] ELSE 0]
    PROVE  SumFunctionOnSet(f, T) = SumFunctionOnSet(g, Sell!Orders)
  BY SumOfPart, SellConstants

\* The argument of sellable.py, order by order: what an order may still take or
\* has taken is in the part of the bound that counts it.
LEMMA LocalBoundIsFree ==
    ASSUME SellInv, s11 = "ready"
    PROVE  Sell!LocalBound \in Int /\ Sell!Free \in Int /\ Sell!LocalBound <= Sell!Free
  <1>0. SellTypes /\ SellChain /\ SellReads /\ SellLocal /\ SellOutside
    BY DEF SellInv
  <1>1. PICK c \in [Sell!Orders -> Nat], b \in Nat :
            /\ b <= s5 /\ s12.local = SellHolding + b - Sell!Total(c, Sell!Orders)
            /\ \A o \in Sell!Orders : s12.settled[o] <= c[o] /\ c[o] <= s7[o]
    BY <1>0 DEF SellLocal, WithLocal, WithSettled, WithCursor, SellStages
  <1> DEFINE opened == {o \in Sell!Orders : Sell!IsOpen(o)}
             rest == [o \in Sell!Orders |-> SellQuantity[o] - s2[o]]
             unsettled == [o \in Sell!Orders |-> SellQuantity[o] - s12.settled[o]]
             own == [o \in Sell!Orders |-> IF o \in Sell!PendingOwn THEN unsettled[o] ELSE 0]
             external == [o \in Sell!Orders |-> IF o \in Sell!PendingExternal THEN SellQuantity[o] ELSE 0]
             remaining == [o \in Sell!Orders |-> IF o \in opened THEN rest[o] ELSE 0]
             reserved == [o \in Sell!Orders |-> own[o] + external[o]]
             taken == [o \in Sell!Orders |-> c[o] + reserved[o]]
             gone == [o \in Sell!Orders |-> s2[o] + remaining[o]]
  <1>2. /\ Sell!PendingOwn \subseteq SellOwn /\ Sell!PendingExternal \subseteq SellExternal
        /\ Sell!PendingOwn \in SUBSET Sell!Orders /\ Sell!PendingExternal \in SUBSET Sell!Orders /\ opened \in SUBSET Sell!Orders
    BY SellConstants DEF Sell!PendingOwn, Sell!PendingExternal
  <1>3. \A o \in Sell!Orders : /\ s2[o] \in Int /\ rest[o] \in Int /\ unsettled[o] \in Int /\ SellQuantity[o] \in Int
                               /\ c[o] \in Int /\ own[o] \in Int /\ external[o] \in Int /\ remaining[o] \in Int
    BY <1>0, SellConstants DEF SellTypes
  <1>4. \A o \in Sell!Orders : reserved[o] \in Int /\ taken[o] \in Int /\ gone[o] \in Int
    BY <1>3
  <1>5. \A o \in Sell!Orders : gone[o] <= taken[o]
    <2> SUFFICES ASSUME NEW o \in Sell!Orders PROVE gone[o] <= taken[o]
      OBVIOUS
    <2>0. /\ s2[o] \in Nat /\ s6[o] \in Nat /\ s12.settled[o] \in Nat /\ s7[o] \in Nat
          /\ SellQuantity[o] \in Nat /\ c[o] \in Nat
          /\ s12.settled[o] <= c[o] /\ s2[o] <= SellQuantity[o] /\ s6[o] <= s2[o]
      BY <1>0, <1>1, SellConstants DEF SellTypes, SellChain
    <2>1. gone[o] <= SellQuantity[o] /\ (o \notin opened => gone[o] = s2[o])
      BY <2>0
    <2>2. CASE o \in Sell!PendingOwn
      <3>1. o \notin Sell!PendingExternal
        BY <1>2, <2>2, SellConstants
      <3> QED BY <2>0, <2>1, <2>2, <3>1
    <2>3. CASE o \in Sell!PendingExternal
      <3>1. o \notin Sell!PendingOwn
        BY <1>2, <2>3, SellConstants
      <3> QED BY <2>0, <2>1, <2>3, <3>1
    <2>4. CASE o \notin Sell!PendingOwn /\ o \notin Sell!PendingExternal
      <3>0. taken[o] = c[o]
        BY <2>0, <2>4
      <3>1. CASE o \in SellOwn
        <4>1. o \in s12.terminal /\ s12.settled[o] >= s6[o]
          BY <2>0, <2>4, <3>1 DEF Sell!PendingOwn
        <4>2. s1[o] = "ended" /\ s6[o] = s2[o]
          BY <1>0, <4>1 DEF SellChain, SellReads
        <4>3. o \notin opened
          BY <4>2 DEF Sell!IsOpen
        <4> QED BY <2>0, <2>1, <3>0, <4>1, <4>2, <4>3
      <3>2. CASE o \in SellExternal
        <4>1. s12.first[o] < 0
          BY <1>0, <2>4, <3>2, SellConstants DEF SellTypes, Sell!PendingExternal
        <4>2. s1[o] # "open" /\ s2[o] = 0
          BY <1>0, <4>1, <3>2 DEF SellOutside
        <4> QED BY <2>0, <2>1, <3>0, <4>2 DEF Sell!IsOpen
      <3> QED BY <3>1, <3>2, SellConstants
    <2> QED BY <2>2, <2>3, <2>4
  <1>6. SumFunctionOnSet(gone, Sell!Orders) <= SumFunctionOnSet(taken, Sell!Orders)
    <2> HIDE DEF gone, taken
    <2> QED BY <1>4, <1>5, SellConstants, SumMonotone
  <1>7. SumFunctionOnSet(gone, Sell!Orders) = SumFunctionOnSet(s2, Sell!Orders) + SumFunctionOnSet(rest, opened)
    <2>1. SumFunctionOnSet(rest, opened) = SumFunctionOnSet(remaining, Sell!Orders)
      <3>1. opened \in SUBSET Sell!Orders /\ \A o \in opened : rest[o] \in Int
        BY <1>2, <1>3
      <3>2. remaining = [o \in Sell!Orders |-> IF o \in opened THEN rest[o] ELSE 0]
        OBVIOUS
      <3> HIDE DEF rest, opened, remaining
      <3> QED BY <3>1, <3>2, SellPart
    <2>2. \A o \in Sell!Orders : s2[o] \in Int /\ remaining[o] \in Int /\ gone[o] = s2[o] + remaining[o]
      BY <1>3
    <2> HIDE DEF gone, remaining, rest, opened
    <2> QED BY <2>1, <2>2, SellConstants, SumAdds
  <1>8. SumFunctionOnSet(taken, Sell!Orders) =
            SumFunctionOnSet(c, Sell!Orders) + SumFunctionOnSet(unsettled, Sell!PendingOwn) + SumFunctionOnSet(SellQuantity, Sell!PendingExternal)
    <2>1. SumFunctionOnSet(unsettled, Sell!PendingOwn) = SumFunctionOnSet(own, Sell!Orders)
      <3>1. \A o \in Sell!PendingOwn : unsettled[o] \in Int
        BY <1>2, <1>3
      <3>2. own = [o \in Sell!Orders |-> IF o \in Sell!PendingOwn THEN unsettled[o] ELSE 0]
        OBVIOUS
      <3> HIDE DEF unsettled, own
      <3> QED BY <1>2, <3>1, <3>2, SellPart
    <2>2. SumFunctionOnSet(SellQuantity, Sell!PendingExternal) = SumFunctionOnSet(external, Sell!Orders)
      BY <1>2, <1>3, SellConstants, SumOfPart
    <2>3. \A o \in Sell!Orders : own[o] \in Int /\ external[o] \in Int /\ reserved[o] = own[o] + external[o]
      BY <1>3
    <2>4. \A o \in Sell!Orders : c[o] \in Int /\ reserved[o] \in Int /\ taken[o] = c[o] + reserved[o]
      BY <1>3, <1>4
    <2> HIDE DEF taken, reserved, own, external, unsettled
    <2>5. SumFunctionOnSet(reserved, Sell!Orders) = SumFunctionOnSet(own, Sell!Orders) + SumFunctionOnSet(external, Sell!Orders)
      BY <2>3, SellConstants, SumAdds
    <2>6. SumFunctionOnSet(taken, Sell!Orders) = SumFunctionOnSet(c, Sell!Orders) + SumFunctionOnSet(reserved, Sell!Orders)
      BY <2>4, SellConstants, SumAdds
    <2>7. /\ SumFunctionOnSet(c, Sell!Orders) \in Int
          /\ SumFunctionOnSet(own, Sell!Orders) \in Int /\ SumFunctionOnSet(external, Sell!Orders) \in Int
      BY <2>3, <2>4, SellConstants, SumType
    <2> QED BY <2>1, <2>2, <2>5, <2>6, <2>7
  <1>9. /\ SumFunctionOnSet(s2, Sell!Orders) \in Int /\ SumFunctionOnSet(c, Sell!Orders) \in Int
        /\ SumFunctionOnSet(rest, opened) \in Int /\ SumFunctionOnSet(unsettled, Sell!PendingOwn) \in Int
        /\ SumFunctionOnSet(SellQuantity, Sell!PendingExternal) \in Int
    <2>1. IsFiniteSet(opened) /\ IsFiniteSet(Sell!PendingOwn) /\ IsFiniteSet(Sell!PendingExternal)
      BY <1>2, SellConstants, FS_Subset
    <2>2. /\ \A o \in opened : rest[o] \in Int
          /\ \A o \in Sell!PendingOwn : unsettled[o] \in Int
          /\ \A o \in Sell!PendingExternal : SellQuantity[o] \in Int
      BY <1>2, <1>3
    <2> HIDE DEF rest, opened, unsettled
    <2> QED BY <1>3, <2>1, <2>2, SellConstants, SumType
  <1>10. Sell!LocalBound = s12.local - SumFunctionOnSet(unsettled, Sell!PendingOwn) - SumFunctionOnSet(SellQuantity, Sell!PendingExternal)
    BY Zenon, SellTotal DEF Sell!LocalBound
  <1>12. Sell!Free = Sell!Held - SumFunctionOnSet(rest, opened) /\ Sell!Held = SellHolding + s4 - SumFunctionOnSet(s2, Sell!Orders)
    BY SellTotal DEF Sell!Free, Sell!Held
  <1>13. s12.local = SellHolding + b - SumFunctionOnSet(c, Sell!Orders)
    BY <1>1, SellTotal
  <1>11. b <= s4 /\ b \in Int /\ s4 \in Int /\ SellHolding \in Int
    BY <1>0, <1>1, SellConstants DEF SellTypes, SellChain
  <1> HIDE DEF gone, taken, reserved, own, external, unsettled, rest, opened, remaining
  <1> QED BY <1>6, <1>7, <1>8, <1>9, <1>10, <1>11, <1>12, <1>13

LEMMA SellSafe == SellInv => Sell!SellWithinFree
  <1> SUFFICES ASSUME SellInv, s11 = "ready" PROVE Sell!Sellable <= IF Sell!Free > 0 THEN Sell!Free ELSE 0
    BY DEF Sell!SellWithinFree
  <1>1. Sell!LocalBound \in Int /\ Sell!Free \in Int /\ Sell!LocalBound <= Sell!Free
    BY LocalBoundIsFree
  <1>2. Sell!BrokerBound \in Int
    <2>0. SellTypes
      BY DEF SellInv
    <2>1. IsFiniteSet(Sell!PendingOwn \cup Sell!PendingExternal) /\ Sell!PendingOwn \cup Sell!PendingExternal \subseteq Sell!Orders
      BY SellConstants, FS_Subset DEF Sell!PendingOwn, Sell!PendingExternal
    <2>2. \A o \in Sell!PendingOwn \cup Sell!PendingExternal : SellQuantity[o] \in Int
      BY <2>1, SellConstants
    <2>3. Sell!Total(SellQuantity, Sell!PendingOwn \cup Sell!PendingExternal) \in Int
      BY <2>1, <2>2, SumType, SellTotal
    <2> QED BY <2>0, <2>3 DEF Sell!BrokerBound, SellTypes
  <1> QED BY <1>1, <1>2 DEF Sell!Sellable

-----------------------------------------------------------------------------
(***************************************************************************)
(* Exposure.  The remainders that build_portfolio_view adds up are those   *)
(* of a set of units (R of ViewCovers).  With it and the units the view    *)
(* has listed, nothing of the intents asked for so far is missing, and the *)
(* last read of the events adds the rest: an intent that is not pending    *)
(* has all its units attributed (ViewEnded), and a unit that was projected *)
(* meanwhile was held when the holdings were read, open when the events    *)
(* were, or has slipped (ViewTables).                                      *)
(*                                                                         *)
(* In Components s1 is unit, s2 is status, s3 is view, s4 is slipped, s5   *)
(* is quiet.                                                               *)
(***************************************************************************)

ViewSeen == {"intents", "events", "unsettled", "fills", "done"}
ViewListed == ViewSeen \ {"intents"}

\* The intents ViewListed so far, and the units a quiet view takes for remainders.
ViewAsked == s3.pending \ s3.todo
ViewOutstanding == View!UnitsOf(ViewAsked) \ View!In(View!Attributed)

ViewCounted == Cardinality(s3.holdings) + Cardinality(s3.unsettled) + Cardinality(s3.catchall)
ViewBeyond == Cardinality(s3.positions) - ViewCounted

\* An intent ends after its units.
ViewEnded == \A u \in ViewUnits : s2[UnitOf[u]] = "terminal" => s1[u] \in View!Attributed \cup View!Canceled

\* What a view has of the intents.
ViewLists ==
    /\ s3.todo \subseteq s3.pending
    /\ s3.at \in {"unsettled", "fills", "done"} => s3.todo = {}
    /\ s3.at \in ViewListed => \A i \in ViewIntents : i \notin s3.pending => s2[i] = "terminal"
    /\ s3.at \notin ViewListed => s3.pending = {} /\ s3.unsettled = {} /\ s3.remaining = 0
    /\ s3.at = "done" => \A u \in ViewUnits : s1[u] # "canceled" => UnitOf[u] \in s3.fills \cup s3.pending

\* A unit that is projected was seen held, or as an open event, or is known to
\* have slipped through.
ViewTables ==
    s3.at \in ViewSeen => \A u \in ViewUnits :
        s1[u] = "projected" => u \in s3.holdings \cup s3.unsettled \cup s4 \/ s3.at \in {"fills", "done"}

\* Every unit of an intent that was asked for is in one of the numbers; in the
\* end every unit is.  R are the remainders.
ViewCovers(R) ==
    /\ R \subseteq View!UnitsOf(ViewAsked) /\ Cardinality(R) = s3.remaining
    /\ \A u \in ViewUnits : UnitOf[u] \in ViewAsked /\ s1[u] # "canceled" =>
           u \in R \cup s3.unsettled \cup s3.holdings \cup s4
    /\ s3.at \in {"fills", "done"} => \A u \in ViewUnits : s1[u] # "canceled" =>
           u \in R \cup s3.unsettled \cup s3.holdings \cup s3.catchall \cup s4
    /\ s5 => R = ViewOutstanding

\* What a view has read is still so while nothing moves.
ViewQuiet ==
    s5 =>
        /\ s3.at # "positions"
        /\ \A u \in ViewUnits : s1[u] \notin {"filled", "recorded", "held"}
        /\ s3.positions = View!In(View!Filled)
        /\ s3.at \in ViewSeen => s3.holdings = View!In(View!Held)
        /\ s3.at \in ViewListed => s3.pending = View!Pending
        /\ s3.unsettled = View!UnitsOf(ViewAsked) \cap View!In(View!Attributed \ {"projected"})
        /\ s3.at \in {"fills", "done"} =>
               s3.catchall = View!In(View!Attributed \ {"projected"}) \ s3.unsettled

ViewRemainders == \E R \in SUBSET ViewUnits : ViewCovers(R)

ViewInv == View!TypeOK /\ ViewEnded /\ ViewLists /\ ViewTables /\ ViewRemainders /\ ViewQuiet

-----------------------------------------------------------------------------
\* The module's operators in those of the lemmas on finite sets.
LEMMA ViewOperators ==
    /\ IsFiniteSet(ViewUnits) /\ UnitOf \in [ViewUnits -> ViewIntents]
    /\ \A i : View!Remainder(i).remaining = Cardinality(View!UnitsOf({i}) \ View!In(View!Attributed))
    /\ View!HoldingsValue = Cardinality(s3.holdings) + s3.remaining + Cardinality(s3.unsettled)
                           + Cardinality(s3.catchall) + IF ViewBeyond > 0 THEN ViewBeyond ELSE 0
    /\ View!NothingUncounted <=> (s3.at = "done" => View!HoldingsValue >= Cardinality(View!Committed \ s4))
    /\ View!QuietViewIsExact <=> (s3.at = "done" /\ s5 =>
           View!HoldingsValue = Cardinality({u \in ViewUnits : s1[u] # "canceled" \/ s2[UnitOf[u]] = "pending"}))
  <1>1. IsFiniteSet(ViewUnits) /\ UnitOf \in [ViewUnits -> ViewIntents]
    BY ViewAssumed DEF View!UnitsAssumption, IsFiniteSet, View!IsFiniteSet
  <1>2. \A i : View!Remainder(i).remaining = Cardinality(View!UnitsOf({i}) \ View!In(View!Attributed))
    BY DEF View!Remainder, Cardinality, View!Cardinality, IsFiniteSet, View!IsFiniteSet
  <1>3. View!HoldingsValue = Cardinality(s3.holdings) + s3.remaining + Cardinality(s3.unsettled)
                           + Cardinality(s3.catchall) + IF ViewBeyond > 0 THEN ViewBeyond ELSE 0
    BY DEF View!HoldingsValue, View!Excess, ViewCounted, ViewBeyond, Cardinality, View!Cardinality, IsFiniteSet,
          View!IsFiniteSet
  <1>4. View!NothingUncounted <=> (s3.at = "done" => View!HoldingsValue >= Cardinality(View!Committed \ s4))
    BY DEF View!NothingUncounted, Cardinality, View!Cardinality, IsFiniteSet, View!IsFiniteSet
  <1>5. View!QuietViewIsExact <=> (s3.at = "done" /\ s5 =>
           View!HoldingsValue = Cardinality({u \in ViewUnits : s1[u] # "canceled" \/ s2[UnitOf[u]] = "pending"}))
    BY DEF View!QuietViewIsExact, Cardinality, View!Cardinality, IsFiniteSet, View!IsFiniteSet
  <1> QED BY <1>1, <1>2, <1>3, <1>4, <1>5

LEMMA ViewInitHolds == View!Init => ViewInv
  <1> SUFFICES ASSUME View!Init PROVE ViewInv
    OBVIOUS
  <1>1. View!TypeOK
    <2>1. s3 = View!NoView /\ View!NoView \in [at : View!Reads, positions : SUBSET ViewUnits, holdings : SUBSET ViewUnits,
              pending : SUBSET ViewIntents, todo : SUBSET ViewIntents, remaining : Int, unsettled : SUBSET ViewUnits,
              catchall : SUBSET ViewUnits, fills : SUBSET ViewIntents]
      BY DEF View!Init, View!NoView, View!Reads
    <2> QED BY <2>1 DEF View!Init, View!TypeOK
  <1>2. ViewEnded /\ ViewLists /\ ViewTables /\ ViewQuiet
    BY ViewOperators DEF View!Init, ViewEnded, ViewLists, ViewTables, ViewQuiet, View!NoView, ViewSeen,
          ViewListed
  <1>3. ViewCovers({})
    BY FS_EmptySet DEF View!Init, ViewCovers, View!NoView, ViewAsked
  <1> QED BY <1>1, <1>2, <1>3 DEF ViewInv, ViewRemainders

\* The orders move on while the view stays what it was.
LEMMA ViewMoves ==
    ASSUME ViewInv, s3' = s3, s5' = FALSE, s4 \subseteq s4', s4' \subseteq ViewUnits,
           s1' \in [ViewUnits -> View!Filled \cup View!Canceled \cup {"open"}], s2' \in [ViewIntents -> {"pending", "terminal"}],
           \A i \in ViewIntents : s2[i] = "terminal" => s2'[i] = "terminal",
           \A u \in ViewUnits : s1[u] = "canceled" => s1'[u] = "canceled",
           \A u \in ViewUnits : s1[u] \in View!Recorded => s1'[u] \in View!Recorded,
           ViewEnded',
           \A u \in ViewUnits : s1'[u] = "projected" /\ s1[u] # "projected" =>
               u \in s4' \cup s3.holdings \cup s3.unsettled \/ s3.at \notin ViewSeen \ {"fills", "done"}
    PROVE  ViewInv'
  <1>0. View!TypeOK /\ ViewLists /\ ViewTables /\ ViewRemainders
    BY DEF ViewInv
  <1>1. View!TypeOK'
    BY <1>0 DEF View!TypeOK
  <1>2. ViewLists'
    BY <1>0, ViewOperators DEF ViewLists, View!TypeOK
  <1>3. ViewTables'
    BY <1>0 DEF ViewTables, ViewSeen
  <1>4. ViewRemainders'
    <2>1. PICK R \in SUBSET ViewUnits : ViewCovers(R)
      BY <1>0 DEF ViewRemainders
    <2>2. ViewCovers(R)'
      BY <2>1 DEF ViewCovers, ViewAsked, View!UnitsOf
    <2> QED BY <2>2 DEF ViewRemainders
  <1>5. ViewQuiet'
    BY DEF ViewQuiet
  <1> QED BY <1>1, <1>2, <1>3, <1>4, <1>5 DEF ViewInv

LEMMA ViewOrdersStep ==
    ASSUME ViewInv,
           \/ \E u \in ViewUnits : View!Fill(u) \/ View!RecordFill(u) \/ View!Enqueue(u) \/ View!WriteHolding(u) \/ View!Project(u)
           \/ \E i \in ViewIntents : View!Cancel(i) \/ View!Finish(i)
    PROVE  ViewInv'
  <1>0. View!TypeOK /\ ViewEnded /\ ViewLists
    BY DEF ViewInv
  <1>1. CASE \E u \in ViewUnits : View!Fill(u) \/ View!RecordFill(u) \/ View!Enqueue(u) \/ View!WriteHolding(u)
    <2>1. PICK u \in ViewUnits : View!Fill(u) \/ View!RecordFill(u) \/ View!Enqueue(u) \/ View!WriteHolding(u)
      BY <1>1
    <2>2. /\ s3' = s3 /\ s5' = FALSE /\ s4' = s4 /\ s2' = s2
          /\ \/ s1[u] = "open" /\ s2[UnitOf[u]] = "pending" /\ s1' = [s1 EXCEPT ![u] = "filled"]
             \/ s1[u] = "filled" /\ s1' = [s1 EXCEPT ![u] = "recorded"]
             \/ s1[u] = "recorded" /\ s1' = [s1 EXCEPT ![u] = "attributed"]
             \/ s1[u] = "attributed" /\ s1' = [s1 EXCEPT ![u] = "held"]
      BY <2>1 DEF View!Fill, View!RecordFill, View!Enqueue, View!WriteHolding, View!Move
    <2>3. /\ s1' \in [ViewUnits -> View!Filled \cup View!Canceled \cup {"open"}]
          /\ \A w \in ViewUnits : s1[w] = "canceled" => s1'[w] = "canceled"
          /\ \A w \in ViewUnits : s1[w] \in View!Recorded => s1'[w] \in View!Recorded
          /\ \A w \in ViewUnits : s1'[w] = "projected" => s1[w] = "projected"
          /\ s4' \subseteq ViewUnits /\ s2' \in [ViewIntents -> {"pending", "terminal"}]
      BY <1>0, <2>2 DEF View!TypeOK, View!Filled, View!Canceled, View!Recorded
    <2>4. ViewEnded'
      BY <1>0, <2>2 DEF View!TypeOK, ViewEnded, View!Attributed, View!Recorded, View!Filled, View!Canceled
    <2> QED BY <2>2, <2>3, <2>4, ViewMoves
  <1>2. CASE \E u \in ViewUnits : View!Project(u)
    <2>1. PICK u \in ViewUnits : View!Project(u)
      BY <1>2
    <2>2. /\ s3' = s3 /\ s5' = FALSE /\ s2' = s2
          /\ s1[u] = "held" /\ s1' = [s1 EXCEPT ![u] = "projected"]
      BY <2>1 DEF View!Project, View!Move
    <2>3. /\ s4' = s4 \/ s4' = s4 \cup {u}
          /\ s3.at \in {"intents", "events", "unsettled"} => u \in s3.holdings \cup s3.unsettled \cup s4'
      BY <2>1 DEF View!Project, View!EventRead
    <2>4. /\ s1' \in [ViewUnits -> View!Filled \cup View!Canceled \cup {"open"}]
          /\ \A w \in ViewUnits : s1[w] = "canceled" => s1'[w] = "canceled"
          /\ \A w \in ViewUnits : s1[w] \in View!Recorded => s1'[w] \in View!Recorded
          /\ \A w \in ViewUnits : s1'[w] = "projected" /\ s1[w] # "projected" => w = u
          /\ s4' \subseteq ViewUnits /\ s2' \in [ViewIntents -> {"pending", "terminal"}]
      BY <1>0, <2>2, <2>3 DEF View!TypeOK, View!Filled, View!Canceled, View!Recorded
    <2>5. ViewEnded'
      BY <1>0, <2>2 DEF View!TypeOK, ViewEnded, View!Attributed, View!Recorded, View!Filled, View!Canceled
    <2>6. \A w \in ViewUnits : s1'[w] = "projected" /\ s1[w] # "projected" =>
              w \in s4' \cup s3.holdings \cup s3.unsettled \/ s3.at \notin ViewSeen \ {"fills", "done"}
      BY <2>3, <2>4 DEF ViewSeen
    <2>7. s4 \subseteq s4' /\ \A i \in ViewIntents : s2[i] = "terminal" => s2'[i] = "terminal"
      BY <2>2, <2>3
    <2> QED BY <2>2, <2>4, <2>5, <2>6, <2>7, ViewMoves
  <1>3. CASE \E i \in ViewIntents : View!Cancel(i)
    <2>1. PICK i \in ViewIntents : View!Cancel(i)
      BY <1>3
    <2>2. /\ s3' = s3 /\ s5' = FALSE /\ s4' = s4 /\ s2' = s2
          /\ s1' = [u \in ViewUnits |-> IF UnitOf[u] = i /\ s1[u] = "open" THEN "canceled" ELSE s1[u]]
      BY <2>1 DEF View!Cancel
    <2>3. /\ s1' \in [ViewUnits -> View!Filled \cup View!Canceled \cup {"open"}]
          /\ \A w \in ViewUnits : s1[w] = "canceled" => s1'[w] = "canceled"
          /\ \A w \in ViewUnits : s1[w] \in View!Recorded => s1'[w] \in View!Recorded
          /\ \A w \in ViewUnits : s1'[w] = "projected" => s1[w] = "projected"
          /\ s4' \subseteq ViewUnits /\ s2' \in [ViewIntents -> {"pending", "terminal"}]
      BY <1>0, <2>2 DEF View!TypeOK, View!Filled, View!Canceled, View!Recorded
    <2>4. ViewEnded'
      BY <1>0, <2>2 DEF View!TypeOK, ViewEnded, View!Canceled
    <2> QED BY <2>2, <2>3, <2>4, ViewMoves
  <1>4. CASE \E i \in ViewIntents : View!Finish(i)
    <2>1. PICK i \in ViewIntents : View!Finish(i)
      BY <1>4
    <2>2. /\ s3' = s3 /\ s5' = FALSE /\ s4' = s4 /\ s1' = s1
          /\ \A u \in View!UnitsOf({i}) : s1[u] \in View!Attributed \cup View!Canceled
          /\ s2' = [s2 EXCEPT ![i] = "terminal"]
      BY <2>1 DEF View!Finish
    <2>3. /\ s4' \subseteq ViewUnits /\ s2' \in [ViewIntents -> {"pending", "terminal"}]
          /\ s1' \in [ViewUnits -> View!Filled \cup View!Canceled \cup {"open"}]
          /\ \A k \in ViewIntents : s2[k] = "terminal" => s2'[k] = "terminal"
      BY <1>0, <2>2 DEF View!TypeOK
    <2>4. ViewEnded'
      BY <1>0, <2>2, ViewOperators DEF View!TypeOK, ViewEnded, View!UnitsOf
    <2> QED BY <2>2, <2>3, <2>4, ViewMoves
  <1> QED BY <1>1, <1>2, <1>3, <1>4

-----------------------------------------------------------------------------
LEMMA ViewReadPositions == ASSUME ViewInv, View!ReadPositions PROVE ViewInv'
  <1>0. View!TypeOK /\ ViewEnded /\ ViewLists /\ ViewTables /\ ViewRemainders /\ ViewQuiet
    BY DEF ViewInv
  <1>1. /\ s3.at = "positions" /\ s3' = [s3 EXCEPT !.at = "holdings", !.positions = View!In(View!Filled)]
        /\ s1' = s1 /\ s2' = s2 /\ s4' = s4
        /\ s5' = (View!In({"filled", "recorded", "held"}) = {})
    BY DEF View!ReadPositions, View!Read
  <1>2. /\ s3'.at = "holdings" /\ s3'.positions = View!In(View!Filled) /\ s3'.holdings = s3.holdings
        /\ s3'.pending = s3.pending /\ s3'.todo = s3.todo /\ s3'.remaining = s3.remaining
        /\ s3'.unsettled = s3.unsettled /\ s3'.catchall = s3.catchall /\ s3'.fills = s3.fills
    BY <1>0, <1>1 DEF View!TypeOK
  <1>3. View!TypeOK'
    <2>1. View!In(View!Filled) \subseteq ViewUnits /\ "holdings" \in View!Reads
      BY DEF View!In, View!Reads
    <2> QED BY <1>0, <1>1, <2>1 DEF View!TypeOK
  <1>4. ViewEnded'
    BY <1>0, <1>1 DEF ViewEnded
  <1>5. ViewLists'
    BY <1>0, <1>1, <1>2 DEF ViewLists, ViewListed, ViewSeen
  <1>6. ViewTables'
    BY <1>2 DEF ViewTables, ViewSeen
  <1>7. s3.pending = {} /\ s3.todo = {} /\ ViewAsked' = {} /\ s3.unsettled = {} /\ s3.remaining = 0
    BY <1>0, <1>1, <1>2 DEF ViewLists, ViewListed, ViewSeen, ViewAsked
  <1>8. ViewRemainders'
    <2>1. ViewCovers({})'
      BY <1>1, <1>2, <1>7, FS_EmptySet DEF ViewCovers, ViewOutstanding, View!UnitsOf
    <2> QED BY <2>1 DEF ViewRemainders
  <1>9. ViewQuiet'
    BY <1>1, <1>2, <1>7 DEF ViewQuiet, ViewSeen, ViewListed, View!UnitsOf, View!In
  <1> QED BY <1>3, <1>4, <1>5, <1>6, <1>8, <1>9 DEF ViewInv

LEMMA ViewReadHoldings == ASSUME ViewInv, View!ReadHoldings PROVE ViewInv'
  <1>0. View!TypeOK /\ ViewEnded /\ ViewLists /\ ViewTables /\ ViewRemainders /\ ViewQuiet
    BY DEF ViewInv
  <1>1. /\ s3.at = "holdings" /\ s3' = [s3 EXCEPT !.at = "intents", !.holdings = View!In(View!Held)]
        /\ s1' = s1 /\ s2' = s2 /\ s4' = s4 /\ s5' = s5
    BY DEF View!ReadHoldings, View!Read
  <1>2. /\ s3'.at = "intents" /\ s3'.positions = s3.positions /\ s3'.holdings = View!In(View!Held)
        /\ s3'.pending = s3.pending /\ s3'.todo = s3.todo /\ s3'.remaining = s3.remaining
        /\ s3'.unsettled = s3.unsettled /\ s3'.catchall = s3.catchall /\ s3'.fills = s3.fills
    BY <1>0, <1>1 DEF View!TypeOK
  <1>3. View!TypeOK'
    <2>1. View!In(View!Held) \subseteq ViewUnits /\ "intents" \in View!Reads
      BY DEF View!In, View!Reads
    <2> QED BY <1>0, <1>1, <2>1 DEF View!TypeOK
  <1>4. ViewEnded'
    BY <1>0, <1>1 DEF ViewEnded
  <1>5. ViewLists'
    BY <1>0, <1>1, <1>2 DEF ViewLists, ViewListed, ViewSeen
  <1>6. ViewTables'
    BY <1>1, <1>2 DEF ViewTables, View!In, View!Held
  <1>7. s3.pending = {} /\ s3.todo = {} /\ ViewAsked' = {} /\ s3.unsettled = {} /\ s3.remaining = 0
    BY <1>0, <1>1, <1>2 DEF ViewLists, ViewListed, ViewSeen, ViewAsked
  <1>8. ViewRemainders'
    <2>1. ViewCovers({})'
      BY <1>1, <1>2, <1>7, FS_EmptySet DEF ViewCovers, ViewOutstanding, View!UnitsOf
    <2> QED BY <2>1 DEF ViewRemainders
  <1>9. ViewQuiet'
    BY <1>0, <1>1, <1>2, <1>7 DEF ViewQuiet, ViewSeen, ViewListed, View!UnitsOf, View!In
  <1> QED BY <1>3, <1>4, <1>5, <1>6, <1>8, <1>9 DEF ViewInv

LEMMA ViewReadIntents == ASSUME ViewInv, View!ReadIntents PROVE ViewInv'
  <1>0. View!TypeOK /\ ViewEnded /\ ViewLists /\ ViewTables /\ ViewRemainders /\ ViewQuiet
    BY DEF ViewInv
  <1>1. /\ s3.at = "intents"
        /\ s3' = [s3 EXCEPT !.at = IF View!Pending = {} THEN "unsettled" ELSE "events",
                                !.pending = View!Pending, !.todo = View!Pending]
        /\ s1' = s1 /\ s2' = s2 /\ s4' = s4 /\ s5' = s5
    BY DEF View!ReadIntents, View!Read
  <1>2. /\ s3'.at = (IF View!Pending = {} THEN "unsettled" ELSE "events")
        /\ s3'.positions = s3.positions /\ s3'.holdings = s3.holdings
        /\ s3'.pending = View!Pending /\ s3'.todo = View!Pending /\ s3'.remaining = s3.remaining
        /\ s3'.unsettled = s3.unsettled /\ s3'.catchall = s3.catchall /\ s3'.fills = s3.fills
    BY <1>0, <1>1 DEF View!TypeOK
  <1>3. View!TypeOK'
    <2>1. View!Pending \subseteq ViewIntents /\ (IF View!Pending = {} THEN "unsettled" ELSE "events") \in View!Reads
      BY DEF View!Pending, View!Reads
    <2> QED BY Zenon, <1>0, <1>1, <2>1 DEF View!TypeOK
  <1>4. ViewEnded'
    BY <1>0, <1>1 DEF ViewEnded
  <1>5. ViewLists'
    BY <1>0, <1>1, <1>2 DEF ViewLists, ViewListed, ViewSeen, View!TypeOK, View!Pending
  <1>6. ViewTables'
    BY <1>0, <1>1, <1>2 DEF ViewTables, ViewSeen
  <1>7. ViewAsked = {} /\ ViewAsked' = {} /\ s3.unsettled = {} /\ s3.remaining = 0
    BY <1>0, <1>1, <1>2 DEF ViewLists, ViewListed, ViewSeen, ViewAsked
  <1>8. ViewRemainders'
    <2>1. ViewCovers({})'
      BY <1>1, <1>2, <1>7, FS_EmptySet DEF ViewCovers, ViewOutstanding, View!UnitsOf
    <2> QED BY <2>1 DEF ViewRemainders
  <1>9. ViewQuiet'
    <2>1. View!Pending' = View!Pending /\ View!In(View!Filled)' = View!In(View!Filled) /\ View!In(View!Held)' = View!In(View!Held)
      BY <1>1 DEF View!Pending, View!In
    <2> QED BY <1>0, <1>1, <1>2, <1>7, <2>1 DEF ViewQuiet, ViewSeen, ViewListed, View!UnitsOf
  <1> QED BY <1>3, <1>4, <1>5, <1>6, <1>8, <1>9 DEF ViewInv

\* An intent's remainder joins the others, for it has not been asked for before.
LEMMA ViewReadEvents == ASSUME ViewInv, NEW i \in ViewIntents, View!ReadEvents(i) PROVE ViewInv'
  <1> DEFINE rest == View!UnitsOf({i}) \ View!In(View!Attributed)
             open == View!UnitsOf({i}) \cap View!In(View!Attributed \ {"projected"})
             left == s3.todo \ {i}
  <1>0. View!TypeOK /\ ViewEnded /\ ViewLists /\ ViewTables /\ ViewRemainders /\ ViewQuiet
    BY DEF ViewInv
  <1>a. View!Remainder(i).remaining = Cardinality(rest) /\ View!Remainder(i).unsettled = open
    BY ViewOperators DEF View!Remainder
  <1>1. /\ s3.at = "events" /\ i \in s3.todo
        /\ s3' = [s3 EXCEPT !.at = IF left = {} THEN "unsettled" ELSE "events", !.todo = left,
                                !.remaining = s3.remaining + Cardinality(rest),
                                !.unsettled = s3.unsettled \cup open]
        /\ s1' = s1 /\ s2' = s2 /\ s4' = s4 /\ s5' = s5
    BY <1>a DEF View!ReadEvents, View!Read
  <1>2. /\ s3'.at = (IF left = {} THEN "unsettled" ELSE "events")
        /\ s3'.positions = s3.positions /\ s3'.holdings = s3.holdings
        /\ s3'.pending = s3.pending /\ s3'.todo = left
        /\ s3'.remaining = s3.remaining + Cardinality(rest)
        /\ s3'.unsettled = s3.unsettled \cup open /\ s3'.catchall = s3.catchall /\ s3'.fills = s3.fills
    BY <1>0, <1>1 DEF View!TypeOK
  <1>b. rest \subseteq ViewUnits /\ open \subseteq ViewUnits /\ IsFiniteSet(rest) /\ Cardinality(rest) \in Nat
    <2>1. rest \subseteq ViewUnits /\ open \subseteq ViewUnits
      BY DEF View!UnitsOf
    <2> QED BY <2>1, ViewOperators, FS_Subset, FS_CardinalityType
  <1>c. \A u \in ViewUnits : (u \in rest <=> UnitOf[u] = i /\ s1[u] \notin View!Attributed)
                      /\ (u \in open <=> UnitOf[u] = i /\ s1[u] \in View!Attributed \ {"projected"})
    BY DEF View!UnitsOf, View!In
  <1>d. ViewAsked' = ViewAsked \cup {i} /\ i \notin ViewAsked
    BY <1>0, <1>1, <1>2 DEF ViewAsked, ViewLists
  <1>3. View!TypeOK'
    <2>1. left \subseteq ViewIntents /\ (IF left = {} THEN "unsettled" ELSE "events") \in View!Reads
          /\ s3.unsettled \cup open \subseteq ViewUnits
      BY <1>0, <1>b DEF View!TypeOK, View!Reads
    <2>2. s3.remaining \in Int
      BY <1>0 DEF View!TypeOK
    <2> HIDE DEF rest, open, left
    <2>3. s3.remaining + Cardinality(rest) \in Int
      BY <1>b, <2>2
    <2> QED BY Zenon, <1>0, <1>1, <2>1, <2>3 DEF View!TypeOK
  <1>4. ViewEnded'
    BY <1>0, <1>1 DEF ViewEnded
  <1>5. ViewLists'
    BY <1>0, <1>1, <1>2 DEF ViewLists, ViewListed, ViewSeen
  <1>6. ViewTables'
    BY <1>0, <1>1, <1>2 DEF ViewTables, ViewSeen
  <1>7. ViewRemainders'
    <2>1. PICK R \in SUBSET ViewUnits : ViewCovers(R)
      BY <1>0 DEF ViewRemainders
    <2>2. Cardinality(R \cup rest) = s3.remaining + Cardinality(rest)
      <3>1. R \cap rest = {}
        BY <2>1, <1>c, <1>d DEF ViewCovers, View!UnitsOf
      <3>2. IsFiniteSet(R) /\ Cardinality(R) = s3.remaining /\ Cardinality(R) \in Nat
        BY <2>1, ViewOperators, FS_Subset, FS_CardinalityType DEF ViewCovers
      <3>3. Cardinality(R \cup rest) = Cardinality(R) + Cardinality(rest) - Cardinality(R \cap rest)
        BY <3>2, <1>b, FS_Union
      <3>4. Cardinality(R \cap rest) = 0
        BY <3>1, FS_EmptySet
      <3> HIDE DEF rest
      <3> QED BY <3>2, <3>3, <3>4, <1>b
    <2>3. R \cup rest \subseteq View!UnitsOf(ViewAsked')
      BY <2>1, <1>b, <1>c, <1>d DEF ViewCovers, View!UnitsOf
    <2>4. \A u \in ViewUnits : UnitOf[u] \in ViewAsked' /\ s1[u] # "canceled" =>
              u \in (R \cup rest) \cup s3'.unsettled \cup s3.holdings \cup s4
      <3> SUFFICES ASSUME NEW u \in ViewUnits, UnitOf[u] \in ViewAsked', s1[u] # "canceled"
                   PROVE  u \in (R \cup rest) \cup s3'.unsettled \cup s3.holdings \cup s4
        OBVIOUS
      <3>1. CASE UnitOf[u] # i
        BY <3>1, <2>1, <1>2, <1>d DEF ViewCovers
      <3>2. CASE UnitOf[u] = i /\ s1[u] = "projected"
        BY <3>2, <1>0, <1>1, <1>2 DEF ViewTables, ViewSeen
      <3>3. CASE UnitOf[u] = i /\ s1[u] # "projected"
        BY <3>3, <1>2, <1>c
      <3> QED BY <3>1, <3>2, <3>3
    <2>5. s5 => R \cup rest = ViewOutstanding'
      <3>1. s5 => R = ViewOutstanding
        BY <2>1 DEF ViewCovers
      <3>2. ViewOutstanding \cup rest = ViewOutstanding'
        BY <1>1, <1>d DEF ViewOutstanding, View!UnitsOf, View!In
      <3> QED BY <3>1, <3>2
    <2>6. PICK V \in SUBSET ViewUnits : V = R \cup rest
      BY <1>b
    <2>7. ViewCovers(V)'
      <3> HIDE DEF rest, open, left
      <3> QED BY <1>1, <1>2, <2>2, <2>3, <2>4, <2>5, <2>6 DEF ViewCovers, View!UnitsOf
    <2> QED BY <2>7 DEF ViewRemainders
  <1>8. ViewQuiet'
    <2>1. View!Pending' = View!Pending /\ View!In(View!Filled)' = View!In(View!Filled) /\ View!In(View!Held)' = View!In(View!Held)
      BY <1>1 DEF View!Pending, View!In
    <2>2. (View!UnitsOf(ViewAsked) \cap View!In(View!Attributed \ {"projected"})) \cup open
              = (View!UnitsOf(ViewAsked) \cap View!In(View!Attributed \ {"projected"}))'
      BY <1>1, <1>d DEF View!UnitsOf, View!In
    <2> HIDE DEF rest, open, left
    <2> QED BY <1>0, <1>1, <1>2, <2>1, <2>2 DEF ViewQuiet, ViewSeen, ViewListed
  <1> QED BY <1>3, <1>4, <1>5, <1>6, <1>7, <1>8 DEF ViewInv

LEMMA ViewReadUnsettled == ASSUME ViewInv, View!ReadUnsettled PROVE ViewInv'
  <1>0. View!TypeOK /\ ViewEnded /\ ViewLists /\ ViewTables /\ ViewRemainders /\ ViewQuiet
    BY DEF ViewInv
  <1>1. /\ s3.at = "unsettled" /\ s3' = [s3 EXCEPT !.at = "fills", !.catchall = View!CatchAll(s3.unsettled)]
        /\ s1' = s1 /\ s2' = s2 /\ s4' = s4 /\ s5' = s5
    BY DEF View!ReadUnsettled, View!Read
  <1>2. /\ s3'.at = "fills" /\ s3'.positions = s3.positions /\ s3'.holdings = s3.holdings
        /\ s3'.pending = s3.pending /\ s3'.todo = s3.todo /\ s3'.remaining = s3.remaining
        /\ s3'.unsettled = s3.unsettled /\ s3'.catchall = View!In(View!Attributed \ {"projected"}) \ s3.unsettled
        /\ s3'.fills = s3.fills
    BY <1>0, <1>1 DEF View!TypeOK, View!CatchAll
  <1>3. View!TypeOK'
    <2>1. View!CatchAll(s3.unsettled) \subseteq ViewUnits /\ "fills" \in View!Reads
      BY DEF View!In, View!Reads, View!CatchAll
    <2> QED BY <1>0, <1>1, <2>1 DEF View!TypeOK
  <1>4. ViewEnded'
    BY <1>0, <1>1 DEF ViewEnded
  <1>5. ViewLists'
    BY <1>0, <1>1, <1>2 DEF ViewLists, ViewListed, ViewSeen
  <1>6. ViewTables'
    BY <1>2 DEF ViewTables
  <1>7. ViewRemainders'
    <2>1. PICK R \in SUBSET ViewUnits : ViewCovers(R)
      BY <1>0 DEF ViewRemainders
    <2>2. ViewAsked' = ViewAsked /\ ViewOutstanding' = ViewOutstanding
      BY <1>1, <1>2 DEF ViewAsked, ViewOutstanding, View!UnitsOf, View!In
    <2>3. \A u \in ViewUnits : s1[u] # "canceled" =>
              u \in R \cup s3.unsettled \cup s3.holdings \cup s3'.catchall \cup s4
      <3> SUFFICES ASSUME NEW u \in ViewUnits, s1[u] # "canceled"
                   PROVE  u \in R \cup s3.unsettled \cup s3.holdings \cup s3'.catchall \cup s4
        OBVIOUS
      <3>1. CASE UnitOf[u] \in ViewAsked
        BY <3>1, <2>1 DEF ViewCovers
      <3>2. CASE UnitOf[u] \notin ViewAsked
        <4>1. s1[u] \in View!Attributed
          BY <3>2, <1>0, <1>1, ViewOperators DEF ViewLists, ViewEnded, ViewAsked, ViewListed, ViewSeen,
                View!Canceled
        <4>2. CASE s1[u] = "projected"
          BY <4>2, <1>0, <1>1 DEF ViewTables, ViewSeen
        <4>3. CASE s1[u] # "projected"
          BY <4>1, <4>3, <1>2 DEF View!In
        <4> QED BY <4>2, <4>3
      <3> QED BY <3>1, <3>2
    <2>4. ViewCovers(R)'
      BY <1>1, <1>2, <2>1, <2>2, <2>3 DEF ViewCovers, View!UnitsOf
    <2> QED BY <2>4 DEF ViewRemainders
  <1>8. ViewQuiet'
    <2>1. View!Pending' = View!Pending /\ View!In(View!Filled)' = View!In(View!Filled) /\ View!In(View!Held)' = View!In(View!Held) /\ ViewAsked' = ViewAsked
          /\ View!In(View!Attributed \ {"projected"})' = View!In(View!Attributed \ {"projected"})
      BY <1>1, <1>2 DEF View!Pending, View!In, ViewAsked
    <2> QED BY <1>0, <1>1, <1>2, <2>1 DEF ViewQuiet, ViewSeen, ViewListed, View!UnitsOf
  <1> QED BY <1>3, <1>4, <1>5, <1>6, <1>7, <1>8 DEF ViewInv

LEMMA ViewReadFills == ASSUME ViewInv, View!ReadFills PROVE ViewInv'
  <1>0. View!TypeOK /\ ViewEnded /\ ViewLists /\ ViewTables /\ ViewRemainders /\ ViewQuiet
    BY DEF ViewInv
  <1>1. /\ s3.at = "fills" /\ s3' = [s3 EXCEPT !.at = "done", !.fills = {UnitOf[u] : u \in View!In(View!Recorded)}]
        /\ s1' = s1 /\ s2' = s2 /\ s4' = s4 /\ s5' = s5
    BY DEF View!ReadFills, View!Read
  <1>2. /\ s3'.at = "done" /\ s3'.positions = s3.positions /\ s3'.holdings = s3.holdings
        /\ s3'.pending = s3.pending /\ s3'.todo = s3.todo /\ s3'.remaining = s3.remaining
        /\ s3'.unsettled = s3.unsettled /\ s3'.catchall = s3.catchall
        /\ s3'.fills = {UnitOf[u] : u \in View!In(View!Recorded)}
    BY <1>0, <1>1 DEF View!TypeOK
  <1>3. View!TypeOK'
    <2>1. {UnitOf[u] : u \in View!In(View!Recorded)} \subseteq ViewIntents /\ "done" \in View!Reads
      BY ViewOperators DEF View!In, View!Reads
    <2> QED BY Zenon, <1>0, <1>1, <2>1 DEF View!TypeOK
  <1>4. ViewEnded'
    BY <1>0, <1>1 DEF ViewEnded
  <1>5. ViewLists'
    <2>1. \A u \in ViewUnits : s1[u] # "canceled" => UnitOf[u] \in s3'.fills \cup s3.pending
      BY <1>0, <1>1, <1>2, ViewOperators DEF ViewLists, ViewEnded, ViewListed, ViewSeen, View!Attributed,
            View!Canceled, View!In
    <2> QED BY <1>0, <1>1, <1>2, <2>1 DEF ViewLists, ViewListed, ViewSeen
  <1>6. ViewTables'
    BY <1>2 DEF ViewTables
  <1>7. ViewRemainders'
    <2>1. PICK R \in SUBSET ViewUnits : ViewCovers(R)
      BY <1>0 DEF ViewRemainders
    <2>2. ViewAsked' = ViewAsked /\ ViewOutstanding' = ViewOutstanding
      BY <1>1, <1>2 DEF ViewAsked, ViewOutstanding, View!UnitsOf, View!In
    <2>3. ViewCovers(R)'
      BY <1>1, <1>2, <2>1, <2>2 DEF ViewCovers, View!UnitsOf
    <2> QED BY <2>3 DEF ViewRemainders
  <1>8. ViewQuiet'
    <2>1. View!Pending' = View!Pending /\ View!In(View!Filled)' = View!In(View!Filled) /\ View!In(View!Held)' = View!In(View!Held) /\ ViewAsked' = ViewAsked
          /\ View!In(View!Attributed \ {"projected"})' = View!In(View!Attributed \ {"projected"})
      BY <1>1, <1>2 DEF View!Pending, View!In, ViewAsked
    <2> QED BY <1>0, <1>1, <1>2, <2>1 DEF ViewQuiet, ViewSeen, ViewListed, View!UnitsOf
  <1> QED BY <1>3, <1>4, <1>5, <1>6, <1>7, <1>8 DEF ViewInv

LEMMA ViewNextEvaluation == ASSUME ViewInv, View!NextEvaluation PROVE ViewInv'
  <1>0. View!TypeOK /\ ViewEnded
    BY DEF ViewInv
  <1>1. s3' = View!NoView /\ s4' = {} /\ s5' = FALSE /\ s1' = s1 /\ s2' = s2
    BY DEF View!NextEvaluation
  <1>2. View!TypeOK'
    <2>1. View!NoView \in [at : View!Reads, positions : SUBSET ViewUnits, holdings : SUBSET ViewUnits,
              pending : SUBSET ViewIntents, todo : SUBSET ViewIntents, remaining : Int, unsettled : SUBSET ViewUnits,
              catchall : SUBSET ViewUnits, fills : SUBSET ViewIntents]
      BY DEF View!NoView, View!Reads
    <2> QED BY <1>0, <1>1, <2>1 DEF View!TypeOK
  <1>3. ViewEnded' /\ ViewLists' /\ ViewTables' /\ ViewQuiet'
    BY <1>0, <1>1 DEF ViewEnded, ViewLists, ViewTables, ViewQuiet, View!NoView, ViewSeen, ViewListed
  <1>4. ViewCovers({})'
    BY <1>1, FS_EmptySet DEF ViewCovers, View!NoView, ViewAsked
  <1> QED BY <1>2, <1>3, <1>4 DEF ViewInv, ViewRemainders

LEMMA ViewStep == ASSUME ViewInv, [View!Next]_View!vars PROVE ViewInv'
  <1>1. CASE UNCHANGED View!vars
    <2>1. UNCHANGED <<s1, s2, s3, s4, s5>>
      BY <1>1 DEF View!vars
    <2> QED BY <2>1 DEF ViewInv, View!TypeOK, ViewEnded, ViewLists, ViewTables, ViewRemainders, ViewCovers,
          ViewAsked,
            ViewOutstanding, ViewQuiet, View!UnitsOf, View!In, View!Pending
  <1>2. CASE View!Next
    BY <1>2, ViewOrdersStep, ViewReadPositions, ViewReadHoldings, ViewReadIntents, ViewReadEvents,
       ViewReadUnsettled, ViewReadFills, ViewNextEvaluation DEF View!Next
  <1> QED BY <1>1, <1>2

-----------------------------------------------------------------------------
LEMMA ViewSets ==
    ASSUME View!TypeOK
    PROVE  /\ \A S \in SUBSET ViewUnits : IsFiniteSet(S) /\ Cardinality(S) \in Nat
           /\ s3.holdings \subseteq ViewUnits /\ s3.unsettled \subseteq ViewUnits /\ s3.catchall \subseteq ViewUnits
           /\ s3.positions \subseteq ViewUnits /\ s3.remaining \in Int
  <1>1. \A S \in SUBSET ViewUnits : IsFiniteSet(S)
    BY ViewOperators, FS_Subset
  <1>2. \A S \in SUBSET ViewUnits : Cardinality(S) \in Nat
    BY <1>1, FS_CardinalityType
  <1>3. s3.holdings \subseteq ViewUnits /\ s3.unsettled \subseteq ViewUnits /\ s3.catchall \subseteq ViewUnits
        /\ s3.positions \subseteq ViewUnits /\ s3.remaining \in Int
    BY DEF View!TypeOK
  <1> QED BY <1>1, <1>2, <1>3

\* The numbers of a finished view cover every unit.
LEMMA ViewNothingMissed ==
    ASSUME ViewInv, s3.at = "done"
    PROVE  View!HoldingsValue >= Cardinality(View!Committed \ s4)
  <1>0. View!TypeOK /\ ViewRemainders
    BY DEF ViewInv
  <1>1. PICK R \in SUBSET ViewUnits : ViewCovers(R)
    BY <1>0 DEF ViewRemainders
  <1> DEFINE A == s3.holdings
             B == s3.unsettled
             C == s3.catchall
             AR == A \cup R
             ARB == AR \cup B
             All == ARB \cup C
             V == View!Committed \ s4
  <1>2. V \subseteq All /\ V \in SUBSET All
    BY <1>1 DEF ViewCovers, View!Committed
  <1>3. A \in SUBSET ViewUnits /\ B \in SUBSET ViewUnits /\ C \in SUBSET ViewUnits /\ AR \in SUBSET ViewUnits /\ ARB \in SUBSET ViewUnits
        /\ All \in SUBSET ViewUnits
    BY <1>0, ViewSets
  <1>4. IsFiniteSet(A) /\ IsFiniteSet(B) /\ IsFiniteSet(C) /\ IsFiniteSet(AR) /\ IsFiniteSet(ARB) /\ IsFiniteSet(All)
        /\ IsFiniteSet(R)
    BY <1>0, <1>3, ViewSets
  <1>5. Cardinality(AR) = Cardinality(A) + Cardinality(R) - Cardinality(A \cap R)
    BY <1>4, FS_Union
  <1>6. Cardinality(ARB) = Cardinality(AR) + Cardinality(B) - Cardinality(AR \cap B)
    BY <1>4, FS_Union
  <1>7. Cardinality(All) = Cardinality(ARB) + Cardinality(C) - Cardinality(ARB \cap C)
    BY <1>4, FS_Union
  <1>8. Cardinality(V) <= Cardinality(All)
    BY <1>2, <1>4, FS_Subset
  <1>9. A \cap R \in SUBSET ViewUnits /\ AR \cap B \in SUBSET ViewUnits /\ ARB \cap C \in SUBSET ViewUnits /\ V \in SUBSET ViewUnits
        /\ s3.positions \in SUBSET ViewUnits
    BY <1>2, <1>3, <1>0, ViewSets
  <1>10. Cardinality(A) \in Nat /\ Cardinality(B) \in Nat /\ Cardinality(C) \in Nat /\ Cardinality(R) \in Nat
         /\ Cardinality(AR) \in Nat /\ Cardinality(ARB) \in Nat /\ Cardinality(All) \in Nat
         /\ Cardinality(V) \in Nat /\ Cardinality(s3.positions) \in Nat
         /\ Cardinality(A \cap R) \in Nat /\ Cardinality(AR \cap B) \in Nat /\ Cardinality(ARB \cap C) \in Nat
    BY <1>0, <1>3, <1>9, ViewSets
  <1>11. s3.remaining = Cardinality(R)
    BY <1>1 DEF ViewCovers
  <1>12. View!HoldingsValue = Cardinality(A) + s3.remaining + Cardinality(B) + Cardinality(C)
                             + IF ViewBeyond > 0 THEN ViewBeyond ELSE 0
    BY ViewOperators
  <1>13. ViewBeyond \in Int
    BY <1>10 DEF ViewBeyond, ViewCounted
  <1>14. View!HoldingsValue >= Cardinality(V)
    <2> HIDE DEF V, All, ARB, AR, A, B, C
    <2> QED BY <1>5, <1>6, <1>7, <1>8, <1>10, <1>11, <1>12, <1>13
  <1> QED BY <1>14

\* In a quiet view the tables are disjoint and the broker shows no more.
LEMMA ViewNothingTwice ==
    ASSUME ViewInv, s3.at = "done", s5
    PROVE  View!HoldingsValue = Cardinality({u \in ViewUnits : s1[u] # "canceled" \/ s2[UnitOf[u]] = "pending"})
  <1>0. View!TypeOK /\ ViewEnded /\ ViewLists /\ ViewRemainders /\ ViewQuiet
    BY DEF ViewInv
  <1>1. PICK R \in SUBSET ViewUnits : ViewCovers(R)
    BY <1>0 DEF ViewRemainders
  <1> DEFINE A == s3.holdings
             B == s3.unsettled
             C == s3.catchall
             AB == A \cup B
             ABC == AB \cup C
             All == ABC \cup R
             W == {u \in ViewUnits : s1[u] # "canceled" \/ s2[UnitOf[u]] = "pending"}
  <1>2. /\ A = View!In(View!Held) /\ s3.positions = View!In(View!Filled) /\ s3.pending = View!Pending /\ s3.todo = {}
        /\ B \subseteq View!In(View!Attributed \ {"projected"}) /\ C = View!In(View!Attributed \ {"projected"}) \ B
        /\ R = View!UnitsOf(View!Pending) \ View!In(View!Attributed)
        /\ \A u \in ViewUnits : s1[u] \notin {"filled", "recorded", "held"}
    <2>1. ViewAsked = View!Pending /\ R = ViewOutstanding
      BY <1>0, <1>1 DEF ViewQuiet, ViewLists, ViewAsked, ViewListed, ViewSeen, ViewCovers
    <2> QED BY <1>0, <2>1 DEF ViewQuiet, ViewLists, ViewListed, ViewSeen, ViewOutstanding
  <1>3. \A u \in ViewUnits : /\ u \in A <=> s1[u] = "projected"
                             /\ u \in B \cup C <=> s1[u] = "attributed"
                             /\ u \in R <=> s2[UnitOf[u]] = "pending" /\ s1[u] \notin View!Attributed
                             /\ u \in s3.positions <=> s1[u] \in {"attributed", "projected"}
    <2>1. B \cup C = View!In(View!Attributed \ {"projected"})
      BY <1>2
    <2> HIDE DEF B, C
    <2> QED BY <1>2, <2>1, ViewOperators DEF View!In, View!Held, View!Filled, View!Attributed, View!Recorded,
          View!UnitsOf, View!Pending
  <1>4. A \cap B = {} /\ AB \cap C = {} /\ ABC \cap R = {} /\ s3.positions = ABC
    <2>1. A \in SUBSET ViewUnits /\ B \in SUBSET ViewUnits /\ C \in SUBSET ViewUnits /\ s3.positions \in SUBSET ViewUnits
      BY <1>0, ViewSets
    <2>2. B \cap C = {}
      BY <1>2
    <2>3. \A u \in ViewUnits : s1[u] \in {"projected", "attributed"} => s1[u] \in View!Attributed
      BY DEF View!Attributed, View!Recorded, View!Filled
    <2>4. \A u \in ViewUnits : (u \in A => u \notin B \cup C) /\ (u \in R => u \notin A \cup B \cup C)
                           /\ (u \in s3.positions <=> u \in A \cup B \cup C)
      BY <1>3, <2>3
    <2> HIDE DEF A, B, C
    <2> QED BY <1>1, <2>1, <2>2, <2>4
  <1>5. All = W
    <2>1. All \in SUBSET ViewUnits
      BY <1>0, ViewSets
    <2>2. \A u \in ViewUnits : u \in W <=> s1[u] # "canceled" \/ s2[UnitOf[u]] = "pending"
      OBVIOUS
    <2>3. \A u \in ViewUnits : s1[u] \in View!Filled \cup View!Canceled \cup {"open"} /\ s2[UnitOf[u]] \in {"pending", "terminal"}
      BY <1>0, ViewOperators DEF View!TypeOK
    <2>4. \A u \in ViewUnits : u \in All <=> u \in W
      <3> SUFFICES ASSUME NEW u \in ViewUnits PROVE u \in All <=> u \in W
        OBVIOUS
      <3>1. u \in All <=> s1[u] \in {"projected", "attributed"}
                          \/ (s2[UnitOf[u]] = "pending" /\ s1[u] \notin View!Attributed)
        BY <1>3
      <3>2. s1[u] \in View!Attributed <=> s1[u] \in {"attributed", "held", "projected"}
        BY DEF View!Attributed, View!Recorded, View!Filled
      <3>3. s1[u] \in {"open", "canceled", "attributed", "projected"}
        BY <1>2, <2>3 DEF View!Filled, View!Canceled
      <3>4. s2[UnitOf[u]] = "terminal" => s1[u] \in View!Attributed \cup {"canceled"}
        BY <1>0 DEF ViewEnded, View!Canceled
      <3> HIDE DEF All, W
      <3> QED BY <2>2, <2>3, <3>1, <3>2, <3>3, <3>4
    <2> HIDE DEF All
    <2> QED BY <2>1, <2>4
  <1>6. A \in SUBSET ViewUnits /\ B \in SUBSET ViewUnits /\ C \in SUBSET ViewUnits /\ AB \in SUBSET ViewUnits /\ ABC \in SUBSET ViewUnits
    BY <1>0, ViewSets
  <1>7. IsFiniteSet(A) /\ IsFiniteSet(B) /\ IsFiniteSet(C) /\ IsFiniteSet(AB) /\ IsFiniteSet(ABC) /\ IsFiniteSet(R)
    BY <1>0, <1>6, ViewSets
  <1>8. /\ Cardinality(A) \in Nat /\ Cardinality(B) \in Nat /\ Cardinality(C) \in Nat /\ Cardinality(R) \in Nat
        /\ Cardinality(AB) \in Nat /\ Cardinality(ABC) \in Nat
    BY <1>0, <1>6, ViewSets
  <1>a. Cardinality({}) = 0
    BY FS_EmptySet
  <1>9. Cardinality(AB) = Cardinality(A) + Cardinality(B) - Cardinality(A \cap B)
    BY <1>7, FS_Union
  <1>10. Cardinality(ABC) = Cardinality(AB) + Cardinality(C) - Cardinality(AB \cap C)
    BY <1>7, FS_Union
  <1>11. Cardinality(All) = Cardinality(ABC) + Cardinality(R) - Cardinality(ABC \cap R)
    BY <1>7, FS_Union
  <1>12. /\ s3.remaining = Cardinality(R) /\ Cardinality(s3.positions) = Cardinality(ABC)
         /\ ViewBeyond = Cardinality(s3.positions) - (Cardinality(A) + Cardinality(B) + Cardinality(C))
         /\ View!HoldingsValue = Cardinality(A) + s3.remaining + Cardinality(B) + Cardinality(C)
                             + IF ViewBeyond > 0 THEN ViewBeyond ELSE 0
    BY <1>1, <1>4, ViewOperators DEF ViewCovers, ViewBeyond, ViewCounted
  <1>13. Cardinality(A \cap B) = 0 /\ Cardinality(AB \cap C) = 0 /\ Cardinality(ABC \cap R) = 0
    BY <1>4, <1>a
  <1>14. View!HoldingsValue = Cardinality(All)
    <2> HIDE DEF All, ABC, AB, A, B, C
    <2> QED BY <1>8, <1>9, <1>10, <1>11, <1>12, <1>13
  <1> QED BY <1>5, <1>14

LEMMA ViewSafe == ViewInv => View!ExposureIsCounted
  <1> SUFFICES ASSUME ViewInv PROVE View!ExposureIsCounted
    OBVIOUS
  <1>1. View!NothingUncounted
    BY ViewOperators, ViewNothingMissed
  <1>2. View!QuietViewIsExact
    BY ViewOperators, ViewNothingTwice
  <1>3. View!NoEntryForgotten
    <2> SUFFICES ASSUME s3.at = "done" PROVE {UnitOf[u] : u \in View!Committed} \subseteq View!TradesToday
                                               /\ (View!Committed \ s4 # {} => View!SlotHeld)
      BY DEF View!NoEntryForgotten
    <2>1. \A u \in ViewUnits : s1[u] # "canceled" => UnitOf[u] \in s3.fills \cup s3.pending
      BY DEF ViewInv, ViewLists
    <2>2. {UnitOf[u] : u \in View!Committed} \subseteq View!TradesToday
      BY <2>1 DEF View!Committed, View!TradesToday
    <2>3. PICK R \in SUBSET ViewUnits : ViewCovers(R)
      BY DEF ViewInv, ViewRemainders
    <2>4. View!Committed \ s4 # {} => View!SlotHeld
      BY <2>3 DEF ViewCovers, View!Committed, View!SlotHeld, ViewAsked, View!UnitsOf
    <2> QED BY <2>2, <2>4
  <1> QED BY <1>1, <1>2, <1>3 DEF View!ExposureIsCounted

-----------------------------------------------------------------------------
(***************************************************************************)
(* Entry.  A quantity is within a cap if and only if it is no larger than  *)
(* the bound computed from the cap (BuyBound), and every cap is kept by    *)
(* smaller quantities too; so the smallest bound, rounded down, is the     *)
(* largest quantity that fits or nothing does (BuySizedToTheLimit).  One   *)
(* of the caps is the cash that no pending buy may need, so that what all  *)
(* pending buys may cost stays covered (BuyOwed).                          *)
(*                                                                         *)
(* In Components s1 is price, s2 is cash, s3 is held, s4 is outside, s5 is *)
(* order, s6 is close, s7 is session, s8 is profile.                       *)
(***************************************************************************)

BuyRow == [asset : Traded \cup {"none"}, left : Nat, price : Nat, slippage : Nat, stop : Nat, today : BOOLEAN]

\* The types, and that open orders are for assets.
BuyTyped ==
    /\ s1 \in [Traded -> Nat \ {0}] /\ \A a \in Traded : s1[a] \in PricesOf[a]
    /\ s2 \in Int /\ s6 \in Int /\ s8 \in Profiles
    /\ s3 \in [Traded -> [lots : Nat, cost : Nat, stop : Nat]] /\ s4 \in [Traded -> Nat]
    /\ s5 \in [Entry!Orders -> BuyRow]
    /\ \A o \in Entry!Orders : s5[o].left > 0 => s5[o].asset \in Traded

\* What an order may still cost.
BuyOwed(order) ==
    [o \in Entry!Orders |->
        IF order[o].left > 0
        THEN Entry!FundingFor(order[o].asset, order[o].left, order[o].price, order[o].slippage) ELSE 0]

BuyInv == BuyTyped /\ s2 >= SumFunctionOnSet(BuyOwed(s5), Entry!Orders)

\* A bound of evaluate_risk is the largest quantity whose cost it covers.
LEMMA AtMostFloor ==
    ASSUME NEW b \in Int, NEW per \in Nat \ {0}, NEW q \in Nat \ {0}
    PROVE  Entry!Floor(b, per) \in Nat /\ (q <= Entry!Floor(b, per) <=> q * per <= b)
  <1>1. CASE b <= 0
    <2>1. q * per >= 1
      OBVIOUS
    <2> QED BY <1>1, <2>1 DEF Entry!Floor
  <1>2. CASE b > 0
    <2>1. b \div per \in Int /\ (0 <= b \div per <=> 0 * per <= b) /\ (q <= b \div per <=> q * per <= b)
      BY <1>2, AtMostQuotient, Quotients
    <2> QED BY <1>2, <2>1 DEF Entry!Floor
  <1> QED BY <1>1, <1>2

-----------------------------------------------------------------------------
(* The figures of the account.                                               *)

LEMMA BuyConstants ==
    /\ IsFiniteSet(Traded) /\ Crypto \subseteq Traded
    /\ Multiplier \in [Traded -> Nat \ {0}] /\ Fee \in Nat /\ MinLot \in Nat
    /\ \A a \in Traded : PricesOf[a] \subseteq Nat \ {0} /\ OutsideLots[a] \subseteq Nat
    /\ Unit \in Nat \ {0} /\ Increment \in Nat \ {0} /\ MinOrder \in Nat \ {0}
    /\ StopBelow \subseteq Nat \ {0} /\ Asked \subseteq Nat /\ Confidences \subseteq Nat /\ Regimes \subseteq Nat
    /\ Profiles \subseteq Entry!Limits /\ MaxOrders \in Nat /\ OpeningCash \in Nat
    /\ IsFiniteSet(Entry!Orders)
  <1>1. IsFiniteSet(Entry!Orders)
    <2>1. MaxOrders \in Nat
      BY EntryAssumed DEF Entry!EntryAssumption
    <2> QED BY <2>1, FS_Interval DEF Entry!Orders
  <1> QED BY <1>1, EntryAssumed DEF Entry!EntryAssumption, IsFiniteSet, Entry!IsFiniteSet

\* The operators of the libraries are the same inside the instance.
LEMMA BuyOperators ==
    /\ \A f : Entry!SumFunction(f) = SumFunctionOnSet(f, DOMAIN f)
    /\ \A S : Entry!Min(S) = Min(S) /\ Entry!Max(S) = Max(S)
  <1>1. \A f : Entry!SumFunction(f) = SumFunctionOnSet(f, DOMAIN f)
    BY DEF Entry!SumFunction, SumFunctionOnSet, Entry!SumFunctionOnSet, FoldFunctionOnSet,
           Entry!FoldFunctionOnSet, MapThenFoldSet, Entry!MapThenFoldSet
  <1>2. \A S : Entry!Min(S) = Min(S) /\ Entry!Max(S) = Max(S)
    BY DEF Min, Entry!Min, Max, Entry!Max
  <1> QED BY <1>1, <1>2

LEMMA BuyLimits ==
    ASSUME BuyTyped
    PROVE  /\ s8.risk \in Nat /\ s8.openRisk \in Nat /\ s8.position \in Nat /\ s8.sector \in Nat
           /\ s8.exposure \in Nat /\ s8.slippage \in Nat /\ s8.confidence \in 0 .. 9 /\ s8.floor \in 0 .. 10
  <1>1. s8 \in Entry!Limits
    BY BuyConstants DEF BuyTyped
  <1> QED BY <1>1 DEF Entry!Limits

\* What one lot may cost, and what a quantity may.
BuyUnit(a, p, slippage) == p * Multiplier[a] * (100 + slippage + Entry!FeeOf(a))

LEMMA BuyFunding ==
    ASSUME NEW a \in Traded, NEW lots \in Nat, NEW p \in Nat, NEW slippage \in Nat
    PROVE  /\ Entry!FundingFor(a, lots, p, slippage) \in Nat /\ BuyUnit(a, p, slippage) \in Nat
           /\ Entry!FundingFor(a, lots, p, slippage) = lots * BuyUnit(a, p, slippage)
           /\ p # 0 /\ lots # 0 => Entry!FundingFor(a, lots, p, slippage) \in Nat \ {0}
  <1> DEFINE m == Multiplier[a]  c == 100 + slippage + Entry!FeeOf(a)
  <1>1. m \in Nat \ {0} /\ c \in Nat \ {0}
    BY BuyConstants DEF Entry!FeeOf
  <1>2. Entry!FundingFor(a, lots, p, slippage) = lots * p * m * c /\ BuyUnit(a, p, slippage) = p * m * c
    BY DEF Entry!FundingFor, BuyUnit
  <1> HIDE DEF m, c
  <1>3. p * m * c \in Nat /\ lots * (p * m * c) \in Nat
    BY <1>1, Products
  <1>4. p # 0 /\ lots # 0 => lots * (p * m * c) \in Nat \ {0}
    <2>1. p # 0 => p * m * c \in Nat \ {0}
      BY <1>1, Products
    <2> QED BY <1>3, <2>1, Products
  <1>5. lots * p * m * c = lots * (p * m * c)
    BY <1>1
  <1> QED BY <1>2, <1>3, <1>4, <1>5

\* Every figure that a cap compares is a whole number.
LEMMA BuyFigures ==
    ASSUME BuyTyped
    PROVE  /\ \A a \in Traded, p \in Nat :
                 Entry!PerLot(a, p) \in Nat /\ (p # 0 => Entry!PerLot(a, p) \in Nat \ {0})
           /\ \A a \in Traded : Entry!Value(a, s3[a].lots + s4[a]) \in Nat
           /\ Entry!Equity \in Int /\ Entry!Exposed \in Nat /\ Entry!OpenRisk \in Int
           /\ \A o \in Entry!Open : /\ o \in Entry!Orders /\ s5[o].asset \in Traded
                                    /\ Entry!Frozen(o) \in Nat /\ Entry!Current(o) \in Nat
           /\ Entry!Open \subseteq Entry!Orders /\ IsFiniteSet(Entry!Open)
  <1>0. /\ \A a \in Traded : /\ s1[a] \in Nat \ {0} /\ s4[a] \in Nat
                             /\ s3[a].lots \in Nat /\ s3[a].cost \in Nat /\ s3[a].stop \in Nat
        /\ \A o \in Entry!Orders : /\ s5[o].left \in Nat /\ s5[o].price \in Nat /\ s5[o].slippage \in Nat
                                   /\ s5[o].stop \in Int
    BY DEF BuyTyped, BuyRow
  <1>1. ASSUME NEW a \in Traded, NEW p \in Nat
        PROVE  Entry!PerLot(a, p) \in Nat /\ (p # 0 => Entry!PerLot(a, p) \in Nat \ {0})
    <2>1. Multiplier[a] \in Nat \ {0} /\ 100 * p \in Nat /\ (p # 0 => 100 * p \in Nat \ {0})
      BY BuyConstants
    <2> QED BY <2>1, Products DEF Entry!PerLot
  <1>2. ASSUME NEW a \in Traded PROVE Entry!Value(a, s3[a].lots + s4[a]) \in Nat /\ Entry!Value(a, s4[a]) \in Nat
    <2>1. Entry!PerLot(a, s1[a]) \in Nat /\ s3[a].lots + s4[a] \in Nat /\ s4[a] \in Nat
      BY <1>0, <1>1
    <2> QED BY <2>1, Products DEF Entry!Value
  <1>3. Entry!Open \subseteq Entry!Orders /\ IsFiniteSet(Entry!Open)
    <2>1. Entry!Open \subseteq Entry!Orders
      BY DEF Entry!Open
    <2> QED BY <2>1, BuyConstants, FS_Subset
  <1>4. ASSUME NEW o \in Entry!Open
        PROVE  /\ o \in Entry!Orders /\ s5[o].asset \in Traded
               /\ Entry!Frozen(o) \in Nat /\ Entry!Current(o) \in Nat
    <2>1. o \in Entry!Orders /\ s5[o].asset \in Traded
      BY DEF Entry!Open, BuyTyped
    <2> QED BY <1>0, <2>1, BuyFunding, BuyLimits DEF Entry!Frozen, Entry!Current
  <1>5. ASSUME NEW f, NEW S, IsFiniteSet(S), DOMAIN f = S, \A x \in S : f[x] \in Int
        PROVE  Entry!SumFunction(f) \in Int /\ ((\A x \in S : f[x] \in Nat) => Entry!SumFunction(f) \in Nat)
    BY <1>5, BuyOperators, SumType, SumOfNaturals
  <1>6. Entry!Equity \in Int
    <2>1. Entry!SumFunction(Entry!Worth) \in Int
      <3>1. DOMAIN Entry!Worth = Traded /\ \A a \in Traded : Entry!Worth[a] \in Int
        BY <1>2 DEF Entry!Worth
      <3> QED BY <1>5, <3>1, BuyConstants
    <2> QED BY <2>1 DEF Entry!Equity, BuyTyped
  <1>7. Entry!Exposed \in Nat
    <2> DEFINE all == [a \in Traded |-> Entry!Worth[a] + Entry!PendingValue(a)]
    <2>1. ASSUME NEW a \in Traded PROVE Entry!PendingValue(a) \in Nat
      <3> DEFINE left == [o \in Entry!OpenOf(a) |-> s5[o].left * Entry!PerLot(a, s5[o].price)]
      <3>1. IsFiniteSet(Entry!OpenOf(a)) /\ Entry!OpenOf(a) \subseteq Entry!Orders
        BY <1>3, FS_Subset DEF Entry!OpenOf
      <3>2. \A o \in Entry!OpenOf(a) : left[o] \in Nat
        BY <1>0, <1>1, <3>1, Products
      <3>3. Entry!SumFunction(left) \in Nat
        <4>1. DOMAIN left = Entry!OpenOf(a)
          OBVIOUS
        <4> HIDE DEF left
        <4> QED BY <1>5, <3>1, <3>2, <4>1
      <3> QED BY <3>3 DEF Entry!PendingValue
    <2>2. \A a \in Traded : all[a] \in Nat
      BY <1>2, <2>1 DEF Entry!Worth
    <2>3. Entry!SumFunction(all) \in Nat
      <3>1. DOMAIN all = Traded
        OBVIOUS
      <3> HIDE DEF all
      <3> QED BY <1>5, <2>2, <3>1, BuyConstants
    <2> QED BY <2>3 DEF Entry!Exposed
  <1>8. Entry!OpenRisk \in Int
    <2> DEFINE holding(a) == Entry!Most(0, s3[a].cost - s3[a].lots * Entry!PerLot(a, s3[a].stop))
                             + Entry!Value(a, s4[a])
               pending(o) == Entry!Most(0, s5[o].price - s5[o].stop) * s5[o].left * 100 * Multiplier[s5[o].asset]
               risks == [a \in Traded |-> holding(a)]
               orders == [o \in Entry!Open |-> pending(o)]
    <2>1. ASSUME NEW a \in Traded PROVE holding(a) \in Int
      <3>1. s3[a].lots * Entry!PerLot(a, s3[a].stop) \in Int
        BY <1>0, <1>1, Products
      <3> QED BY <1>0, <1>2, <3>1 DEF Entry!Most
    <2>2. ASSUME NEW o \in Entry!Open PROVE pending(o) \in Int
      <3>1. Entry!Most(0, s5[o].price - s5[o].stop) \in Int /\ s5[o].left \in Int /\ Multiplier[s5[o].asset] \in Int
        BY <1>0, <1>4, BuyConstants DEF Entry!Most
      <3> QED BY <3>1, Products
    <2>3. Entry!SumFunction(risks) \in Int
      <3>1. DOMAIN risks = Traded /\ \A a \in Traded : risks[a] \in Int
        BY <2>1
      <3> HIDE DEF risks
      <3> QED BY <1>5, <3>1, BuyConstants
    <2>4. Entry!SumFunction(orders) \in Int
      <3>1. DOMAIN orders = Entry!Open /\ \A o \in Entry!Open : orders[o] \in Int
        BY <2>2
      <3> HIDE DEF orders
      <3> QED BY <1>3, <1>5, <3>1
    <2> QED BY <2>3, <2>4 DEF Entry!OpenRisk
  <1> QED BY <1>1, <1>2, <1>3, <1>4, <1>6, <1>7, <1>8

-----------------------------------------------------------------------------
(* The size of a buy.                                                        *)

\* The pending buys together cost no more than their larger prices.
LEMMA BuyPending ==
    ASSUME BuyTyped
    PROVE  /\ Entry!PendingFunding \in Int /\ Entry!Available \in Int
           /\ SumFunctionOnSet(BuyOwed(s5), Entry!Orders) <= Entry!PendingFunding
           /\ Entry!EveryBuyIsFunded <=> s2 >= SumFunctionOnSet(BuyOwed(s5), Entry!Orders)
  <1> DEFINE frozen == [o \in Entry!Open |-> Entry!Frozen(o)]
             larger == [o \in Entry!Open |-> Entry!Most(Entry!Frozen(o), Entry!Current(o))]
             owed   == BuyOwed(s5)
  <1>0. /\ Entry!Open \in SUBSET Entry!Orders /\ IsFiniteSet(Entry!Open) /\ IsFiniteSet(Entry!Orders)
        /\ s2 \in Int /\ \A o \in Entry!Orders : s5[o].left \in Nat
    BY BuyFigures, BuyConstants DEF BuyTyped, BuyRow
  <1>1. \A o \in Entry!Open : frozen[o] \in Int /\ larger[o] \in Int /\ frozen[o] <= larger[o]
    <2> SUFFICES ASSUME NEW o \in Entry!Open PROVE frozen[o] \in Int /\ larger[o] \in Int /\ frozen[o] <= larger[o]
      OBVIOUS
    <2>1. Entry!Frozen(o) \in Nat /\ Entry!Current(o) \in Nat
      BY BuyFigures
    <2> QED BY <2>1 DEF Entry!Most
  <1>2. DOMAIN frozen = Entry!Open /\ DOMAIN larger = Entry!Open
    OBVIOUS
  <1>3. /\ \A o \in Entry!Open : owed[o] = frozen[o]
        /\ \A o \in Entry!Orders \ Entry!Open : owed[o] = 0
    BY <1>0 DEF BuyOwed, Entry!Open, Entry!Frozen
  <1> HIDE DEF frozen, larger, owed
  <1>4. SumFunctionOnSet(owed, Entry!Orders) = SumFunctionOnSet(frozen, Entry!Open)
    <2>1. SumFunctionOnSet(owed, Entry!Orders) = SumFunctionOnSet(owed, Entry!Open)
      BY <1>0, <1>1, <1>3, SumOnSupport
    <2>2. SumFunctionOnSet(owed, Entry!Open) = SumFunctionOnSet(frozen, Entry!Open)
      BY <1>0, <1>3, SumCongruence
    <2> QED BY <2>1, <2>2
  <1>5. SumFunctionOnSet(frozen, Entry!Open) <= SumFunctionOnSet(larger, Entry!Open)
    BY <1>0, <1>1, SumMonotone
  <1>6. SumFunctionOnSet(larger, Entry!Open) \in Int
    BY <1>0, <1>1, SumType
  <1>7. Entry!PendingFunding = SumFunctionOnSet(larger, Entry!Open)
    BY <1>2, BuyOperators DEF Entry!PendingFunding, larger
  <1>8. Entry!EveryBuyIsFunded <=> s2 >= SumFunctionOnSet(frozen, Entry!Open)
    BY <1>2, BuyOperators DEF Entry!EveryBuyIsFunded, frozen
  <1> QED BY <1>0, <1>4, <1>5, <1>6, <1>7, <1>8 DEF Entry!Available, owed

\* A request is for a protected quantity: its stop is below its price.
LEMMA BuyRequest ==
    ASSUME BuyTyped, NEW e \in Entry!Requests
    PROVE  /\ e.asset \in Traded /\ e.asked \in Nat /\ s1[e.asset] \in Nat \ {0}
           /\ Entry!SizingStop(e) \in Nat /\ Entry!UnitRisk(e) \in Nat \ {0}
           /\ Entry!Budget(e) \in Int /\ s8.risk * Entry!Equity * Entry!Scaled(e.confidence) * e.regime \in Int
           /\ Entry!PerLot(e.asset, s1[e.asset]) \in Nat \ {0}
           /\ Entry!Step(e.asset) \in Nat \ {0} /\ Entry!StopOf(e) \in Nat
  <1>1. /\ e.asset \in Traded /\ e.asked \in Nat /\ e.below \in Nat \ {0} /\ e.confidence \in Nat
        /\ e.regime \in Nat /\ e.below < s1[e.asset] /\ s1[e.asset] \in Nat \ {0}
    BY BuyConstants DEF Entry!Requests, BuyTyped
  <1>2. Entry!StopOf(e) \in Nat /\ s1[e.asset] - Entry!StopOf(e) \in Nat \ {0}
    BY <1>1 DEF Entry!StopOf
  <1>3. Entry!SizingStop(e) \in Nat /\ s1[e.asset] - Entry!SizingStop(e) \in Nat \ {0}
    <2>1. s3[e.asset].stop \in Nat
      BY <1>1 DEF BuyTyped
    <2> QED BY <1>1, <1>2, <2>1 DEF Entry!SizingStop, Entry!Least
  <1>4. Entry!UnitRisk(e) \in Nat \ {0}
    <2>1. Multiplier[e.asset] \in Nat \ {0} /\ 100 * (s1[e.asset] - Entry!SizingStop(e)) \in Nat \ {0}
      BY <1>1, <1>3, BuyConstants
    <2> QED BY <2>1, Products DEF Entry!UnitRisk
  <1>5. Entry!Scaled(e.confidence) \in Int
    <2>1. /\ 10 - s8.confidence \in Nat \ {0} /\ s8.floor \in Int
          /\ (10 - s8.floor) \in Int /\ (e.confidence - s8.confidence) \in Int
      BY <1>1, BuyLimits
    <2>2. (10 - s8.floor) * (e.confidence - s8.confidence) \in Int
      BY <2>1, Products
    <2>3. ((10 - s8.floor) * (e.confidence - s8.confidence)) \div (10 - s8.confidence) \in Int
      BY <2>1, <2>2, Quotients
    <2> QED BY <2>1, <2>3 DEF Entry!Scaled
  <1>6. s8.risk * Entry!Equity * Entry!Scaled(e.confidence) * e.regime \in Int
    <2>1. s8.risk * Entry!Equity \in Int
      BY BuyLimits, BuyFigures, Products
    <2>2. s8.risk * Entry!Equity * Entry!Scaled(e.confidence) \in Int
      BY <1>5, <2>1, Products
    <2> QED BY <1>1, <2>2, Products
  <1>7. Entry!Budget(e) \in Int
    BY <1>6, Quotients DEF Entry!Budget
  <1>8. Entry!PerLot(e.asset, s1[e.asset]) \in Nat \ {0} /\ Entry!Step(e.asset) \in Nat \ {0}
    <2>1. Entry!PerLot(e.asset, s1[e.asset]) \in Nat \ {0}
      BY <1>1, BuyFigures
    <2>2. Entry!Step(e.asset) \in Nat \ {0}
      BY BuyConstants DEF Entry!Step
    <2> QED BY <2>1, <2>2
  <1> QED BY <1>1, <1>2, <1>3, <1>4, <1>6, <1>7, <1>8

\* The caps of evaluate_risk on a buy of q lots.
BuyCaps(e, q) ==
    LET notional == q * Entry!PerLot(e.asset, s1[e.asset]) IN
    /\ 10000 * q * Entry!UnitRisk(e) <= s8.risk * Entry!Equity * Entry!Scaled(e.confidence) * e.regime
    /\ 100 * (Entry!OpenRisk + q * Entry!UnitRisk(e)) <= s8.openRisk * Entry!Equity
    /\ 100 * (Entry!Value(e.asset, s3[e.asset].lots + s4[e.asset]) + notional) <= s8.position * Entry!Equity
    /\ 100 * (Entry!Exposed + notional) <= Entry!Least(s8.sector, s8.exposure) * Entry!Equity
    /\ 100 * Entry!FundingFor(e.asset, q, s1[e.asset], s8.slippage) <= 99 * Entry!Available

\* The lower of two percentages is the one that binds.
LEMMA LowerPercent ==
    ASSUME NEW x \in Nat, NEW y \in Nat, NEW equity \in Int, NEW n \in Nat \ {0}
    PROVE  n <= Entry!Least(x, y) * equity <=> n <= x * equity /\ n <= y * equity
  <1>1. ASSUME NEW u \in Nat, NEW v \in Nat, u <= v, n <= u * equity PROVE n <= v * equity
    <2>1. equity > 0
      <3>1. equity <= 0 => u * equity <= 0
        OBVIOUS
      <3> QED BY <1>1, <3>1
    <2>2. u * equity <= v * equity
      BY <1>1, <2>1
    <2>3. u * equity \in Int /\ v * equity \in Int
      BY Products
    <2> QED BY <1>1, <2>2, <2>3
  <1> QED BY <1>1 DEF Entry!Least

\* A quantity keeps within the caps if and only if no bound is below it.
LEMMA BuyBound ==
    ASSUME BuyTyped, NEW e \in Entry!Requests, NEW q \in Nat \ {0}
    PROVE  /\ (\A b \in Entry!Bounds(e) : q <= b) <=> BuyCaps(e, q)
           /\ Entry!Bounds(e) \in SUBSET Nat /\ IsFiniteSet(Entry!Bounds(e)) /\ Entry!Bounds(e) # {}
  <1> DEFINE a    == e.asset
             per  == Entry!PerLot(a, s1[a])
             ur   == Entry!UnitRisk(e)
             n    == q * per
             val  == Entry!Value(a, s3[a].lots + s4[a])
             risk == s8.risk * Entry!Equity * Entry!Scaled(e.confidence) * e.regime
             unit == 100 * (100 + s8.slippage + Entry!FeeOf(a)) * s1[a] * Multiplier[a]
             b1   == Entry!Floor(Entry!Budget(e), ur)
             b2   == Entry!Floor(Entry!RiskLeft, ur)
             b3   == Entry!Floor(Entry!PositionLeft(a), per)
             b4   == Entry!Floor(Entry!SectorLeft, per)
             b5   == Entry!Floor(Entry!ExposureLeft, per)
             b6   == Entry!Affordable(a)
  <1>0. /\ a \in Traded /\ per \in Nat \ {0} /\ ur \in Nat \ {0} /\ val \in Nat /\ risk \in Int
        /\ Entry!Equity \in Int /\ Entry!Exposed \in Nat /\ Entry!OpenRisk \in Int /\ Entry!Available \in Int
        /\ s1[a] \in Nat \ {0} /\ Multiplier[a] \in Nat \ {0} /\ s8.slippage \in Nat /\ Entry!FeeOf(a) \in Nat
        /\ s8.openRisk \in Nat /\ s8.position \in Nat /\ s8.sector \in Nat /\ s8.exposure \in Nat
        /\ Entry!Budget(e) \in Int
    <2>1. /\ a \in Traded /\ per \in Nat \ {0} /\ ur \in Nat \ {0} /\ risk \in Int /\ s1[a] \in Nat \ {0}
          /\ Entry!Budget(e) \in Int
      BY BuyRequest
    <2>2. /\ val \in Nat /\ Entry!Equity \in Int /\ Entry!Exposed \in Nat /\ Entry!OpenRisk \in Int
      BY <2>1, BuyFigures
    <2>3. Entry!Available \in Int
      BY BuyPending
    <2>4. Multiplier[a] \in Nat \ {0} /\ Entry!FeeOf(a) \in Nat
      BY <2>1, BuyConstants DEF Entry!FeeOf
    <2>5. /\ s8.slippage \in Nat /\ s8.openRisk \in Nat /\ s8.position \in Nat /\ s8.sector \in Nat
          /\ s8.exposure \in Nat
      BY BuyLimits
    <2> HIDE DEF a, per, ur, val, risk
    <2> QED BY <2>1, <2>2, <2>3, <2>4, <2>5
  <1>1. n \in Nat \ {0} /\ q * ur \in Nat \ {0}
    BY <1>0, Products
  <1>2. b1 \in Nat /\ (q <= b1 <=> 10000 * q * ur <= risk)
    <2>1. Entry!Budget(e) = risk \div 10000
      BY DEF Entry!Budget
    <2>2. q * ur <= risk \div 10000 <=> (q * ur) * 10000 <= risk
      BY <1>0, <1>1, AtMostQuotient
    <2>3. b1 \in Nat /\ (q <= b1 <=> q * ur <= Entry!Budget(e))
      BY <1>0, AtMostFloor
    <2>4. (q * ur) * 10000 = 10000 * q * ur
      BY <1>0
    <2> QED BY <2>1, <2>2, <2>3, <2>4
  <1>3. b2 \in Nat /\ (q <= b2 <=> 100 * (Entry!OpenRisk + q * ur) <= s8.openRisk * Entry!Equity)
    <2>1. /\ Entry!RiskLeft \in Int
          /\ q * ur <= Entry!RiskLeft <=> 100 * (Entry!OpenRisk + q * ur) <= s8.openRisk * Entry!Equity
      BY <1>0, <1>1, PercentLeft DEF Entry!RiskLeft
    <2>2. b2 \in Nat /\ (q <= b2 <=> q * ur <= Entry!RiskLeft)
      BY <1>0, <2>1, AtMostFloor
    <2> QED BY <2>1, <2>2
  <1>4. b3 \in Nat /\ (q <= b3 <=> 100 * (val + n) <= s8.position * Entry!Equity)
    <2>1. /\ Entry!PositionLeft(a) \in Int
          /\ n <= Entry!PositionLeft(a) <=> 100 * (val + n) <= s8.position * Entry!Equity
      BY <1>0, <1>1, PercentLeft DEF Entry!PositionLeft
    <2>2. b3 \in Nat /\ (q <= b3 <=> n <= Entry!PositionLeft(a))
      BY <1>0, <2>1, AtMostFloor
    <2> QED BY <2>1, <2>2
  <1>5. b4 \in Nat /\ (q <= b4 <=> 100 * (Entry!Exposed + n) <= s8.sector * Entry!Equity)
    <2>1. /\ Entry!SectorLeft \in Int
          /\ n <= Entry!SectorLeft <=> 100 * (Entry!Exposed + n) <= s8.sector * Entry!Equity
      BY <1>0, <1>1, PercentLeft DEF Entry!SectorLeft
    <2>2. b4 \in Nat /\ (q <= b4 <=> n <= Entry!SectorLeft)
      BY <1>0, <2>1, AtMostFloor
    <2> QED BY <2>1, <2>2
  <1>6. b5 \in Nat /\ (q <= b5 <=> 100 * (Entry!Exposed + n) <= s8.exposure * Entry!Equity)
    <2>1. /\ Entry!ExposureLeft \in Int
          /\ n <= Entry!ExposureLeft <=> 100 * (Entry!Exposed + n) <= s8.exposure * Entry!Equity
      BY <1>0, <1>1, PercentLeft DEF Entry!ExposureLeft
    <2>2. b5 \in Nat /\ (q <= b5 <=> n <= Entry!ExposureLeft)
      BY <1>0, <2>1, AtMostFloor
    <2> QED BY <2>1, <2>2
  <1>7. b6 \in Nat /\ (q <= b6 <=> 100 * Entry!FundingFor(a, q, s1[a], s8.slippage) <= 99 * Entry!Available)
    <2>1. unit \in Nat \ {0}
      <3>1. 100 * (100 + s8.slippage + Entry!FeeOf(a)) \in Nat \ {0}
        BY <1>0
      <3>2. 100 * (100 + s8.slippage + Entry!FeeOf(a)) * s1[a] \in Nat \ {0}
        BY <1>0, <3>1, Products
      <3> QED BY <1>0, <3>2, Products
    <2>2. b6 \in Nat /\ (q <= b6 <=> q * unit <= 99 * Entry!Available)
      <3>1. 99 * Entry!Available \in Int
        BY <1>0
      <3>2. b6 = Entry!Floor(99 * Entry!Available, unit)
        BY DEF Entry!Affordable
      <3> HIDE DEF unit, b6
      <3> QED BY <2>1, <3>1, <3>2, AtMostFloor
    <2>3. q * unit = 100 * Entry!FundingFor(a, q, s1[a], s8.slippage)
      <3> DEFINE c == 100 + s8.slippage + Entry!FeeOf(a)
      <3>1. c \in Nat
        BY <1>0
      <3>2. Entry!FundingFor(a, q, s1[a], s8.slippage) = q * s1[a] * Multiplier[a] * c
        BY DEF Entry!FundingFor
      <3> HIDE DEF c
      <3>3. q * (100 * c * s1[a] * Multiplier[a]) = 100 * (q * s1[a] * Multiplier[a] * c)
        BY <1>0, <3>1
      <3> QED BY <3>2, <3>3 DEF c
    <2> QED BY <2>2, <2>3
  <1>8. /\ 100 * (Entry!Exposed + n) <= s8.sector * Entry!Equity
        /\ 100 * (Entry!Exposed + n) <= s8.exposure * Entry!Equity
        <=> 100 * (Entry!Exposed + n) <= Entry!Least(s8.sector, s8.exposure) * Entry!Equity
    <2>1. 100 * (Entry!Exposed + n) \in Nat \ {0}
      BY <1>0, <1>1
    <2>2. PICK m \in Nat \ {0} : m = 100 * (Entry!Exposed + n)
      BY <2>1
    <2>3. m <= Entry!Least(s8.sector, s8.exposure) * Entry!Equity
            <=> m <= s8.sector * Entry!Equity /\ m <= s8.exposure * Entry!Equity
      BY <1>0, LowerPercent
    <2> HIDE DEF n, per, a
    <2> QED BY <2>2, <2>3
  <1>9. Entry!Bounds(e) = {b1, b2, b3, b4, b5, b6}
    BY DEF Entry!Bounds
  <1>10. BuyCaps(e, q) <=>
            /\ 10000 * q * ur <= risk
            /\ 100 * (Entry!OpenRisk + q * ur) <= s8.openRisk * Entry!Equity
            /\ 100 * (val + n) <= s8.position * Entry!Equity
            /\ 100 * (Entry!Exposed + n) <= Entry!Least(s8.sector, s8.exposure) * Entry!Equity
            /\ 100 * Entry!FundingFor(a, q, s1[a], s8.slippage) <= 99 * Entry!Available
    BY DEF BuyCaps
  <1> HIDE DEF b1, b2, b3, b4, b5, b6, n, ur, val, risk, a
  <1>11. (\A b \in Entry!Bounds(e) : q <= b) <=>
            q <= b1 /\ q <= b2 /\ q <= b3 /\ q <= b4 /\ q <= b5 /\ q <= b6
    BY <1>9
  <1>12. IsFiniteSet({b1, b2, b3, b4, b5, b6})
    <2> DEFINE all == b1 + b2 + b3 + b4 + b5 + b6
    <2>1. all \in Nat /\ {b1, b2, b3, b4, b5, b6} \subseteq 0 .. all
      BY <1>2, <1>3, <1>4, <1>5, <1>6, <1>7
    <2>2. IsFiniteSet(0 .. all)
      <3> HIDE DEF all
      <3> QED BY <2>1, FS_Interval
    <2> QED BY <2>1, <2>2, FS_Subset
  <1> QED BY <1>2, <1>3, <1>4, <1>5, <1>6, <1>7, <1>8, <1>9, <1>10, <1>11, <1>12

\* The quantity that is left of the caps is the largest one within them.
LEMMA BuySized ==
    ASSUME BuyTyped, NEW e \in Entry!Requests, NEW k \in Nat
    PROVE  /\ Entry!Sized(e, k) \in Nat
           /\ \A q \in Nat \ {0} : q <= Entry!Sized(e, k) <=> q <= k /\ BuyCaps(e, q)
           /\ Entry!Sized(e, k) <= k
  <1> DEFINE all == Entry!Bounds(e) \cup {k}
  <1>1. Entry!Bounds(e) \in SUBSET Nat /\ IsFiniteSet(Entry!Bounds(e))
    <2>1. 1 \in Nat \ {0}
      OBVIOUS
    <2> QED BY <2>1, BuyBound
  <1>2. all \in SUBSET Int /\ all # {} /\ IsFiniteSet(all)
    BY <1>1, FS_AddElement
  <1>3. Entry!Sized(e, k) = Min(all)
    BY BuyOperators DEF Entry!Sized
  <1>4. Min(all) \in all /\ \A x \in all : Min(all) <= x
    <2> HIDE DEF all
    <2> QED BY <1>2, MinOfFinite
  <1>5. ASSUME NEW q \in Nat \ {0} PROVE q <= Min(all) <=> q <= k /\ BuyCaps(e, q)
    <2>1. q <= Min(all) <=> \A x \in all : q <= x
      BY <1>1, <1>2, <1>4
    <2>2. (\A b \in Entry!Bounds(e) : q <= b) <=> BuyCaps(e, q)
      BY BuyBound
    <2> QED BY <2>1, <2>2
  <1>6. Min(all) \in Nat /\ Min(all) <= k
    BY <1>1, <1>4
  <1> QED BY <1>3, <1>5, <1>6

\* What the submission of a buy comes to: the largest quantity within the caps,
\* rounded down.
BuyRounded(e) == (Entry!Sized(e, e.asked) \div Entry!Step(e.asset)) * Entry!Step(e.asset)

\* A smaller quantity keeps within the caps of a larger one.
LEMMA BuyRoundedDown ==
    ASSUME BuyTyped, NEW e \in Entry!Requests
    PROVE  /\ BuyRounded(e) \in Nat /\ Entry!Sized(e, e.asked) \in Nat
           /\ BuyRounded(e) <= Entry!Sized(e, e.asked) /\ BuyRounded(e) <= e.asked
           /\ BuyRounded(e) % Entry!Step(e.asset) = 0
           /\ \A q \in Nat \ {0} : q <= e.asked /\ BuyCaps(e, q) /\ q % Entry!Step(e.asset) = 0
                                     => q <= BuyRounded(e)
           /\ BuyRounded(e) > 0 => BuyCaps(e, BuyRounded(e)) /\ Entry!Sized(e, BuyRounded(e)) = BuyRounded(e)
  <1> DEFINE B == Entry!Sized(e, e.asked)  D == BuyRounded(e)  s == Entry!Step(e.asset)
  <1>1. e.asked \in Nat /\ s \in Nat \ {0}
    BY BuyRequest
  <1>2. /\ B \in Nat /\ B <= e.asked
        /\ \A q \in Nat \ {0} : q <= B <=> q <= e.asked /\ BuyCaps(e, q)
    BY <1>1, BuySized
  <1>3. /\ D \in Nat /\ D <= B /\ D % s = 0
        /\ \A q \in Nat : q <= B /\ q % s = 0 => q <= D
    <2> DEFINE d == (B \div s) * s
    <2>1. D = d
      BY DEF BuyRounded
    <2> HIDE DEF B, s, D
    <2>2. /\ d \in Nat /\ d <= B /\ d % s = 0
          /\ \A q \in Nat : q <= B /\ q % s = 0 => q <= d
      BY <1>1, <1>2, RoundedDown
    <2> HIDE DEF d
    <2> QED BY <2>1, <2>2
  <1>4. ASSUME D > 0 PROVE BuyCaps(e, D) /\ Entry!Sized(e, D) = D
    <2>1. D \in Nat \ {0}
      BY <1>3, <1>4
    <2>2. BuyCaps(e, D)
      BY <1>2, <1>3, <2>1
    <2>3. /\ Entry!Sized(e, D) \in Nat /\ Entry!Sized(e, D) <= D
          /\ D <= Entry!Sized(e, D) <=> D <= D /\ BuyCaps(e, D)
      BY <2>1, BuySized
    <2> HIDE DEF D
    <2> QED BY <2>1, <2>2, <2>3
  <1> HIDE DEF B, D, s
  <1>5. D <= e.asked
    BY <1>1, <1>2, <1>3
  <1> QED BY <1>2, <1>3, <1>4, <1>5 DEF B, D, s

\* What of a limit is not a cap of evaluate_risk: the value, the exit at the
\* stop and the steps of the quantity.
BuyShape(e, q) ==
    /\ q * Entry!PerLot(e.asset, s1[e.asset]) >= MinLot
    /\ Entry!ExitFeasible(e, q)
    /\ q % Entry!Step(e.asset) = 0
    /\ e.asset \in Crypto => q >= MinOrder

LEMMA BuyFitsIs ==
    ASSUME NEW e, NEW q
    PROVE  Entry!Fits(e, q) <=> BuyCaps(e, q) /\ BuyShape(e, q)
  BY DEF Entry!Fits, BuyCaps, BuyShape

\* More is worth more, at the price and at the stop.
LEMMA BuyMore ==
    ASSUME BuyTyped, NEW e \in Entry!Requests, NEW q \in Nat, NEW r \in Nat, q <= r
    PROVE  /\ q * Entry!PerLot(e.asset, s1[e.asset]) >= MinLot => r * Entry!PerLot(e.asset, s1[e.asset]) >= MinLot
           /\ Entry!ExitFeasible(e, q) => Entry!ExitFeasible(e, r)
  <1>1. /\ Entry!PerLot(e.asset, s1[e.asset]) \in Nat /\ Entry!PerLot(e.asset, Entry!SizingStop(e)) \in Nat
        /\ MinLot \in Nat /\ MinOrder \in Nat
    BY BuyRequest, BuyFigures, BuyConstants
  <1>2. ASSUME NEW x \in Nat, NEW y \in Nat, q * x >= y PROVE r * x >= y
    <2>1. q * x <= r * x /\ q * x \in Int /\ r * x \in Int
      BY Products
    <2> QED BY <1>2, <2>1
  <1>3. Entry!Threshold(e) \in Nat
    <2>1. MinOrder * Entry!PerLot(e.asset, Entry!SizingStop(e)) \in Nat
      BY <1>1, Products
    <2> QED BY <1>1, <2>1 DEF Entry!Threshold, Entry!Most
  <1> QED BY <1>1, <1>2, <1>3 DEF Entry!ExitFeasible, Entry!ExitValue

\* A quantity that fits leaves the submission at the rounded one, which fits.
LEMMA BuyFitting ==
    ASSUME BuyTyped, NEW e \in Entry!Requests, ~Entry!Refused(e), Entry!Allowed(e.asset),
           NEW q \in 1 .. e.asked, Entry!Fits(e, q)
    PROVE  Entry!Submitted(e) = BuyRounded(e) /\ q <= BuyRounded(e)
  <1> DEFINE B == Entry!Sized(e, e.asked)  D == BuyRounded(e)  per == Entry!PerLot(e.asset, s1[e.asset])
             first == Entry!Approved(e, e.asked)
  <1>1. e.asked \in Nat /\ q \in Nat \ {0} /\ q <= e.asked /\ per \in Nat
    BY BuyRequest
  <1>2. BuyCaps(e, q) /\ BuyShape(e, q)
    BY BuyFitsIs
  <1>3. B \in Nat /\ D \in Nat /\ D <= B /\ q <= D /\ Entry!Sized(e, D) = D /\ BuyCaps(e, D)
    <2>1. q <= D
      BY <1>1, <1>2, BuyRoundedDown DEF BuyShape
    <2>2. D \in Nat /\ B \in Nat /\ D <= B
      BY BuyRoundedDown
    <2>3. D > 0
      BY <1>1, <2>1, <2>2
    <2> HIDE DEF D, B
    <2> QED BY <2>1, <2>2, <2>3, BuyRoundedDown DEF D, B
  <1>4. /\ D * per >= MinLot /\ B * per >= MinLot /\ Entry!ExitFeasible(e, D)
        /\ e.asset \in Crypto => D >= MinOrder
    <2>1. q * per >= MinLot /\ Entry!ExitFeasible(e, q) /\ (e.asset \in Crypto => q >= MinOrder)
      BY <1>2 DEF BuyShape
    <2>2. q <= B
      BY <1>1, <1>3
    <2>3. MinOrder \in Nat
      BY BuyConstants
    <2>4. D * per >= MinLot /\ Entry!ExitFeasible(e, D)
      BY <1>1, <1>3, <2>1, BuyMore
    <2>5. B * per >= MinLot
      BY <1>1, <1>3, <2>1, <2>2, BuyMore
    <2> HIDE DEF D, B, per
    <2> QED BY <1>1, <1>3, <2>1, <2>3, <2>4, <2>5
  <1>5. Entry!Available > 0
    <2>1. /\ Entry!Available \in Int
          /\ 100 * Entry!FundingFor(e.asset, q, s1[e.asset], s8.slippage) <= 99 * Entry!Available
      BY <1>2, BuyPending DEF BuyCaps
    <2>2. Entry!FundingFor(e.asset, q, s1[e.asset], s8.slippage) >= 1
      <3>1. e.asset \in Traded /\ s1[e.asset] \in Nat /\ s1[e.asset] # 0 /\ s8.slippage \in Nat /\ q \in Nat
        BY <1>1, BuyRequest, BuyLimits
      <3>2. Entry!FundingFor(e.asset, q, s1[e.asset], s8.slippage) \in Nat \ {0}
        BY <1>1, <3>1, BuyFunding
      <3> QED BY <3>2
    <2>3. Entry!FundingFor(e.asset, q, s1[e.asset], s8.slippage) \in Nat
      BY <1>1, BuyRequest, BuyLimits, BuyFunding
    <2>4. PICK x \in Nat : x = Entry!FundingFor(e.asset, q, s1[e.asset], s8.slippage)
      BY <2>3
    <2>5. x >= 1 /\ 100 * x <= 99 * Entry!Available /\ Entry!Available \in Int
      BY <2>1, <2>2, <2>4
    <2> HIDE DEF B, D, per, first
    <2> QED BY <2>5
  <1>6. first = B /\ Entry!Approved(e, D) = D
    <2>1. first = IF B < 1 \/ B * per < MinLot THEN 0 ELSE B
      BY DEF Entry!Approved
    <2>2. Entry!Approved(e, D) = IF D < 1 \/ D * per < MinLot THEN 0 ELSE D
      BY <1>3 DEF Entry!Approved
    <2>3. MinLot \in Nat
      BY BuyConstants
    <2>4. B * per \in Nat /\ D * per \in Nat
      BY <1>1, <1>3, Products
    <2> HIDE DEF first, B, D, per
    <2> QED BY <1>1, <1>3, <1>4, <2>1, <2>2, <2>3, <2>4
  <1>7. Entry!Shaped(e.asset, first) = D
    <2>1. Entry!Shaped(e.asset, B) = IF e.asset \in Crypto /\ D < MinOrder THEN 0 ELSE D
      BY DEF Entry!Shaped, BuyRounded
    <2>2. MinOrder \in Nat
      BY BuyConstants
    <2>3. ~(e.asset \in Crypto /\ D < MinOrder)
      <3> HIDE DEF D
      <3> QED BY <1>3, <1>4, <2>2
    <2> HIDE DEF first, B, D
    <2> QED BY <1>6, <2>1, <2>3
  <1>8. D > 0
    <2> HIDE DEF D
    <2> QED BY <1>1, <1>3
  <1>9. Entry!Submitted(e) =
            IF /\ Entry!Allowed(e.asset) /\ Entry!Available > 0 /\ Entry!Shaped(e.asset, first) > 0
               /\ Entry!Shaped(e.asset, first) # first =>
                    Entry!Approved(e, Entry!Shaped(e.asset, first)) = Entry!Shaped(e.asset, first)
               /\ Entry!ExitFeasible(e, Entry!Shaped(e.asset, first))
            THEN Entry!Shaped(e.asset, first) ELSE 0
    BY DEF Entry!Submitted
  <1> HIDE DEF first, B, D, per
  <1> QED BY <1>3, <1>4, <1>5, <1>6, <1>7, <1>8, <1>9 DEF D

\* A quantity that is submitted is the rounded one, and fits.
LEMMA BuySubmitted ==
    ASSUME BuyTyped, NEW e \in Entry!Requests
    PROVE  /\ Entry!Submitted(e) \in Nat
           /\ Entry!Submitted(e) > 0 =>
                /\ ~Entry!Refused(e) /\ Entry!Allowed(e.asset)
                /\ Entry!Submitted(e) \in 1 .. e.asked /\ Entry!Fits(e, Entry!Submitted(e))
  <1> DEFINE B == Entry!Sized(e, e.asked)  D == BuyRounded(e)  per == Entry!PerLot(e.asset, s1[e.asset])
             first == Entry!Approved(e, e.asked)  q == Entry!Shaped(e.asset, first)
  <1>1. /\ B \in Nat /\ D \in Nat /\ D <= B /\ D <= e.asked /\ e.asked \in Nat
        /\ D % Entry!Step(e.asset) = 0 /\ per \in Nat
        /\ D > 0 => BuyCaps(e, D) /\ Entry!Sized(e, D) = D
    BY BuyRequest, BuyRoundedDown
  <1>2. first = IF Entry!Refused(e) \/ B < 1 \/ B * per < MinLot THEN 0 ELSE B
    BY DEF Entry!Approved
  <1>3. q = IF first = B THEN IF e.asset \in Crypto /\ D < MinOrder THEN 0 ELSE D ELSE 0
    <2>1. Entry!Shaped(e.asset, B) = IF e.asset \in Crypto /\ D < MinOrder THEN 0 ELSE D
      BY DEF Entry!Shaped, BuyRounded
    <2>2. Entry!Shaped(e.asset, 0) = 0
      <3>1. Entry!Step(e.asset) \in Nat \ {0}
        BY BuyRequest
      <3>2. 0 \div Entry!Step(e.asset) \in Int /\ (0 \div Entry!Step(e.asset)) * Entry!Step(e.asset) = 0
        <4>1. PICK s \in Nat \ {0} : s = Entry!Step(e.asset)
          BY <3>1
        <4>2. (0 \div s) * s = 0
          <5>1. /\ (0 \div s) * s \in Nat /\ (0 \div s) * s <= 0
            BY RoundedDown
          <5> QED BY <5>1
        <4>3. 0 \div s \in Int
          BY Quotients
        <4> QED BY <4>1, <4>2, <4>3
      <3>3. MinOrder \in Nat \ {0}
        BY BuyConstants
      <3> QED BY <3>2, <3>3 DEF Entry!Shaped
    <2>3. first = B \/ first = 0
      BY <1>2
    <2> HIDE DEF first, B, D
    <2> QED BY <2>1, <2>2, <2>3
  <1>4. Entry!Submitted(e) =
            IF /\ Entry!Allowed(e.asset) /\ Entry!Available > 0 /\ q > 0
               /\ q # first => Entry!Approved(e, q) = q
               /\ Entry!ExitFeasible(e, q)
            THEN q ELSE 0
    BY DEF Entry!Submitted
  <1>5. D > 0 => Entry!Approved(e, D) = IF Entry!Refused(e) \/ D < 1 \/ D * per < MinLot THEN 0 ELSE D
    BY <1>1 DEF Entry!Approved
  <1>6. MinLot \in Nat /\ MinOrder \in Nat \ {0} /\ B * per \in Nat /\ D * per \in Nat
    BY <1>1, BuyConstants, Products
  <1> HIDE DEF B, D, per, first, q
  <1>7. q \in Nat
    BY <1>1, <1>3
  <1>8. ASSUME Entry!Submitted(e) > 0
        PROVE  /\ Entry!Submitted(e) = D /\ D > 0 /\ ~Entry!Refused(e) /\ Entry!Allowed(e.asset)
               /\ BuyCaps(e, D) /\ BuyShape(e, D)
    <2>1. /\ Entry!Submitted(e) = q /\ q > 0 /\ Entry!Allowed(e.asset) /\ Entry!ExitFeasible(e, q)
          /\ q # first => Entry!Approved(e, q) = q
      BY <1>4, <1>8
    <2>2. first = B /\ q = D /\ ~(e.asset \in Crypto /\ D < MinOrder)
      BY <1>3, <2>1
    <2>3. B >= 1
      BY <1>1, <2>1, <2>2
    <2>4. ~Entry!Refused(e) /\ ~(B * per < MinLot)
      BY <1>2, <2>2, <2>3
    <2>5. D * per >= MinLot
      <3>1. CASE q = first
        BY <1>6, <2>2, <2>4, <3>1
      <3>2. CASE q # first
        BY <1>5, <1>6, <2>1, <2>2, <3>2
      <3> QED BY <3>1, <3>2
    <2>6. BuyCaps(e, D)
      BY <1>1, <2>1, <2>2
    <2>7. BuyShape(e, D)
      BY <1>1, <1>6, <2>1, <2>2, <2>5 DEF BuyShape, per
    <2> QED BY <2>1, <2>2, <2>4, <2>6, <2>7
  <1>9. Entry!Submitted(e) \in Nat
    BY <1>4, <1>7
  <1> QED BY <1>1, <1>8, <1>9, BuyFitsIs

LEMMA BuySizedToTheLimit ==
    ASSUME BuyTyped
    PROVE  Entry!SizedToTheLimit
  <1> SUFFICES ASSUME NEW e \in Entry!Requests
               PROVE  LET fitting == {q \in 1 .. e.asked : Entry!Fits(e, q)} IN
                      Entry!Submitted(e) =
                        IF Entry!Refused(e) \/ ~Entry!Allowed(e.asset) \/ fitting = {} THEN 0 ELSE Entry!Max(fitting)
    BY DEF Entry!SizedToTheLimit
  <1> DEFINE fitting == {q \in 1 .. e.asked : Entry!Fits(e, q)}
  <1>1. CASE Entry!Refused(e) \/ ~Entry!Allowed(e.asset) \/ fitting = {}
    <2>1. ~(Entry!Submitted(e) > 0)
      BY <1>1, BuySubmitted
    <2>2. Entry!Submitted(e) \in Nat
      BY BuySubmitted
    <2> QED BY <1>1, <2>1, <2>2
  <1>2. CASE ~Entry!Refused(e) /\ Entry!Allowed(e.asset) /\ fitting # {}
    <2>1. /\ \A q \in fitting : q <= BuyRounded(e)
          /\ Entry!Submitted(e) = BuyRounded(e)
      BY <1>2, BuyFitting
    <2>2. Entry!Submitted(e) \in fitting
      <3>1. PICK q \in fitting : TRUE
        BY <1>2
      <3>2. q \in Nat \ {0} /\ q <= Entry!Submitted(e) /\ Entry!Submitted(e) \in Nat
        BY <2>1, BuySubmitted, BuyRequest
      <3>3. Entry!Submitted(e) > 0
        BY <3>2
      <3> QED BY <3>3, BuySubmitted
    <2>3. fitting \in SUBSET Int /\ IsFiniteSet(fitting)
      <3>1. e.asked \in Nat
        BY BuyRequest
      <3>2. IsFiniteSet(1 .. e.asked)
        BY <3>1, FS_Interval
      <3>3. fitting \subseteq 1 .. e.asked
        OBVIOUS
      <3>4. IsFiniteSet(fitting)
        BY <3>2, <3>3, FS_Subset
      <3>5. fitting \in SUBSET Int
        BY <3>1, <3>3
      <3> HIDE DEF fitting
      <3> QED BY <3>4, <3>5
    <2>4. Entry!Max(fitting) = Max(fitting)
      BY BuyOperators
    <2> HIDE DEF fitting
    <2>5. Max(fitting) \in fitting /\ \A y \in fitting : Max(fitting) >= y
      BY <2>2, <2>3, MaxOfFinite
    <2>6. Entry!Submitted(e) = Max(fitting)
      <3>1. Max(fitting) <= Entry!Submitted(e) /\ Max(fitting) >= Entry!Submitted(e)
        BY <2>1, <2>2, <2>5
      <3>2. Max(fitting) \in Int /\ Entry!Submitted(e) \in Int
        BY <2>2, <2>3, <2>5
      <3> QED BY <3>1, <3>2
    <2> QED BY <1>2, <2>4, <2>6 DEF fitting
  <1> QED BY <1>1, <1>2

-----------------------------------------------------------------------------
(* What pending buys may cost, step by step.                                 *)

\* What an order of this row may still cost.
BuyCost(row) == IF row.left > 0 THEN Entry!FundingFor(row.asset, row.left, row.price, row.slippage) ELSE 0

LEMMA BuyCosts ==
    ASSUME NEW row \in BuyRow, row.left > 0 => row.asset \in Traded
    PROVE  /\ BuyCost(row) \in Nat
           /\ row.asset \in Traded => BuyCost(row) = row.left * BuyUnit(row.asset, row.price, row.slippage)
  <1>1. row.left \in Nat /\ row.price \in Nat /\ row.slippage \in Nat
    BY DEF BuyRow
  <1>2. CASE row.left > 0
    <2>0. PICK a \in Traded, n \in Nat, p \in Nat, s \in Nat :
             a = row.asset /\ n = row.left /\ p = row.price /\ s = row.slippage
      BY <1>1, <1>2
    <2>1. Entry!FundingFor(a, n, p, s) \in Nat /\ Entry!FundingFor(a, n, p, s) = n * BuyUnit(a, p, s)
      BY BuyFunding
    <2>2. BuyCost(row) = Entry!FundingFor(row.asset, row.left, row.price, row.slippage)
      BY <1>2 DEF BuyCost
    <2> QED BY <2>0, <2>1, <2>2
  <1>3. CASE row.left = 0
    <2>1. BuyCost(row) = 0
      BY <1>3 DEF BuyCost
    <2>2. row.asset \in Traded => BuyUnit(row.asset, row.price, row.slippage) \in Nat
      BY <1>1, BuyFunding
    <2> QED BY <1>3, <2>1, <2>2
  <1> QED BY <1>1, <1>2, <1>3

\* A row that is filled, field by field.
LEMMA BuyRowFilled ==
    ASSUME NEW row \in BuyRow, NEW n \in Nat
    PROVE  LET filled == [row EXCEPT !.left = n, !.today = TRUE] IN
           /\ filled \in BuyRow /\ filled.left = n
           /\ filled.asset = row.asset /\ filled.price = row.price /\ filled.slippage = row.slippage
  BY DEF BuyRow

\* A row that changes changes the sum by what it costs.
LEMMA BuyChanges ==
    ASSUME BuyTyped, NEW o \in Entry!Orders, NEW row \in BuyRow, row.left > 0 => row.asset \in Traded
    PROVE  LET new == [s5 EXCEPT ![o] = row] IN
           /\ new \in [Entry!Orders -> BuyRow]
           /\ \A x \in Entry!Orders : new[x].left > 0 => new[x].asset \in Traded
           /\ SumFunctionOnSet(BuyOwed(s5), Entry!Orders) \in Int
           /\ BuyCost(s5[o]) \in Nat /\ BuyCost(row) \in Nat
           /\ SumFunctionOnSet(BuyOwed(new), Entry!Orders)
                = SumFunctionOnSet(BuyOwed(s5), Entry!Orders) + BuyCost(row) - BuyCost(s5[o])
  <1> DEFINE new == [s5 EXCEPT ![o] = row]  f == BuyOwed(s5)  g == BuyOwed(new)
  <1>1. /\ s5 \in [Entry!Orders -> BuyRow]
        /\ \A x \in Entry!Orders : s5[x].left > 0 => s5[x].asset \in Traded
    BY DEF BuyTyped
  <1>2. /\ new \in [Entry!Orders -> BuyRow] /\ new[o] = row
        /\ \A x \in Entry!Orders \ {o} : new[x] = s5[x]
    BY <1>1
  <1>3. \A x \in Entry!Orders : f[x] = BuyCost(s5[x]) /\ g[x] = BuyCost(new[x])
    <2> HIDE DEF new
    <2> QED BY DEF BuyOwed, BuyCost
  <1>4. \A x \in Entry!Orders : f[x] \in Int /\ BuyCost(s5[x]) \in Nat
    BY <1>1, <1>3, BuyCosts
  <1>5. BuyCost(row) \in Nat
    BY BuyCosts
  <1> HIDE DEF new, f, g
  <1>6. IsFiniteSet(Entry!Orders)
    BY BuyConstants
  <1>7. SumFunctionOnSet(f, Entry!Orders) \in Int
    BY <1>4, <1>6, SumType
  <1>8. SumFunctionOnSet(g, Entry!Orders) = SumFunctionOnSet(f, Entry!Orders) + g[o] - f[o]
    <2>1. g[o] \in Int /\ \A x \in Entry!Orders \ {o} : g[x] = f[x]
      BY <1>2, <1>3, <1>5
    <2> QED BY <1>4, <1>6, <2>1, SumUpdate
  <1>9. \A x \in Entry!Orders : new[x].left > 0 => new[x].asset \in Traded
    BY <1>1, <1>2
  <1> QED BY <1>2, <1>3, <1>4, <1>5, <1>7, <1>8, <1>9 DEF new, f, g

LEMMA BuyInit == Entry!Init => BuyInv
  <1> SUFFICES ASSUME Entry!Init PROVE BuyInv
    OBVIOUS
  <1>1. /\ s1 \in [Traded -> UNION {PricesOf[a] : a \in Traded}] /\ \A a \in Traded : s1[a] \in PricesOf[a]
        /\ s2 = OpeningCash /\ s6 = OpeningCash /\ s8 \in Profiles
        /\ s3 = [a \in Traded |-> [lots |-> 0, cost |-> 0, stop |-> 0]]
        /\ s4 \in [Traded -> UNION {OutsideLots[a] : a \in Traded}] /\ \A a \in Traded : s4[a] \in OutsideLots[a]
        /\ s5 = [o \in Entry!Orders |-> Entry!NoOrder]
    BY DEF Entry!Init, Entry!NoHolding
  <1>2. Entry!NoOrder \in BuyRow /\ Entry!NoOrder.left = 0
    BY DEF Entry!NoOrder, BuyRow
  <1>3. s1 \in [Traded -> Nat \ {0}] /\ s4 \in [Traded -> Nat]
    <2>1. \A a \in Traded : PricesOf[a] \subseteq Nat \ {0} /\ OutsideLots[a] \subseteq Nat
      BY BuyConstants
    <2> QED BY <1>1, <2>1
  <1>4. /\ s5 \in [Entry!Orders -> BuyRow]
        /\ \A o \in Entry!Orders : s5[o].left = 0
    BY <1>1, <1>2
  <1>5. BuyTyped
    <2>1. s3 \in [Traded -> [lots : Nat, cost : Nat, stop : Nat]]
      BY <1>1
    <2>2. s2 \in Int /\ s6 \in Int
      BY <1>1, BuyConstants
    <2> QED BY <1>1, <1>3, <1>4, <2>1, <2>2 DEF BuyTyped
  <1>6. SumFunctionOnSet(BuyOwed(s5), Entry!Orders) = 0
    <2>1. \A o \in Entry!Orders : BuyOwed(s5)[o] = 0
      BY <1>4 DEF BuyOwed
    <2> QED BY <2>1, BuyConstants, SumOfZeros
  <1>7. s2 >= 0
    BY <1>1, BuyConstants
  <1> QED BY <1>5, <1>6, <1>7 DEF BuyInv

\* A buy is submitted within the cash that no pending buy may need.
LEMMA BuyBuys ==
    ASSUME BuyInv, NEW e \in Entry!Requests, Entry!Buy(e)
    PROVE  BuyInv'
  <1> DEFINE row == [asset |-> e.asset, left |-> Entry!Submitted(e), price |-> s1[e.asset],
                     slippage |-> s8.slippage, stop |-> Entry!StopOf(e), today |-> FALSE]
             cost == Entry!FundingFor(e.asset, Entry!Submitted(e), s1[e.asset], s8.slippage)
  <1>0. BuyTyped /\ s2 >= SumFunctionOnSet(BuyOwed(s5), Entry!Orders)
    BY DEF BuyInv
  <1>1. /\ Entry!Submitted(e) > 0
        /\ s1' = s1 /\ s2' = s2 /\ s3' = s3 /\ s4' = s4 /\ s6' = s6 /\ s8' = s8
    BY DEF Entry!Buy
  <1>2. PICK o \in Entry!Orders : s5' = [s5 EXCEPT ![o] = row]
    BY DEF Entry!Buy
  <1>3. row \in BuyRow /\ row.asset \in Traded /\ row.left > 0
    <2>1. /\ e.asset \in Traded /\ Entry!Submitted(e) \in Nat /\ s1[e.asset] \in Nat /\ s8.slippage \in Nat
          /\ Entry!StopOf(e) \in Nat
      BY <1>0, BuyRequest, BuySubmitted, BuyLimits
    <2> QED BY <1>1, <2>1 DEF BuyRow
  <1>4. BuyCost(row) = cost
    BY <1>1 DEF BuyCost
  <1>5. cost \in Nat /\ cost <= Entry!Available
    <2>1. 100 * cost <= 99 * Entry!Available
      <3>1. Entry!Fits(e, Entry!Submitted(e))
        BY <1>0, <1>1, BuySubmitted
      <3> QED BY <3>1 DEF Entry!Fits
    <2>2. Entry!Available \in Int
      BY <1>0, BuyPending
    <2>3. BuyCost(row) \in Nat
      BY <1>3, BuyCosts
    <2> HIDE DEF cost, row
    <2> QED BY <1>4, <2>1, <2>2, <2>3
  <1>6. SumFunctionOnSet(BuyOwed(s5), Entry!Orders) + cost <= s2
    <2>1. /\ Entry!PendingFunding \in Int /\ Entry!Available = s2 - Entry!PendingFunding
          /\ SumFunctionOnSet(BuyOwed(s5), Entry!Orders) <= Entry!PendingFunding
      BY <1>0, BuyPending DEF Entry!Available
    <2>2. SumFunctionOnSet(BuyOwed(s5), Entry!Orders) \in Int /\ s2 \in Int
      BY <1>0, <1>3, BuyChanges DEF BuyTyped
    <2> HIDE DEF cost
    <2> QED BY <1>5, <2>1, <2>2
  <1>7. /\ s5' \in [Entry!Orders -> BuyRow]
        /\ \A x \in Entry!Orders : s5'[x].left > 0 => s5'[x].asset \in Traded
        /\ SumFunctionOnSet(BuyOwed(s5'), Entry!Orders)
             = SumFunctionOnSet(BuyOwed(s5), Entry!Orders) + cost - BuyCost(s5[o])
        /\ SumFunctionOnSet(BuyOwed(s5), Entry!Orders) \in Int /\ BuyCost(s5[o]) \in Nat
    <2> HIDE DEF row, cost
    <2> QED BY <1>0, <1>2, <1>3, <1>4, BuyChanges
  <1>8. BuyTyped'
    BY <1>0, <1>1, <1>7 DEF BuyTyped
  <1>9. s2' >= SumFunctionOnSet(BuyOwed(s5'), Entry!Orders)
    <2>1. s2 \in Int
      BY <1>0 DEF BuyTyped
    <2> HIDE DEF cost, row
    <2> QED BY <1>1, <1>5, <1>6, <1>7, <2>1
  <1> QED BY <1>8, <1>9 DEF BuyInv

\* A fill costs no more than what the order set aside for its lots.
LEMMA BuyFills ==
    ASSUME BuyInv, NEW o \in Entry!Orders, Entry!Fill(o)
    PROVE  BuyInv'
  <1>0. BuyTyped /\ s2 >= SumFunctionOnSet(BuyOwed(s5), Entry!Orders)
    BY DEF BuyInv
  <1> DEFINE a == s5[o].asset  left == s5[o].left  p == s5[o].price  slip == s5[o].slippage
             m == Multiplier[a]  fee == Entry!FeeOf(a)
  <1>1. /\ left > 0 /\ s1' = s1 /\ s4' = s4 /\ s6' = s6 /\ s8' = s8
    BY DEF Entry!Fill, Entry!Open
  <1>2. /\ a \in Traded /\ left \in Nat /\ p \in Nat /\ slip \in Nat /\ m \in Nat \ {0} /\ fee \in Nat
        /\ s5[o] \in BuyRow /\ s5[o].stop \in Nat
    <2>1. a \in Traded /\ s5[o] \in BuyRow
      BY <1>0, <1>1 DEF BuyTyped
    <2> QED BY <2>1, BuyConstants DEF BuyRow, Entry!FeeOf
  <1>3. PICK lots \in {left - 1, left} \ {0} :
            /\ s5' = [s5 EXCEPT ![o].left = @ - lots, ![o].today = TRUE]
            /\ s2' = s2 - lots * p * m * (100 + slip) - lots * p * m * fee
            /\ s3' = [s3 EXCEPT ![a] = [lots |-> s3[a].lots + lots, cost |-> s3[a].cost + lots * p * m * (100 + slip),
                                        stop |-> IF s3[a].lots = 0 THEN s5[o].stop ELSE s3[a].stop]]
    BY DEF Entry!Fill
  <1> DEFINE row == [s5[o] EXCEPT !.left = left - lots, !.today = TRUE]
             unit == BuyUnit(a, p, slip)
  <1>4. lots \in Nat /\ left - lots \in Nat
    BY <1>1, <1>2
  <1>5. s5' = [s5 EXCEPT ![o] = row]
    <2>1. s5 \in [Entry!Orders -> BuyRow]
      BY <1>0 DEF BuyTyped
    <2> QED BY <1>3, <2>1
  <1>6. /\ row \in BuyRow /\ row.asset \in Traded
        /\ row.asset = a /\ row.left = left - lots /\ row.price = p /\ row.slippage = slip
    BY Zenon, <1>2, <1>4, BuyRowFilled
  <1>7. p * m \in Nat /\ lots * p * m * (100 + slip) \in Nat /\ unit \in Nat
        /\ lots * p * m * (100 + slip) + lots * p * m * fee = lots * unit
        /\ BuyCost(s5[o]) = left * unit /\ BuyCost(row) = (left - lots) * unit
    <2>1. lots * p \in Nat /\ p * m \in Nat /\ 100 + slip \in Nat
      BY <1>2, <1>4, Products
    <2>2. lots * p * m \in Nat /\ unit \in Nat
      BY <1>2, <2>1, Products, BuyFunding
    <2>3. lots * p * m * (100 + slip) \in Nat
      BY <2>1, <2>2, Products
    <2>4. lots * p * m * (100 + slip) + lots * p * m * fee = lots * unit
      <3>1. unit = p * m * (100 + slip + fee)
        BY DEF BuyUnit
      <3> HIDE DEF p, slip, fee, m, left, a, unit
      <3> QED BY <1>2, <1>4, <3>1
    <2>5. BuyCost(s5[o]) = left * unit
      <3>1. BuyCost(s5[o]) = s5[o].left * BuyUnit(s5[o].asset, s5[o].price, s5[o].slippage)
        BY <1>2, BuyCosts
      <3> QED BY <3>1
    <2>6. BuyCost(row) = (left - lots) * unit
      <3>1. BuyCost(row) = row.left * BuyUnit(row.asset, row.price, row.slippage)
        <4> HIDE DEF row
        <4> QED BY <1>6, BuyCosts
      <3> HIDE DEF row
      <3> QED BY <1>6, <3>1
    <2> QED BY <2>1, <2>2, <2>3, <2>4, <2>5, <2>6
  <1>8. /\ s5' \in [Entry!Orders -> BuyRow]
        /\ \A x \in Entry!Orders : s5'[x].left > 0 => s5'[x].asset \in Traded
        /\ SumFunctionOnSet(BuyOwed(s5'), Entry!Orders)
             = SumFunctionOnSet(BuyOwed(s5), Entry!Orders) + BuyCost(row) - BuyCost(s5[o])
        /\ SumFunctionOnSet(BuyOwed(s5), Entry!Orders) \in Int
    <2> HIDE DEF row
    <2> QED BY <1>0, <1>5, <1>6, BuyChanges
  <1>9. s3' \in [Traded -> [lots : Nat, cost : Nat, stop : Nat]]
    <2>1. s3 \in [Traded -> [lots : Nat, cost : Nat, stop : Nat]]
      BY <1>0 DEF BuyTyped
    <2> DEFINE paid == lots * p * m * (100 + slip)
               new == [lots |-> s3[a].lots + lots, cost |-> s3[a].cost + paid,
                       stop |-> IF s3[a].lots = 0 THEN s5[o].stop ELSE s3[a].stop]
    <2>2. paid \in Nat
      BY <1>7
    <2> HIDE DEF paid
    <2>3. new \in [lots : Nat, cost : Nat, stop : Nat]
      BY <1>2, <1>4, <2>1, <2>2
    <2>4. s3' = [s3 EXCEPT ![a] = new]
      BY <1>3 DEF paid
    <2> HIDE DEF new, a
    <2> QED BY <1>2, <2>1, <2>3, <2>4
  <1>10. s2' = s2 - lots * unit /\ s2 \in Int /\ lots * unit \in Int
    <2> DEFINE x == lots * p * m * (100 + slip)  y == lots * p * m * fee
    <2>1. s2 \in Int
      BY <1>0 DEF BuyTyped
    <2>2. x \in Int /\ y \in Int
      <3>1. lots * p \in Nat
        BY <1>2, <1>4, Products
      <3>2. lots * p * m \in Nat
        BY <1>2, <3>1, Products
      <3> QED BY <1>2, <1>7, <3>2, Products
    <2>3. s2' = s2 - x - y
      BY <1>3
    <2>4. x + y = lots * unit
      BY <1>7
    <2> HIDE DEF x, y, unit
    <2> QED BY <2>1, <2>2, <2>3, <2>4
  <1>11. BuyTyped'
    <2>1. s2' \in Int
      <3> HIDE DEF unit
      <3> QED BY <1>10
    <2> QED BY <1>0, <1>1, <1>8, <1>9, <2>1 DEF BuyTyped
  <1>12. s2' >= SumFunctionOnSet(BuyOwed(s5'), Entry!Orders)
    <2>1. left * unit - (left - lots) * unit = lots * unit
      <3>1. unit \in Nat
        BY <1>7
      <3> HIDE DEF unit, left
      <3> QED BY <1>2, <1>4, <3>1
    <2>2. left * unit \in Int /\ (left - lots) * unit \in Int
      <3>1. unit \in Nat
        BY <1>7
      <3> HIDE DEF unit, left
      <3> QED BY <1>2, <1>4, <3>1, Products
    <2>3. BuyCost(s5[o]) = left * unit /\ BuyCost(row) = (left - lots) * unit
      BY <1>7
    <2> HIDE DEF unit, left, row
    <2> QED BY <1>0, <1>8, <1>10, <2>1, <2>2, <2>3
  <1> QED BY <1>11, <1>12 DEF BuyInv

\* A canceled order costs nothing more.
LEMMA BuyCancels ==
    ASSUME BuyInv, NEW o \in Entry!Orders, Entry!Cancel(o)
    PROVE  BuyInv'
  <1> DEFINE row == [s5[o] EXCEPT !.left = 0]
  <1>0. BuyTyped /\ s2 >= SumFunctionOnSet(BuyOwed(s5), Entry!Orders)
    BY DEF BuyInv
  <1>1. /\ s1' = s1 /\ s2' = s2 /\ s3' = s3 /\ s4' = s4 /\ s6' = s6 /\ s8' = s8
        /\ s5' = [s5 EXCEPT ![o].left = 0]
    BY DEF Entry!Cancel
  <1>2. s5 \in [Entry!Orders -> BuyRow] /\ s2 \in Int
    BY <1>0 DEF BuyTyped
  <1>3. row \in BuyRow /\ row.left = 0 /\ ~(row.left > 0)
    BY <1>2 DEF BuyRow
  <1>4. s5' = [s5 EXCEPT ![o] = row]
    BY <1>1, <1>2
  <1>5. BuyCost(row) = 0
    BY <1>3 DEF BuyCost
  <1> HIDE DEF row
  <1>6. /\ s5' \in [Entry!Orders -> BuyRow]
        /\ \A x \in Entry!Orders : s5'[x].left > 0 => s5'[x].asset \in Traded
        /\ SumFunctionOnSet(BuyOwed(s5'), Entry!Orders)
             = SumFunctionOnSet(BuyOwed(s5), Entry!Orders) + BuyCost(row) - BuyCost(s5[o])
        /\ SumFunctionOnSet(BuyOwed(s5), Entry!Orders) \in Int /\ BuyCost(s5[o]) \in Nat
    BY <1>0, <1>3, <1>4, BuyChanges
  <1>7. s2' >= SumFunctionOnSet(BuyOwed(s5'), Entry!Orders)
    BY <1>0, <1>1, <1>2, <1>5, <1>6
  <1>8. BuyTyped'
    BY <1>0, <1>1, <1>6 DEF BuyTyped
  <1> QED BY <1>7, <1>8 DEF BuyInv

\* A sale only adds cash; a price that moves and another profile change nothing
\* of what is set aside, and neither does a new session.
LEMMA BuyElse ==
    ASSUME BuyInv,
           \/ \E a \in Traded : Entry!Exit(a) \/ Entry!PriceMoves(a)
           \/ Entry!NextSession \/ Entry!ChangeProfile
    PROVE  BuyInv'
  <1>0. BuyTyped /\ s2 >= SumFunctionOnSet(BuyOwed(s5), Entry!Orders)
    BY DEF BuyInv
  <1>1. /\ s5 \in [Entry!Orders -> BuyRow] /\ s2 \in Int
        /\ \A x \in Entry!Orders : s5[x].left > 0 => s5[x].asset \in Traded
    BY <1>0 DEF BuyTyped
  <1>2. SumFunctionOnSet(BuyOwed(s5), Entry!Orders) \in Int
    <2>1. \A x \in Entry!Orders : BuyOwed(s5)[x] \in Int
      <3>1. \A x \in Entry!Orders : BuyOwed(s5)[x] = BuyCost(s5[x])
        BY DEF BuyOwed, BuyCost
      <3>2. \A x \in Entry!Orders : BuyCost(s5[x]) \in Nat
        BY <1>1, BuyCosts
      <3> QED BY <3>1, <3>2
    <2> QED BY <2>1, BuyConstants, SumType
  <1>3. ASSUME NEW a \in Traded, Entry!Exit(a) PROVE BuyInv'
    <2>1. /\ s2' = s2 + Entry!Value(a, s3[a].lots) /\ s3' = [s3 EXCEPT ![a] = [lots |-> 0, cost |-> 0, stop |-> 0]]
          /\ s1' = s1 /\ s4' = s4 /\ s5' = s5 /\ s6' = s6 /\ s8' = s8
      BY <1>3 DEF Entry!Exit, Entry!NoHolding
    <2>2. Entry!Value(a, s3[a].lots) \in Nat
      <3>1. s3[a].lots \in Nat /\ s1[a] \in Nat
        BY <1>0 DEF BuyTyped
      <3>2. Entry!PerLot(a, s1[a]) \in Nat
        BY <1>0, <3>1, BuyFigures
      <3> QED BY <3>1, <3>2, Products DEF Entry!Value
    <2>3. s2' \in Int /\ s2' >= SumFunctionOnSet(BuyOwed(s5), Entry!Orders)
      BY <1>0, <1>1, <1>2, <2>1, <2>2
    <2>4. s3' \in [Traded -> [lots : Nat, cost : Nat, stop : Nat]]
      BY <1>0, <2>1 DEF BuyTyped
    <2> QED BY <1>0, <2>1, <2>3, <2>4 DEF BuyInv, BuyTyped
  <1>4. ASSUME NEW a \in Traded, Entry!PriceMoves(a) PROVE BuyInv'
    <2>1. PICK p \in PricesOf[a] : s1' = [s1 EXCEPT ![a] = p]
      BY <1>4 DEF Entry!PriceMoves
    <2>2. s2' = s2 /\ s3' = s3 /\ s4' = s4 /\ s5' = s5 /\ s6' = s6 /\ s8' = s8
      BY <1>4 DEF Entry!PriceMoves
    <2>3. p \in Nat \ {0}
      BY BuyConstants
    <2>4. s1' \in [Traded -> Nat \ {0}] /\ \A x \in Traded : s1'[x] \in PricesOf[x]
      BY <1>0, <2>1, <2>3 DEF BuyTyped
    <2> QED BY <1>0, <2>2, <2>4 DEF BuyInv, BuyTyped
  <1>5. ASSUME Entry!NextSession PROVE BuyInv'
    <2>1. /\ s1' = s1 /\ s2' = s2 /\ s3' = s3 /\ s4' = s4 /\ s8' = s8 /\ s6' = Entry!Equity
          /\ s5' = [o \in Entry!Orders |-> [s5[o] EXCEPT !.today = FALSE]]
      BY <1>5 DEF Entry!NextSession
    <2>2. s6' \in Int
      BY <1>0, <2>1, BuyFigures
    <2>3. ASSUME NEW row \in BuyRow
          PROVE  LET new == [row EXCEPT !.today = FALSE] IN
                 /\ new \in BuyRow /\ new.asset = row.asset /\ new.left = row.left
                 /\ new.price = row.price /\ new.slippage = row.slippage
      BY DEF BuyRow
    <2>4. /\ s5' \in [Entry!Orders -> BuyRow]
          /\ \A o \in Entry!Orders : /\ s5'[o].asset = s5[o].asset /\ s5'[o].left = s5[o].left
                                     /\ s5'[o].price = s5[o].price /\ s5'[o].slippage = s5[o].slippage
      BY <1>1, <2>1, <2>3
    <2>5. \A o \in Entry!Orders : BuyOwed(s5')[o] = BuyOwed(s5)[o]
      BY <2>4 DEF BuyOwed
    <2>6. SumFunctionOnSet(BuyOwed(s5'), Entry!Orders) = SumFunctionOnSet(BuyOwed(s5), Entry!Orders)
      BY <2>5, BuyConstants, SumCongruence
    <2> QED BY <1>0, <1>1, <2>1, <2>2, <2>4, <2>6 DEF BuyInv, BuyTyped
  <1>6. ASSUME Entry!ChangeProfile PROVE BuyInv'
    <2>1. s1' = s1 /\ s2' = s2 /\ s3' = s3 /\ s4' = s4 /\ s5' = s5 /\ s6' = s6 /\ s8' \in Profiles
      BY <1>6 DEF Entry!ChangeProfile
    <2> QED BY <1>0, <2>1 DEF BuyInv, BuyTyped
  <1> QED BY <1>3, <1>4, <1>5, <1>6

LEMMA BuyStep == BuyInv /\ [Entry!Next]_Entry!vars => BuyInv'
  <1> SUFFICES ASSUME BuyInv, [Entry!Next]_Entry!vars PROVE BuyInv'
    OBVIOUS
  <1>1. CASE Entry!Next
    <2>1. ASSUME NEW e \in Entry!Requests, Entry!Buy(e) PROVE BuyInv'
      BY <2>1, BuyBuys
    <2>2. ASSUME NEW o \in Entry!Orders, Entry!Fill(o) PROVE BuyInv'
      BY <2>2, BuyFills
    <2>3. ASSUME NEW o \in Entry!Orders, Entry!Cancel(o) PROVE BuyInv'
      BY <2>3, BuyCancels
    <2> QED BY <1>1, <2>1, <2>2, <2>3, BuyElse DEF Entry!Next
  <1>2. CASE UNCHANGED Entry!vars
    BY <1>2 DEF Entry!vars, BuyInv, BuyTyped
  <1> QED BY <1>1, <1>2

LEMMA BuySafe == BuyInv => Entry!BuysFitTheirLimits
  BY BuyPending, BuySizedToTheLimit DEF BuyInv, Entry!BuysFitTheirLimits

-----------------------------------------------------------------------------
(***************************************************************************)
(* Quarantine.  A FIFO take adds up to what is there or to what is wanted  *)
(* (FifoTakes, by induction over the prefixes of the records in time), so  *)
(* a resolution and its surplus are the execution (ResolutionBalances).    *)
(* Inventory stays open only under a settlement or a hold that is not over *)
(* (QuarHeld), and the reset's proof finds neither.                        *)
(*                                                                         *)
(* In Components s1 is stage, s2 is surplus, s3 is resolved, s4 is used,   *)
(* s5 is corporate, s6 is command, s7 is blocked, s8 is reset, s9 is       *)
(* proof.                                                                  *)
(***************************************************************************)

QuarTypes ==
    /\ s1 \in [Oversells -> {"none", "lot", "latched", "held", "released"}]
    /\ s2 \in [Executions -> Nat]
    /\ s3 \in [Quarantine!Records \X Executions -> Nat]
    /\ s4 \subseteq Executions
    /\ s6 \in [Commands -> Executions \cup {Quarantine!None}]

\* An execution that is not used has left nothing anywhere.
QuarUnused ==
    \A a \in Executions \ s4 : s2[a] = 0 /\ \A r \in Quarantine!Records : s3[<<r, a>>] = 0

\* Inventory stays open only under a settlement or a hold that is not over.
QuarHeld == Quarantine!open_records # {} => \E s \in Oversells : s1[s] \in {"lot", "latched", "held"}

QuarInv == QuarTypes /\ QuarUnused /\ QuarHeld /\ Quarantine!QuarantineBalances

-----------------------------------------------------------------------------
LEMMA QuarConstants ==
    /\ IsFiniteSet(Oversells) /\ IsFiniteSet(Executions) /\ IsFiniteSet(Quarantine!Records)
    /\ Oversells \subseteq Quarantine!Records /\ Executions \subseteq Quarantine!Records /\ Oversells \cap Executions = {}
    /\ Legacy \subseteq Oversells /\ Covers \subseteq Executions /\ Quarantine!None \notin Executions
    /\ Oversold \in [Oversells -> Nat \ {0}] /\ Size \in [Executions -> Nat \ {0}]
    /\ HappenedAt \in [Quarantine!Records -> Nat]
    /\ \A x, y \in Quarantine!Records : HappenedAt[x] = HappenedAt[y] => x = y
  <1>1. IsFiniteSet(Oversells) /\ IsFiniteSet(Executions)
    BY QuarantineAssumed DEF Quarantine!QuarantineAssumption, IsFiniteSet, Quarantine!IsFiniteSet
  <1> QED BY <1>1, QuarantineAssumed, FS_Union DEF Quarantine!QuarantineAssumption, Quarantine!Records

\* The module's operators in those of the lemmas on sums.
LEMMA QuarOperators ==
    /\ \A r : Quarantine!Resolved(r) = GivenBy(s3, Executions, r)
    /\ \A S : Quarantine!Units(S) = SumFunctionOnSet([r \in S |-> Quarantine!Open(r)], S)
    /\ \A a : Quarantine!Left(a) = Max({0, Size[a] - Quarantine!Units(Quarantine!open_records)})
    /\ \A a, r : Quarantine!Covered(a, r) = IF r \notin Quarantine!open_records \/ Quarantine!Units({s \in Quarantine!open_records : HappenedAt[s] < HappenedAt[r]}) >= Size[a] THEN 0
                                 ELSE Min({Quarantine!Open(r), Size[a] - Quarantine!Units({s \in Quarantine!open_records : HappenedAt[s] < HappenedAt[r]})})
  <1>1. \A r : Quarantine!Resolved(r) = GivenBy(s3, Executions, r)
    BY DEF Quarantine!Resolved, GivenBy, SumFunctionOnSet, Quarantine!SumFunctionOnSet, FoldFunctionOnSet,
          Quarantine!FoldFunctionOnSet, MapThenFoldSet, Quarantine!MapThenFoldSet
  <1>2. \A S : Quarantine!Units(S) = SumFunctionOnSet([r \in S |-> Quarantine!Open(r)], S)
    BY DEF Quarantine!Units, SumFunctionOnSet, Quarantine!SumFunctionOnSet, FoldFunctionOnSet,
          Quarantine!FoldFunctionOnSet, MapThenFoldSet, Quarantine!MapThenFoldSet
  <1>3. \A a : Quarantine!Left(a) = Max({0, Size[a] - Quarantine!Units(Quarantine!open_records)})
    BY DEF Quarantine!Left, Max, Quarantine!Max
  <1>4. \A a, r : Quarantine!Covered(a, r) = IF r \notin Quarantine!open_records \/ Quarantine!Units({s \in Quarantine!open_records : HappenedAt[s] < HappenedAt[r]}) >= Size[a] THEN 0
                                  ELSE Min({Quarantine!Open(r), Size[a] - Quarantine!Units({s \in Quarantine!open_records : HappenedAt[s] < HappenedAt[r]})})
    BY DEF Quarantine!Covered, Min, Quarantine!Min
  <1> QED BY <1>1, <1>2, <1>3, <1>4

-----------------------------------------------------------------------------
\* What a record holds open, and what is resolved of it.
LEMMA OpenType ==
    ASSUME QuarTypes, NEW r \in Quarantine!Records
    PROVE  Quarantine!Resolved(r) \in Nat /\ Quarantine!Quantity(r) \in Nat /\ Quarantine!Open(r) \in Int
  <1>1. Quarantine!Resolved(r) \in Nat
    <2>1. \A a \in Executions : [b \in Executions |-> s3[<<r, b>>]][a] \in Nat
      BY DEF QuarTypes
    <2>2. SumFunctionOnSet([b \in Executions |-> s3[<<r, b>>]], Executions) \in Nat
      BY <2>1, QuarConstants, SumOfNaturals
    <2> QED BY <2>2, QuarOperators DEF GivenBy
  <1>2. Quarantine!Quantity(r) \in Nat
    BY QuarConstants DEF QuarTypes, Quarantine!Quantity, Quarantine!Records
  <1> QED BY <1>1, <1>2 DEF Quarantine!Open

\* A resolution takes all of the execution: what the records cover and what is
\* left of it are its size, and no record gives more than it has open.
LEMMA ResolutionBalances ==
    ASSUME QuarTypes, NEW a \in Executions, \A r \in Quarantine!Records : Quarantine!Open(r) >= 0
    PROVE  /\ \A r \in Quarantine!Records : Quarantine!Covered(a, r) \in Nat /\ Quarantine!Covered(a, r) <= Quarantine!Open(r)
           /\ \A r \in Quarantine!Records \ Quarantine!open_records : Quarantine!Covered(a, r) = 0
           /\ Quarantine!Left(a) \in Nat
           /\ SumFunctionOnSet([r \in Quarantine!Records |-> Quarantine!Covered(a, r)], Quarantine!Records) + Quarantine!Left(a) = Size[a]
  <1> DEFINE held == [r \in Quarantine!Records |-> Quarantine!Open(r)]
             at == [r \in Quarantine!open_records |-> HappenedAt[r]]
             taken == [r \in Quarantine!Records |-> Quarantine!Covered(a, r)]
             Older(r) == {s \in Quarantine!open_records : HappenedAt[s] < HappenedAt[r]}
  <1>1. /\ Quarantine!open_records \subseteq Quarantine!Records /\ IsFiniteSet(Quarantine!open_records) /\ Size[a] \in Nat \ {0}
        /\ \A r \in Quarantine!Records : HappenedAt[r] \in Nat
    BY QuarConstants, FS_Subset DEF Quarantine!open_records
  <1>2. \A r \in Quarantine!Records : held[r] \in Nat /\ held[r] = Quarantine!Open(r)
    BY OpenType
  <1>3. \A S \in SUBSET Quarantine!Records : Quarantine!Units(S) = SumFunctionOnSet(held, S) /\ Quarantine!Units(S) \in Nat
    <2> SUFFICES ASSUME NEW S \in SUBSET Quarantine!Records PROVE Quarantine!Units(S) = SumFunctionOnSet(held, S) /\ Quarantine!Units(S) \in Nat
      OBVIOUS
    <2>1. IsFiniteSet(S)
      BY QuarConstants, FS_Subset
    <2>2. \A r \in S : [x \in S |-> Quarantine!Open(x)][r] = held[r]
      OBVIOUS
    <2>3. SumFunctionOnSet([x \in S |-> Quarantine!Open(x)], S) = SumFunctionOnSet(held, S)
      <3> HIDE DEF held
      <3> QED BY <2>1, <2>2, SumCongruence
    <2>4. SumFunctionOnSet(held, S) \in Nat
      <3> HIDE DEF held
      <3> QED BY <1>2, <2>1, SumOfNaturals
    <2> QED BY <2>3, <2>4, QuarOperators
  <1>4. \A r \in Quarantine!Records : /\ Quarantine!Covered(a, r) \in Nat /\ Quarantine!Covered(a, r) <= Quarantine!Open(r)
                                      /\ r \notin Quarantine!open_records => Quarantine!Covered(a, r) = 0
                                      /\ r \in Quarantine!open_records =>
                                           Quarantine!Covered(a, r) = IF Quarantine!Units(Older(r)) >= Size[a] THEN 0
                                                           ELSE IF Quarantine!Open(r) < Size[a] - Quarantine!Units(Older(r)) THEN Quarantine!Open(r)
                                                                ELSE Size[a] - Quarantine!Units(Older(r))
    <2> SUFFICES ASSUME NEW r \in Quarantine!Records
                 PROVE  /\ Quarantine!Covered(a, r) \in Nat /\ Quarantine!Covered(a, r) <= Quarantine!Open(r)
                        /\ r \notin Quarantine!open_records => Quarantine!Covered(a, r) = 0
                        /\ r \in Quarantine!open_records =>
                             Quarantine!Covered(a, r) = IF Quarantine!Units(Older(r)) >= Size[a] THEN 0
                                             ELSE IF Quarantine!Open(r) < Size[a] - Quarantine!Units(Older(r)) THEN Quarantine!Open(r)
                                                  ELSE Size[a] - Quarantine!Units(Older(r))
      OBVIOUS
    <2>1. Quarantine!Open(r) \in Nat /\ Quarantine!Units(Older(r)) \in Nat
      BY <1>1, <1>2, <1>3
    <2>2. Quarantine!Covered(a, r) = IF r \notin Quarantine!open_records \/ Quarantine!Units(Older(r)) >= Size[a] THEN 0
                          ELSE Min({Quarantine!Open(r), Size[a] - Quarantine!Units(Older(r))})
      BY QuarOperators
    <2> HIDE DEF Older
    <2>3. Size[a] - Quarantine!Units(Older(r)) \in Int
      BY <1>1, <2>1
    <2>4. Min({Quarantine!Open(r), Size[a] - Quarantine!Units(Older(r))}) =
              IF Quarantine!Open(r) < Size[a] - Quarantine!Units(Older(r)) THEN Quarantine!Open(r) ELSE Size[a] - Quarantine!Units(Older(r))
      BY <2>1, <2>3, TwoNumbers
    <2> QED BY <1>1, <2>1, <2>2, <2>4
  <1>5. \A r \in Quarantine!Records \ Quarantine!open_records : taken[r] = 0
    BY <1>4
  <1>6. SumFunctionOnSet(taken, Quarantine!Records) = SumFunctionOnSet(taken, Quarantine!open_records)
    <2>1. \A r \in Quarantine!open_records : taken[r] \in Int
      <3> TAKE r \in Quarantine!open_records
      <3>1. Quarantine!Covered(a, r) \in Nat /\ taken[r] = Quarantine!Covered(a, r)
        BY <1>1, <1>4
      <3> HIDE DEF taken
      <3> QED BY <3>1
    <2> HIDE DEF taken
    <2> QED BY <1>1, <1>5, <2>1, QuarConstants, SumOnSupport
  <1>7. SumFunctionOnSet(taken, Quarantine!open_records) = IF Quarantine!Units(Quarantine!open_records) < Size[a] THEN Quarantine!Units(Quarantine!open_records) ELSE Size[a]
    <2>1. at \in [Quarantine!open_records -> Nat] /\ \A x, y \in Quarantine!open_records : at[x] = at[y] => x = y
      BY <1>1, QuarConstants
    <2> DEFINE before == [r \in Quarantine!open_records |-> Quarantine!Units(Older(r))]
    <2> DEFINE earlier == [r \in Quarantine!open_records |-> Older(r)]
    <2>2. \A r \in Quarantine!open_records : before[r] = SumFunctionOnSet(held, earlier[r])
      <3> TAKE r \in Quarantine!open_records
      <3>1. Quarantine!Units(Older(r)) = SumFunctionOnSet(held, Older(r))
        BY <1>1, <1>3
      <3> QED BY <3>1
    <2>7. \A r \in Quarantine!open_records : earlier[r] \subseteq Quarantine!open_records /\ \A s \in Quarantine!open_records : s \in earlier[r] <=> at[s] < at[r]
      OBVIOUS
    <2>5. \A r \in Quarantine!open_records : taken[r] = IF before[r] >= Size[a] THEN 0
                                            ELSE IF held[r] < Size[a] - before[r] THEN held[r] ELSE Size[a] - before[r]
      <3> SUFFICES ASSUME NEW r \in Quarantine!open_records
                   PROVE  taken[r] = IF before[r] >= Size[a] THEN 0
                                     ELSE IF held[r] < Size[a] - before[r] THEN held[r] ELSE Size[a] - before[r]
        OBVIOUS
      <3>1. taken[r] = Quarantine!Covered(a, r) /\ held[r] = Quarantine!Open(r) /\ before[r] = Quarantine!Units(Older(r)) /\ r \in Quarantine!Records
        BY <1>1
      <3> HIDE DEF held, taken, before, Older
      <3> QED BY <1>4, <3>1
    <2>3. Size[a] \in Nat /\ \A r \in Quarantine!open_records : held[r] \in Nat
      BY <1>1, <1>2
    <2>6. IsFiniteSet(Quarantine!open_records) /\ Quarantine!Units(Quarantine!open_records) = SumFunctionOnSet(held, Quarantine!open_records)
      BY <1>1, <1>3
    <2> HIDE DEF held, taken, at, before, earlier
    <2>4. SumFunctionOnSet(taken, Quarantine!open_records) =
              IF SumFunctionOnSet(held, Quarantine!open_records) < Size[a] THEN SumFunctionOnSet(held, Quarantine!open_records) ELSE Size[a]
      <3>1. at \in [Quarantine!open_records -> Nat]
        BY <2>1
      <3>2. \A x, y \in Quarantine!open_records : at[x] = at[y] => x = y
        BY <2>1
      <3>3. \A r \in Quarantine!open_records : held[r] \in Nat
        BY <2>3
      <3>4. Size[a] \in Nat
        BY <2>3
      <3>5. IsFiniteSet(Quarantine!open_records)
        BY <2>6
      <3>6. Fifo(Quarantine!open_records, at, held, Size[a], taken, earlier, before)
        BY <2>2, <2>5, <2>7, <3>1, <3>2, <3>3, <3>4, <3>5 DEF Fifo
      <3> QED BY <3>6, FifoTakes
    <2> QED BY <2>4, <2>6
  <1>9. Quarantine!Units(Quarantine!open_records) \in Nat
    BY <1>1, <1>3
  <1>8. Quarantine!Left(a) = IF Quarantine!Units(Quarantine!open_records) < Size[a] THEN Size[a] - Quarantine!Units(Quarantine!open_records) ELSE 0
    <2>1. Quarantine!Units(Quarantine!open_records) \in Nat /\ Size[a] - Quarantine!Units(Quarantine!open_records) \in Int /\ 0 \in Int
      BY <1>1, <1>9
    <2>2. Quarantine!Left(a) = IF 0 < Size[a] - Quarantine!Units(Quarantine!open_records) THEN Size[a] - Quarantine!Units(Quarantine!open_records) ELSE 0
      BY <2>1, TwoNumbers, QuarOperators
    <2> QED BY <1>1, <2>1, <2>2
  <1>10. SumFunctionOnSet(taken, Quarantine!Records) + Quarantine!Left(a) = Size[a]
    <2> HIDE DEF taken
    <2> QED BY <1>1, <1>6, <1>7, <1>8, <1>9
  <1>11. Quarantine!Left(a) \in Nat
    BY <1>1, <1>8, <1>9
  <1>12. \A r \in Quarantine!Records : Quarantine!Covered(a, r) \in Nat /\ Quarantine!Covered(a, r) <= Quarantine!Open(r) /\ (r \notin Quarantine!open_records => Quarantine!Covered(a, r) = 0)
    BY <1>4
  <1> HIDE DEF held, at, Older
  <1> QED BY <1>10, <1>11, <1>12

-----------------------------------------------------------------------------
LEMMA QuarSums ==
    /\ \A r \in Quarantine!Records : Quarantine!Resolved(r) = GivenBy(s3, Executions, r)
    /\ Quarantine!QuarantineBalances <=>
         /\ \A a \in Executions : SpentBy(s3, Quarantine!Records, a) + s2[a] = IF a \in s4 THEN Size[a] ELSE 0
         /\ \A r \in Quarantine!Records : Quarantine!Open(r) >= 0
         /\ \A r \in Quarantine!Records, a \in Executions : s3[<<r, a>>] > 0 => (r \in Oversells <=> a \in Covers)
  BY DEF Quarantine!QuarantineBalances, Quarantine!Resolved, SpentBy, GivenBy, SumFunctionOnSet,
        Quarantine!SumFunctionOnSet, FoldFunctionOnSet, Quarantine!FoldFunctionOnSet, MapThenFoldSet,
        Quarantine!MapThenFoldSet

LEMMA QuarInit == Quarantine!Init => QuarInv
  <1> SUFFICES ASSUME Quarantine!Init PROVE QuarInv
    OBVIOUS
  <1>1. QuarTypes /\ QuarUnused
    BY QuarConstants DEF Quarantine!Init, QuarTypes, QuarUnused, Quarantine!Records
  <1>2. \A r \in Quarantine!Records : Quarantine!Resolved(r) = 0 /\ Quarantine!Quantity(r) = 0
    <2> SUFFICES ASSUME NEW r \in Quarantine!Records PROVE Quarantine!Resolved(r) = 0 /\ Quarantine!Quantity(r) = 0
      OBVIOUS
    <2>1. \A a \in Executions : [b \in Executions |-> s3[<<r, b>>]][a] = 0
      BY DEF Quarantine!Init
    <2>2. Quarantine!Resolved(r) = 0
      BY <2>1, QuarConstants, QuarOperators, SumOfZeros DEF GivenBy
    <2>3. Quarantine!Quantity(r) = 0
      BY DEF Quarantine!Init, Quarantine!Quantity, Quarantine!Records
    <2> QED BY <2>2, <2>3
  <1>3. \A r \in Quarantine!Records : Quarantine!Open(r) = 0
    BY <1>2 DEF Quarantine!Open
  <1>4. QuarHeld
    BY <1>3 DEF QuarHeld, Quarantine!open_records
  <1>5. \A a \in Executions : SpentBy(s3, Quarantine!Records, a) = 0
    <2> SUFFICES ASSUME NEW a \in Executions PROVE SpentBy(s3, Quarantine!Records, a) = 0
      OBVIOUS
    <2>1. \A r \in Quarantine!Records : [s \in Quarantine!Records |-> s3[<<s, a>>]][r] = 0
      BY DEF Quarantine!Init
    <2> QED BY <2>1, QuarConstants, SumOfZeros DEF SpentBy
  <1>6. Quarantine!QuarantineBalances
    <2>1. \A r \in Quarantine!Records, a \in Executions : s3[<<r, a>>] = 0
      BY DEF Quarantine!Init
    <2>2. \A a \in Executions : s2[a] = 0 /\ a \notin s4
      BY DEF Quarantine!Init
    <2>3. \A a \in Executions : SpentBy(s3, Quarantine!Records, a) + s2[a] = IF a \in s4 THEN Size[a] ELSE 0
      BY <1>5, <2>2
    <2>4. \A r \in Quarantine!Records : Quarantine!Open(r) >= 0
      BY <1>3
    <2>5. ASSUME NEW r \in Quarantine!Records, NEW a \in Executions PROVE ~ (s3[<<r, a>>] > 0)
      <3>1. s3[<<r, a>>] = 0
        BY <2>1
      <3> QED BY <3>1
    <2> QED BY <2>3, <2>4, <2>5, QuarSums
  <1> QED BY <1>1, <1>4, <1>6 DEF QuarInv

\* A step that leaves the three tables alone and un-settles no oversell opens or
\* balances nothing else.
LEMMA QuarElsewhere ==
    ASSUME QuarInv, QuarTypes', UNCHANGED <<s2, s3, s4>>,
           \A s \in Oversells : s1'[s] = "none" => s1[s] = "none"
    PROVE  QuarUnused' /\ Quarantine!QuarantineBalances'
  <1>0. QuarTypes /\ QuarUnused /\ Quarantine!QuarantineBalances
    BY DEF QuarInv
  <1>1. QuarUnused'
    BY <1>0 DEF QuarUnused
  <1>2. \A r \in Quarantine!Records : Quarantine!Open(r)' >= 0
    <2> SUFFICES ASSUME NEW r \in Quarantine!Records PROVE Quarantine!Open(r)' >= 0
      OBVIOUS
    <2>1. Quarantine!Resolved(r) \in Nat /\ Quarantine!Quantity(r) \in Nat /\ Quarantine!Open(r) >= 0
      BY <1>0, OpenType DEF Quarantine!QuarantineBalances
    <2>2. Quarantine!Resolved(r)' = Quarantine!Resolved(r)
      BY DEF Quarantine!Resolved
    <2>3. Quarantine!Quantity(r)' \in Nat /\ Quarantine!Quantity(r) <= Quarantine!Quantity(r)'
      BY <1>0, QuarConstants DEF QuarTypes, Quarantine!Quantity, Quarantine!Records
    <2> QED BY <2>1, <2>2, <2>3 DEF Quarantine!Open
  <1> QED BY <1>0, <1>1, <1>2 DEF Quarantine!QuarantineBalances

\* If no oversell settles, the same records are open.
LEMMA OpenUnchanged ==
    ASSUME UNCHANGED <<s2, s3>>, \A s \in Oversells : s1'[s] = "none" <=> s1[s] = "none"
    PROVE  Quarantine!open_records' = Quarantine!open_records
  <1>1. \A r \in Quarantine!Records : Quarantine!Quantity(r)' = Quarantine!Quantity(r) /\ Quarantine!Resolved(r)' = Quarantine!Resolved(r)
    BY DEF Quarantine!Quantity, Quarantine!Resolved
  <1> QED BY <1>1 DEF Quarantine!open_records, Quarantine!Open

\* A resolution keeps the books.
LEMMA QuarResolves ==
    ASSUME QuarInv, NEW c \in Commands, NEW a \in Executions, Quarantine!Resolve(a),
           s1' = s1, s6' = [s6 EXCEPT ![c] = Quarantine!None]
    PROVE  QuarInv'
  <1>0. QuarTypes /\ QuarUnused /\ QuarHeld /\ Quarantine!QuarantineBalances
    BY DEF QuarInv
  <1>1. \A r \in Quarantine!Records : Quarantine!Open(r) >= 0
    BY <1>0 DEF Quarantine!QuarantineBalances
  <1>p. /\ \A r \in Quarantine!Records : Quarantine!Resolved(r)' = GivenBy(s3', Executions, r)
        /\ Quarantine!QuarantineBalances' <=>
             /\ \A b \in Executions : SpentBy(s3', Quarantine!Records, b) + s2'[b] = IF b \in s4' THEN Size[b] ELSE 0
             /\ \A r \in Quarantine!Records : Quarantine!Open(r)' >= 0
             /\ \A r \in Quarantine!Records, b \in Executions : s3'[<<r, b>>] > 0 => (r \in Oversells <=> b \in Covers)
    BY DEF Quarantine!QuarantineBalances, Quarantine!Resolved, SpentBy, GivenBy, SumFunctionOnSet,
          Quarantine!SumFunctionOnSet, FoldFunctionOnSet, Quarantine!FoldFunctionOnSet, MapThenFoldSet,
          Quarantine!MapThenFoldSet
  <1>2. /\ \A r \in Quarantine!Records : Quarantine!Covered(a, r) \in Nat /\ Quarantine!Covered(a, r) <= Quarantine!Open(r)
        /\ \A r \in Quarantine!Records \ Quarantine!open_records : Quarantine!Covered(a, r) = 0
        /\ Quarantine!Left(a) \in Nat
        /\ SumFunctionOnSet([r \in Quarantine!Records |-> Quarantine!Covered(a, r)], Quarantine!Records) + Quarantine!Left(a) = Size[a]
    BY <1>0, <1>1, ResolutionBalances
  <1>a. PICK take : take = [r \in Quarantine!Records |-> Quarantine!Covered(a, r)]
    OBVIOUS
  <1>b. PICK left : left = Quarantine!Left(a)
    OBVIOUS
  <1>c. /\ take \in [Quarantine!Records -> Nat] /\ left \in Nat
        /\ \A r \in Quarantine!Records : take[r] <= Quarantine!Open(r)
        /\ \A r \in Quarantine!Records \ Quarantine!open_records : take[r] = 0
        /\ SumFunctionOnSet(take, Quarantine!Records) + left = Size[a]
    BY <1>2, <1>a, <1>b
  <1>3. a \notin s4 /\ s2[a] = 0 /\ \A r \in Quarantine!Records : s3[<<r, a>>] = 0
    BY <1>0 DEF Quarantine!Resolve, Quarantine!Preflight, QuarUnused
  <1>d. PICK old : old = s3
    OBVIOUS
  <1>e. PICK new : new = s3'
    OBVIOUS
  <1>u. s4' = s4 \cup {a}
    BY DEF Quarantine!Resolve
  <1>f. old \in [Quarantine!Records \X Executions -> Nat]
    BY <1>0, <1>d DEF QuarTypes
  <1>g. Added(new, old, Quarantine!Records, Executions, a, take)
    <2>1. new = [p \in Quarantine!Records \X Executions |-> old[p] + IF p[2] = a THEN take[p[1]] ELSE 0]
      <3>1. \A p \in Quarantine!Records \X Executions : take[p[1]] = Quarantine!Covered(a, p[1])
        BY <1>a
      <3>2. new = [p \in Quarantine!Records \X Executions |-> old[p] + IF p[2] = a THEN Quarantine!Covered(a, p[1]) ELSE 0]
        BY <1>d, <1>e DEF Quarantine!Resolve
      <3> QED BY <3>1, <3>2
    <2>2. \A r \in Quarantine!Records : old[<<r, a>>] = 0
      BY <1>3, <1>d
    <2> QED BY <1>f, <2>1, <2>2 DEF Added
  <1>4. /\ new \in [Quarantine!Records \X Executions -> Nat]
        /\ \A r \in Quarantine!Records : new[<<r, a>>] = take[r]
        /\ \A r \in Quarantine!Records, b \in Executions \ {a} : new[<<r, b>>] = old[<<r, b>>]
        /\ SpentBy(new, Quarantine!Records, a) = SumFunctionOnSet(take, Quarantine!Records)
        /\ \A b \in Executions \ {a} : SpentBy(new, Quarantine!Records, b) = SpentBy(old, Quarantine!Records, b)
        /\ \A r \in Quarantine!Records : GivenBy(new, Executions, r) = GivenBy(old, Executions, r) + take[r]
    <2>1. take \in [Quarantine!Records -> Nat]
      BY <1>c
    <2>2. IsFiniteSet(Quarantine!Records) /\ IsFiniteSet(Executions)
      BY QuarConstants
    <2>3. AddedUp(new, old, Quarantine!Records, Executions, a, take)
      BY <1>g, <2>1, <2>2, ColumnAdded
    <2> QED BY <2>3 DEF AddedUp
  <1>5. QuarTypes'
    <2>2. s2' \in [Executions -> Nat]
      BY <1>0, <1>2 DEF QuarTypes, Quarantine!Resolve
    <2>3. s6' \in [Commands -> Executions \cup {Quarantine!None}]
      BY <1>0 DEF QuarTypes
    <2> QED BY <1>0, <1>4, <1>e, <1>u, <2>2, <2>3 DEF QuarTypes
  <1>s. s2'[a] = left /\ \A b \in Executions \ {a} : s2'[b] = s2[b]
    BY <1>0, <1>b DEF QuarTypes, Quarantine!Resolve
  <1>6. QuarUnused'
    <2> SUFFICES ASSUME NEW b \in Executions \ s4' PROVE s2'[b] = 0 /\ \A r \in Quarantine!Records : s3'[<<r, b>>] = 0
      BY DEF QuarUnused
    <2>1. b \in Executions \ s4 /\ b # a
      BY <1>u
    <2>2. s2[b] = 0 /\ \A r \in Quarantine!Records : old[<<r, b>>] = 0
      BY <1>0, <1>d, <2>1 DEF QuarUnused
    <2>3. \A r \in Quarantine!Records : new[<<r, b>>] = 0
      BY <1>4, <2>1, <2>2
    <2>4. s2'[b] = 0
      BY <1>s, <2>1, <2>2
    <2> QED BY <1>e, <2>3, <2>4
  <1>7. QuarHeld'
    BY <1>0 DEF QuarHeld, Quarantine!Resolve, Quarantine!Preflight
  <1>8. \A b \in Executions :
            SpentBy(s3', Quarantine!Records, b) + s2'[b] = IF b \in s4' THEN Size[b] ELSE 0
    <2> SUFFICES ASSUME NEW b \in Executions
                 PROVE  SpentBy(new, Quarantine!Records, b) + s2'[b] = IF b \in s4' THEN Size[b] ELSE 0
      BY <1>e
    <2>1. CASE b = a
      <3>1. SpentBy(new, Quarantine!Records, b) + s2'[b] = Size[b]
        BY <1>4, <1>c, <1>s, <2>1
      <3>2. b \in s4'
        BY <1>u, <2>1
      <3> QED BY <3>1, <3>2
    <2>2. CASE b # a
      <3>1. SpentBy(new, Quarantine!Records, b) = SpentBy(s3, Quarantine!Records, b)
        BY <1>4, <1>d, <2>2
      <3>2. s2'[b] = s2[b] /\ (b \in s4' <=> b \in s4)
        BY <1>s, <1>u, <2>2
      <3>3. SpentBy(s3, Quarantine!Records, b) + s2[b] = IF b \in s4 THEN Size[b] ELSE 0
        BY <1>0, QuarSums
      <3> QED BY <3>1, <3>2, <3>3
    <2> QED BY <2>1, <2>2
  <1>9. \A r \in Quarantine!Records : Quarantine!Open(r)' >= 0
    <2> SUFFICES ASSUME NEW r \in Quarantine!Records PROVE Quarantine!Open(r)' >= 0
      OBVIOUS
    <2>4. Quarantine!Resolved(r) \in Nat /\ Quarantine!Quantity(r) \in Nat /\ Quarantine!Open(r) = Quarantine!Quantity(r) - Quarantine!Resolved(r)
      BY <1>0, OpenType DEF Quarantine!Open
    <2>5. Quarantine!Quantity(r)' \in Nat /\ Quarantine!Quantity(r) <= Quarantine!Quantity(r)'
      <3>1. CASE r \in Oversells
        BY <2>4, <3>1 DEF Quarantine!Quantity
      <3>2. CASE r \in Executions \ {a}
        <4>1. r \notin Oversells /\ s2'[r] = s2[r]
          BY <1>s, <3>2, QuarConstants
        <4> QED BY <2>4, <4>1 DEF Quarantine!Quantity
      <3>3. CASE r = a
        <4>1. r \notin Oversells /\ s2'[r] = left /\ s2[r] = 0
          BY <1>3, <1>s, <3>3, QuarConstants
        <4>2. Quarantine!Quantity(r)' = left /\ Quarantine!Quantity(r) = 0
          BY <4>1 DEF Quarantine!Quantity
        <4> QED BY <1>c, <4>2
      <3> QED BY <3>1, <3>2, <3>3 DEF Quarantine!Records
    <2>6. Quarantine!Resolved(r) = GivenBy(old, Executions, r) /\ Quarantine!Resolved(r)' = GivenBy(new, Executions, r)
      BY <1>d, <1>e, <1>p, QuarSums
    <2>7. Quarantine!Resolved(r)' = Quarantine!Resolved(r) + take[r]
      BY <1>4, <2>6
    <2>8. take[r] \in Nat /\ take[r] <= Quarantine!Open(r)
      BY <1>c
    <2>9. Quarantine!Open(r)' = Quarantine!Quantity(r)' - Quarantine!Resolved(r)'
      BY DEF Quarantine!Open
    <2> QED BY <2>4, <2>5, <2>7, <2>8, <2>9
  <1>10. \A r \in Quarantine!Records, b \in Executions : s3'[<<r, b>>] > 0 => (r \in Oversells <=> b \in Covers)
    <2> SUFFICES ASSUME NEW r \in Quarantine!Records, NEW b \in Executions, s3'[<<r, b>>] > 0
                 PROVE  r \in Oversells <=> b \in Covers
      OBVIOUS
    <2>1. CASE b = a
      <3>1. r \in Quarantine!open_records
        <4>1. take[r] > 0 /\ take[r] \in Nat
          BY <1>4, <1>c, <1>e, <2>1
        <4>2. take[r] # 0
          BY <4>1
        <4> QED BY <1>c, <4>2
      <3> QED BY <2>1, <3>1, QuarConstants DEF Quarantine!Resolve, Quarantine!Preflight
    <2>2. CASE b # a
      <3>1. s3[<<r, b>>] > 0
        BY <1>4, <1>d, <1>e, <2>2
      <3> QED BY <1>0, <3>1 DEF Quarantine!QuarantineBalances
    <2> QED BY <2>1, <2>2
  <1>11. Quarantine!QuarantineBalances'
    BY <1>8, <1>9, <1>10, <1>p
  <1> QED BY <1>5, <1>6, <1>7, <1>11 DEF QuarInv

\* The reset commits over no open record: for every one of them a settlement is
\* underway or a hold is active.
LEMMA ProvenClosed ==
    ASSUME QuarHeld, Quarantine!Proven
    PROVE  Quarantine!open_records = {}
  BY DEF QuarHeld, Quarantine!Proven, Quarantine!Released

LEMMA QuarStep ==
    ASSUME QuarInv, [Quarantine!Next]_Quarantine!vars
    PROVE  QuarInv'
  <1>0. QuarTypes /\ QuarUnused /\ QuarHeld /\ Quarantine!QuarantineBalances
    BY DEF QuarInv
  <1>1. ASSUME NEW s \in Oversells, Quarantine!ProjectLot(s) PROVE QuarInv'
    <2>1. QuarTypes'
      BY <1>0, <1>1, QuarConstants DEF QuarTypes, Quarantine!ProjectLot, Quarantine!ledgers, Quarantine!resets
    <2>2. UNCHANGED <<s2, s3, s4>>
      BY <1>1 DEF Quarantine!ProjectLot, Quarantine!ledgers
    <2>3. \A t \in Oversells : s1'[t] = "none" => s1[t] = "none"
      BY <1>0, <1>1 DEF QuarTypes, Quarantine!ProjectLot
    <2>4. QuarUnused' /\ Quarantine!QuarantineBalances'
      BY <2>1, <2>2, <2>3, QuarElsewhere
    <2>5. QuarHeld'
      BY <1>0, <1>1 DEF QuarTypes, QuarHeld, Quarantine!ProjectLot
    <2> QED BY <2>1, <2>4, <2>5 DEF QuarInv
  <1>2. ASSUME NEW s \in Oversells, Quarantine!LatchLiability(s) PROVE QuarInv'
    <2>1. QuarTypes'
      BY <1>0, <1>2, QuarConstants DEF QuarTypes, Quarantine!LatchLiability, Quarantine!ledgers,
            Quarantine!resets
    <2>2. UNCHANGED <<s2, s3, s4>>
      BY <1>2 DEF Quarantine!LatchLiability, Quarantine!ledgers
    <2>3. \A t \in Oversells : s1'[t] = "none" => s1[t] = "none"
      BY <1>0, <1>2 DEF QuarTypes, Quarantine!LatchLiability
    <2>4. QuarUnused' /\ Quarantine!QuarantineBalances'
      BY <2>1, <2>2, <2>3, QuarElsewhere
    <2>5. QuarHeld'
      <3>1. Quarantine!open_records' = Quarantine!open_records
        BY <1>0, <1>2, <2>2, OpenUnchanged DEF QuarTypes, Quarantine!LatchLiability
      <3> QED BY <1>0, <1>2, <3>1 DEF QuarTypes, QuarHeld, Quarantine!LatchLiability
    <2> QED BY <2>1, <2>4, <2>5 DEF QuarInv
  <1>3. ASSUME NEW s \in Oversells, Quarantine!HoldOrder(s) PROVE QuarInv'
    <2>1. QuarTypes'
      BY <1>0, <1>3, QuarConstants DEF QuarTypes, Quarantine!HoldOrder, Quarantine!ledgers, Quarantine!resets
    <2>2. UNCHANGED <<s2, s3, s4>>
      BY <1>3 DEF Quarantine!HoldOrder, Quarantine!ledgers
    <2>3. \A t \in Oversells : s1'[t] = "none" => s1[t] = "none"
      BY <1>0, <1>3 DEF QuarTypes, Quarantine!HoldOrder
    <2>4. QuarUnused' /\ Quarantine!QuarantineBalances'
      BY <2>1, <2>2, <2>3, QuarElsewhere
    <2>5. QuarHeld'
      <3>1. Quarantine!open_records' = Quarantine!open_records
        BY <1>0, <1>3, <2>2, OpenUnchanged DEF QuarTypes, Quarantine!HoldOrder
      <3> QED BY <1>0, <1>3, <3>1 DEF QuarTypes, QuarHeld, Quarantine!HoldOrder
    <2> QED BY <2>1, <2>4, <2>5 DEF QuarInv
  <1>4. ASSUME NEW s \in Oversells, Quarantine!AdoptLegacyLot(s) PROVE QuarInv'
    <2>1. QuarTypes'
      BY <1>0, <1>4, QuarConstants DEF QuarTypes, Quarantine!AdoptLegacyLot, Quarantine!ledgers,
            Quarantine!resets
    <2>2. UNCHANGED <<s2, s3, s4>>
      BY <1>4 DEF Quarantine!AdoptLegacyLot, Quarantine!ledgers
    <2>3. \A t \in Oversells : s1'[t] = "none" => s1[t] = "none"
      BY <1>0, <1>4 DEF QuarTypes, Quarantine!AdoptLegacyLot
    <2>4. QuarUnused' /\ Quarantine!QuarantineBalances'
      BY <2>1, <2>2, <2>3, QuarElsewhere
    <2>5. QuarHeld'
      BY <1>0, <1>4 DEF QuarTypes, QuarHeld, Quarantine!AdoptLegacyLot
    <2> QED BY <2>1, <2>4, <2>5 DEF QuarInv
  <1>5. CASE Quarantine!Pass
    <2>1. QuarTypes'
      BY <1>0, <1>5, QuarConstants DEF QuarTypes, Quarantine!Pass, Quarantine!ledgers, Quarantine!resets
    <2>2. UNCHANGED <<s2, s3, s4>>
      BY <1>5 DEF Quarantine!Pass, Quarantine!ledgers
    <2>3. \A t \in Oversells : s1'[t] = "none" => s1[t] = "none"
      BY <1>0, <1>5 DEF QuarTypes, Quarantine!Pass
    <2>4. QuarUnused' /\ Quarantine!QuarantineBalances'
      BY <2>1, <2>2, <2>3, QuarElsewhere
    <2>5. QuarHeld'
      <3>1. Quarantine!open_records' = Quarantine!open_records
        BY <1>0, <1>5, <2>2, OpenUnchanged DEF QuarTypes, Quarantine!Pass
      <3> QED BY <1>0, <1>5, <3>1 DEF QuarTypes, QuarHeld, Quarantine!Pass
    <2> QED BY <2>1, <2>4, <2>5 DEF QuarInv
  <1>6. CASE Quarantine!BrokerActs
    <2>1. QuarTypes'
      BY <1>0, <1>6, QuarConstants DEF QuarTypes, Quarantine!BrokerActs, Quarantine!ledgers, Quarantine!resets
    <2>2. UNCHANGED <<s2, s3, s4>>
      BY <1>6 DEF Quarantine!BrokerActs, Quarantine!ledgers
    <2>3. \A t \in Oversells : s1'[t] = "none" => s1[t] = "none"
      BY <1>0, <1>6 DEF QuarTypes, Quarantine!BrokerActs
    <2>4. QuarUnused' /\ Quarantine!QuarantineBalances'
      BY <2>1, <2>2, <2>3, QuarElsewhere
    <2>5. QuarHeld'
      <3>1. Quarantine!open_records' = Quarantine!open_records
        BY <1>0, <1>6, <2>2, OpenUnchanged DEF QuarTypes, Quarantine!BrokerActs
      <3> QED BY <1>0, <1>6, <3>1 DEF QuarTypes, QuarHeld, Quarantine!BrokerActs
    <2> QED BY <2>1, <2>4, <2>5 DEF QuarInv
  <1>7. CASE Quarantine!Gate
    <2>1. QuarTypes'
      BY <1>0, <1>7, QuarConstants DEF QuarTypes, Quarantine!Gate, Quarantine!ledgers, Quarantine!resets
    <2>2. UNCHANGED <<s2, s3, s4>>
      BY <1>7 DEF Quarantine!Gate, Quarantine!ledgers
    <2>3. \A t \in Oversells : s1'[t] = "none" => s1[t] = "none"
      BY <1>0, <1>7 DEF QuarTypes, Quarantine!Gate
    <2>4. QuarUnused' /\ Quarantine!QuarantineBalances'
      BY <2>1, <2>2, <2>3, QuarElsewhere
    <2>5. QuarHeld'
      <3>1. Quarantine!open_records' = Quarantine!open_records
        BY <1>0, <1>7, <2>2, OpenUnchanged DEF QuarTypes, Quarantine!Gate
      <3> QED BY <1>0, <1>7, <3>1 DEF QuarTypes, QuarHeld, Quarantine!Gate
    <2> QED BY <2>1, <2>4, <2>5 DEF QuarInv
  <1>8. CASE Quarantine!Prove
    <2>1. QuarTypes'
      BY <1>0, <1>8, QuarConstants DEF QuarTypes, Quarantine!Prove, Quarantine!ledgers, Quarantine!resets
    <2>2. UNCHANGED <<s2, s3, s4>>
      BY <1>8 DEF Quarantine!Prove, Quarantine!ledgers
    <2>3. \A t \in Oversells : s1'[t] = "none" => s1[t] = "none"
      BY <1>0, <1>8 DEF QuarTypes, Quarantine!Prove
    <2>4. QuarUnused' /\ Quarantine!QuarantineBalances'
      BY <2>1, <2>2, <2>3, QuarElsewhere
    <2>5. QuarHeld'
      <3>1. Quarantine!open_records' = Quarantine!open_records
        BY <1>0, <1>8, <2>2, OpenUnchanged DEF QuarTypes, Quarantine!Prove
      <3> QED BY <1>0, <1>8, <3>1 DEF QuarTypes, QuarHeld, Quarantine!Prove
    <2> QED BY <2>1, <2>4, <2>5 DEF QuarInv
  <1>9. CASE Quarantine!Commit
    <2>1. QuarTypes'
      BY <1>0, <1>9 DEF QuarTypes, Quarantine!Commit, Quarantine!ledgers
    <2>2. UNCHANGED <<s2, s3, s4>>
      BY <1>9 DEF Quarantine!Commit, Quarantine!ledgers
    <2>3. \A t \in Oversells : s1'[t] = "none" <=> s1[t] = "none"
      BY <1>0, <1>9 DEF QuarTypes, Quarantine!Commit, Quarantine!Released
    <2>4. QuarUnused' /\ Quarantine!QuarantineBalances'
      BY <2>1, <2>2, <2>3, QuarElsewhere
    <2>6. Quarantine!open_records' = Quarantine!open_records
      BY <2>2, <2>3, OpenUnchanged
    <2>5. QuarHeld'
      <3>1. CASE UNCHANGED s1
        BY <1>0, <2>6, <3>1 DEF QuarHeld
      <3>2. CASE Quarantine!Proven
        BY <1>0, <2>6, <3>2, ProvenClosed DEF QuarHeld
      <3> QED BY <1>9, <3>1, <3>2 DEF Quarantine!Commit
    <2> QED BY <2>1, <2>4, <2>5 DEF QuarInv
  <1>10. ASSUME NEW c \in Commands, Quarantine!Write(c) PROVE QuarInv'
    <2> DEFINE a == s6[c]
    <2>1. a \in Executions /\ s1' = s1 /\ s6' = [s6 EXCEPT ![c] = Quarantine!None]
      BY <1>0, <1>10 DEF QuarTypes, Quarantine!Write
    <2>2. CASE Quarantine!Preflight(a)
      <3>1. Quarantine!Resolve(a)
        BY <1>10, <2>2 DEF Quarantine!Write
      <3> HIDE DEF a
      <3> QED BY <2>1, <3>1, QuarResolves
    <2>3. CASE ~Quarantine!Preflight(a)
      <3>1. UNCHANGED <<s2, s3, s4>>
        BY <1>10, <2>3 DEF Quarantine!Write, Quarantine!Resolve, Quarantine!ledgers
      <3>2. QuarTypes'
        BY <1>0, <2>1, <3>1 DEF QuarTypes
      <3>3. QuarUnused' /\ Quarantine!QuarantineBalances'
        BY <2>1, <3>1, <3>2, QuarElsewhere
      <3>4. Quarantine!open_records' = Quarantine!open_records
        BY <2>1, <3>1, OpenUnchanged
      <3> QED BY <1>0, <2>1, <3>2, <3>3, <3>4 DEF QuarInv, QuarHeld
    <2> QED BY <2>2, <2>3
  <1>11. ASSUME NEW c \in Commands, NEW a \in Executions, Quarantine!Read(c, a) PROVE QuarInv'
    <2>1. UNCHANGED <<s1, s2, s3, s4>>
      BY <1>11 DEF Quarantine!Read, Quarantine!ledgers
    <2>2. QuarTypes'
      BY <1>0, <1>11, <2>1 DEF QuarTypes, Quarantine!Read
    <2>3. QuarUnused' /\ Quarantine!QuarantineBalances'
      BY <2>1, <2>2, QuarElsewhere
    <2>4. Quarantine!open_records' = Quarantine!open_records
      BY <2>1, OpenUnchanged
    <2> QED BY <1>0, <2>1, <2>2, <2>3, <2>4 DEF QuarInv, QuarHeld
  <1>12. CASE UNCHANGED Quarantine!vars
    <2>1. UNCHANGED <<s1, s2, s3, s4, s6>>
      BY <1>12 DEF Quarantine!vars
    <2>2. QuarTypes'
      BY <1>0, <2>1 DEF QuarTypes
    <2>3. QuarUnused' /\ Quarantine!QuarantineBalances'
      BY <2>1, <2>2, QuarElsewhere
    <2>4. Quarantine!open_records' = Quarantine!open_records
      BY <2>1, OpenUnchanged
    <2> QED BY <1>0, <2>1, <2>2, <2>3, <2>4 DEF QuarInv, QuarHeld
  <1> QED BY <1>1, <1>2, <1>3, <1>4, <1>5, <1>6, <1>7, <1>8, <1>9, <1>10, <1>11, <1>12 DEF Quarantine!Next

\* Only a commit whose proof held clears the latch.
LEMMA ResetIsClean ==
    ASSUME QuarInv, [Quarantine!Next]_Quarantine!vars
    PROVE  Quarantine!ResetFindsNothingOpen
  <1> SUFFICES ASSUME s7, ~s7' PROVE Quarantine!open_records = {}
    BY DEF Quarantine!ResetFindsNothingOpen
  <1>1. Quarantine!Commit
    BY DEF Quarantine!Next, Quarantine!vars, Quarantine!ProjectLot, Quarantine!LatchLiability,
          Quarantine!HoldOrder, Quarantine!AdoptLegacyLot, Quarantine!Pass, Quarantine!BrokerActs,
          Quarantine!Read, Quarantine!Write, Quarantine!Gate, Quarantine!Prove
  <1>2. Quarantine!Proven
    BY <1>1 DEF Quarantine!Commit
  <1> QED BY <1>2, ProvenClosed DEF QuarInv

-----------------------------------------------------------------------------
(***************************************************************************)
(* Adoption.  Whoever adopts has found no open unit, and finding none      *)
(* means finding no lot (NoUnitsNoLots); a purchase that comes later meets *)
(* the adoption unless settlement had read before it (AdoptUnseen).        *)
(*                                                                         *)
(* In Components s1 is position, s2 is trades, s3 is buy, s4 is managed,   *)
(* s5 is adopted, s6 is holding, s7 is episode, s8 is episodes, s9 is      *)
(* pass, s10 is exit, s11 is latched, s12 is overtaken.                    *)
(***************************************************************************)

Adoptions == [source : Nat, quantity : Nat, left : Nat]

AdoptTypes ==
    /\ s1 \in Nat
    /\ s4 \subseteq OwnBuys
    /\ s5 \subseteq Adoptions
    /\ IsFiniteSet(s5)
    /\ s7 \in [id : Nat, quantity : Nat]
    /\ s8 \in Nat
    /\ s12 \in BOOLEAN
    /\ \A p \in Passes : s9[p].quantity \in Nat /\ s9[p].source \in Nat
    /\ DOMAIN s9 = Passes
    /\ DOMAIN s3 = OwnBuys

\* One adopted lot is open at most, beside a managed one or a purchase that is
\* about to be one only when settlement did not see it.
AdoptOne == \A a, b \in Adoption!AdoptedOpen : a = b
AdoptApart == Adoption!AdoptedOpen # {} /\ s4 # {} => s12
AdoptUnseen == Adoption!AdoptedOpen # {} /\ (\E b \in OwnBuys : s3[b] = "read") => s12

AdoptInv == AdoptTypes /\ AdoptOne /\ AdoptApart /\ AdoptUnseen

-----------------------------------------------------------------------------
\* The module's operators in those of the lemmas on sums and finite sets.
LEMMA AdoptOperators ==
    /\ IsFiniteSet(OwnBuys) /\ Opening \in Nat
    /\ Adoption!OpenUnits = Cardinality(s4) + SumFunctionOnSet([a \in Adoption!AdoptedOpen |-> a.left], Adoption!AdoptedOpen)
    /\ Adoption!OneOrigin <=> Cardinality(Adoption!AdoptedOpen) <= 1 /\ (Adoption!AdoptedOpen # {} /\ s4 # {} => s12)
  <1>1. IsFiniteSet(OwnBuys) /\ Opening \in Nat
    BY AdoptionAssumed DEF Adoption!AdoptionAssumption, IsFiniteSet, Adoption!IsFiniteSet
  <1>2. Adoption!OpenUnits = Cardinality(s4) + SumFunctionOnSet([a \in Adoption!AdoptedOpen |-> a.left], Adoption!AdoptedOpen)
    BY DEF Adoption!OpenUnits, IsFiniteSet, Adoption!IsFiniteSet, Cardinality, Adoption!Cardinality,
          SumFunctionOnSet, Adoption!SumFunctionOnSet, FoldFunctionOnSet, Adoption!FoldFunctionOnSet,
          MapThenFoldSet, Adoption!MapThenFoldSet
  <1>3. Adoption!OneOrigin <=> Cardinality(Adoption!AdoptedOpen) <= 1 /\ (Adoption!AdoptedOpen # {} /\ s4 # {} => s12)
    BY DEF Adoption!OneOrigin, IsFiniteSet, Adoption!IsFiniteSet, Cardinality, Adoption!Cardinality
  <1> QED BY <1>1, <1>2, <1>3

\* Whoever finds no open unit finds no open lot.
LEMMA NoUnitsNoLots ==
    ASSUME AdoptTypes, ~Adoption!Managed
    PROVE  s4 = {} /\ Adoption!AdoptedOpen = {}
  <1> DEFINE left == [a \in Adoption!AdoptedOpen |-> a.left]
             units == SumFunctionOnSet(left, Adoption!AdoptedOpen)
  <1>1. IsFiniteSet(Adoption!AdoptedOpen) /\ Adoption!AdoptedOpen \subseteq Adoptions
    BY FS_Subset DEF AdoptTypes, Adoption!AdoptedOpen
  <1>2. \A a \in Adoption!AdoptedOpen : left[a] \in Nat /\ left[a] > 0
    BY <1>1 DEF Adoption!AdoptedOpen, Adoptions
  <1> HIDE DEF left
  <1>3. units \in Nat /\ \A a \in Adoption!AdoptedOpen : left[a] <= units
    BY <1>1, <1>2, SumOfNaturals
  <1>4. IsFiniteSet(s4)
    BY AdoptOperators, FS_Subset DEF AdoptTypes
  <1>5. Cardinality(s4) \in Nat /\ (Cardinality(s4) = 0 <=> s4 = {})
    BY <1>4, FS_CardinalityType, FS_EmptySet
  <1>6. Adoption!OpenUnits = Cardinality(s4) + units /\ ~(Adoption!OpenUnits > 0)
    BY AdoptOperators DEF Adoption!Managed, left
  <1>7. Cardinality(s4) = 0 /\ units = 0
    <2> HIDE DEF units
    <2> QED BY <1>3, <1>5, <1>6
  <1> QED BY <1>2, <1>3, <1>5, <1>7

LEMMA AdoptInit == Adoption!Init => AdoptInv
  <1> SUFFICES ASSUME Adoption!Init PROVE AdoptInv
    OBVIOUS
  <1>1. AdoptTypes
    BY AdoptOperators, FS_EmptySet DEF Adoption!Init, AdoptTypes, Adoption!Idle, Adoption!NoEpisode
  <1>2. Adoption!AdoptedOpen = {}
    BY DEF Adoption!Init, Adoption!AdoptedOpen
  <1> QED BY <1>1, <1>2 DEF AdoptInv, AdoptOne, AdoptApart, AdoptUnseen

\* A step that leaves the adoptions and the lots alone and lets no purchase read
\* them keeps the invariant.
LEMMA AdoptElsewhere ==
    ASSUME AdoptInv, AdoptTypes', UNCHANGED <<s5, s4, s12>>,
           \A b \in OwnBuys : s3'[b] = "read" => s3[b] = "read"
    PROVE  AdoptInv'
  BY DEF AdoptInv, AdoptOne, AdoptApart, AdoptUnseen, Adoption!AdoptedOpen

LEMMA AdoptStep ==
    ASSUME AdoptInv, [Adoption!Next]_Adoption!vars
    PROVE  AdoptInv'
  <1>0. AdoptTypes /\ AdoptOne /\ AdoptApart /\ AdoptUnseen
    BY DEF AdoptInv
  <1>1. ASSUME NEW n \in {-1, 1}, Adoption!TradeByHand(n) PROVE AdoptInv'
    <2>1. AdoptTypes'
      BY <1>0, <1>1, AdoptOperators DEF AdoptTypes, Adoption!TradeByHand, Adoption!account, Adoption!ledger,
            Adoption!adoptions, Adoption!sightings
    <2>2. UNCHANGED <<s5, s4, s12>>
      BY <1>1 DEF Adoption!TradeByHand, Adoption!account, Adoption!ledger, Adoption!adoptions,
            Adoption!sightings
    <2>3. \A c \in OwnBuys : s3'[c] = "read" => s3[c] = "read"
      BY <1>0, <1>1 DEF AdoptTypes, Adoption!TradeByHand, Adoption!account, Adoption!ledger, Adoption!adoptions,
            Adoption!sightings
    <2> QED BY <2>1, <2>2, <2>3, AdoptElsewhere
  <1>2. ASSUME NEW p \in Passes, Adoption!Begin(p) PROVE AdoptInv'
    <2>1. AdoptTypes'
      BY <1>0, <1>2, AdoptOperators DEF AdoptTypes, Adoption!Begin, Adoption!At, Adoption!account,
            Adoption!ledger, Adoption!adoptions, Adoption!sightings
    <2>2. UNCHANGED <<s5, s4, s12>>
      BY <1>2 DEF Adoption!Begin, Adoption!At, Adoption!account, Adoption!ledger, Adoption!adoptions,
            Adoption!sightings
    <2>3. \A c \in OwnBuys : s3'[c] = "read" => s3[c] = "read"
      BY <1>0, <1>2 DEF AdoptTypes, Adoption!Begin, Adoption!At, Adoption!account, Adoption!ledger,
            Adoption!adoptions, Adoption!sightings
    <2> QED BY <2>1, <2>2, <2>3, AdoptElsewhere
  <1>3. ASSUME NEW p \in Passes, Adoption!CloseVanished(p) PROVE AdoptInv'
    <2>1. AdoptTypes'
      BY <1>0, <1>3, AdoptOperators DEF AdoptTypes, Adoption!CloseVanished, Adoption!At, Adoption!NoEpisode,
            Adoption!account, Adoption!ledger, Adoption!adoptions, Adoption!sightings
    <2>2. UNCHANGED <<s5, s4, s12>>
      BY <1>3 DEF Adoption!CloseVanished, Adoption!At, Adoption!NoEpisode, Adoption!account, Adoption!ledger,
            Adoption!adoptions, Adoption!sightings
    <2>3. \A c \in OwnBuys : s3'[c] = "read" => s3[c] = "read"
      BY <1>0, <1>3 DEF AdoptTypes, Adoption!CloseVanished, Adoption!At, Adoption!NoEpisode, Adoption!account,
            Adoption!ledger, Adoption!adoptions, Adoption!sightings
    <2> QED BY <2>1, <2>2, <2>3, AdoptElsewhere
  <1>4. ASSUME NEW p \in Passes, Adoption!Classify(p) PROVE AdoptInv'
    <2>1. AdoptTypes'
      BY <1>0, <1>4, AdoptOperators DEF AdoptTypes, Adoption!Classify, Adoption!At, Adoption!Checkpoint,
            Adoption!account, Adoption!ledger, Adoption!adoptions, Adoption!sightings
    <2>2. UNCHANGED <<s5, s4, s12>>
      BY <1>4 DEF Adoption!Classify, Adoption!At, Adoption!Checkpoint, Adoption!account, Adoption!ledger,
            Adoption!adoptions, Adoption!sightings
    <2>3. \A c \in OwnBuys : s3'[c] = "read" => s3[c] = "read"
      BY <1>0, <1>4 DEF AdoptTypes, Adoption!Classify, Adoption!At, Adoption!Checkpoint, Adoption!account,
            Adoption!ledger, Adoption!adoptions, Adoption!sightings
    <2> QED BY <2>1, <2>2, <2>3, AdoptElsewhere
  <1>5. ASSUME NEW p \in Passes, Adoption!Observe(p) PROVE AdoptInv'
    <2>1. AdoptTypes'
      BY <1>0, <1>5, AdoptOperators DEF AdoptTypes, Adoption!Observe, Adoption!At, Adoption!account,
            Adoption!ledger, Adoption!adoptions, Adoption!sightings
    <2>2. UNCHANGED <<s5, s4, s12>>
      BY <1>5 DEF Adoption!Observe, Adoption!At, Adoption!account, Adoption!ledger, Adoption!adoptions,
            Adoption!sightings
    <2>3. \A c \in OwnBuys : s3'[c] = "read" => s3[c] = "read"
      BY <1>0, <1>5 DEF AdoptTypes, Adoption!Observe, Adoption!At, Adoption!account, Adoption!ledger,
            Adoption!adoptions, Adoption!sightings
    <2> QED BY <2>1, <2>2, <2>3, AdoptElsewhere
  <1>6. ASSUME NEW p \in Passes, Adoption!GiveUp(p) PROVE AdoptInv'
    <2>1. AdoptTypes'
      BY <1>0, <1>6, AdoptOperators DEF AdoptTypes, Adoption!GiveUp, Adoption!At, Adoption!account,
            Adoption!ledger, Adoption!adoptions, Adoption!sightings
    <2>2. UNCHANGED <<s5, s4, s12>>
      BY <1>6 DEF Adoption!GiveUp, Adoption!At, Adoption!account, Adoption!ledger, Adoption!adoptions,
            Adoption!sightings
    <2>3. \A c \in OwnBuys : s3'[c] = "read" => s3[c] = "read"
      BY <1>0, <1>6 DEF AdoptTypes, Adoption!GiveUp, Adoption!At, Adoption!account, Adoption!ledger,
            Adoption!adoptions, Adoption!sightings
    <2> QED BY <2>1, <2>2, <2>3, AdoptElsewhere
  <1>7. ASSUME NEW p \in Passes, Adoption!WriteAdoption(p) PROVE AdoptInv'
    <2>1. CASE ~Adoption!Adoptable(p)
      <3>1. AdoptTypes'
        BY <1>0, <1>7, <2>1 DEF AdoptTypes, Adoption!WriteAdoption, Adoption!At, Adoption!account,
              Adoption!ledger, Adoption!adoptions, Adoption!sightings
      <3>2. UNCHANGED <<s5, s4, s12, s3>>
        BY <1>7, <2>1 DEF Adoption!WriteAdoption, Adoption!account, Adoption!ledger, Adoption!adoptions
      <3> QED BY <3>1, <3>2, AdoptElsewhere
    <2>2. CASE Adoption!Adoptable(p)
      <3> DEFINE new == [source |-> s9[p].source, quantity |-> s9[p].quantity, left |-> s9[p].quantity]
      <3>1. s4 = {} /\ Adoption!AdoptedOpen = {}
        BY <1>0, <2>2, NoUnitsNoLots DEF Adoption!Adoptable
      <3>2. /\ s5' = s5 \cup {new} /\ s4' = s4 /\ s3' = s3
            /\ s12' = (s12 \/ \E b \in OwnBuys : s3[b] = "read")
        BY <1>7, <2>2 DEF Adoption!WriteAdoption, Adoption!ledger
      <3>3. new \in Adoptions
        BY <1>0 DEF AdoptTypes, Adoptions
      <3>4. IsFiniteSet(s5')
        <4> HIDE DEF new
        <4> QED BY <1>0, <3>2, FS_AddElement DEF AdoptTypes
      <3>5. Adoption!AdoptedOpen' \subseteq {new}
        BY <3>1, <3>2 DEF Adoption!AdoptedOpen
      <3>6. AdoptTypes'
        <4>1. s1 \in Nat /\ s1' = s1 /\ s8' = s8
          BY <1>0, <1>7 DEF AdoptTypes, Adoption!WriteAdoption, Adoption!account
        <4>2. s7' \in [id : Nat, quantity : Nat]
          BY <1>0, <1>7, <2>2 DEF AdoptTypes, Adoption!WriteAdoption, Adoption!NoEpisode
        <4>3. DOMAIN s9' = Passes /\ \A q \in Passes : s9'[q].quantity \in Nat /\ s9'[q].source \in Nat
          BY <1>0, <1>7 DEF AdoptTypes, Adoption!WriteAdoption, Adoption!At
        <4>4. s5' \subseteq Adoptions
          BY <1>0, <3>2, <3>3 DEF AdoptTypes
        <4>5. s12' \in BOOLEAN
          BY <3>2
        <4> HIDE DEF new
        <4> QED BY <1>0, <3>2, <3>4, <4>1, <4>2, <4>3, <4>4, <4>5 DEF AdoptTypes
      <3> HIDE DEF new
      <3>7. AdoptOne' /\ AdoptApart'
        BY <3>1, <3>2, <3>5 DEF AdoptOne, AdoptApart
      <3>8. AdoptUnseen'
        BY <3>2 DEF AdoptUnseen
      <3> QED BY <3>6, <3>7, <3>8 DEF AdoptInv
    <2> QED BY <2>1, <2>2
  <1>8. ASSUME NEW b \in OwnBuys, Adoption!CheckBuy(b) PROVE AdoptInv'
    <2>1. AdoptTypes'
      BY <1>0, <1>8, AdoptOperators DEF AdoptTypes, Adoption!CheckBuy, Adoption!account, Adoption!ledger,
            Adoption!adoptions, Adoption!sightings
    <2>2. UNCHANGED <<s5, s4, s12>>
      BY <1>8 DEF Adoption!CheckBuy, Adoption!account, Adoption!ledger, Adoption!adoptions, Adoption!sightings
    <2>3. \A c \in OwnBuys : s3'[c] = "read" => s3[c] = "read"
      BY <1>0, <1>8 DEF AdoptTypes, Adoption!CheckBuy, Adoption!account, Adoption!ledger, Adoption!adoptions,
            Adoption!sightings
    <2> QED BY <2>1, <2>2, <2>3, AdoptElsewhere
  <1>9. ASSUME NEW b \in OwnBuys, Adoption!SendBuy(b) PROVE AdoptInv'
    <2>1. AdoptTypes'
      BY <1>0, <1>9, AdoptOperators DEF AdoptTypes, Adoption!SendBuy, Adoption!account, Adoption!ledger,
            Adoption!adoptions, Adoption!sightings
    <2>2. UNCHANGED <<s5, s4, s12>>
      BY <1>9 DEF Adoption!SendBuy, Adoption!account, Adoption!ledger, Adoption!adoptions, Adoption!sightings
    <2>3. \A c \in OwnBuys : s3'[c] = "read" => s3[c] = "read"
      BY <1>0, <1>9 DEF AdoptTypes, Adoption!SendBuy, Adoption!account, Adoption!ledger, Adoption!adoptions,
            Adoption!sightings
    <2> QED BY <2>1, <2>2, <2>3, AdoptElsewhere
  <1>10. ASSUME NEW b \in OwnBuys, Adoption!FillBuy(b) PROVE AdoptInv'
    <2>1. AdoptTypes'
      BY <1>0, <1>10, AdoptOperators DEF AdoptTypes, Adoption!FillBuy, Adoption!account, Adoption!ledger,
            Adoption!adoptions, Adoption!sightings
    <2>2. UNCHANGED <<s5, s4, s12>>
      BY <1>10 DEF Adoption!FillBuy, Adoption!account, Adoption!ledger, Adoption!adoptions, Adoption!sightings
    <2>3. \A c \in OwnBuys : s3'[c] = "read" => s3[c] = "read"
      BY <1>0, <1>10 DEF AdoptTypes, Adoption!FillBuy, Adoption!account, Adoption!ledger, Adoption!adoptions,
            Adoption!sightings
    <2> QED BY <2>1, <2>2, <2>3, AdoptElsewhere
  <1>11. ASSUME NEW b \in OwnBuys, Adoption!ReadLots(b) PROVE AdoptInv'
    <2>1. AdoptTypes'
      BY <1>0, <1>11, AdoptOperators DEF AdoptTypes, Adoption!ReadLots, Adoption!account, Adoption!ledger,
            Adoption!adoptions, Adoption!sightings
    <2>2. UNCHANGED <<s5, s4, s12>>
      BY <1>11 DEF Adoption!ReadLots, Adoption!adoptions
    <2>3. CASE Adoption!AdoptedOpen = {}
      BY <1>0, <2>1, <2>2, <2>3 DEF AdoptInv, AdoptOne, AdoptApart, AdoptUnseen, Adoption!AdoptedOpen
    <2>4. CASE Adoption!AdoptedOpen # {}
      <3>1. \A c \in OwnBuys : s3'[c] = "read" => s3[c] = "read"
        BY <1>0, <1>11, <2>4 DEF AdoptTypes, Adoption!ReadLots
      <3> QED BY <2>1, <2>2, <3>1, AdoptElsewhere
    <2> QED BY <2>3, <2>4
  <1>12. ASSUME NEW b \in OwnBuys, Adoption!CreateLot(b) PROVE AdoptInv'
    <2>1. AdoptTypes'
      BY <1>0, <1>12, AdoptOperators DEF AdoptTypes, Adoption!CreateLot, Adoption!account, Adoption!ledger,
            Adoption!adoptions, Adoption!sightings
    <2>2. Adoption!AdoptedOpen # {} => s12
      BY <1>0, <1>12 DEF AdoptUnseen, Adoption!CreateLot
    <2>3. UNCHANGED <<s5, s12>>
      BY <1>12 DEF Adoption!CreateLot, Adoption!adoptions
    <2> QED BY <1>0, <2>1, <2>2, <2>3 DEF AdoptInv, AdoptOne, AdoptApart, AdoptUnseen, Adoption!AdoptedOpen
  <1>13. ASSUME NEW b \in OwnBuys, Adoption!ProjectHolding(b) PROVE AdoptInv'
    <2>1. AdoptTypes'
      BY <1>0, <1>13, AdoptOperators DEF AdoptTypes, Adoption!ProjectHolding, Adoption!account, Adoption!ledger,
            Adoption!adoptions, Adoption!sightings
    <2>2. UNCHANGED <<s5, s4, s12>>
      BY <1>13 DEF Adoption!ProjectHolding, Adoption!account, Adoption!ledger, Adoption!adoptions,
            Adoption!sightings
    <2>3. \A c \in OwnBuys : s3'[c] = "read" => s3[c] = "read"
      BY <1>0, <1>13 DEF AdoptTypes, Adoption!ProjectHolding, Adoption!account, Adoption!ledger,
            Adoption!adoptions, Adoption!sightings
    <2> QED BY <2>1, <2>2, <2>3, AdoptElsewhere
  <1>14. CASE Adoption!SellAll
    <2>1. AdoptTypes'
      BY <1>0, <1>14, AdoptOperators DEF AdoptTypes, Adoption!SellAll, Adoption!account, Adoption!ledger,
            Adoption!adoptions, Adoption!sightings
    <2>2. UNCHANGED <<s5, s4, s12>>
      BY <1>14 DEF Adoption!SellAll, Adoption!account, Adoption!ledger, Adoption!adoptions, Adoption!sightings
    <2>3. \A c \in OwnBuys : s3'[c] = "read" => s3[c] = "read"
      BY <1>0, <1>14 DEF AdoptTypes, Adoption!SellAll, Adoption!account, Adoption!ledger, Adoption!adoptions,
            Adoption!sightings
    <2> QED BY <2>1, <2>2, <2>3, AdoptElsewhere
  <1>15. CASE Adoption!CloseLots
    <2>1. Adoption!AdoptedOpen' = {} /\ s4' = {} /\ s12' = s12
      BY <1>0, <1>15 DEF AdoptTypes, Adoptions, Adoption!AdoptedOpen, Adoption!CloseLots
    <2>2. s5' \subseteq Adoptions
      BY <1>0, <1>15 DEF AdoptTypes, Adoptions, Adoption!CloseLots
    <2>3. IsFiniteSet(s5')
      <3> DEFINE closed == [a \in s5 |-> [a EXCEPT !.left = 0]]
      <3>1. closed \in Surjection(s5, s5')
        BY <1>15 DEF Adoption!CloseLots, Surjection
      <3> HIDE DEF closed
      <3> QED BY <1>0, <3>1, FS_Surjection DEF AdoptTypes
    <2>4. AdoptTypes'
      BY <1>0, <1>15, <2>1, <2>2, <2>3 DEF AdoptTypes, Adoption!CloseLots, Adoption!account, Adoption!sightings
    <2> QED BY <2>1, <2>4 DEF AdoptInv, AdoptOne, AdoptApart, AdoptUnseen
  <1>16. CASE Adoption!CloseHolding
    <2>1. AdoptTypes'
      BY <1>0, <1>16, AdoptOperators DEF AdoptTypes, Adoption!CloseHolding, Adoption!account, Adoption!ledger,
            Adoption!adoptions, Adoption!sightings
    <2>2. UNCHANGED <<s5, s4, s12>>
      BY <1>16 DEF Adoption!CloseHolding, Adoption!account, Adoption!ledger, Adoption!adoptions,
            Adoption!sightings
    <2>3. \A c \in OwnBuys : s3'[c] = "read" => s3[c] = "read"
      BY <1>0, <1>16 DEF AdoptTypes, Adoption!CloseHolding, Adoption!account, Adoption!ledger,
            Adoption!adoptions, Adoption!sightings
    <2> QED BY <2>1, <2>2, <2>3, AdoptElsewhere
  <1>17. CASE UNCHANGED Adoption!vars
    <2>1. UNCHANGED <<s1, s4, s5, s7, s8, s12, s9, s3>>
      BY <1>17 DEF Adoption!vars
    <2> QED BY <1>0, <2>1 DEF AdoptInv, AdoptTypes, AdoptOne, AdoptApart, AdoptUnseen, Adoption!AdoptedOpen
  <1> QED BY <1>1, <1>2, <1>3, <1>4, <1>5, <1>6, <1>7, <1>8, <1>9, <1>10, <1>11, <1>12, <1>13, <1>14, <1>15,
        <1>16, <1>17 DEF Adoption!Next

LEMMA AdoptSafe == AdoptInv => Adoption!OneOrigin
  <1> SUFFICES ASSUME AdoptInv PROVE Adoption!OneOrigin
    OBVIOUS
  <1>1. CASE Adoption!AdoptedOpen = {}
    BY <1>1, FS_EmptySet, AdoptOperators
  <1>2. CASE Adoption!AdoptedOpen # {}
    <2>1. PICK a \in Adoption!AdoptedOpen : Adoption!AdoptedOpen = {a}
      BY <1>2 DEF AdoptInv, AdoptOne
    <2>2. Cardinality(Adoption!AdoptedOpen) = 1
      BY <2>1, FS_Singleton
    <2> QED BY <2>2, AdoptOperators DEF AdoptInv, AdoptApart
  <1> QED BY <1>1, <1>2

-----------------------------------------------------------------------------
(***************************************************************************)
(* Calendar.  A lane reads the clock before it opens its check, and checks *)
(* of overlapping lanes end in any order; but a later reading has no       *)
(* earlier day (CalInTime), so the latest check of a date is as fresh as   *)
(* any that verifies it, and what is completed was fetched and never       *)
(* written off (CalRows).  The n-th weekday is no later than the n-th of   *)
(* fewer days (CalNthOfMore).                                              *)
(*                                                                         *)
(* In Components s1 is day, s2 is half, s3 is broker, s4 is changes, s5 is *)
(* crashes, s6 is stamps, s7 is checks, s8 is lane, s9 is active, s10 is   *)
(* closedSince.                                                            *)
(***************************************************************************)

CalEvents == {"started", "fetched", "completed", "failed"}
CalSteps == {"idle", "asked", "closed", "fetching", "comparing"}

CalRow == [now : Nat, day : Nat, events : SUBSET CalEvents, reported : [Calendar!Days -> Calendar!Hours], last : Int]
CalLane == [at : CalSteps, check : Nat, now : Nat, day : Nat]

CalTyped ==
    /\ s1 \in Nat /\ s6 \in Nat /\ s3 \in [Calendar!Days -> Calendar!Hours]
    /\ s3 \in BrokerHours
    /\ \E n \in Nat : DOMAIN s7 = 1..n
    /\ s7 \in [Calendar!Started -> CalRow]
    /\ s8 \in [CalendarLanes -> CalLane]

\* The readings of the clock that checks and lanes stand on.
Moment(r) == <<r.now, r.day>>
Readings == {<<0, 0>>} \cup {Moment(s7[c]) : c \in Calendar!Started} \cup {Moment(s8[l]) : l \in CalendarLanes}

\* No reading is ahead of the clock, and a later one has no earlier day.
CalInTime ==
    /\ \A x \in Readings : x[1] <= s6 /\ x[2] <= s1
    /\ \A x, y \in Readings : x[1] <= y[1] => x[2] <= y[2]

\* What is completed was fetched and is not written off, and the lane that works
\* on a check has started it.
CalRows ==
    /\ \A c \in Calendar!Started : "completed" \in s7[c].events => Calendar!Whole(c)
    /\ \A c \in Calendar!Started : "started" \in s7[c].events
    /\ \A l \in CalendarLanes : s8[l].at \in {"fetching", "comparing"} => s8[l].check \in Calendar!Started
    /\ \A l \in CalendarLanes : s8[l].at = "comparing" => "fetched" \in s7[s8[l].check].events

CalInv == CalTyped /\ CalInTime /\ CalRows

-----------------------------------------------------------------------------
\* The sessions of the library after a day.
CalSince(d) == {e \in Calendar!Sessions(LibraryHours) : d < e /\ e <= s1}

\* The module's operators in those of the lemmas on finite sets.
LEMMA CalOperators ==
    /\ \A c : Calendar!Fresh(c) <=> s7[c].day <= s1 /\ Cardinality(CalSince(s7[c].day)) <= FreshFor
    /\ \A S, n : Calendar!Nth(S, n) = {d \in S : d > s1 /\ Cardinality({e \in S : s1 < e /\ e <= d}) = n}
    /\ Calendar!EntryIsBacked <=>
           (Calendar!MayEnter => \E c \in Calendar!Started :
                /\ Calendar!Whole(c) /\ s7[c].reported[s1] = LibraryHours[s1]
                /\ Cardinality(CalSince(s7[c].day)) <= FreshFor
                /\ \A e \in Calendar!Started :
                      Calendar!Whole(e) /\ s7[e].now > s7[c].now /\ s1 \in Calendar!Covered(e)
                      => s7[e].reported[s1] = LibraryHours[s1])
    /\ \A l : Calendar!Start(l) =>
           LET n == Cardinality(Calendar!Started) + 1 IN
           /\ UNCHANGED <<Calendar!world, s6, Calendar!monitor>>
           /\ \/ s8' = [s8 EXCEPT ![l] = Calendar!Nothing] /\ UNCHANGED s7
              \/ /\ s7' = [c \in 1..n |-> IF c < n THEN s7[c] ELSE
                        [now |-> s8[l].now, day |-> s8[l].day, events |-> {"started"},
                         reported |-> LibraryHours, last |-> 0]]
                 /\ s8' = [s8 EXCEPT ![l].at = "fetching", ![l].check = n]
    /\ \A l : Calendar!Fetch(l) => \E last \in {s8[l].day, Min({s8[l].day + CheckSpan, CalendarEnd})} :
           /\ s7' = [s7 EXCEPT ![s8[l].check].events = Calendar!Append1(@, "fetched"),
                  ![s8[l].check].reported = s3, ![s8[l].check].last = last]
           /\ s8[l].at = "fetching" /\ s8' = [s8 EXCEPT ![l].at = "comparing"]
           /\ UNCHANGED <<Calendar!world, s6, Calendar!monitor>>
  <1>1. \A c : Calendar!Fresh(c) <=> s7[c].day <= s1 /\ Cardinality(CalSince(s7[c].day)) <= FreshFor
    BY DEF Calendar!Fresh, CalSince, Cardinality, Calendar!Cardinality, IsFiniteSet, Calendar!IsFiniteSet
  <1>2. \A S, n : Calendar!Nth(S, n) = {d \in S : d > s1 /\ Cardinality({e \in S : s1 < e /\ e <= d}) = n}
    BY DEF Calendar!Nth, Cardinality, Calendar!Cardinality, IsFiniteSet, Calendar!IsFiniteSet
  <1>3. Calendar!EntryIsBacked <=>
           (Calendar!MayEnter => \E c \in Calendar!Started :
                /\ Calendar!Whole(c) /\ s7[c].reported[s1] = LibraryHours[s1]
                /\ Cardinality(CalSince(s7[c].day)) <= FreshFor
                /\ \A e \in Calendar!Started :
                      Calendar!Whole(e) /\ s7[e].now > s7[c].now /\ s1 \in Calendar!Covered(e)
                      => s7[e].reported[s1] = LibraryHours[s1])
    BY DEF Calendar!EntryIsBacked, CalSince, Cardinality, Calendar!Cardinality, IsFiniteSet,
          Calendar!IsFiniteSet
  <1>4. ASSUME NEW l, Calendar!Start(l)
        PROVE  LET n == Cardinality(Calendar!Started) + 1 IN
           /\ UNCHANGED <<Calendar!world, s6, Calendar!monitor>>
           /\ \/ s8' = [s8 EXCEPT ![l] = Calendar!Nothing] /\ UNCHANGED s7
              \/ /\ s7' = [c \in 1..n |-> IF c < n THEN s7[c] ELSE
                        [now |-> s8[l].now, day |-> s8[l].day, events |-> {"started"},
                         reported |-> LibraryHours, last |-> 0]]
                 /\ s8' = [s8 EXCEPT ![l].at = "fetching", ![l].check = n]
    BY Zenon, <1>4 DEF Calendar!Start, Cardinality, Calendar!Cardinality, IsFiniteSet, Calendar!IsFiniteSet
  <1>5. ASSUME NEW l, Calendar!Fetch(l)
        PROVE  \E last \in {s8[l].day, Min({s8[l].day + CheckSpan, CalendarEnd})} :
           /\ s7' = [s7 EXCEPT ![s8[l].check].events = Calendar!Append1(@, "fetched"),
                  ![s8[l].check].reported = s3, ![s8[l].check].last = last]
           /\ s8[l].at = "fetching" /\ s8' = [s8 EXCEPT ![l].at = "comparing"]
           /\ UNCHANGED <<Calendar!world, s6, Calendar!monitor>>
    BY <1>5 DEF Calendar!Fetch, Min, Calendar!Min
  <1> QED BY Zenon, <1>1, <1>2, <1>3, <1>4, <1>5

LEMMA CalFiniteDays == IsFiniteSet(Calendar!Days) /\ \A S \in SUBSET Calendar!Days : IsFiniteSet(S) /\ Cardinality(S) \in Nat
  <1>1. CalendarEnd \in Nat
    BY CalendarAssumed DEF Calendar!CalendarAssumption
  <1>2. IsFiniteSet(Calendar!Days)
    BY <1>1, FS_Interval DEF Calendar!Days
  <1>3. \A S \in SUBSET Calendar!Days : IsFiniteSet(S)
    BY <1>2, FS_Subset
  <1> QED BY <1>2, <1>3, FS_CardinalityType

LEMMA CalStarted ==
    ASSUME CalTyped
    PROVE  /\ Cardinality(Calendar!Started) \in Nat /\ Calendar!Started = 1..Cardinality(Calendar!Started)
           /\ IsFiniteSet(Calendar!Started)
  <1>1. PICK n \in Nat : Calendar!Started = 1..n
    BY DEF CalTyped, CalRow, CalLane, Calendar!Started
  <1>2. IsFiniteSet(1..n) /\ Cardinality(1..n) = n
    BY FS_Interval
  <1> QED BY <1>1, <1>2

\* A step that adds no reading, or only one of the clock as it is, stays in time.
LEMMA CalReadings ==
    ASSUME CalTyped, CalInTime, s6' \in Nat, s1' \in Nat, s6 <= s6', s1 <= s1',
           \/ Readings' \subseteq Readings
           \/ s6' = s6 + 1 /\ Readings' \subseteq Readings \cup {<<s6', s1'>>}
    PROVE  CalInTime'
  <1>1. \A x \in Readings : x[1] \in Nat /\ x[2] \in Nat
    BY DEF CalTyped, CalRow, CalLane, Readings, Moment
  <1>2. CASE Readings' \subseteq Readings
    BY <1>1, <1>2 DEF CalInTime, CalTyped, CalRow, CalLane
  <1>3. CASE s6' = s6 + 1 /\ Readings' \subseteq Readings \cup {<<s6', s1'>>}
    <2>1. \A x \in Readings : x[1] <= s6 /\ x[2] <= s1
      BY DEF CalInTime
    <2>2. \A x, y \in Readings : x[1] <= y[1] => x[2] <= y[2]
      BY DEF CalInTime
    <2>3. ASSUME NEW x \in Readings' PROVE x[1] <= s6' /\ x[2] <= s1'
      BY <1>1, <1>3, <2>1, <2>3 DEF CalTyped, CalRow, CalLane
    <2>4. ASSUME NEW x \in Readings', NEW y \in Readings', x[1] <= y[1] PROVE x[2] <= y[2]
      <3>1. CASE x \in Readings /\ y \in Readings
        BY <2>2, <2>4, <3>1
      <3>2. CASE x \in Readings /\ y = <<s6', s1'>>
        BY <1>1, <2>1, <3>2 DEF CalTyped, CalRow, CalLane
      <3>3. CASE x = <<s6', s1'>> /\ y \in Readings
        BY <1>1, <1>3, <2>1, <2>4, <3>3 DEF CalTyped, CalRow, CalLane
      <3>4. CASE x = <<s6', s1'>> /\ y = <<s6', s1'>>
        BY <3>4
      <3> QED BY <1>3, <2>4, <3>1, <3>2, <3>3, <3>4
    <2> QED BY <2>3, <2>4 DEF CalInTime
  <1> QED BY <1>2, <1>3

LEMMA CalStill ==
    ASSUME CalTyped, CalInTime, s1' = s1, s6' = s6, Readings' \subseteq Readings
    PROVE  CalInTime'
  <1>1. s1 \in Nat /\ s6 \in Nat
    BY DEF CalTyped, CalRow, CalLane
  <1> QED BY <1>1, CalReadings

LEMMA CalInit == Calendar!Init => CalInv
  <1> SUFFICES ASSUME Calendar!Init PROVE CalInv
    OBVIOUS
  <1>1. DOMAIN s7 = 1..0 /\ Calendar!Started = {}
    BY DEF Calendar!Init, Calendar!Started
  <1>2. CalTyped
    BY <1>1, CalendarAssumed DEF Calendar!Init, CalTyped, CalRow, CalLane, Calendar!CalendarAssumption,
          Calendar!Nothing, CalSteps, Calendar!Started
  <1>3. CalInTime
    BY <1>1 DEF Calendar!Init, CalInTime, Readings, Moment, Calendar!Nothing
  <1>4. CalRows
    BY <1>1 DEF Calendar!Init, CalRows, Calendar!Nothing
  <1> QED BY <1>2, <1>3, <1>4 DEF CalInv

LEMMA CalAsk ==
    ASSUME CalInv, NEW l \in CalendarLanes, Calendar!Ask(l)
    PROVE  CalInv'
  <1> USE DEF CalInv
  <1>1. CalTyped'
    BY DEF Calendar!Ask, CalTyped, CalRow, CalLane, CalSteps, Calendar!world, Calendar!Started
  <1>2. Readings' \subseteq Readings \cup {<<s6', s1'>>}
    <2>1. \A c \in Calendar!Started' : Moment(s7'[c]) \in Readings
      BY DEF Calendar!Ask, Calendar!Started, Readings
    <2>2. \A k \in CalendarLanes : Moment(s8'[k]) \in Readings \cup {<<s6', s1'>>}
      BY DEF Calendar!Ask, Readings, Moment, CalTyped, CalRow, CalLane, Calendar!world
    <2> QED BY <2>1, <2>2 DEF Readings
  <1>3. CalInTime'
    <2>1. s1 \in Nat /\ s6 \in Nat /\ s6' = s6 + 1 /\ s1' = s1
      BY DEF Calendar!Ask, CalTyped, CalRow, CalLane, Calendar!world
    <2> QED BY <1>2, <2>1, CalReadings
  <1>4. CalRows'
    BY DEF CalRows, Calendar!Ask, Calendar!Started, Calendar!Whole, CalTyped, CalRow, CalLane
  <1> QED BY <1>1, <1>3, <1>4

LEMMA CalInterrupt ==
    ASSUME CalInv, NEW l \in CalendarLanes, Calendar!Interrupt(l)
    PROVE  CalInv'
  <1> USE DEF CalInv
  <1>0. PICK late \in SUBSET {c \in Calendar!Started : ~Calendar!Ended(c) /\ s7[c].now < s8[l].now} :
          s7' = [c \in Calendar!Started |->
              IF c \in late THEN [s7[c] EXCEPT !.events = Calendar!Append1(@, "failed")] ELSE s7[c]]
    BY DEF Calendar!Interrupt
  <1>a. UNCHANGED <<s1, s2, s3, s6>> /\ s8' = [s8 EXCEPT ![l].at = "closed"] /\ Calendar!Started' = Calendar!Started
    BY <1>0 DEF Calendar!Interrupt, Calendar!world, Calendar!Started
  <1>b. DOMAIN s7' = DOMAIN s7
    BY <1>0 DEF Calendar!Started
  <1>1. CalTyped'
    <2>1. s7' \in [Calendar!Started -> CalRow]
      BY ZenonT(60), <1>0 DEF CalTyped, CalRow, CalLane, CalEvents, Calendar!Append1
    <2> QED BY <1>a, <1>b, <2>1 DEF CalTyped, CalRow, CalLane, CalSteps
  <1>2. Readings' \subseteq Readings
    <2>1. \A c \in Calendar!Started' : Moment(s7'[c]) = Moment(s7[c])
      BY <1>0, <1>a DEF Moment, CalTyped, CalRow, CalLane
    <2>2. \A k \in CalendarLanes : Moment(s8'[k]) = Moment(s8[k])
      BY <1>a DEF Moment, CalTyped, CalRow, CalLane
    <2> QED BY <1>a, <2>1, <2>2 DEF Readings
  <1>3. CalInTime'
    BY <1>a, <1>2, CalStill
  <1>4. CalRows'
    <2>1. \A c \in Calendar!Started : s7[c].events \subseteq s7'[c].events
      BY <1>0 DEF CalTyped, CalRow, CalLane, Calendar!Append1
    <2>2. \A c \in Calendar!Started : "completed" \in s7'[c].events => s7'[c] = s7[c]
      BY <1>0 DEF CalTyped, CalRow, CalLane, Calendar!Append1, Calendar!Ended
    <2>3. \A k \in CalendarLanes : s8'[k].check = s8[k].check /\ (s8'[k].at \in {"fetching", "comparing"} => s8'[k].at = s8[k].at)
      BY <1>a DEF CalTyped, CalRow, CalLane
    <2> QED BY <1>a, <2>1, <2>2, <2>3 DEF CalRows, Calendar!Whole
  <1> QED BY <1>1, <1>3, <1>4

LEMMA CalStart ==
    ASSUME CalInv, NEW l \in CalendarLanes, Calendar!Start(l)
    PROVE  CalInv'
  <1> USE DEF CalInv
  <1> DEFINE n == Cardinality(Calendar!Started) + 1
  <1>1. UNCHANGED <<s1, s2, s3, s6>>
    BY Zenon, CalOperators DEF Calendar!world
  <1>2. CASE s8' = [s8 EXCEPT ![l] = Calendar!Nothing] /\ UNCHANGED s7
    <2>1. CalTyped'
      BY <1>1, <1>2 DEF CalTyped, CalRow, CalLane, CalSteps, Calendar!Nothing, Calendar!Started
    <2>2. Readings' \subseteq Readings
      BY <1>1, <1>2 DEF Readings, Moment, CalTyped, CalRow, CalLane, Calendar!Nothing, Calendar!Started
    <2>3. CalRows'
      BY <1>2 DEF CalRows, Calendar!Started, Calendar!Whole, CalTyped, CalRow, CalLane, Calendar!Nothing
    <2> QED BY <1>1, <2>1, <2>2, <2>3, CalStill
  <1>3. ASSUME s7' = [c \in 1..n |-> IF c < n THEN s7[c] ELSE
                        [now |-> s8[l].now, day |-> s8[l].day, events |-> {"started"},
                         reported |-> LibraryHours, last |-> 0]],
               s8' = [s8 EXCEPT ![l].at = "fetching", ![l].check = n]
        PROVE  CalInv'
    <2>0. n \in Nat \ {0} /\ Calendar!Started' = 1..n /\ DOMAIN s7' = 1..n /\ Calendar!Started = 1..n - 1 /\ Calendar!Started \subseteq Calendar!Started'
      BY <1>3, CalStarted DEF Calendar!Started
    <2>1. /\ \A c \in Calendar!Started : s7'[c] = s7[c] /\ c \in Calendar!Started'
          /\ \A c \in Calendar!Started' : c \in Calendar!Started \/ c = n
          /\ s7'[n] = [now |-> s8[l].now, day |-> s8[l].day, events |-> {"started"}, reported |-> LibraryHours, last |-> 0]
          /\ n \in Calendar!Started'
      <3> HIDE DEF n
      <3> QED BY <1>3, <2>0
    <2>2. CalTyped'
      <3>1. \A c \in Calendar!Started' : s7'[c] \in CalRow
        <4>1. /\ s8[l].now \in Nat /\ s8[l].day \in Nat /\ LibraryHours \in [Calendar!Days -> Calendar!Hours]
              /\ {"started"} \in SUBSET CalEvents
          BY CalendarAssumed DEF CalTyped, CalRow, CalLane, Calendar!CalendarAssumption, CalEvents
        <4>2. \A c \in Calendar!Started :
                s7[c] \in CalRow
          BY DEF CalTyped, CalRow, CalLane
        <4>3. s7'[n] \in CalRow
          <5> HIDE DEF n
          <5> QED BY <2>1, <4>1 DEF CalRow
        <4> HIDE DEF n
        <4> QED BY <2>1, <4>2, <4>3
      <3>2. s7' \in [Calendar!Started' -> CalRow]
        <4> HIDE DEF n
        <4> QED BY <1>3, <2>0, <3>1
      <3>3. s8' \in [CalendarLanes -> CalLane]
        BY ZenonT(60), <1>3, <2>0 DEF CalTyped, CalRow, CalLane, CalSteps
      <3> QED BY <1>1, <2>0, <3>2, <3>3 DEF CalTyped, CalRow, CalLane
    <2>3. Readings' \subseteq Readings
      <3>1. \A c \in Calendar!Started' : Moment(s7'[c]) \in Readings
        <4> HIDE DEF n
        <4> QED BY <2>1 DEF Readings, Moment
      <3>2. \A k \in CalendarLanes : Moment(s8'[k]) = Moment(s8[k])
        BY <1>3 DEF Moment, CalTyped, CalRow, CalLane
      <3> QED BY <3>1, <3>2 DEF Readings
    <2>4. CalRows'
      <3>1. \A k \in CalendarLanes : k # l => s8'[k] = s8[k]
        BY <1>3 DEF CalTyped, CalRow, CalLane
      <3>2. s8'[l].at = "fetching" /\ s8'[l].check = n
        BY <1>3 DEF CalTyped, CalRow, CalLane
      <3> HIDE DEF n
      <3> QED BY <2>1, <3>1, <3>2 DEF CalRows, Calendar!Whole
    <2> QED BY <1>1, <2>2, <2>3, <2>4, CalStill
  <1> QED BY Zenon, <1>2, <1>3, CalOperators

\* A step that adds events to one check, beside what the end of it allows, and
\* takes the lane on or back.
LEMMA CalRowStep ==
    ASSUME CalInv, NEW l \in CalendarLanes, s8[l].at \in {"fetching", "comparing"},
           NEW r \in CalRow,
           s7' = [s7 EXCEPT ![s8[l].check] = r],
           Moment(r) = Moment(s7[s8[l].check]), s7[s8[l].check].events \subseteq r.events,
           "completed" \in r.events => r.events = {"started", "fetched", "completed"},
           \/ s8' = [s8 EXCEPT ![l] = Calendar!Nothing]
           \/ s8' = [s8 EXCEPT ![l].at = "comparing"] /\ "fetched" \in r.events,
           UNCHANGED <<Calendar!world, s6>>
    PROVE  CalInv'
  <1> USE DEF CalInv
  <1> DEFINE c == s8[l].check
  <1>0. c \in Calendar!Started /\ UNCHANGED <<s1, s2, s3, s6>>
    BY DEF CalRows, Calendar!world
  <1>1. Calendar!Started' = Calendar!Started /\ DOMAIN s7' = DOMAIN s7
    BY DEF Calendar!Started
  <1>2. /\ s7'[c] = r
        /\ \A d \in Calendar!Started : d # c => s7'[d] = s7[d]
    BY <1>0 DEF CalTyped, CalRow, CalLane
  <1>3. \A k \in CalendarLanes : k # l => s8'[k] = s8[k]
    BY DEF CalTyped, CalRow, CalLane
  <1>4. s8'[l] = Calendar!Nothing \/ (s8'[l].at = "comparing" /\ s8'[l].check = c /\ Moment(s8'[l]) = Moment(s8[l])
                                      /\ "fetched" \in r.events)
    BY DEF CalTyped, CalRow, CalLane, Moment
  <1>5. CalTyped'
    <2>1. s7' \in [Calendar!Started -> CalRow]
      BY DEF CalTyped, CalRow, CalLane
    <2>2. s8' \in [CalendarLanes -> CalLane]
      <3>1. Calendar!Nothing \in CalLane /\ "comparing" \in CalSteps
        BY DEF CalSteps, Calendar!Nothing, CalLane
      <3>2. s8 \in [CalendarLanes -> CalLane]
        BY DEF CalTyped, CalRow, CalLane
      <3> QED BY <3>1, <3>2 DEF CalLane
    <2> QED BY <1>0, <1>1, <2>1, <2>2 DEF CalTyped, CalRow, CalLane
  <1>6. Readings' \subseteq Readings
    <2>1. \A d \in Calendar!Started' : Moment(s7'[d]) = Moment(s7[d])
      BY <1>1, <1>2
    <2>2. \A k \in CalendarLanes : Moment(s8'[k]) \in Readings
      BY <1>3, <1>4 DEF Readings, Moment, Calendar!Nothing
    <2> QED BY <1>1, <2>1, <2>2 DEF Readings
  <1>7. CalInTime'
    BY <1>0, <1>6, CalStill
  <1>8. CalRows'
    <2>1. \A d \in Calendar!Started : s7[d].events \subseteq s7'[d].events
      BY <1>2
    <2>2. \A d \in Calendar!Started : "completed" \in s7'[d].events => Calendar!Whole(d)'
      BY <1>2 DEF CalRows, Calendar!Whole
    <2>3. s8'[l].at \in {"fetching", "comparing"} => s8'[l].check = c /\ "fetched" \in s7'[c].events
      BY <1>2, <1>4 DEF Calendar!Nothing
    <2> QED BY <1>0, <1>1, <1>3, <2>1, <2>2, <2>3 DEF CalRows
  <1> QED BY <1>5, <1>7, <1>8

LEMMA CalFetch ==
    ASSUME CalInv, NEW l \in CalendarLanes, Calendar!Fetch(l)
    PROVE  CalInv'
  <1> DEFINE c == s8[l].check
  <1>0. PICK last \in {s8[l].day, Min({s8[l].day + CheckSpan, CalendarEnd})} :
           /\ s7' = [s7 EXCEPT ![c].events = Calendar!Append1(@, "fetched"), ![c].reported = s3, ![c].last = last]
           /\ s8[l].at = "fetching" /\ s8' = [s8 EXCEPT ![l].at = "comparing"]
           /\ UNCHANGED <<Calendar!world, s6, Calendar!monitor>>
    BY Zenon, CalOperators
  <1>1. last \in Int
    <2>1. s8[l].day \in Int /\ s8[l].day + CheckSpan \in Int /\ CalendarEnd \in Int
      BY CalendarAssumed DEF CalInv, CalTyped, CalRow, CalLane, Calendar!CalendarAssumption
    <2> QED BY <2>1, TwoNumbers
  <1>2. c \in Calendar!Started
    BY <1>0 DEF CalInv, CalRows
  <1>3. s7[c] \in CalRow
    BY <1>2 DEF CalInv, CalTyped, CalRow, CalLane
  <1> DEFINE r == [s7[c] EXCEPT !.events = Calendar!Append1(@, "fetched"), !.reported = s3, !.last = last]
  <1>4. r \in CalRow
    BY <1>1, <1>3 DEF CalInv, CalTyped, CalRow, CalLane, CalEvents, Calendar!Append1
  <1>5. /\ Moment(r) = Moment(s7[c]) /\ s7[c].events \subseteq r.events /\ "fetched" \in r.events
        /\ "completed" \in r.events => r.events = {"started", "fetched", "completed"}
    BY <1>2, <1>3 DEF Moment, Calendar!Append1, CalInv, CalRows, Calendar!Whole
  <1>6. s7' = [s7 EXCEPT ![s8[l].check] = r]
    BY <1>0
  <1> HIDE DEF r
  <1> QED BY <1>0, <1>4, <1>5, <1>6, CalRowStep

\* FetchFails and Complete.
LEMMA CalEnd ==
    ASSUME CalInv, NEW l \in CalendarLanes, Calendar!FetchFails(l) \/ Calendar!Complete(l)
    PROVE  CalInv'
  <1> DEFINE c == s8[l].check
  <1>1. /\ s8[l].at \in {"fetching", "comparing"} /\ s8' = [s8 EXCEPT ![l] = Calendar!Nothing]
        /\ UNCHANGED <<Calendar!world, s6>>
        /\ Calendar!EndWith(c, "failed") \/ (s8[l].at = "comparing" /\ Calendar!EndWith(c, "completed"))
    BY DEF Calendar!FetchFails, Calendar!Complete, Calendar!End
  <1>2. c \in Calendar!Started
    BY <1>1 DEF CalInv, CalRows
  <1>3. s7[c] \in CalRow
    BY <1>2 DEF CalInv, CalTyped, CalRow, CalLane
  <1>4. CASE s7' = s7
    <2>1. s7' = [s7 EXCEPT ![s8[l].check] = s7[c]]
      BY <1>2, <1>4 DEF CalInv, CalTyped, CalRow, CalLane
    <2>2. "completed" \in s7[c].events => s7[c].events = {"started", "fetched", "completed"}
      BY <1>2 DEF CalInv, CalRows, Calendar!Whole
    <2> QED BY <1>1, <1>3, <2>1, <2>2, CalRowStep
  <1>5. ASSUME NEW e \in {"failed", "completed"}, ~Calendar!Ended(c), e = "completed" => s8[l].at = "comparing",
               s7' = [s7 EXCEPT ![c].events = Calendar!Append1(@, e)]
        PROVE  CalInv'
    <2> DEFINE r == [s7[c] EXCEPT !.events = Calendar!Append1(@, e)]
    <2>1. s7' = [s7 EXCEPT ![s8[l].check] = r]
      BY <1>5
    <2>2. r \in CalRow
      BY <1>3 DEF CalEvents, Calendar!Append1, CalRow
    <2>3. Moment(r) = Moment(s7[c]) /\ s7[c].events \subseteq r.events
      BY <1>3 DEF Moment, Calendar!Append1
    <2>4. "completed" \in r.events => r.events = {"started", "fetched", "completed"}
      <3>1. "started" \in s7[c].events /\ (s8[l].at = "comparing" => "fetched" \in s7[c].events)
        BY <1>2 DEF CalInv, CalRows
      <3>2. s7[c].events \subseteq {"started", "fetched"}
        BY <1>3, <1>5 DEF Calendar!Ended, CalEvents, CalRow
      <3>3. r.events = s7[c].events \cup {e}
        BY <1>3 DEF Calendar!Append1
      <3> HIDE DEF r
      <3> QED BY <1>5, <3>1, <3>2, <3>3
    <2> HIDE DEF r
    <2> QED BY <1>1, <2>1, <2>2, <2>3, <2>4, CalRowStep
  <1> QED BY <1>1, <1>4, <1>5 DEF Calendar!EndWith

\* The clock, the broker, the monitor and a crash leave the rows alone.
LEMMA CalWorld ==
    ASSUME CalInv, Calendar!TimePasses \/ Calendar!BrokerChanges \/ Calendar!Observe \/ Calendar!Crash
    PROVE  CalInv'
  <1> USE DEF CalInv
  <1>1. /\ UNCHANGED <<s6, s7>> /\ Calendar!Started' = Calendar!Started
        /\ s3' \in BrokerHours
        /\ s1' = s1 \/ s1' = s1 + 1
        /\ s8' = s8 \/ s8' = [l \in CalendarLanes |-> Calendar!Nothing]
    BY DEF Calendar!TimePasses, Calendar!BrokerChanges, Calendar!Observe, Calendar!Crash, Calendar!world,
          CalTyped, CalRow, CalLane, Calendar!Started
  <1>2. CalTyped'
    <2>1. Calendar!Nothing \in CalLane
      BY DEF CalSteps, Calendar!Nothing, CalLane
    <2>2. s1' \in Nat /\ s3' \in [Calendar!Days -> Calendar!Hours]
      BY <1>1, CalendarAssumed DEF CalTyped, CalRow, CalLane, Calendar!CalendarAssumption
    <2> QED BY <1>1, <2>1, <2>2 DEF CalTyped, CalRow, CalLane
  <1>3. Readings' \subseteq Readings
    BY <1>1 DEF Readings, Moment, Calendar!Nothing
  <1>4. CalInTime'
    <2>1. s1 \in Nat /\ s6 \in Nat
      BY DEF CalTyped, CalRow, CalLane
    <2>2. s6' \in Nat /\ s1' \in Nat /\ s6 <= s6' /\ s1 <= s1'
      BY <1>1, <2>1
    <2> QED BY <1>3, <2>2, CalReadings
  <1>5. CalRows'
    BY <1>1 DEF CalRows, Calendar!Whole, Calendar!Nothing
  <1> QED BY <1>2, <1>4, <1>5

LEMMA CalStep == CalInv /\ [Calendar!Next]_Calendar!vars => CalInv'
  <1>1. ASSUME CalInv, UNCHANGED Calendar!vars
        PROVE  CalInv'
    BY ZenonT(60), <1>1 DEF CalInv, CalTyped, CalRow, CalLane, CalInTime, CalRows, Readings, Moment, Calendar!Whole,
          Calendar!Started, Calendar!vars
  <1> QED BY <1>1, CalAsk, CalInterrupt, CalStart, CalFetch, CalEnd, CalWorld DEF Calendar!Next

\* A date with rows has a latest one.
LEMMA CalLatest ==
    ASSUME CalInv, NEW d, Calendar!Rows(d) # {}
    PROVE  Calendar!Latest(d) \in Calendar!Rows(d) /\ \A e \in Calendar!Rows(d) : s7[e].now <= s7[Calendar!Latest(d)].now
  <1> DEFINE Nows == {s7[c].now : c \in Calendar!Rows(d)}
  <1>1. Calendar!Rows(d) \subseteq Calendar!Started
    BY DEF Calendar!Rows
  <1>2. \A c \in Calendar!Started : s7[c].now \in Nat
    BY DEF CalInv, CalTyped, CalRow, CalLane
  <1>3. \A c \in Calendar!Started : s7[c].now <= s6
    <2>1. \A c \in Calendar!Started : Moment(s7[c]) \in Readings /\ Moment(s7[c])[1] = s7[c].now
      BY DEF Readings, Moment
    <2> QED BY <2>1 DEF CalInv, CalInTime
  <1>4. s6 \in Nat
    BY DEF CalInv, CalTyped, CalRow, CalLane
  <1>5. Nows \subseteq 0..s6
    BY <1>1, <1>2, <1>3, <1>4
  <1>6. IsFiniteSet(Nows) /\ Nows \in SUBSET Int
    <2>1. IsFiniteSet(0..s6)
      BY <1>4, FS_Interval
    <2>2. 0..s6 \subseteq Int
      BY <1>4
    <2> HIDE DEF Nows
    <2>3. IsFiniteSet(Nows)
      BY <1>5, <2>1, FS_Subset
    <2> QED BY <1>5, <2>2, <2>3
  <1>7. Max(Nows) \in Nows /\ \A y \in Nows : Max(Nows) >= y
    <2>1. Nows # {}
      OBVIOUS
    <2> HIDE DEF Nows
    <2> QED BY <1>6, <2>1, MaxOfFinite
  <1>8. PICK c \in Calendar!Rows(d) : s7[c].now = Max(Nows)
    BY <1>7
  <1>9. \A e \in Calendar!Rows(d) : s7[e].now <= s7[c].now
    <2>1. ASSUME NEW e \in Calendar!Rows(d) PROVE s7[e].now <= s7[c].now
      <3>1. s7[e].now \in Nows
        OBVIOUS
      <3> HIDE DEF Nows
      <3> QED BY <1>1, <1>2, <1>7, <1>8, <3>1
    <2> QED BY <2>1
  <1> QED BY <1>9 DEF Calendar!Latest

LEMMA CalEntryBacked ==
    ASSUME CalInv PROVE Calendar!EntryIsBacked
  <1> SUFFICES ASSUME Calendar!MayEnter
               PROVE  \E c \in Calendar!Started :
                /\ Calendar!Whole(c) /\ s7[c].reported[s1] = LibraryHours[s1]
                /\ Cardinality(CalSince(s7[c].day)) <= FreshFor
                /\ \A e \in Calendar!Started :
                      Calendar!Whole(e) /\ s7[e].now > s7[c].now /\ s1 \in Calendar!Covered(e)
                      => s7[e].reported[s1] = LibraryHours[s1]
    BY Zenon, CalOperators
  <1> DEFINE last == Calendar!Latest(s1)
  <1>1. Calendar!Rows(s1) # {} /\ Calendar!Agrees(last, s1) /\ \E c \in Calendar!Rows(s1) : Calendar!Agrees(c, s1) /\ Calendar!Fresh(c)
    BY DEF Calendar!MayEnter, Calendar!Status
  <1>2. last \in Calendar!Rows(s1) /\ \A e \in Calendar!Rows(s1) : s7[e].now <= s7[last].now
    BY <1>1, CalLatest
  <1>3. last \in Calendar!Started /\ Calendar!Whole(last) /\ s7[last].reported[s1] = LibraryHours[s1]
    BY <1>1, <1>2 DEF Calendar!Rows, CalInv, CalRows, Calendar!Agrees
  <1>4. PICK c \in Calendar!Rows(s1) : Calendar!Fresh(c)
    BY <1>1
  <1>5. s7[c].day <= s7[last].day /\ s7[c].day \in Nat /\ s7[last].day \in Nat /\ s1 \in Nat
    <2>1. c \in Calendar!Started /\ s7[c].now <= s7[last].now
      BY <1>2 DEF Calendar!Rows
    <2>2. Moment(s7[c]) \in Readings /\ Moment(s7[last]) \in Readings
      BY <1>3, <2>1 DEF Readings
    <2>3. s7[c].day <= s7[last].day
      BY <2>1, <2>2 DEF CalInv, CalInTime, Moment
    <2> QED BY <1>3, <2>1, <2>3 DEF CalInv, CalTyped, CalRow, CalLane
  <1>6. Cardinality(CalSince(s7[last].day)) <= FreshFor
    <2>1. CalSince(s7[last].day) \subseteq CalSince(s7[c].day) /\ CalSince(s7[c].day) \subseteq Calendar!Days
      <3>1. \A e \in Calendar!Days : e \in Int
        BY CalendarAssumed DEF Calendar!CalendarAssumption, Calendar!Days
      <3> QED BY <1>5, <3>1 DEF CalSince, Calendar!Sessions
    <2>2. Cardinality(CalSince(s7[c].day)) <= FreshFor
      BY Zenon, <1>4, CalOperators
    <2>3. /\ Cardinality(CalSince(s7[last].day)) \in Nat /\ Cardinality(CalSince(s7[c].day)) \in Nat
          /\ Cardinality(CalSince(s7[last].day)) <= Cardinality(CalSince(s7[c].day))
      BY <2>1, CalFiniteDays, FS_Subset
    <2>4. FreshFor \in Nat
      BY CalendarAssumed DEF Calendar!CalendarAssumption
    <2> QED BY <2>2, <2>3, <2>4
  <1>7. \A e \in Calendar!Started : Calendar!Whole(e) /\ s1 \in Calendar!Covered(e) => ~(s7[e].now > s7[last].now)
    <2>1. ASSUME NEW e \in Calendar!Started, Calendar!Whole(e), s1 \in Calendar!Covered(e) PROVE ~(s7[e].now > s7[last].now)
      <3>1. e \in Calendar!Rows(s1)
        BY <2>1 DEF Calendar!Rows, Calendar!Whole
      <3>2. s7[e].now \in Nat /\ s7[last].now \in Nat
        BY <1>3 DEF CalInv, CalTyped, CalRow, CalLane
      <3> QED BY <1>2, <3>1, <3>2
    <2> QED BY <2>1
  <1> QED BY <1>3, <1>6, <1>7

\* The n-th of more days comes no later than the n-th of fewer.
LEMMA CalNthOfMore ==
    ASSUME NEW S \in SUBSET Calendar!Days, NEW T \in SUBSET Calendar!Days, S \subseteq T, NEW n \in Nat \ {0}, s1 \in Nat,
           NEW d \in Calendar!Nth(S, n), NEW w \in Calendar!Nth(T, n)
    PROVE  w <= d
  <1> DEFINE A == {e \in S : s1 < e /\ e <= d}
             B == {e \in T : s1 < e /\ e <= w}
  <1>0. \A e \in Calendar!Days : e \in Int
    BY CalendarAssumed DEF Calendar!CalendarAssumption, Calendar!Days
  <1>1. d \in S /\ Cardinality(A) = n /\ w \in T /\ w > s1 /\ Cardinality(B) = n
    BY Zenon, CalOperators
  <1>2. SUFFICES ASSUME w > d PROVE FALSE
    BY <1>0, <1>1
  <1>3. A \subseteq B \ {w}
    BY <1>0, <1>1, <1>2
  <1>4. w \in B
    BY <1>0, <1>1
  <1>5. IsFiniteSet(B)
    BY CalFiniteDays
  <1>6. IsFiniteSet(B \ {w}) /\ Cardinality(B \ {w}) = n - 1
    <2> HIDE DEF A, B
    <2> QED BY <1>1, <1>4, <1>5, FS_RemoveElement
  <1>7. Cardinality(A) <= n - 1
    <2> HIDE DEF A, B
    <2> QED BY <1>3, <1>6, FS_Subset
  <1> QED BY <1>1, <1>7

LEMMA CalDeadline ==
    ASSUME CalInv PROVE Calendar!DeadlineNeverLate
  <1> SUFFICES ASSUME Calendar!WeekdayBound # {}, NEW d \in Calendar!Nth(Calendar!Sessions(s3), DeadlineAfter),
                      ~(\A e \in s1 + 1..d : Calendar!Status(e) = "verified")
               PROVE  Calendar!Deadline <= 2 * d + 2
    BY DEF Calendar!DeadlineNeverLate
  <1> DEFINE bound == CHOOSE b \in Calendar!WeekdayBound : TRUE
             target == CHOOSE t \in Calendar!Nth(Calendar!Sessions(LibraryHours), DeadlineAfter) : TRUE
  <1>0. /\ s1 \in Nat /\ DeadlineAfter \in Nat \ {0} /\ \A e \in Calendar!Days : e \in Int
        /\ Calendar!Sessions(s3) \subseteq Calendar!Weekdays /\ Calendar!Weekdays \subseteq Calendar!Days
    BY CalendarAssumed DEF CalInv, CalTyped, CalRow, CalLane, Calendar!CalendarAssumption, Calendar!Days,
          Calendar!Sessions, Calendar!Weekdays
  <1>1. PICK w \in Calendar!Nth(Calendar!Weekdays, DeadlineAfter) : bound = 2 * w + 2
    BY DEF Calendar!WeekdayBound
  <1>2. w <= d
    BY <1>0, CalNthOfMore
  <1>3. w \in Int /\ d \in Int
    BY Zenon, <1>0, CalOperators
  <1>4. bound <= 2 * d + 2 /\ bound \in Int
    <2> HIDE DEF bound
    <2> QED BY <1>1, <1>2, <1>3
  <1>5. CASE Calendar!Nth(Calendar!Sessions(LibraryHours), DeadlineAfter) = {}
    <2>1. Calendar!Deadline = bound
      BY <1>5 DEF Calendar!Deadline
    <2> QED BY <1>4, <2>1
  <1>6. CASE Calendar!Nth(Calendar!Sessions(LibraryHours), DeadlineAfter) # {}
    <2>1. target \in Int
      BY Zenon, <1>0, <1>6, CalOperators DEF Calendar!Sessions
    <2>2. Calendar!Close(LibraryHours, target) \in Int /\ Calendar!Close(LibraryHours, target) <= 2 * target + 2
      <3> HIDE DEF target
      <3> QED BY <2>1 DEF Calendar!Close
    <2>3. CASE Calendar!Close(LibraryHours, target) <= bound
      <3>1. Calendar!Deadline = Calendar!Close(LibraryHours, target)
        BY <1>6, <2>3 DEF Calendar!Deadline
      <3> HIDE DEF bound, target
      <3> QED BY <1>3, <1>4, <2>2, <2>3, <3>1
    <2>4. CASE ~(Calendar!Close(LibraryHours, target) <= bound) /\ \A e \in s1 + 1..target : Calendar!Status(e) = "verified"
      <3>1. Calendar!Deadline = Calendar!Close(LibraryHours, target)
        BY <1>6, <2>4 DEF Calendar!Deadline
      <3>2. target <= d
        <4> HIDE DEF bound, target
        <4> QED BY <1>0, <1>3, <2>1, <2>4
      <3> HIDE DEF bound, target
      <3> QED BY <1>3, <2>1, <2>2, <3>1, <3>2
    <2>5. CASE ~(Calendar!Close(LibraryHours, target) <= bound) /\ ~(\A e \in s1 + 1..target : Calendar!Status(e) = "verified")
      <3>1. Calendar!Deadline = bound
        BY <1>6, <2>5 DEF Calendar!Deadline
      <3> QED BY <1>4, <3>1
    <2> QED BY <2>3, <2>4, <2>5
  <1> QED BY <1>5, <1>6

LEMMA CalSafe == CalInv => Calendar!CalendarSound
  BY CalEntryBacked, CalDeadline DEF Calendar!CalendarSound

-----------------------------------------------------------------------------
(***************************************************************************)
(* Verification.  A process adds artifacts and takes none away, and only   *)
(* the holder of the lease writes evidence once nobody is without a        *)
(* generation (GenFrame, GenLease): so what it has counted before it seals *)
(* is still all there is, whatever the others do and wherever they die.    *)
(* While the account reports at once, equal activities before and after    *)
(* leave the positions between them no room (GenOpening).                  *)
(*                                                                         *)
(* In Components s1 is disk, s2 is bound, s3 is checkpoint, s4 is          *)
(* evidence, s5 is rows, s6 is lock, s7 is writer, s8 is source, s9 is     *)
(* broker, s10 is proc, s11 is edits, s12 is crashes.                      *)
(***************************************************************************)

GenSteps == {"idle", "before", "positions", "after", "publish", "manifest", "manifest-sha", "binding", "bind",
             "check", "invalidate", "acquire", "reconcile", "begin", "started", "lanes", "report", "assess",
             "seal", "sealing", "sealed", "done", "checked", "permitted"}

GenProcess == [pc : GenSteps, command : {Empty, "freeze", "run", "reconcile", "status", "verify"}, source : 0..1,
               before : Nat, positions : Nat, next : {Empty, "checked", "acquire", "report", "begin", "seal"},
               valid : BOOLEAN, snapshot : Nat, condemned : BOOLEAN, answer : Generation!Answers]

GenTyped ==
    /\ s5 \in Nat /\ s4 \in Nat /\ s8 \in 0..1
    /\ s9 \in [positions : Nat, activities : Nat]
    /\ s3 \in [population : Nat, positions : Nat, source : 0..1]
    /\ s10 \in [Verifiers -> GenProcess]

\* A freeze publishes its artifacts in their order and binds them all.
GenArtifacts(p) ==
    /\ Generation!At(p, "manifest") => "checkpoint" \in s1
    /\ Generation!At(p, "manifest-sha") => {"checkpoint", "manifest"} \subseteq s1
    /\ Generation!At(p, "binding") => {"checkpoint", "manifest", "manifest-sha"} \subseteq s1
    /\ Generation!At(p, "bind") => Generation!Frozen \subseteq s1

\* It reads the positions between two reads of the activities.
GenOpening(p) ==
    /\ Generation!At(p, "positions") => s10[p].before <= s9.activities
    /\ Generation!At(p, "after") => s10[p].before <= s10[p].positions /\ s10[p].positions <= s9.activities
    /\ Generation!At(p, "publish") => s10[p].positions = s10[p].before

\* A command that began after the verdict is never valid.
GenCondemned(p) ==
    s10[p].condemned =>
        /\ "invalid" \in s1 /\ ~s10[p].valid
        /\ s10[p].pc \notin {"sealing", "sealed"} /\ s10[p].answer # "passed"

\* What only the holder of the lease does, and what it then knows of the rows.
Heading(p, next) == s10[p].pc \in {"check", "invalidate"} /\ s10[p].next = next
Working(p) == s10[p].pc \in {"reconcile", "begin", "started", "lanes"} \/ Heading(p, "begin")
Sealing(p) == s10[p].pc = "seal" \/ Heading(p, "seal")

GenLease(p) ==
    /\ Working(p) \/ Sealing(p) \/ Generation!At(p, "sealing") => s6 = p
    /\ Generation!At(p, "assess") /\ s6 = p => s10[p].snapshot = s5
    /\ Sealing(p) => s10[p].snapshot = s5
    /\ Generation!At(p, "sealing") => s4 = s5
    /\ ~Generation!At(p, "permitted")
    /\ s10[p].pc \in {"check", "invalidate"} => s10[p].next \in {"checked", "acquire", "report", "begin", "seal"}

GenLocal(p) == GenArtifacts(p) /\ GenOpening(p) /\ GenCondemned(p) /\ GenLease(p)

\* While the account reports at once, its two lists move together.
GenGlobal ==
    /\ s2 => Generation!Frozen \subseteq s1
    /\ s9.activities = s9.positions
    /\ s3.positions = s3.population

GenInv == GenTyped /\ GenGlobal /\ \A p \in Verifiers : GenLocal(p)

-----------------------------------------------------------------------------
LEMMA GenInitHolds == Generation!Init => GenInv
  <1> SUFFICES ASSUME Generation!Init PROVE GenInv
    OBVIOUS
  <1>1. Generation!Idle \in GenProcess
    BY DEF Generation!Idle, GenProcess, GenSteps, Generation!Answers
  <1>2. GenTyped
    BY <1>1 DEF Generation!Init, GenTyped
  <1>3. \A p \in Verifiers : s10[p].pc = "idle" /\ ~s10[p].condemned
    BY DEF Generation!Init, Generation!Idle
  <1>4. GenGlobal /\ \A p \in Verifiers : GenLocal(p)
    BY <1>3 DEF Generation!Init, GenGlobal, GenLocal, GenArtifacts, GenOpening, GenCondemned, GenLease,
          Generation!At, Working, Sealing, Heading
  <1> QED BY <1>2, <1>4 DEF GenInv

\* One process moves; what it knows of the generation stays.
Alone(p) == s10' \in [Verifiers -> GenProcess] /\ \A q \in Verifiers : q # p => s10'[q] = s10[q]
Knows(p) == <<s10[p].before, s10[p].positions, s10[p].valid, s10[p].snapshot, s10[p].condemned>>

LEMMA GenUpdate ==
    ASSUME GenTyped, NEW p \in Verifiers, NEW r \in GenProcess, s10' = [s10 EXCEPT ![p] = r]
    PROVE  Alone(p) /\ s10'[p] = r
  BY DEF GenTyped, Alone

LEMMA GenMoves ==
    ASSUME GenTyped, NEW p \in Verifiers
    PROVE  /\ Generation!Idle \in GenProcess
           /\ s10' = s10 => Alone(p) /\ s10'[p] = s10[p]
           /\ \A q \in GenSteps : Generation!Move(p, q) =>
                  Alone(p) /\ s10'[p].pc = q /\ Knows(p)' = Knows(p)
                  /\ s10'[p].next = s10[p].next /\ s10'[p].answer = s10[p].answer
           /\ \A a \in Generation!Answers : Generation!Answer(p, a) =>
                  Alone(p) /\ s10'[p].pc = "done" /\ Knows(p)' = Knows(p) /\ s10'[p].answer = a
           /\ \A n \in {"report", "begin", "seal"} : Generation!Check(p, n) =>
                  Alone(p) /\ s10'[p].pc = "check" /\ Knows(p)' = Knows(p)
                  /\ s10'[p].next = n /\ s10'[p].answer = s10[p].answer
  <1>1. Generation!Idle \in GenProcess
    BY DEF Generation!Idle, GenProcess, GenSteps, Generation!Answers
  <1>2. s10[p] \in GenProcess
    BY DEF GenTyped
  <1>3. ASSUME NEW q \in GenSteps, Generation!Move(p, q)
        PROVE  Alone(p) /\ s10'[p].pc = q /\ Knows(p)' = Knows(p)
               /\ s10'[p].next = s10[p].next /\ s10'[p].answer = s10[p].answer
    <2>1. [s10[p] EXCEPT !.pc = q] \in GenProcess
      BY <1>2 DEF GenProcess
    <2>2. Alone(p) /\ s10'[p] = [s10[p] EXCEPT !.pc = q]
      BY <1>3, <2>1, GenUpdate DEF Generation!Move
    <2> QED BY <1>2, <2>2 DEF GenProcess, Knows
  <1>4. ASSUME NEW a \in Generation!Answers, Generation!Answer(p, a)
        PROVE  Alone(p) /\ s10'[p].pc = "done" /\ Knows(p)' = Knows(p) /\ s10'[p].answer = a
    <2>1. [s10[p] EXCEPT !.pc = "done", !.answer = a] \in GenProcess
      BY <1>2 DEF GenProcess, GenSteps
    <2>2. Alone(p) /\ s10'[p] = [s10[p] EXCEPT !.pc = "done", !.answer = a]
      <3>1. s10 \in [Verifiers -> GenProcess]
        BY DEF GenTyped
      <3>2. s10'[p] = [s10[p] EXCEPT !.pc = "done", !.answer = a]
        BY <1>4, <3>1 DEF Generation!Answer
      <3>3. DOMAIN s10' = Verifiers /\ \A q \in Verifiers : q # p => s10'[q] = s10[q]
        BY <1>4, <3>1 DEF Generation!Answer
      <3>4. s10' = [q \in Verifiers |-> s10'[q]]
        BY <1>4, <3>1 DEF Generation!Answer
      <3> QED BY <2>1, <3>2, <3>3, <3>4 DEF Alone, GenTyped
    <2> QED BY <1>2, <2>2 DEF GenProcess, Knows
  <1>5. ASSUME NEW n \in {"report", "begin", "seal"}, Generation!Check(p, n)
        PROVE  Alone(p) /\ s10'[p].pc = "check" /\ Knows(p)' = Knows(p)
               /\ s10'[p].next = n /\ s10'[p].answer = s10[p].answer
    <2>1. [s10[p] EXCEPT !.pc = "check", !.next = n] \in GenProcess
      BY <1>2 DEF GenProcess, GenSteps
    <2>2. Alone(p) /\ s10'[p] = [s10[p] EXCEPT !.pc = "check", !.next = n]
      <3>1. s10 \in [Verifiers -> GenProcess]
        BY DEF GenTyped
      <3>2. s10'[p] = [s10[p] EXCEPT !.pc = "check", !.next = n]
        BY <1>5, <3>1 DEF Generation!Check
      <3>3. DOMAIN s10' = Verifiers /\ \A q \in Verifiers : q # p => s10'[q] = s10[q]
        BY <1>5, <3>1 DEF Generation!Check
      <3>4. s10' = [q \in Verifiers |-> s10'[q]]
        BY <1>5, <3>1 DEF Generation!Check
      <3> QED BY <2>1, <3>2, <3>3, <3>4 DEF Alone, GenTyped
    <2> QED BY <1>2, <2>2 DEF GenProcess, Knows
  <1> QED BY <1>1, <1>2, <1>3, <1>4, <1>5 DEF Alone, GenTyped

\* What a step adds to what is there.
GenFrame(p) ==
    /\ s1 \subseteq s1' /\ s8' = s8 /\ s9' = s9
    /\ s6' = s6 \/ (s6 = Empty /\ s6' = p) \/ (s6 = p /\ s6' = Empty)
    /\ s5' # s5 => Working(p) /\ s5' = s5 + 1
    /\ s4' # s4 => Sealing(p) /\ s4' = s10[p].snapshot
    /\ "seal" \in s1' \ s1 => Generation!At(p, "sealing")
    /\ s2' # s2 => Generation!At(p, "bind")
    /\ s3' # s3 =>
           Generation!At(p, "publish") /\ s3' = [population |-> s10[p].before, positions |-> s10[p].positions, source |-> s8]

LEMMA GenStepFrame ==
    ASSUME Unlocked = {}, NEW p \in Verifiers, GenLease(p), Generation!Step(p)
    PROVE  GenFrame(p)
  <1> USE DEF Generation!World, Generation!Database, Generation!NoWrite, GenFrame, Generation!Publish, Generation!Write, Working, Sealing, Generation!At
  <1>1. CASE Generation!BeginFreeze(p) \/ Generation!CaptureBefore(p) \/ Generation!CapturePositions(p) \/ Generation!CaptureAfter(p)
             \/ Generation!Begin(p) \/ Generation!Judge(p) \/ Generation!Drain(p) \/ Generation!ReportSealed(p) \/ Generation!ReportOpen(p) \/ Generation!Assess(p)
    BY <1>1 DEF Generation!BeginFreeze, Generation!CaptureBefore, Generation!CapturePositions,
          Generation!CaptureAfter, Generation!Begin, Generation!Judge, Generation!Drain,
          Generation!ReportSealed, Generation!ReportOpen, Generation!Assess
  <1>2. CASE Generation!BeginPublish(p) \/ Generation!PublishFreeze(p) \/ Generation!Bind(p)
    BY <1>2 DEF Generation!BeginPublish, Generation!PublishFreeze, Generation!Published, Generation!Bind
  <1>3. CASE Generation!Acquire(p) \/ Generation!StartDigest(p)
    BY <1>3 DEF Generation!Acquire, Generation!StartDigest
  <1>8. CASE Generation!Invalidate(p)
    BY <1>8 DEF Generation!Invalidate
  <1>9. CASE Generation!Start(p)
    <2>1. s1' = s1 \/ s1' = s1 \cup {"started"}
      BY <1>9 DEF Generation!Start
    <2> QED BY <1>9, <2>1 DEF Generation!Start
  <1>4. CASE Generation!Reconcile(p) \/ Generation!Trade(p)
    BY <1>4 DEF Generation!Reconcile, Generation!Trade
  <1>5. CASE Generation!SealEvidence(p) \/ Generation!Seal(p) \/ Generation!SealDigest(p)
    BY <1>5 DEF Generation!SealEvidence, Generation!Seal, Generation!SealDigest
  <1>6. CASE Generation!End(p) \/ Generation!Crash(p)
    BY <1>6 DEF Generation!End, Generation!Crash
  <1>7. ~Generation!Permit(p) /\ ~Generation!OrdinaryWrite(p)
    BY DEF Generation!Permit, Generation!OrdinaryWrite, GenLease
  <1> QED BY <1>1, <1>2, <1>3, <1>4, <1>5, <1>6, <1>7, <1>8, <1>9 DEF Generation!Step

\* The others keep what they rely on.
LEMMA GenOthers ==
    ASSUME GenInv, NEW p \in Verifiers, GenFrame(p), NEW q \in Verifiers, q # p, s10'[q] = s10[q]
    PROVE  GenLocal(q)'
  <1>0. GenArtifacts(q) /\ GenOpening(q) /\ GenCondemned(q) /\ GenLease(q) /\ GenLease(p)
    BY DEF GenInv, GenLocal
  <1>1. GenArtifacts(q)' /\ GenOpening(q)' /\ GenCondemned(q)'
    BY <1>0 DEF GenArtifacts, GenOpening, GenCondemned, GenFrame, Generation!At
  <1>2. q # Empty /\ p # Empty
    BY GenerationAssumed DEF Generation!VerificationAssumption
  <1>3. s6 = q <=> s6' = q
    BY <1>2 DEF GenFrame
  <1>4. s6 = q => s5' = s5 /\ s4' = s4
    BY <1>0 DEF GenFrame, GenLease
  <1>5. GenLease(q)'
    BY <1>0, <1>3, <1>4 DEF GenLease, Generation!At, Working, Sealing, Heading
  <1> QED BY <1>1, <1>5 DEF GenLocal

\* A freeze.
LEMMA GenFreezes ==
    ASSUME GenInv, NEW p \in Verifiers,
           \/ Generation!BeginFreeze(p) \/ Generation!CaptureBefore(p) \/ Generation!CapturePositions(p) \/ Generation!CaptureAfter(p)
           \/ Generation!BeginPublish(p) \/ Generation!PublishFreeze(p) \/ Generation!Bind(p)
    PROVE  Alone(p) /\ GenLocal(p)'
  <1>0. /\ s10[p] \in GenProcess /\ s9.activities \in Nat /\ s9.positions \in Nat /\ s8 \in 0..1
        /\ s9.activities = s9.positions
    BY DEF GenInv, GenTyped, GenGlobal
  <1>a. GenArtifacts(p) /\ GenOpening(p) /\ GenCondemned(p) /\ GenLease(p)
    BY DEF GenInv, GenLocal
  <1>b. s10[p] \in GenProcess
    BY <1>0
  <1> USE DEF Generation!World, Generation!Database, GenLocal, Generation!At
  <1>1. CASE Generation!BeginFreeze(p)
    <2>1. [s10[p] EXCEPT !.pc = "before", !.command = "freeze", !.source = s8] \in GenProcess
      BY <1>0 DEF GenProcess, GenSteps
    <2>2. Alone(p) /\ s10'[p] = [s10[p] EXCEPT !.pc = "before", !.command = "freeze", !.source = s8]
      <3>1. s10' = [s10 EXCEPT ![p] = [s10[p] EXCEPT !.pc = "before", !.command = "freeze", !.source = s8]]
        <4>1. s10 \in [Verifiers -> GenProcess]
          BY DEF GenInv, GenTyped
        <4> QED BY <1>1, <1>0, <4>1 DEF Generation!BeginFreeze
      <3> QED BY <2>1, <3>1, GenUpdate DEF GenInv
    <2>3. s10'[p].pc = "before" /\ Knows(p)' = Knows(p) /\ s10'[p].answer = s10[p].answer
      BY <1>b, <2>2 DEF GenProcess, Knows
    <2>c. s1' = s1 /\ s9' = s9
      BY <1>1 DEF Generation!BeginFreeze
    <2> QED BY <1>a, <2>2, <2>3, <2>c DEF GenArtifacts, GenOpening, GenCondemned, GenLease, Knows, Working,
          Sealing, Heading
  <1>2. CASE Generation!CaptureBefore(p)
    <2>1. [s10[p] EXCEPT !.pc = "positions", !.before = s9.activities] \in GenProcess
      BY <1>0 DEF GenProcess, GenSteps
    <2>2. Alone(p) /\ s10'[p] = [s10[p] EXCEPT !.pc = "positions", !.before = s9.activities]
      <3>1. s10' = [s10 EXCEPT ![p] = [s10[p] EXCEPT !.pc = "positions", !.before = s9.activities]]
        <4>1. s10 \in [Verifiers -> GenProcess]
          BY DEF GenInv, GenTyped
        <4> QED BY <1>2, <1>0, <4>1 DEF Generation!CaptureBefore
      <3> QED BY <2>1, <3>1, GenUpdate DEF GenInv
    <2>3. /\ s10'[p].pc = "positions" /\ s10'[p].before = s9.activities
          /\ s10'[p].condemned = s10[p].condemned /\ s10'[p].valid = s10[p].valid /\ s10'[p].answer = s10[p].answer
      BY <1>b, <2>2 DEF GenProcess, Knows
    <2>c. s1' = s1 /\ s9' = s9
      BY <1>2 DEF Generation!CaptureBefore
    <2> QED BY <1>0, <1>a, <2>2, <2>3, <2>c DEF GenArtifacts, GenOpening, GenCondemned, GenLease, Working,
          Sealing, Heading
  <1>3. CASE Generation!CapturePositions(p)
    <2>1. [s10[p] EXCEPT !.pc = "after", !.positions = s9.positions] \in GenProcess
      BY <1>0 DEF GenProcess, GenSteps
    <2>2. Alone(p) /\ s10'[p] = [s10[p] EXCEPT !.pc = "after", !.positions = s9.positions]
      <3>1. s10' = [s10 EXCEPT ![p] = [s10[p] EXCEPT !.pc = "after", !.positions = s9.positions]]
        <4>1. s10 \in [Verifiers -> GenProcess]
          BY DEF GenInv, GenTyped
        <4> QED BY <1>3, <1>0, <4>1 DEF Generation!CapturePositions
      <3> QED BY <2>1, <3>1, GenUpdate DEF GenInv
    <2>3. /\ s10'[p].pc = "after" /\ s10'[p].before = s10[p].before
          /\ s10'[p].positions = s9.positions
          /\ s10'[p].condemned = s10[p].condemned /\ s10'[p].valid = s10[p].valid /\ s10'[p].answer = s10[p].answer
      BY <1>b, <2>2 DEF GenProcess, Knows
    <2>c. s1' = s1 /\ s9' = s9
      BY <1>3 DEF Generation!CapturePositions
    <2>4. Generation!At(p, "positions")
      BY <1>3 DEF Generation!CapturePositions
    <2> QED BY <1>0, <1>a, <2>2, <2>3, <2>4, <2>c DEF GenArtifacts, GenOpening, GenCondemned, GenLease, Working,
          Sealing, Heading
  <1>4. CASE Generation!CaptureAfter(p)
    <2>1. \/ Generation!Move(p, "publish") /\ s9.activities = s10[p].before
          \/ Generation!Answer(p, "refused")
      BY <1>4 DEF Generation!CaptureAfter, Generation!Bracketed
    <2>2. s1' = s1 /\ s9' = s9 /\ Generation!At(p, "after")
      BY <1>4 DEF Generation!CaptureAfter
    <2>3. CASE Generation!Move(p, "publish") /\ s9.activities = s10[p].before
      <3>1. Alone(p) /\ s10'[p].pc = "publish" /\ Knows(p)' = Knows(p) /\ s10'[p].answer = s10[p].answer
        BY <2>3, GenMoves DEF GenInv, GenSteps
      <3>2. s10[p].positions = s10[p].before
        BY <1>0, <1>a, <2>2, <2>3 DEF GenOpening, GenProcess
      <3> QED BY <1>a, <2>2, <3>1, <3>2 DEF GenArtifacts, GenOpening, GenCondemned, GenLease, Working, Sealing,
            Heading, Knows
    <2>4. CASE Generation!Answer(p, "refused")
      <3>1. Alone(p) /\ s10'[p].pc = "done" /\ Knows(p)' = Knows(p) /\ s10'[p].answer = "refused"
        BY <2>4, GenMoves DEF GenInv, Generation!Answers
      <3> QED BY <1>a, <2>2, <3>1 DEF GenArtifacts, GenOpening, GenCondemned, GenLease, Working, Sealing,
            Heading, Knows
    <2> QED BY <2>1, <2>3, <2>4
  <1>5. CASE Generation!BeginPublish(p)
    <2>1. \/ Generation!Move(p, "manifest") /\ s1' = s1 \cup {"checkpoint"}
          \/ Generation!Answer(p, "refused") /\ s1' = s1
      BY <1>5 DEF Generation!BeginPublish, Generation!Publish, Generation!Move
    <2>2. CASE Generation!Move(p, "manifest") /\ s1' = s1 \cup {"checkpoint"}
      <3>1. Alone(p) /\ s10'[p].pc = "manifest" /\ Knows(p)' = Knows(p) /\ s10'[p].answer = s10[p].answer
        BY <2>2, GenMoves DEF GenInv, GenSteps
      <3> QED BY <1>a, <2>2, <3>1 DEF GenArtifacts, GenOpening, GenCondemned, GenLease, Working, Sealing,
            Heading, Knows
    <2>3. CASE Generation!Answer(p, "refused") /\ s1' = s1
      <3>1. Alone(p) /\ s10'[p].pc = "done" /\ Knows(p)' = Knows(p) /\ s10'[p].answer = "refused"
        BY <2>3, GenMoves DEF GenInv, Generation!Answers
      <3> QED BY <1>a, <2>3, <3>1 DEF GenArtifacts, GenOpening, GenCondemned, GenLease, Working, Sealing,
            Heading, Knows
    <2> QED BY <2>1, <2>2, <2>3
  <1>6. CASE Generation!PublishFreeze(p)
    <2>1. PICK q \in {"manifest-sha", "binding", "bind"} :
             /\ Generation!Move(p, q) /\ s1 \subseteq s1'
             /\ q = "manifest-sha" => Generation!At(p, "manifest") /\ "manifest" \in s1'
             /\ q = "binding" => Generation!At(p, "manifest-sha") /\ "manifest-sha" \in s1'
             /\ q = "bind" => Generation!At(p, "binding") /\ "binding" \in s1'
      BY <1>6 DEF Generation!PublishFreeze, Generation!Published, Generation!Publish
    <2>2. Alone(p) /\ s10'[p].pc = q /\ Knows(p)' = Knows(p) /\ s10'[p].answer = s10[p].answer
      BY <2>1, GenMoves DEF GenInv, GenSteps
    <2>3. GenArtifacts(p)'
      BY <1>a, <2>1, <2>2 DEF GenArtifacts, Generation!Frozen
    <2> QED BY <1>a, <2>1, <2>2, <2>3 DEF GenOpening, GenCondemned, GenLease, Working, Sealing, Heading, Knows
  <1>7. CASE Generation!Bind(p)
    <2>1. Generation!Answer(p, Empty) /\ s1' = s1
      BY <1>7 DEF Generation!Bind
    <2>2. Alone(p) /\ s10'[p].pc = "done" /\ Knows(p)' = Knows(p) /\ s10'[p].answer = Empty
      BY <2>1, GenMoves DEF GenInv, Generation!Answers
    <2> QED BY <1>a, <2>1, <2>2, GenerationAssumed DEF Generation!VerificationAssumption, GenArtifacts,
          GenOpening, GenCondemned, GenLease, Working, Sealing, Heading, Knows
  <1> QED BY <1>1, <1>2, <1>3, <1>4, <1>5, <1>6, <1>7

\* What a command may do next: outside a freeze, what counts is the lease, what it
\* knows of the rows, and that it is not condemned.
LEMMA GenCommand ==
    ASSUME NEW p \in Verifiers, GenLease(p)', GenCondemned(p)',
           s10'[p].pc \notin {"positions", "after", "publish", "manifest", "manifest-sha", "binding", "bind"}
    PROVE  GenLocal(p)'
  BY DEF GenLocal, GenArtifacts, GenOpening, Generation!At

\* The row of a command that begins, and of one that has been judged.
Begun(i, c, n, b) == [i EXCEPT !.pc = "check", !.command = c, !.next = n, !.condemned = b]
Judged(i, b, q) == [i EXCEPT !.valid = b, !.pc = q]
Beginning == {"run", "reconcile", "status", "verify"}
AfterCheck == {"checked", "acquire"}

LEMMA GenBegun ==
    ASSUME NEW i \in GenProcess, NEW c \in Beginning, NEW n \in AfterCheck, NEW b \in BOOLEAN
    PROVE  /\ Begun(i, c, n, b) \in GenProcess /\ Begun(i, c, n, b).pc = "check"
           /\ Begun(i, c, n, b).next = n /\ Begun(i, c, n, b).condemned = b
           /\ Begun(i, c, n, b).valid = i.valid /\ Begun(i, c, n, b).answer = i.answer
  <1>1. "check" \in GenSteps
    BY DEF GenSteps
  <1> QED BY <1>1 DEF GenProcess, Begun, Beginning, AfterCheck

LEMMA GenJudged ==
    ASSUME NEW i \in GenProcess, NEW b \in BOOLEAN, NEW q \in GenSteps
    PROVE  /\ Judged(i, b, q) \in GenProcess /\ Judged(i, b, q).valid = b /\ Judged(i, b, q).pc = q
           /\ Judged(i, b, q).next = i.next /\ Judged(i, b, q).snapshot = i.snapshot
           /\ Judged(i, b, q).condemned = i.condemned /\ Judged(i, b, q).answer = i.answer
  BY DEF GenProcess, Judged

LEMMA GenJudges ==
    ASSUME GenInv, NEW p \in Verifiers, Generation!Begin(p) \/ Generation!Judge(p) \/ Generation!Invalidate(p)
    PROVE  Alone(p) /\ GenLocal(p)'
  <1>b. s10[p] \in GenProcess /\ s10 \in [Verifiers -> GenProcess]
    BY DEF GenInv, GenTyped
  <1>a. GenCondemned(p) /\ GenLease(p)
    BY DEF GenInv, GenLocal
  <1> USE DEF Generation!At
  <1>1. CASE Generation!Begin(p)
    <2>1. PICK command \in {"run", "reconcile", "status", "verify"} :
            s10' = [s10 EXCEPT ![p] = [Generation!Idle EXCEPT !.pc = "check", !.command = command,
                                                  !.next = IF command = "verify" THEN "checked" ELSE "acquire",
                                                  !.condemned = "invalid" \in s1]]
      BY <1>1 DEF Generation!Begin
    <2> DEFINE found == "invalid" \in s1
               next == IF command = "verify" THEN "checked" ELSE "acquire"
               r == [Generation!Idle EXCEPT !.pc = "check", !.command = command, !.next = next, !.condemned = found]
    <2>2. /\ r \in GenProcess /\ r.pc = "check" /\ r.next \in {"checked", "acquire"} /\ r.valid = FALSE
          /\ r.condemned = found /\ r.answer = Empty
      <3>1. found \in BOOLEAN /\ next \in {"checked", "acquire"}
        OBVIOUS
      <3> HIDE DEF found, next
      <3>2. Generation!Idle \in GenProcess /\ Generation!Idle.valid = FALSE /\ Generation!Idle.answer = Empty
        BY GenMoves DEF GenInv, Generation!Idle
      <3>3. r = Begun(Generation!Idle, command, next, found)
        BY DEF Begun
      <3> HIDE DEF r
      <3>4. command \in Beginning /\ next \in AfterCheck
        BY <3>1 DEF Beginning, AfterCheck
      <3>5. /\ r \in GenProcess /\ r.pc = "check" /\ r.next = next /\ r.condemned = found
            /\ r.valid = Generation!Idle.valid /\ r.answer = Generation!Idle.answer
        BY <3>1, <3>2, <3>3, <3>4, GenBegun
      <3> QED BY Zenon, <3>1, <3>2, <3>5
    <2>3. Alone(p) /\ s10'[p] = r
      <3> HIDE DEF r
      <3> QED BY <2>1, <2>2, GenUpdate DEF GenInv, r
    <2>4. s1' = s1 /\ s6' = s6
      BY <1>1 DEF Generation!Begin
    <2> HIDE DEF r, next
    <2>5. GenLease(p)' /\ GenCondemned(p)'
      BY <2>2, <2>3, <2>4, GenerationAssumed DEF GenLease, GenCondemned, Working, Sealing, Heading,
            Generation!VerificationAssumption
    <2> QED BY <2>2, <2>3, <2>5, GenCommand
  <1>2. CASE Generation!Judge(p)
    <2> DEFINE valid == Generation!Loads /\ s8 = s3.source
               r == [s10[p] EXCEPT !.valid = valid, !.pc = IF valid THEN s10[p].next ELSE "invalidate"]
    <2>1. s10[p].next \in {"checked", "acquire", "report", "begin", "seal"}
      BY <1>2, <1>a DEF Generation!Judge, GenLease
    <2>2. /\ r \in GenProcess /\ r.valid = valid /\ r.pc = (IF valid THEN s10[p].next ELSE "invalidate")
          /\ r.next = s10[p].next /\ r.snapshot = s10[p].snapshot /\ r.condemned = s10[p].condemned
          /\ r.answer = s10[p].answer
      <3> HIDE DEF valid
      <3>1. valid \in BOOLEAN
        BY DEF valid
      <3> DEFINE q == IF valid THEN s10[p].next ELSE "invalidate"
      <3>2. q \in GenSteps
        BY <2>1 DEF GenSteps
      <3>3. r = Judged(s10[p], valid, q)
        BY DEF Judged
      <3> HIDE DEF r, q
      <3>4. /\ r \in GenProcess /\ r.valid = valid /\ r.pc = q /\ r.next = s10[p].next
            /\ r.snapshot = s10[p].snapshot /\ r.condemned = s10[p].condemned /\ r.answer = s10[p].answer
        BY <1>b, <3>1, <3>2, <3>3, GenJudged
      <3> QED BY Zenon, <3>4 DEF q
    <2>3. Alone(p) /\ s10'[p] = r
      <3>1. s10' = [s10 EXCEPT ![p].valid = valid, ![p].pc = IF valid THEN s10[p].next ELSE "invalidate"]
        BY <1>2 DEF Generation!Judge
      <3>2. s10' = [s10 EXCEPT ![p] = r]
        <4> HIDE DEF valid
        <4> QED BY <1>b, <3>1
      <3> HIDE DEF r
      <3> QED BY <2>2, <3>2, GenUpdate DEF GenInv
    <2>4. s1' = s1 /\ s6' = s6 /\ s5' = s5 /\ s4' = s4 /\ s10[p].pc = "check"
      BY <1>2 DEF Generation!Judge, Generation!Database, Generation!World
    <2>5. s10[p].condemned => ~valid
      BY <1>a DEF GenCondemned, Generation!Loads
    <2> HIDE DEF r, valid
    <2>6. GenLease(p)' /\ GenCondemned(p)'
      BY <1>a, <2>1, <2>2, <2>3, <2>4, <2>5 DEF GenLease, GenCondemned, Working, Sealing, Heading
    <2> QED BY <2>1, <2>2, <2>3, <2>6, GenCommand
  <1>3. CASE Generation!Invalidate(p)
    <2>1. /\ Generation!Move(p, s10[p].next) /\ s10[p].pc = "invalidate" /\ s1 \subseteq s1'
          /\ s6' = s6 /\ s5' = s5 /\ s4' = s4
      BY <1>3 DEF Generation!Invalidate, Generation!Publish, Generation!Database, Generation!World
    <2>2. s10[p].next \in {"checked", "acquire", "report", "begin", "seal"}
      BY <1>a, <2>1 DEF GenLease
    <2>3. /\ Alone(p) /\ s10'[p].pc = s10[p].next /\ Knows(p)' = Knows(p)
          /\ s10'[p].next = s10[p].next /\ s10'[p].answer = s10[p].answer
      BY <2>1, <2>2, GenMoves DEF GenInv, GenSteps
    <2>4. GenLease(p)' /\ GenCondemned(p)'
      BY <1>a, <2>1, <2>2, <2>3 DEF GenLease, GenCondemned, Working, Sealing, Heading, Knows
    <2> QED BY <2>2, <2>3, <2>4, GenCommand
  <1> QED BY <1>1, <1>2, <1>3

LEMMA GenWorks ==
    ASSUME GenInv, Unlocked = {}, NEW p \in Verifiers, GenFrame(p),
           Generation!Acquire(p) \/ Generation!Reconcile(p) \/ Generation!Start(p) \/ Generation!StartDigest(p) \/ Generation!Trade(p) \/ Generation!Drain(p)
    PROVE  Alone(p) /\ GenLocal(p)'
  <1>a. GenCondemned(p) /\ GenLease(p) /\ s10[p].valid \in BOOLEAN /\ p # Empty
    BY GenerationAssumed DEF GenInv, GenLocal, GenTyped, GenProcess, Generation!VerificationAssumption
  <1> USE DEF Generation!At
  <1>1. CASE Generation!Acquire(p)
    <2>1. /\ s1' = s1 /\ s5' = s5 /\ s4' = s4
          /\ \/ Generation!Answer(p, "refused") /\ s6' = s6
             \/ Generation!Check(p, "report")
             \/ Generation!Move(p, "reconcile") /\ s6' = p
      BY <1>1 DEF Generation!Acquire, Generation!Database, Generation!World
    <2>2. /\ Alone(p) /\ Knows(p)' = Knows(p)
          /\ \/ s10'[p].pc = "done" /\ s10'[p].answer = "refused"
             \/ s10'[p].pc = "check" /\ s10'[p].next = "report" /\ s10'[p].answer = s10[p].answer
             \/ s10'[p].pc = "reconcile" /\ s6' = p /\ s10'[p].answer = s10[p].answer
      BY <2>1, GenMoves DEF GenInv, GenSteps, Generation!Answers
    <2>3. GenLease(p)' /\ GenCondemned(p)'
      BY <1>a, <2>1, <2>2 DEF GenLease, GenCondemned, Working, Sealing, Heading, Knows
    <2> QED BY <2>2, <2>3, GenCommand
  <1>2. CASE Generation!Reconcile(p)
    <2>1. /\ s1' = s1 /\ s6' = s6 /\ s10[p].pc = "reconcile"
          /\ \E n \in {"begin", "report"} : Generation!Check(p, n)
      BY <1>2 DEF Generation!Reconcile
    <2>2. /\ Alone(p) /\ Knows(p)' = Knows(p) /\ s10'[p].pc = "check" /\ s10'[p].next \in {"begin", "report"}
          /\ s10'[p].answer = s10[p].answer
      BY <2>1, GenMoves DEF GenInv
    <2>3. GenLease(p)' /\ GenCondemned(p)'
      BY <1>a, <2>1, <2>2 DEF GenLease, GenCondemned, Working, Sealing, Heading, Knows
    <2> QED BY <2>2, <2>3, GenCommand
  <1>3. CASE Generation!Start(p) \/ Generation!StartDigest(p)
    <2>1. /\ s1 \subseteq s1' /\ s6' = s6 /\ s6 = p
          /\ Generation!Check(p, "report") \/ Generation!Move(p, "lanes") \/ Generation!Move(p, "started")
      BY <1>a, <1>3 DEF Generation!Start, Generation!StartDigest, Generation!Publish, GenLease, Working
    <2>2. /\ Alone(p) /\ Knows(p)' = Knows(p) /\ s10'[p].answer = s10[p].answer
          /\ s10'[p].pc \in {"lanes", "started"} \/ (s10'[p].pc = "check" /\ s10'[p].next = "report")
      BY <2>1, GenMoves DEF GenInv, GenSteps
    <2>3. GenLease(p)' /\ GenCondemned(p)'
      BY <1>a, <2>1, <2>2 DEF GenLease, GenCondemned, Working, Sealing, Heading, Knows
    <2> QED BY <2>2, <2>3, GenCommand
  <1>4. CASE Generation!Trade(p)
    <2>1. /\ s1' = s1 /\ s6' = s6 /\ s10[p].pc = "lanes" /\ s10' = s10
      BY <1>4 DEF Generation!Trade
    <2>2. Alone(p) /\ s10'[p] = s10[p]
      BY <2>1, GenMoves DEF GenInv
    <2>3. GenLease(p)' /\ GenCondemned(p)'
      BY <1>a, <2>1, <2>2 DEF GenLease, GenCondemned, Working, Sealing, Heading
    <2> QED BY <2>1, <2>2, <2>3, GenCommand
  <1>5. CASE Generation!Drain(p)
    <2>1. s1' = s1 /\ s6' = s6 /\ Generation!Check(p, "report")
      BY <1>5 DEF Generation!Drain
    <2>2. /\ Alone(p) /\ Knows(p)' = Knows(p) /\ s10'[p].pc = "check" /\ s10'[p].next = "report"
          /\ s10'[p].answer = s10[p].answer
      BY <2>1, GenMoves DEF GenInv
    <2>3. GenLease(p)' /\ GenCondemned(p)'
      BY <1>a, <2>1, <2>2 DEF GenLease, GenCondemned, Working, Sealing, Heading, Knows
    <2> QED BY <2>2, <2>3, GenCommand
  <1> QED BY <1>1, <1>2, <1>3, <1>4, <1>5

LEMMA GenReports ==
    ASSUME GenInv, NEW p \in Verifiers,
           \/ Generation!ReportSealed(p) \/ Generation!ReportOpen(p) \/ Generation!Assess(p) \/ Generation!SealEvidence(p) \/ Generation!Seal(p) \/ Generation!SealDigest(p)
           \/ Generation!End(p) \/ Generation!Crash(p)
    PROVE  Alone(p) /\ GenLocal(p)'
  <1>b. s10[p] \in GenProcess /\ s10 \in [Verifiers -> GenProcess] /\ s5 \in Nat
    BY DEF GenInv, GenTyped
  <1>a. GenCondemned(p) /\ GenLease(p) /\ s10[p].valid \in BOOLEAN
    BY <1>b DEF GenInv, GenLocal, GenProcess
  <1> USE DEF Generation!At
  <1>1. CASE Generation!ReportSealed(p)
    <2>1. /\ s1' = s1
          /\ \E a \in Generation!Answers : Generation!Answer(p, a) /\ (a = "passed" => s10[p].valid)
      BY <1>1, <1>a DEF Generation!ReportSealed, Generation!Answers
    <2>2. /\ Alone(p) /\ Knows(p)' = Knows(p) /\ s10'[p].pc = "done" /\ (s10'[p].answer = "passed" => s10[p].valid)
      BY <2>1, GenMoves DEF GenInv
    <2>3. GenLease(p)' /\ GenCondemned(p)'
      BY <1>a, <2>1, <2>2 DEF GenLease, GenCondemned, Working, Sealing, Heading, Knows
    <2> QED BY <2>2, <2>3, GenCommand
  <1>2. CASE Generation!ReportOpen(p)
    <2>1. /\ s1' = s1 /\ s5' = s5
          /\ \/ \E a \in {"failed", "refused", "in-progress"} : Generation!Answer(p, a)
             \/ s10' = [s10 EXCEPT ![p].pc = "assess", ![p].snapshot = s5]
      BY <1>2, <1>a DEF Generation!ReportOpen, Generation!World
    <2>2. CASE \E a \in {"failed", "refused", "in-progress"} : Generation!Answer(p, a)
      <3>1. /\ Alone(p) /\ Knows(p)' = Knows(p) /\ s10'[p].pc = "done" /\ s10'[p].answer # "passed"
        BY <2>2, GenMoves DEF GenInv, Generation!Answers
      <3>2. GenLease(p)' /\ GenCondemned(p)'
        BY <1>a, <2>1, <3>1 DEF GenLease, GenCondemned, Working, Sealing, Heading, Knows
      <3> QED BY <3>1, <3>2, GenCommand
    <2>3. CASE s10' = [s10 EXCEPT ![p].pc = "assess", ![p].snapshot = s5]
      <3> DEFINE r == [s10[p] EXCEPT !.pc = "assess", !.snapshot = s5]
      <3>1. /\ r \in GenProcess /\ r.pc = "assess" /\ r.snapshot = s5 /\ r.condemned = s10[p].condemned
            /\ r.valid = s10[p].valid /\ r.answer = s10[p].answer
        BY <1>b DEF GenProcess, GenSteps
      <3>2. s10' = [s10 EXCEPT ![p] = r]
        BY <1>b, <2>3
      <3> HIDE DEF r
      <3>3. Alone(p) /\ s10'[p] = r
        BY <3>1, <3>2, GenUpdate DEF GenInv
      <3>4. GenLease(p)' /\ GenCondemned(p)'
        BY <1>a, <2>1, <3>1, <3>3 DEF GenLease, GenCondemned, Working, Sealing, Heading
      <3> QED BY <3>1, <3>3, <3>4, GenCommand
    <2> QED BY <2>1, <2>2, <2>3
  <1>3. CASE Generation!Assess(p)
    <2>1. /\ s1' = s1 /\ s5' = s5 /\ s6' = s6 /\ s10[p].pc = "assess"
          /\ \/ \E a \in {"unsealed", "in-progress"} : Generation!Answer(p, a)
             \/ Generation!Check(p, "seal") /\ s6 = p
      BY <1>3 DEF Generation!Assess, Generation!World, Generation!MaySeal
    <2>2. /\ Alone(p) /\ Knows(p)' = Knows(p)
          /\ \/ s10'[p].pc = "done" /\ s10'[p].answer # "passed"
             \/ s10'[p].pc = "check" /\ s10'[p].next = "seal" /\ s6 = p /\ s10'[p].answer = s10[p].answer
      BY <2>1, GenMoves DEF GenInv, Generation!Answers
    <2>3. GenLease(p)' /\ GenCondemned(p)'
      BY <1>a, <2>1, <2>2 DEF GenLease, GenCondemned, Working, Sealing, Heading, Knows
    <2> QED BY <2>2, <2>3, GenCommand
  <1>4. CASE Generation!SealEvidence(p)
    <2>1. /\ s1 \subseteq s1' /\ s5' = s5 /\ s6' = s6 /\ s10[p].pc = "seal"
          /\ \/ Generation!Answer(p, "refused")
             \/ s10[p].valid /\ s4' = s10[p].snapshot /\ Generation!Move(p, "sealing")
      BY <1>4 DEF Generation!SealEvidence, Generation!World, Generation!Publish
    <2>2. /\ Alone(p) /\ Knows(p)' = Knows(p)
          /\ \/ s10'[p].pc = "done" /\ s10'[p].answer # "passed"
             \/ /\ s10'[p].pc = "sealing" /\ s10[p].valid /\ s4' = s10[p].snapshot
                /\ s10'[p].answer = s10[p].answer
      BY <2>1, GenMoves DEF GenInv, Generation!Answers, GenSteps
    <2>3. GenLease(p)' /\ GenCondemned(p)'
      BY <1>a, <2>1, <2>2 DEF GenLease, GenCondemned, Working, Sealing, Heading, Knows
    <2> QED BY <2>2, <2>3, GenCommand
  <1>5. CASE Generation!Seal(p) \/ Generation!SealDigest(p)
    <2>1. /\ s1 \subseteq s1' /\ ~s10[p].condemned
          /\ Generation!Answer(p, "passed") \/ Generation!Move(p, "sealed")
      BY <1>a, <1>5 DEF Generation!Seal, Generation!SealDigest, Generation!Publish, GenCondemned
    <2>2. Alone(p) /\ Knows(p)' = Knows(p) /\ s10'[p].pc \in {"done", "sealed"}
      BY <2>1, GenMoves DEF GenInv, Generation!Answers, GenSteps
    <2>3. GenLease(p)' /\ GenCondemned(p)'
      BY <1>a, <2>1, <2>2 DEF GenLease, GenCondemned, Working, Sealing, Heading, Knows
    <2> QED BY <2>2, <2>3, GenCommand
  <1>6. CASE Generation!End(p) \/ Generation!Crash(p)
    <2>1. s1' = s1 /\ s10' = [s10 EXCEPT ![p] = Generation!Idle]
      BY <1>6 DEF Generation!End, Generation!Crash
    <2>2. Alone(p) /\ s10'[p] = Generation!Idle
      BY Zenon, <2>1, GenMoves, GenUpdate DEF GenInv
    <2>3. GenLease(p)' /\ GenCondemned(p)' /\ s10'[p].pc = "idle"
      BY <2>2 DEF GenLease, GenCondemned, Working, Sealing, Heading, Generation!Idle
    <2> QED BY <2>2, <2>3, GenCommand
  <1> QED BY <1>1, <1>2, <1>3, <1>4, <1>5, <1>6

\* The source and the account, which move by themselves.
LEMMA GenSurroundings ==
    ASSUME GenInv, ~BrokerLags, Generation!EditSource \/ Generation!Fill \/ Generation!Report
    PROVE  GenInv'
  <1>1. /\ s10' = s10 /\ s1' = s1 /\ s6' = s6 /\ s5' = s5 /\ s4' = s4 /\ s3' = s3
        /\ s2' = s2
    BY DEF Generation!EditSource, Generation!Fill, Generation!Report, Generation!Database
  <1>2. s9.positions \in Nat /\ s9.activities \in Nat /\ s9.activities = s9.positions /\ s8 \in 0..1
    BY DEF GenInv, GenTyped, GenGlobal
  <1>3. /\ s9' \in [positions : Nat, activities : Nat] /\ s8' \in 0..1
        /\ s9'.activities = s9'.positions /\ s9.activities <= s9'.activities
    <2>1. CASE Generation!EditSource
      BY <1>2, <2>1 DEF Generation!EditSource, GenInv, GenTyped
    <2>2. CASE Generation!Fill
      BY <1>2, <2>2 DEF Generation!Fill
    <2>3. CASE Generation!Report
      BY <1>2, <2>3 DEF Generation!Report
    <2> QED BY <2>1, <2>2, <2>3
  <1>4. GenTyped' /\ GenGlobal'
    BY <1>1, <1>3 DEF GenInv, GenTyped, GenGlobal
  <1>5. ASSUME NEW p \in Verifiers PROVE GenLocal(p)'
    <2>1. GenArtifacts(p)' /\ GenCondemned(p)' /\ GenLease(p)'
      BY <1>1 DEF GenInv, GenLocal, GenArtifacts, GenCondemned, GenLease, Generation!At, Working, Sealing,
            Heading
    <2>2. s10[p].before \in Nat /\ s10[p].positions \in Nat
      BY DEF GenInv, GenTyped, GenProcess
    <2>3. GenOpening(p)'
      <3>1. s9'.activities \in Nat
        BY <1>3
      <3> QED BY <1>1, <1>2, <1>3, <2>2, <3>1 DEF GenInv, GenLocal, GenOpening, Generation!At
    <2> QED BY <2>1, <2>3 DEF GenLocal
  <1> QED BY <1>4, <1>5 DEF GenInv

LEMMA GenProcessStep ==
    ASSUME GenInv, Unlocked = {}, NEW p \in Verifiers, Generation!Step(p)
    PROVE  GenInv'
  <1>0. GenLease(p) /\ GenArtifacts(p) /\ GenOpening(p) /\ GenTyped /\ GenGlobal
    BY DEF GenInv, GenLocal
  <1>1. GenFrame(p)
    BY <1>0, GenStepFrame
  <1>2. ~Generation!Permit(p) /\ ~Generation!OrdinaryWrite(p)
    BY <1>0 DEF Generation!Permit, Generation!OrdinaryWrite, GenLease, Generation!At
  <1>3. Alone(p) /\ GenLocal(p)'
    BY <1>1, <1>2, GenFreezes, GenJudges, GenWorks, GenReports DEF Generation!Step
  <1>4. \A q \in Verifiers : GenLocal(q)'
    BY <1>1, <1>3, GenOthers DEF Alone
  <1>5. GenTyped'
    <2>1. s5' \in Nat /\ s4' \in Nat
      <3>1. s10[p].snapshot \in Nat /\ s5 \in Nat /\ s4 \in Nat
        BY <1>0 DEF GenTyped, GenProcess
      <3> QED BY <1>1, <3>1 DEF GenFrame
    <2>2. s3' \in [population : Nat, positions : Nat, source : 0..1]
      <3>1. s10[p].before \in Nat /\ s10[p].positions \in Nat /\ s8 \in 0..1
        BY <1>0 DEF GenTyped, GenProcess
      <3> QED BY <1>0, <1>1, <3>1 DEF GenFrame, GenTyped
    <2> QED BY <1>0, <1>1, <1>3, <2>1, <2>2 DEF GenTyped, GenFrame, Alone
  <1>6. GenGlobal'
    <2>1. s2' => Generation!Frozen \subseteq s1'
      BY <1>0, <1>1 DEF GenGlobal, GenFrame, GenArtifacts
    <2>2. s3'.positions = s3'.population
      BY <1>0, <1>1 DEF GenGlobal, GenFrame, GenOpening
    <2> QED BY <1>0, <1>1, <2>1, <2>2 DEF GenGlobal, GenFrame
  <1> QED BY <1>4, <1>5, <1>6 DEF GenInv

LEMMA GenStep == Unlocked = {} /\ ~BrokerLags /\ GenInv /\ [Generation!Next]_Generation!vars => GenInv'
  <1> SUFFICES ASSUME Unlocked = {}, ~BrokerLags, GenInv, [Generation!Next]_Generation!vars PROVE GenInv'
    OBVIOUS
  <1>1. CASE UNCHANGED Generation!vars
    BY <1>1 DEF GenInv, GenTyped, GenGlobal, GenLocal, GenArtifacts, GenOpening, GenCondemned, GenLease,
          Generation!At,
                Working, Sealing, Heading, Generation!vars
  <1> QED BY <1>1, GenSurroundings, GenProcessStep DEF Generation!Next

LEMMA GenSafe == GenInv => Generation!GenerationIsSound
  BY DEF GenInv, GenGlobal, GenLocal, GenCondemned, Generation!GenerationIsSound, Generation!BoundIsComplete,
        Generation!OpeningIsExact, Generation!InvalidIsFinal

\* Only Seal publishes a seal.
LEMMA GenSealed == Unlocked = {} /\ GenInv /\ [Generation!Next]_Generation!vars => Generation!SealTakesAll
  <1> SUFFICES ASSUME Unlocked = {}, GenInv, [Generation!Next]_Generation!vars, "seal" \notin s1, "seal" \in s1'
               PROVE  s4 = s5
    BY DEF Generation!SealTakesAll
  <1>1. PICK p \in Verifiers : Generation!Step(p)
    BY DEF Generation!Next, Generation!vars, Generation!EditSource, Generation!Fill, Generation!Report
  <1>2. GenLease(p)
    BY DEF GenInv, GenLocal
  <1>3. GenFrame(p)
    BY <1>1, <1>2, GenStepFrame
  <1> QED BY <1>2, <1>3 DEF GenFrame, GenLease

-----------------------------------------------------------------------------
(***************************************************************************)
(* Membership.  A page has no gap and ends where the next one begins       *)
(* (MemPage), so a pass reads all that was there when it began, however    *)
(* many rows post behind its token; that includes every row of the         *)
(* population before.  What is counted would be counted the same today     *)
(* (MemCounted): the seal takes the population it is asked about.          *)
(*                                                                         *)
(* In Components s1 is time, s2 is at, s3 is linked, s4 is opening, s5 is  *)
(* closing, s6 is pass, s7 is status, s8 is population, s9 is missed, s10  *)
(* is latched.                                                             *)
(***************************************************************************)

MemTyped ==
    /\ s1 \in Nat \ {0}
    /\ s2 \in [Membership!Posted -> Nat] /\ Membership!Posted \subseteq Activities /\ \A a \in Membership!Posted : s2[a] <= s1
    /\ s4 \in [at : Nat, rows : SUBSET Activities] /\ s5 \in [at : Nat, rows : SUBSET Activities]
    /\ s6 \in [at : {"rest", "paging", "read"}, tail : SUBSET Activities, rows : SUBSET Activities, token : Nat, begun : SUBSET Activities]
    /\ s7 \in [Activities -> {"none", "unresolved", "in", "late", "pre", "post"}]
    /\ s8 \subseteq Membership!Posted /\ s6.rows \subseteq Membership!Posted /\ s6.begun \subseteq Membership!Posted
    /\ s3 \subseteq OwnActivities

\* A pass has read everything up to its token that was there when it began.
MemPass ==
    /\ s6.at # "rest" => s4 # Membership!NoCheckpoint /\ s8 \subseteq s6.begun
    /\ s6.at = "paging" => \A a \in s6.begun : a <= s6.token => a \in s6.rows
    /\ s6.at = "read" => s6.begun \subseteq s6.rows

MemCheckpoints ==
    /\ s4 = Membership!NoCheckpoint => s8 = {} /\ s5 = Membership!NoCheckpoint /\ \A a \in Activities : s7[a] = "none"
    /\ Membership!Sealed => OwnActivities \subseteq s3
    /\ s9 = FALSE

\* What is counted is in the population, and would be counted the same today.
MemCounted == \A a \in Activities : s7[a] \in Membership!Resolved => a \in s8 /\ s7[a] = Membership!Classify(a, s1)

MemInv == MemTyped /\ MemPass /\ MemCheckpoints /\ MemCounted

-----------------------------------------------------------------------------
\* The library's operators are the ones the lemmas are about.
LEMMA MemOperators ==
    /\ Membership!MembershipAssumption =>
           /\ IsFiniteSet(Activities) /\ Activities \subseteq Nat \ {0} /\ OwnActivities \subseteq Activities /\ RowsPerPage \in Nat \ {0}
    /\ Membership!NextPage = {a \in Membership!Posted : a > s6.token /\ Cardinality({b \in Membership!Posted : s6.token < b /\ b <= a}) <= RowsPerPage}
    /\ Membership!Terminal <=> Cardinality(Membership!NextPage) < RowsPerPage
    /\ Membership!ReadPage =>
           /\ s6.at = "paging"
           /\ s6' = [s6 EXCEPT !.rows = s6.rows \cup Membership!NextPage, !.at = IF Membership!Terminal THEN "read" ELSE "paging",
                                   !.token = IF Membership!Terminal THEN s6.token ELSE Max(Membership!NextPage)]
           /\ UNCHANGED <<s1, s2, s3, Membership!generation, s7, s8, s9, s10>>
  BY DEF Membership!MembershipAssumption, Membership!NextPage, Membership!Terminal, Membership!ReadPage,
        IsFiniteSet, Membership!IsFiniteSet, Cardinality, Membership!Cardinality, Max, Membership!Max

\* A page has no gap, a full one ends at its last row and a short one has the rest.
LEMMA MemPage ==
    ASSUME MemTyped
    PROVE  /\ Membership!NextPage \subseteq Membership!Posted
           /\ ~Membership!Terminal =>
                /\ Max(Membership!NextPage) \in Nat
                /\ \A b \in Membership!Posted : b > s6.token /\ b <= Max(Membership!NextPage) => b \in Membership!NextPage
           /\ Membership!Terminal => \A b \in Membership!Posted : b > s6.token => b \in Membership!NextPage
  <1> DEFINE Upto(a) == {b \in Membership!Posted : s6.token < b /\ b <= a}
  <1>0. /\ IsFiniteSet(Activities) /\ Activities \subseteq Nat \ {0} /\ RowsPerPage \in Nat \ {0}
        /\ s6.token \in Nat /\ Membership!Posted \subseteq Activities
    BY MembershipAssumed, MemOperators DEF MemTyped
  <1>1. IsFiniteSet(Membership!Posted)
    BY <1>0, FS_Subset
  <1>2. Membership!NextPage = {a \in Membership!Posted : a > s6.token /\ Cardinality(Upto(a)) <= RowsPerPage}
    BY MemOperators
  <1>3. \A a \in Membership!Posted : IsFiniteSet(Upto(a)) /\ Cardinality(Upto(a)) \in Nat
    BY <1>1, FS_Subset, FS_CardinalityType
  <1>4. IsFiniteSet(Membership!NextPage) /\ Membership!NextPage \subseteq Membership!Posted /\ Cardinality(Membership!NextPage) \in Nat
    BY <1>1, <1>2, FS_Subset, FS_CardinalityType
  <1>5. ASSUME NEW a \in Membership!NextPage, NEW b \in Membership!Posted, b > s6.token, b <= a PROVE b \in Membership!NextPage
    <2>1. a \in Membership!Posted /\ Cardinality(Upto(a)) <= RowsPerPage /\ a \in Nat /\ b \in Nat
      BY <1>0, <1>2
    <2>2. Upto(b) \subseteq Upto(a)
      <3> SUFFICES ASSUME NEW c \in Upto(b) PROVE c \in Upto(a)
        OBVIOUS
      <3>1. c \in Nat
        BY <1>0
      <3> QED BY <1>5, <2>1, <3>1
    <2>3. Cardinality(Upto(b)) <= Cardinality(Upto(a))
      BY <1>3, <2>1, <2>2, FS_Subset
    <2>4. Cardinality(Upto(b)) \in Nat /\ Cardinality(Upto(a)) \in Nat
      BY <1>3, <2>1
    <2>5. Cardinality(Upto(b)) <= RowsPerPage
      <3> HIDE DEF Upto
      <3> QED BY <1>0, <2>1, <2>3, <2>4
    <2> QED BY <1>2, <1>5, <2>5
  <1>6. Membership!Terminal <=> Cardinality(Membership!NextPage) < RowsPerPage
    BY MemOperators
  <1>7. ASSUME ~Membership!Terminal
        PROVE  Max(Membership!NextPage) \in Nat /\ \A b \in Membership!Posted : b > s6.token /\ b <= Max(Membership!NextPage) => b \in Membership!NextPage
    <2>1. Membership!NextPage # {}
      BY <1>0, <1>4, <1>6, <1>7, FS_EmptySet
    <2>2. Max(Membership!NextPage) \in Membership!NextPage
      <3>1. Membership!NextPage \in SUBSET Int
        BY <1>0, <1>4
      <3> QED BY <1>4, <2>1, <3>1, MaxOfFinite
    <2> QED BY <1>0, <1>4, <1>5, <2>2
  <1>8. ASSUME Membership!Terminal, NEW x \in Membership!Posted, x > s6.token, x \notin Membership!NextPage PROVE FALSE
    <2> DEFINE M == {a \in Membership!Posted : a > s6.token /\ a \notin Membership!NextPage}
    <2>1. M \in SUBSET Int /\ IsFiniteSet(M) /\ M # {}
      <3>1. M \subseteq Membership!Posted /\ x \in M
        BY <1>8
      <3> HIDE DEF M
      <3>2. IsFiniteSet(M)
        BY <1>1, <3>1, FS_Subset
      <3> QED BY <1>0, <3>1, <3>2
    <2>2. PICK m \in M : \A y \in M : m <= y
      BY <2>1, MinOfFinite
    <2>3. m \in Membership!Posted /\ m > s6.token /\ m \notin Membership!NextPage /\ m \in Nat
      BY <1>0
    <2>4. Upto(m) \subseteq Membership!NextPage \cup {m}
      <3> SUFFICES ASSUME NEW c \in Upto(m), c # m PROVE c \in Membership!NextPage
        OBVIOUS
      <3>1. c \in Nat /\ c \in Membership!Posted /\ c > s6.token /\ c <= m
        BY <1>0
      <3>2. ~(m <= c)
        BY <2>3, <3>1
      <3> QED BY <2>2, <3>1, <3>2
    <2>5. IsFiniteSet(Membership!NextPage \cup {m}) /\ Cardinality(Membership!NextPage \cup {m}) = Cardinality(Membership!NextPage) + 1
      BY <1>4, <2>3, FS_AddElement
    <2>6. Cardinality(Upto(m)) <= Cardinality(Membership!NextPage) + 1 /\ Cardinality(Upto(m)) \in Nat
      BY <1>3, <2>3, <2>4, <2>5, FS_Subset
    <2>7. Cardinality(Upto(m)) <= RowsPerPage
      <3> HIDE DEF Upto
      <3> QED BY <1>0, <1>4, <1>6, <1>8, <2>6
    <2> QED BY <1>2, <2>3, <2>7
  <1> QED BY <1>4, <1>7, <1>8

\* Classifying looks at the time, the checkpoints, the links and the row's time.
LEMMA MemClassSame ==
    ASSUME NEW a \in Activities, s4' = s4, s5' = s5, s3' = s3, s2'[a] = s2[a], s1' = s1
    PROVE  Membership!Classify(a, s1)' = Membership!Classify(a, s1)
  BY DEF Membership!Classify, Membership!Sealed

LEMMA MemInitHolds == Membership!Init => MemInv
  <1> SUFFICES ASSUME Membership!Init PROVE MemInv
    OBVIOUS
  <1>1. Membership!Posted = {} /\ s2 \in [Membership!Posted -> Nat]
    BY DEF Membership!Init, Membership!Posted
  <1>2. MemTyped
    BY <1>1 DEF Membership!Init, MemTyped, Membership!NoCheckpoint, Membership!Resting
  <1>3. MemPass
    BY DEF Membership!Init, MemPass, Membership!Resting
  <1>4. MemCheckpoints /\ MemCounted
    BY DEF Membership!Init, MemCheckpoints, MemCounted, Membership!Sealed, Membership!Resolved,
          Membership!Eligible
  <1> QED BY <1>2, <1>3, <1>4 DEF MemInv

\* The broker's clock, the rows that post and the links that are stored.
LEMMA MemSurroundings ==
    ASSUME MemInv, \/ Membership!Tick \/ Membership!Open \/ Membership!Fail
                   \/ \E a \in Activities : Membership!Post(a) \/ Membership!Link(a)
    PROVE  MemInv'
  <1>0. MemTyped /\ MemPass /\ MemCheckpoints /\ MemCounted
    BY DEF MemInv
  <1>1. CASE Membership!Tick
    <2>1. UNCHANGED <<s2, s3, s4, s5, s6, s7, s8, s9>> /\ s1' = s1 + 1
      BY <1>1 DEF Membership!Tick, Membership!generation
    <2>2. MemTyped'
      <3>1. s1 \in Nat \ {0} /\ Membership!Posted' = Membership!Posted /\ \A a \in Membership!Posted : s2[a] \in Nat /\ s2[a] <= s1
        BY <1>0, <2>1 DEF MemTyped, Membership!Posted
      <3>2. s1' \in Nat \ {0} /\ \A a \in Membership!Posted' : s2'[a] <= s1'
        BY <2>1, <3>1
      <3> QED BY <1>0, <2>1, <3>1, <3>2 DEF MemTyped
    <2>3. ASSUME NEW a \in Membership!Posted PROVE Membership!Classify(a, s1)' = Membership!Classify(a, s1)
      <3>1. s2[a] \in Nat /\ s2[a] <= s1 /\ s1 \in Nat
        BY <1>0 DEF MemTyped
      <3>2. ~(s2[a] > s1) /\ ~(s2[a] > s1')
        BY <2>1, <3>1
      <3> QED BY <2>1, <3>2 DEF Membership!Classify, Membership!Sealed
    <2>4. MemCounted'
      BY <1>0, <2>1, <2>3 DEF MemCounted, MemTyped
    <2> QED BY <1>0, <2>1, <2>2, <2>4 DEF MemInv, MemPass, MemCheckpoints, Membership!Sealed
  <1>2. CASE Membership!Open
    <2>1. /\ UNCHANGED <<s1, s2, s3, s5, s6, s7, s8, s9>>
          /\ s4 = Membership!NoCheckpoint /\ s4' = [at |-> s1, rows |-> Membership!Posted]
      BY <1>2 DEF Membership!Open
    <2>2. s1 # 0 /\ s1 \in Nat /\ s4' # Membership!NoCheckpoint /\ Membership!Posted' = Membership!Posted /\ Membership!Posted \subseteq Activities
      BY <1>0, <2>1 DEF MemTyped, Membership!NoCheckpoint, Membership!Posted
    <2>3. MemTyped'
      BY <1>0, <2>1, <2>2 DEF MemTyped
    <2>4. s6.at = "rest" /\ s5 = Membership!NoCheckpoint /\ \A a \in Activities : s7[a] = "none"
      BY <1>0, <2>1 DEF MemPass, MemCheckpoints
    <2> QED BY <1>0, <2>1, <2>2, <2>3, <2>4 DEF MemInv, MemPass, MemCheckpoints, MemCounted, Membership!Sealed,
          Membership!Resolved, Membership!Eligible
  <1>3. CASE Membership!Fail
    <2>1. UNCHANGED <<s1, s2, s3, s4, s5, s7, s8, s9>> /\ s6' = Membership!Resting
      BY <1>3 DEF Membership!Fail, Membership!generation
    <2>2. MemTyped'
      BY <1>0, <2>1 DEF MemTyped, Membership!Resting, Membership!Posted
    <2>3. MemPass'
      BY <2>1 DEF MemPass, Membership!Resting
    <2>4. MemCounted'
      BY <1>0, <2>1, MemClassSame DEF MemCounted
    <2> QED BY <1>0, <2>1, <2>2, <2>3, <2>4 DEF MemInv, MemCheckpoints, Membership!Sealed
  <1>4. ASSUME NEW a \in Activities, Membership!Post(a) PROVE MemInv'
    <2>1. /\ UNCHANGED <<s1, s3, s4, s5, s6, s7, s8, s9>>
          /\ a \notin Membership!Posted
      BY <1>4 DEF Membership!Post, Membership!generation
    <2>2. PICK t \in {s1, s1 - 1} :
             t > 0 /\ s2' = [x \in Membership!Posted \cup {a} |-> IF x = a THEN t ELSE s2[x]]
      BY <1>4 DEF Membership!Post
    <2>3. s1 \in Nat /\ t \in Nat /\ t <= s1 /\ \A x \in Membership!Posted : s2[x] \in Nat /\ s2[x] <= s1
      BY <1>0, <2>2 DEF MemTyped
    <2>4. Membership!Posted' = Membership!Posted \cup {a} /\ s2' \in [Membership!Posted' -> Nat] /\ \A x \in Membership!Posted : s2'[x] = s2[x]
      BY <2>1, <2>2, <2>3 DEF Membership!Posted
    <2>5. \A x \in Membership!Posted' : s2'[x] <= s1
      BY <2>2, <2>3, <2>4
    <2>6. MemTyped'
      BY <1>0, <2>1, <2>4, <2>5 DEF MemTyped
    <2>7. MemCounted'
      <3>1. \A x \in Membership!Posted : x \in Activities /\ Membership!Classify(x, s1)' = Membership!Classify(x, s1)
        BY <1>0, <2>1, <2>4, MemClassSame DEF MemTyped
      <3> QED BY <1>0, <2>1, <3>1 DEF MemCounted, MemTyped
    <2> QED BY <1>0, <2>1, <2>6, <2>7 DEF MemInv, MemPass, MemCheckpoints, Membership!Sealed
  <1>5. ASSUME NEW a \in Activities, Membership!Link(a) PROVE MemInv'
    <2>1. /\ UNCHANGED <<s1, s2, s4, s5, s6, s7, s8, s9>>
          /\ s3' = s3 \cup {a} /\ a \in OwnActivities \ s3
      BY <1>5 DEF Membership!Link, Membership!generation
    <2>2. MemTyped' /\ MemPass'
      BY <1>0, <2>1 DEF MemTyped, MemPass, Membership!Posted
    <2>3. ~Membership!Sealed
      BY <1>0, <2>1 DEF MemCheckpoints
    <2>4. \A x \in Activities : Membership!Classify(x, s1) \in Membership!Resolved => Membership!Classify(x, s1)' = Membership!Classify(x, s1)
      BY <2>1, <2>3 DEF Membership!Classify, Membership!Sealed, Membership!Resolved, Membership!Eligible
    <2>5. MemCounted'
      BY <1>0, <2>1, <2>4 DEF MemCounted
    <2> QED BY <1>0, <2>1, <2>2, <2>3, <2>5 DEF MemInv, MemCheckpoints, Membership!Sealed
  <1> QED BY <1>1, <1>2, <1>3, <1>4, <1>5

\* The pass up to its last page.
LEMMA MemReads ==
    ASSUME MemInv, Membership!ReadTail \/ Membership!ReadPage
    PROVE  MemInv'
  <1>0. MemTyped /\ MemPass /\ MemCheckpoints /\ MemCounted
    BY DEF MemInv
  <1>a. /\ s6.at \in {"rest", "paging", "read"} /\ s6.rows \subseteq Membership!Posted /\ s6.begun \subseteq Membership!Posted
        /\ Membership!Posted \subseteq Activities /\ s6.token \in Nat
        /\ s6 \in [at : {"rest", "paging", "read"}, tail : SUBSET Activities, rows : SUBSET Activities, token : Nat, begun : SUBSET Activities]
    BY <1>0 DEF MemTyped
  <1>b. UNCHANGED <<s1, s2, s3, s4, s5, s7, s8, s9>> /\ Membership!Posted' = Membership!Posted
    BY MemOperators DEF Membership!ReadTail, Membership!generation, Membership!Posted
  <1>1. MemCounted' /\ MemCheckpoints'
    BY <1>0, <1>b, MemClassSame DEF MemCounted, MemCheckpoints, Membership!Sealed
  <1>2. CASE Membership!ReadTail
    <2>1. /\ s6.at = "rest" /\ s4 # Membership!NoCheckpoint
          /\ s6' = [at |-> "paging", rows |-> {}, token |-> 0, begun |-> Membership!Posted, tail |-> s6'.tail]
          /\ s6'.tail \subseteq Activities
      BY <1>2, <1>a DEF Membership!ReadTail
    <2>2. \A a \in Membership!Posted : ~(a <= 0)
      <3>1. Activities \subseteq Nat \ {0}
        BY MembershipAssumed, MemOperators
      <3> QED BY <1>a, <3>1
    <2>3. s6'.at = "paging" /\ s6'.rows = {} /\ s6'.token = 0 /\ s6'.begun = Membership!Posted
      BY <2>1
    <2>4. MemPass'
      BY <1>0, <1>b, <2>1, <2>2, <2>3 DEF MemPass, MemTyped
    <2>5. s6' \in [at : {"rest", "paging", "read"}, tail : SUBSET Activities, rows : SUBSET Activities, token : Nat, begun : SUBSET Activities]
      BY <1>a, <2>1
    <2>6. MemTyped'
      BY <1>0, <1>b, <2>3, <2>5 DEF MemTyped
    <2> QED BY <1>1, <2>4, <2>6 DEF MemInv
  <1>3. CASE Membership!ReadPage
    <2>1. /\ s6.at = "paging"
          /\ s6' = [s6 EXCEPT !.rows = s6.rows \cup Membership!NextPage, !.at = IF Membership!Terminal THEN "read" ELSE "paging",
                                  !.token = IF Membership!Terminal THEN s6.token ELSE Max(Membership!NextPage)]
      BY <1>3, MemOperators
    <2>2. /\ s6'.at = IF Membership!Terminal THEN "read" ELSE "paging"
          /\ s6'.rows = s6.rows \cup Membership!NextPage /\ s6'.begun = s6.begun /\ s6'.tail = s6.tail
          /\ s6'.token = IF Membership!Terminal THEN s6.token ELSE Max(Membership!NextPage)
      BY <1>a, <2>1
    <2>3. Membership!NextPage \subseteq Membership!Posted /\ s6'.token \in Nat
      BY <1>0, <1>a, <2>2, MemPage
    <2>4. s6' \in [at : {"rest", "paging", "read"}, tail : SUBSET Activities, rows : SUBSET Activities, token : Nat, begun : SUBSET Activities]
      <3>1. s6.rows \cup Membership!NextPage \in SUBSET Activities
        BY <1>a, <2>3
      <3>2. (IF Membership!Terminal THEN "read" ELSE "paging") \in {"rest", "paging", "read"}
        OBVIOUS
      <3>3. (IF Membership!Terminal THEN s6.token ELSE Max(Membership!NextPage)) \in Nat
        BY <2>2, <2>3
      <3> QED BY <1>a, <2>1, <3>1, <3>2, <3>3
    <2>5. MemTyped'
      BY <1>0, <1>b, <2>2, <2>3, <2>4 DEF MemTyped
    <2>6. \A a \in Membership!Posted : a \in Nat
      <3>1. Activities \subseteq Nat \ {0}
        BY MembershipAssumed, MemOperators
      <3> QED BY <1>a, <3>1
    <2>7. \A a \in s6.begun : a <= s6.token => a \in s6.rows
      BY <1>0, <2>1 DEF MemPass
    <2>8. CASE Membership!Terminal
      <3>1. ASSUME NEW a \in s6.begun PROVE a \in s6'.rows
        <4>1. a > s6.token => a \in Membership!NextPage
          BY <1>0, <1>a, <2>8, MemPage
        <4>2. a > s6.token \/ a <= s6.token
          BY <1>a, <2>6
        <4> QED BY <2>2, <2>7, <4>1, <4>2
      <3>2. s6'.at = "read"
        BY <2>2, <2>8
      <3> QED BY <1>0, <1>1, <1>b, <2>1, <2>2, <2>5, <3>1, <3>2 DEF MemInv, MemPass
    <2>9. CASE ~Membership!Terminal
      <3>1. s6'.at = "paging" /\ s6'.token = Max(Membership!NextPage)
        BY <2>2, <2>9
      <3>2. ASSUME NEW a \in s6.begun, a <= s6'.token PROVE a \in s6'.rows
        <4>1. a > s6.token => a \in Membership!NextPage
          BY <1>0, <1>a, <2>9, <3>1, <3>2, MemPage
        <4>2. a > s6.token \/ a <= s6.token
          BY <1>a, <2>6
        <4> QED BY <2>2, <2>7, <4>1, <4>2
      <3> QED BY <1>0, <1>1, <1>b, <2>1, <2>2, <2>5, <3>1, <3>2 DEF MemInv, MemPass
    <2> QED BY <2>8, <2>9
  <1> QED BY <1>2, <1>3

\* The record a pass ends with counts again what was counted, and the same way.
LEMMA MemAccepts ==
    ASSUME MemInv, Membership!Accept
    PROVE  MemInv' /\ \A a \in Activities : s7[a] \in Membership!Resolved => s7'[a] = s7[a]
  <1>0. MemTyped /\ MemPass /\ MemCheckpoints /\ MemCounted
    BY DEF MemInv
  <1>1. /\ UNCHANGED <<s1, s2, s3, s4, s5>> /\ s6.at = "read" /\ s6' = Membership!Resting
        /\ Membership!Posted' = Membership!Posted
    BY DEF Membership!Accept, Membership!generation, Membership!Posted
  <1>2. \A a \in Activities : Membership!Classify(a, s1)' = Membership!Classify(a, s1)
    BY <1>1, MemClassSame
  <1>3. \A a \in Activities : Membership!Classify(a, s1) \in {"none", "unresolved", "in", "late", "pre", "post"}
    BY DEF Membership!Classify
  <1>4. s8 \subseteq s6.rows /\ s6.begun \subseteq s6.rows /\ s4 # Membership!NoCheckpoint /\ s6.rows \subseteq Membership!Posted
    BY <1>0, <1>1 DEF MemPass, MemTyped
  <1>5. \/ UNCHANGED <<s7, s8, s9>>
        \/ /\ s7' = [a \in Activities |-> IF a \in s6.rows THEN Membership!Classify(a, s1) ELSE s7[a]]
           /\ s8' = s6.rows /\ s9' = s9
    <2>1. CASE ~(s6.tail \subseteq s6.rows)
      BY <2>1 DEF Membership!Accept
    <2>2. CASE s6.tail \subseteq s6.rows
      <3>1. s7' = [a \in Activities |-> IF a \in s6.rows THEN Membership!Classify(a, s1) ELSE s7[a]]
        BY <2>2 DEF Membership!Accept
      <3>2. s8' = s6.rows /\ s9' = (s9 \/ ~(s6.begun \subseteq s6.rows))
        BY <2>2 DEF Membership!Accept
      <3>3. s9' = s9
        <4>1. s9 = FALSE /\ (s6.begun \subseteq s6.rows)
          BY <1>0, <1>4 DEF MemCheckpoints
        <4> QED BY <3>2, <4>1
      <3> QED BY <3>1, <3>2, <3>3
    <2> QED BY <2>1, <2>2
  <1>6. \A a \in Activities : s7[a] \in Membership!Resolved => s7'[a] = s7[a]
    <2>1. \A a \in Activities : s7[a] \in Membership!Resolved => s7[a] = Membership!Classify(a, s1)
      BY <1>0 DEF MemCounted
    <2> QED BY <1>5, <2>1
  <1>7. MemPass'
    BY <1>1 DEF MemPass, Membership!Resting
  <1>8. MemTyped'
    <2>1. s7' \in [Activities -> {"none", "unresolved", "in", "late", "pre", "post"}]
      BY <1>0, <1>3, <1>5 DEF MemTyped
    <2>2. s8' \subseteq Membership!Posted
      BY <1>0, <1>4, <1>5 DEF MemTyped
    <2>3. Membership!Resting \in [at : {"rest", "paging", "read"}, tail : SUBSET Activities, rows : SUBSET Activities, token : Nat, begun : SUBSET Activities]
          /\ Membership!Resting.rows = {} /\ Membership!Resting.begun = {}
      BY DEF Membership!Resting
    <2> QED BY <1>0, <1>1, <2>1, <2>2, <2>3 DEF MemTyped
  <1>9. MemCheckpoints'
    <2>1. s9' = s9
      BY <1>5
    <2> QED BY <1>0, <1>1, <1>4, <2>1 DEF MemCheckpoints, Membership!Sealed
  <1>10. MemCounted'
    <2>1. ASSUME NEW a \in Activities, s7'[a] \in Membership!Resolved PROVE a \in s8' /\ s7'[a] = Membership!Classify(a, s1)
      <3>1. CASE UNCHANGED <<s7, s8, s9>>
        BY <1>0, <2>1, <3>1 DEF MemCounted
      <3>2. CASE /\ s7' = [x \in Activities |-> IF x \in s6.rows THEN Membership!Classify(x, s1) ELSE s7[x]]
                 /\ s8' = s6.rows /\ s9' = s9
        <4>1. a \notin s6.rows => s7'[a] = s7[a]
          BY <3>2
        <4>2. a \in s6.rows
          BY <1>0, <1>4, <2>1, <4>1 DEF MemCounted
        <4> QED BY <3>2, <4>2
      <3> QED BY <1>5, <3>1, <3>2
    <2> QED BY <1>2, <2>1 DEF MemCounted, Membership!Resolved, Membership!Eligible
  <1> QED BY <1>6, <1>7, <1>8, <1>9, <1>10 DEF MemInv

\* The seal has the rows of the record: each of them is counted as it was.
LEMMA MemSeals ==
    ASSUME MemInv, Membership!Seal
    PROVE  MemInv'
  <1>0. MemTyped /\ MemPass /\ MemCheckpoints /\ MemCounted
    BY DEF MemInv
  <1>1. /\ UNCHANGED <<s1, s2, s3, s4, s6, s7, s8, s9>> /\ s4 # Membership!NoCheckpoint
        /\ ~Membership!Sealed /\ OwnActivities \subseteq s3 /\ s5' = [at |-> s1, rows |-> s8] /\ Membership!Posted' = Membership!Posted
    BY DEF Membership!Seal, Membership!Posted
  <1>2. s1 # 0 /\ s1 \in Nat /\ s8 \subseteq Activities
    BY <1>0 DEF MemTyped
  <1>3. s5' # Membership!NoCheckpoint /\ s5'.rows = s8 /\ Membership!Sealed'
    BY <1>1, <1>2 DEF Membership!NoCheckpoint, Membership!Sealed
  <1>4. ASSUME NEW a \in s8 PROVE Membership!Classify(a, s1)' = Membership!Classify(a, s1)
    BY <1>1, <1>3, <1>4 DEF Membership!Classify
  <1>5. MemTyped'
    BY <1>0, <1>1, <1>2 DEF MemTyped
  <1>6. MemCounted'
    BY <1>0, <1>1, <1>4 DEF MemCounted
  <1> QED BY <1>0, <1>1, <1>3, <1>5, <1>6 DEF MemInv, MemPass, MemCheckpoints

LEMMA MemStep == MemInv /\ [Membership!Next]_Membership!vars => MemInv'
  <1> SUFFICES ASSUME MemInv, [Membership!Next]_Membership!vars PROVE MemInv'
    OBVIOUS
  <1>1. CASE UNCHANGED Membership!vars
    <2>1. UNCHANGED <<s1, s2, s3, s4, s5, s6, s7, s8, s9>> /\ Membership!Posted' = Membership!Posted
      BY <1>1 DEF Membership!vars, Membership!Posted
    <2> QED BY <2>1, MemClassSame DEF MemInv, MemTyped, MemPass, MemCheckpoints, MemCounted, Membership!Sealed
  <1> QED BY <1>1, MemSurroundings, MemReads, MemAccepts, MemSeals DEF Membership!Next

\* Only a pass counts.
LEMMA MemKeeps == MemInv /\ [Membership!Next]_Membership!vars => Membership!ResolvedStays
  <1> SUFFICES ASSUME MemInv, [Membership!Next]_Membership!vars PROVE Membership!ResolvedStays
    OBVIOUS
  <1>1. s7' = s7 \/ Membership!Accept
    BY MemOperators DEF Membership!Next, Membership!vars, Membership!Tick, Membership!Post, Membership!Link,
          Membership!Open, Membership!ReadTail, Membership!Fail, Membership!Seal
  <1> QED BY <1>1, MemAccepts DEF Membership!ResolvedStays

LEMMA MemSafe == MemInv => Membership!PopulationIsComplete
  <1> SUFFICES ASSUME MemInv PROVE Membership!PopulationIsComplete
    OBVIOUS
  <1>1. ASSUME NEW a \in Activities, s7[a] \in Membership!Eligible PROVE s2[a] >= s4.at /\ a \notin s4.rows
    <2>1. a \in Membership!Posted /\ s7[a] = Membership!Classify(a, s1)
      BY <1>1 DEF MemInv, MemCounted, MemTyped, Membership!Resolved
    <2>2. s2[a] \in Nat /\ s4.at \in Nat
      BY <2>1 DEF MemInv, MemTyped
    <2>3. a \notin s4.rows /\ ~(s2[a] < s4.at)
      BY <1>1, <2>1 DEF Membership!Classify, Membership!Eligible
    <2> QED BY <2>2, <2>3
  <1> QED BY <1>1 DEF Membership!PopulationIsComplete, MemInv, MemCheckpoints

-----------------------------------------------------------------------------
(* The theorems of Components.                                               *)

\* A step of Components is a step of its topic's component.
LEMMA StepOfTopic ==
    ASSUME [Next]_vars
    PROVE  /\ topic' = topic
           /\ topic = "order" => [Order!Next]_Order!vars
           /\ topic = "sell" => [Sell!Next]_Sell!vars
           /\ topic = "exposure" => [View!Next]_View!vars
           /\ topic = "entry" => [Entry!Next]_Entry!vars
           /\ topic = "quarantine" => [Quarantine!Next]_Quarantine!vars
           /\ topic = "adoption" => [Adoption!Next]_Adoption!vars
           /\ topic = "calendar" => [Calendar!Next]_Calendar!vars
           /\ topic = "verification" => [Generation!Next]_Generation!vars
           /\ topic = "membership" => [Membership!Next]_Membership!vars
  <1>1. CASE Next
    BY <1>1 DEF Next, SellNext, ViewNext, EntryNext, GenerationNext, QuarantineNext, AdoptionNext,
                CalendarNext, MembershipNext, OrderNext
  <1>2. CASE UNCHANGED vars
    BY <1>2 DEF vars, Order!vars, Sell!vars, Sell!broker, Sell!settlement, View!vars, Entry!vars, Quarantine!vars,
                Adoption!vars, Calendar!vars, Generation!vars, Membership!vars
  <1> QED BY <1>1, <1>2

LEMMA InitOfTopic ==
    ASSUME Init
    PROVE  /\ topic = "order" => Order!Init
           /\ topic = "sell" => Sell!Init
           /\ topic = "exposure" => View!Init
           /\ topic = "entry" => Entry!Init
           /\ topic = "quarantine" => Quarantine!Init
           /\ topic = "adoption" => Adoption!Init
           /\ topic = "calendar" => Calendar!Init
           /\ topic = "verification" => Generation!Init
           /\ topic = "membership" => Membership!Init
  BY DEF Init, SellInit, ViewInit, EntryInit, GenerationInit, QuarantineInit, AdoptionInit, CalendarInit,
         MembershipInit, OrderInit

\* attribute_order_fills, one call at a time: what could not be compared is not
\* booked, a disputed order stays held, and its latch does not outlive the hold.
THEOREM DisputedOrdersAreHeld ==
    ASSUME ~CallsOverlap
    PROVE  Spec => OrderIsHeld
  <1> DEFINE Inv == topic = "order" => OrderInv
  <1>1. Init => Inv
    BY InitOfTopic, OrderInitHolds
  <1>2. Inv /\ [Next]_vars => Inv'
    BY StepOfTopic, OrderStep
  <1>3. Inv => (topic = "order" => Order!BookedIsConfirmed /\ Order!LatchIsHeld)
    BY DEF OrderInv, OrderCovered, Order!BookedIsConfirmed
  <1>4. Inv /\ [Next]_vars => [topic = "order" => Order!HoldStays]_vars
    BY StepOfTopic, OrderDisputeKept DEF Order!HoldStays
  <1> QED BY <1>1, <1>2, <1>3, <1>4, PTL DEF Spec, OrderIsHeld

\* _authorize_sell, whatever lags and whatever happens between its reads, except
\* a whole reconciliation pass.
THEOREM SellsTakeNoMoreThanIsFree ==
    ASSUME ~PassBetween
    PROVE  Spec => []SellWithinFree
  <1> DEFINE Inv == topic = "sell" => SellInv
  <1>1. Init => Inv
    BY InitOfTopic, SellInitHolds
  <1>2. Inv /\ [Next]_vars => Inv'
    BY StepOfTopic, SellStep
  <1>3. Inv => SellWithinFree
    BY SellSafe DEF SellWithinFree
  <1> QED BY <1>1, <1>2, <1>3, PTL DEF Spec

\* build_portfolio_view, whatever fills, is attributed or settles while it reads:
\* no unit bought or on order is missing, and with nothing moving each counts once.
THEOREM ExposureMissesNothing == Spec => []ExposureIsCounted
  <1> DEFINE Inv == topic = "exposure" => ViewInv
  <1>1. Init => Inv
    BY InitOfTopic, ViewInitHolds
  <1>2. Inv /\ [Next]_vars => Inv'
    BY StepOfTopic, ViewStep
  <1>3. Inv => ExposureIsCounted
    BY ViewSafe DEF ExposureIsCounted
  <1> QED BY <1>1, <1>2, <1>3, PTL DEF Spec

\* _authorize_entry, evaluate_risk and _shape_entry, whatever has filled, been
\* canceled or sold, and whatever prices and profile are in force: a buy is the
\* largest that keeps within every limit, and what all pending buys may cost is there.
THEOREM BuysFit == Spec => []BuysFitTheirLimits
  <1> DEFINE Inv == topic = "entry" => BuyInv
  <1>1. Init => Inv
    BY InitOfTopic, BuyInit
  <1>2. Inv /\ [Next]_vars => Inv'
    BY StepOfTopic, BuyStep
  <1>3. Inv => BuysFitTheirLimits
    BY BuySafe DEF BuysFitTheirLimits
  <1> QED BY <1>1, <1>2, <1>3, PTL DEF Spec

\* `quarantine resolve` and `reset-integrity`, however commands and settlement
\* overlap: every unit is in one place, and the session is never reset over an
\* open record.
THEOREM QuarantineBooks == Spec => QuarantineIsExact
  <1> DEFINE Inv == topic = "quarantine" => QuarInv
  <1>1. Init => Inv
    BY InitOfTopic, QuarInit
  <1>2. Inv /\ [Next]_vars => Inv'
    BY StepOfTopic, QuarStep
  <1>3. Inv => (topic = "quarantine" => Quarantine!QuarantineBalances)
    BY DEF QuarInv
  <1>4. Inv /\ [Next]_vars => [topic = "quarantine" => Quarantine!ResetFindsNothingOpen]_vars
    BY StepOfTopic, ResetIsClean
  <1> QED BY <1>1, <1>2, <1>3, <1>4, PTL DEF Spec, QuarantineIsExact

\* PositionMonitor's adoption and settlement, whatever cycles overlap: an asset has
\* one adopted lot at most, and beside it a managed one only if settlement had
\* read before the adoption.
THEOREM OriginsStayApart == Spec => []OneOrigin
  <1> DEFINE Inv == topic = "adoption" => AdoptInv
  <1>1. Init => Inv
    BY InitOfTopic, AdoptInit
  <1>2. Inv /\ [Next]_vars => Inv'
    BY StepOfTopic, AdoptStep
  <1>3. Inv => OneOrigin
    BY AdoptSafe DEF OneOrigin
  <1> QED BY <1>1, <1>2, <1>3, PTL DEF Spec

\* verify_market_status and session_deadline, whatever lanes overlap, lag, are
\* interrupted or crash and whatever the broker answers: an entry stands on a whole
\* and fresh check that nothing later contradicts, and a deadline counted in doubt
\* is never late.
THEOREM EntriesStandOnChecks == Spec => []CalendarSound
  <1> DEFINE Inv == topic = "calendar" => CalInv
  <1>1. Init => Inv
    BY InitOfTopic, CalInit
  <1>2. Inv /\ [Next]_vars => Inv'
    BY StepOfTopic, CalStep
  <1>3. Inv => CalendarSound
    BY CalSafe DEF CalendarSound
  <1> QED BY <1>1, <1>2, <1>3, PTL DEF Spec

\* freeze, run, reconcile, status, verify and the population of a generation, with
\* any processes, wherever they die: what is bound is complete and exact, a
\* condemned generation never passes, the seal takes all the evidence, and a
\* population lacks nothing and is never recounted.
THEOREM GenerationsStand ==
    ASSUME Unlocked = {}, ~BrokerLags
    PROVE  Spec => GenerationIsWhole
  <1> DEFINE Inv == (topic = "verification" => GenInv) /\ (topic = "membership" => MemInv)
  <1>1. Init => Inv
    BY InitOfTopic, GenInitHolds, MemInitHolds
  <1>2. Inv /\ [Next]_vars => Inv'
    BY StepOfTopic, GenStep, MemStep
  <1>3. Inv => /\ topic = "verification" => Generation!GenerationIsSound
               /\ topic = "membership" => Membership!PopulationIsComplete
    BY GenSafe, MemSafe
  <1>4. Inv /\ [Next]_vars =>
            /\ [topic = "verification" => Generation!SealTakesAll]_vars
            /\ [topic = "membership" => Membership!ResolvedStays]_vars
    BY StepOfTopic, GenSealed, MemKeeps
  <1> QED BY <1>1, <1>2, <1>3, <1>4, PTL DEF Spec, GenerationIsWhole
=============================================================================
