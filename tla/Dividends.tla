------------------------------- MODULE Dividends -------------------------------
(***************************************************************************)
(* Dividends of one stock: their cash, and to whom it is attributed.       *)
(*                                                                         *)
(* The fee pass records the cash of every receipt once and leaves its      *)
(* attribution open.  The attribution pass takes a snapshot, fetches the   *)
(* announcements, and decides the groups (an income and the withholdings   *)
(* of its credit date, or the reversal of both) one after the other, each  *)
(* in a transaction of its own: the shares held when the stock went        *)
(* ex-dividend, by TradePulse's lots or inherited, divide the amount.      *)
(* Days are numbered; amounts are cents.                                   *)
(***************************************************************************)
EXTENDS Integers, FiniteSetsExt

CONSTANTS
    Receipts,       \* of the broker, numbered in the order of their ids
    Kind,           \* [Receipts -> {"income", "withholding", "unsupported"}]
    Reverses,       \* [Receipts -> the receipt it reverses, or 0]
    Credit,         \* [Receipts -> day]
    Amount, Units, Rate,    \* of receipts; Rate is cents a share
    Announcements, Ex, Payable, RateOf,
    Lots,           \* [lot -> [opened, quantity, closures]], times are [day, evening]
    Opened, Opening,    \* the bound checkpoint's day (0: none) and the shares in it
    Foreign,        \* the day of a transfer of shares, 0: none
    Representation, \* DIVIDEND_REPRESENTATION: "gross" or "unknown"
    LastDay,
    ReversalAfter   \* a reversal posts whole, and only when its original is attributed

VARIABLES
    posted,     \* receipts at the broker
    status,     \* [Receipts -> "none", "pending", "unresolved", "verified", "excluded"]
    used,       \* [Receipts -> the announcement of an attributed receipt, or 0]
    rows,       \* dividend_attributions
    announced, stored,  \* announcements at the broker, and here
    observed,   \* the day through which the activity population is complete
    late,       \* receipts whose escalation deadline is over
    pass        \* the attribution pass: its snapshot and the groups to do

vars == <<posted, status, used, rows, announced, stored, observed, late, pass>>
world == <<posted, announced, observed, late>>
attribution == <<used, rows>>

OpenStatuses == {"pending", "unresolved"}
Settled == {"verified", "excluded"}
Resting == [at |-> "rest", receipts |-> {}, open |-> {}, rows |-> {}, todo |-> {}, failed |-> {}]

Sum(f, S) == MapThenSumSet(LAMBDA x : f[x], S)

-----------------------------------------------------------------------------
(* What was held.                                                            *)

\* A fill from 20:00 belongs to the next trading day; on the evening before the
\* ex-date it may be either.
Ambiguous(t, ex) == t.evening /\ t.day = ex - 1
TradeDate(t) == IF t.evening THEN t.day + 1 ELSE t.day
Times(l) == {Lots[l].opened} \cup {c.at : c \in Lots[l].closures}
EligibleStrategy(ex) ==
    [l \in DOMAIN Lots |->
        IF TradeDate(Lots[l].opened) >= ex THEN 0
        ELSE Lots[l].quantity - MapThenSumSet(LAMBDA c : c.quantity,
                 {c \in Lots[l].closures : TradeDate(c.at) < ex})]

\* inherited_quantity, evidence E1
Established(ex) == Opened # 0 /\ Opened < ex /\ observed >= ex /\ ~(Foreign # 0 /\ Foreign < ex)

-----------------------------------------------------------------------------
(* The decision.                                                             *)

Candidates(r, known, consumed) ==
    {a \in known \ consumed : RateOf[a] = Rate[r] /\ Payable[a] <= Credit[r]}

Held(a) == Sum(EligibleStrategy(Ex[a]), DOMAIN Lots)
Explains(a, r) ==
    IF Opened = 0 THEN Held(a) = Units[r]
    ELSE Established(Ex[a]) /\ Held(a) + Opening = Units[r]

AmountCheck(g, income) ==
    /\ Amount[income] = Units[income] * Rate[income]
    /\ -Sum(Amount, g \ {income}) <= Amount[income]

\* Largest remainder: the shares in cents, the cents left over to the largest
\* remainders, ties to the lower holder.
Floor(amount, weights, h) == ((IF amount < 0 THEN -amount ELSE amount) * weights[h]) \div Sum(weights, DOMAIN weights)
Remainder(amount, weights, h) == ((IF amount < 0 THEN -amount ELSE amount) * weights[h]) % Sum(weights, DOMAIN weights)
Signed(amount, n) == IF amount < 0 THEN -n ELSE n
Split(amount, weights) ==
    LET over == (IF amount < 0 THEN -amount ELSE amount)
                    - MapThenSumSet(LAMBDA h : Floor(amount, weights, h), DOMAIN weights)
        before(h) == {k \in DOMAIN weights :
            \/ Remainder(amount, weights, k) > Remainder(amount, weights, h)
            \/ Remainder(amount, weights, k) = Remainder(amount, weights, h) /\ k < h}
    IN [h \in DOMAIN weights |->
           Signed(amount, Floor(amount, weights, h) + IF Cardinality(before(h)) < over THEN 1 ELSE 0)]

\* Holders are lots; 0 stands for the inherited shares, -1 for nobody known.
Inherited == 0
Unallocated == -1
Weights(a) ==
    LET e == EligibleStrategy(Ex[a])
        lots == {l \in DOMAIN Lots : e[l] > 0}
        all == IF Established(Ex[a]) /\ Opening > 0 THEN lots \cup {Inherited} ELSE lots
    IN  [h \in all |-> IF h = Inherited THEN Opening ELSE e[h]]

RowsOf(g, a, weights) ==
    {[activity |-> r, holder |-> h, amount |-> Split(Amount[r], weights)[h]] : r \in g, h \in DOMAIN weights}

Undecided(s) == [status |-> s, announcement |-> 0, rows |-> {}]
Attributed(s, g, a, weights) == [status |-> s, announcement |-> a, rows |-> RowsOf(g, a, weights)]

Entitled(g, a, r) ==
    IF Ex[a] > Payable[a] \/ (\E w \in g \ {r} : Amount[w] >= 0) THEN Undecided("unresolved")
    ELSE IF ~AmountCheck(g, r) THEN Undecided("pending")
    ELSE IF Established(Ex[a])
    THEN IF Weights(a) = <<>> THEN Undecided("unresolved") ELSE Attributed("verified", g, a, Weights(a))
    ELSE IF Held(a) = 0 THEN Attributed("excluded", g, a, [h \in {Unallocated} |-> 1])
    ELSE IF Opened = 0 /\ Held(a) = Units[r] THEN Attributed("verified", g, a, Weights(a))
    ELSE Undecided("unresolved")

Decide(g, known, consumed) ==
    IF \A r \in g : Kind[r] # "income" THEN Undecided("pending") ELSE
    IF Representation = "unknown" THEN Undecided("unresolved") ELSE
    LET r == CHOOSE x \in g : Kind[x] = "income"
        found == Candidates(r, known, consumed)
        exact == {a \in found : Explains(a, r)}
    IN  CASE found = {} -> Undecided("pending")
          [] \E a \in found, l \in DOMAIN Lots : \E t \in Times(l) : Ambiguous(t, Ex[a]) -> Undecided("unresolved")
          [] Cardinality(exact) > 1 -> Undecided("pending")
          [] Cardinality(exact) = 1 -> Entitled(g, CHOOSE a \in exact : TRUE, r)
          [] exact = {} /\ \E a \in found : Opened # 0 /\ Established(Ex[a]) -> Undecided("pending")
          [] exact = {} /\ Cardinality(found) > 1 -> Undecided("unresolved")
          [] OTHER -> Entitled(g, CHOOSE a \in found : TRUE, r)

-----------------------------------------------------------------------------
(* Groups, and reversals.                                                    *)

Key(r) == <<Credit[r], Reverses[r] # 0>>
Groups(S) ==
    LET of(k) == {r \in S : Key(r) = k}
        incomes(k) == {r \in of(k) : Kind[r] = "income"}
        grouped(k) == {r \in of(k) : Kind[r] # "unsupported"}
    IN  UNION {IF Cardinality(incomes(k)) = 1
               THEN {grouped(k)} \cup {{r} : r \in of(k) \ grouped(k)}
               ELSE {{r} : r \in of(k)} : k \in {Key(r) : r \in S}}

\* mirror: every member reverses one member of the original.
Mirrors(g, o) ==
    {f \in [g -> o] : /\ \A r \in g : Kind[f[r]] = Kind[r] /\ Amount[f[r]] = -Amount[r] /\ Units[f[r]] = Units[r]
                      /\ \A r, s \in g : f[r] = f[s] => r = s}
Reverse(g, receipts, known) ==
    LET originals == {o \in Groups(receipts) :
            /\ \A r \in o : Reverses[r] = 0 /\ status[r] \in Settled
            /\ Cardinality(o) = Cardinality(g) /\ Mirrors(g, o) # {}}
    IN  IF Cardinality(originals) # 1 THEN Undecided("unresolved") ELSE
        LET o == CHOOSE x \in originals : TRUE
            f == CHOOSE x \in Mirrors(g, o) : TRUE
            r == CHOOSE x \in o : TRUE
        IN  [status |-> status[r], announcement |-> used[r],
             rows |-> {[activity |-> x[1], holder |-> x[2].holder, amount |-> -x[2].amount] :
                          x \in {y \in g \X known : y[2].activity = f[y[1]]}}]

-----------------------------------------------------------------------------
Init ==
    /\ posted = {} /\ announced = {} /\ stored = {} /\ observed = 0 /\ late = {}
    /\ status = [r \in Receipts |-> "none"] /\ used = [r \in Receipts |-> 0]
    /\ rows = {} /\ pass = Resting

Posting(r) == IF ReversalAfter /\ Reverses[r] # 0 THEN {s \in Receipts : Reverses[s] # 0} ELSE {r}
Post(r) ==
    /\ r \notin posted
    /\ ReversalAfter => \A s \in Posting(r) : Reverses[s] # 0 => status[Reverses[s]] \in Settled
    /\ posted' = posted \cup Posting(r)
    /\ UNCHANGED <<status, attribution, announced, stored, observed, late, pass>>

Announce(a) ==
    /\ a \notin announced /\ announced' = announced \cup {a}
    /\ UNCHANGED <<posted, status, attribution, stored, observed, late, pass>>

\* persist_generation_dividends: in the transaction of the fee pass, every
\* receipt once; the membership record of that pass bounds the population.
RecordAll ==
    /\ \E d \in observed..LastDay : observed' = d
    /\ status' = [r \in Receipts |->
           IF r \in posted /\ status[r] = "none"
           THEN IF Kind[r] = "unsupported" THEN "unresolved" ELSE "pending"
           ELSE status[r]]
    /\ UNCHANGED <<posted, attribution, announced, stored, late, pass>>

Expire(r) ==
    /\ status[r] \in OpenStatuses /\ r \notin late /\ late' = late \cup {r}
    /\ UNCHANGED <<posted, status, attribution, announced, stored, observed, pass>>

\* The snapshot; the announcements are fetched, or the fetch fails.
Begin ==
    LET recorded == {r \in Receipts : status[r] # "none"}
        open == {r \in Receipts : status[r] \in OpenStatuses}
    IN
    /\ pass.at = "rest" /\ open # {}
    /\ stored' \in {stored, stored \cup announced}
    /\ pass' = [at |-> "deciding", receipts |-> recorded, open |-> open, rows |-> rows, failed |-> {},
                todo |-> {g \in Groups(recorded) : g \subseteq open /\ \A r \in g : Kind[r] # "unsupported"}]
    /\ UNCHANGED <<world, status, attribution>>

ConsumedBefore(receipts) == {used[r] : r \in {x \in receipts : \E w \in pass.rows : w.activity = x}}
Consumed(receipts) == {used[r] : r \in {x \in receipts : status[x] \in Settled}}

\* The keys in the order of their first receipts.
First(g) == Min({r \in pass.receipts : \E x \in g : Key(r) = Key(x)})
Next1 == CHOOSE g \in pass.todo : \A h \in pass.todo :
             First(g) < First(h) \/ (First(g) = First(h) /\ Min(g) <= Min(h))
DecideGroup ==
    /\ pass.at = "deciding" /\ pass.todo # {}
    /\ LET g == Next1
           d == IF \E r \in g : Reverses[r] # 0 THEN Reverse(g, pass.receipts, pass.rows)
                ELSE Decide(g, stored, Consumed(pass.receipts))
           settled == d.status \in Settled
       IN
       /\ rows' = rows \cup d.rows
       /\ status' = [r \in Receipts |-> IF r \in g /\ settled THEN d.status ELSE status[r]]
       /\ used' = [r \in Receipts |-> IF r \in g /\ settled THEN d.announcement ELSE used[r]]
       /\ pass' = [pass EXCEPT !.todo = @ \ {g}, !.failed = @ \cup IF d.status = "unresolved" THEN g ELSE {}]
    /\ UNCHANGED <<world, stored>>

Finish ==
    /\ pass.at = "deciding" /\ pass.todo = {} /\ pass' = Resting
    /\ status' = [r \in Receipts |->
           IF r \in pass.open /\ status[r] = "pending" /\ r \in pass.failed \cup late
           THEN "unresolved" ELSE status[r]]
    /\ UNCHANGED <<world, stored, attribution>>

Crash ==
    /\ pass.at = "deciding" /\ pass' = Resting
    /\ UNCHANGED <<world, stored, status, attribution>>

Next ==
    \/ \E r \in Receipts : Post(r) \/ Expire(r)
    \/ \E a \in Announcements : Announce(a)
    \/ RecordAll \/ Begin \/ DecideGroup \/ Finish \/ Crash

Spec == Init /\ [][Next]_vars

-----------------------------------------------------------------------------
\* Every cent of an attributed receipt has a holder, whatever the weights, and
\* reversals take back row for row what was given: strategy income, excluded
\* and unresolved cash together are the cash ledger's dividends.
CashIsPlaced ==
    \A r \in Receipts : status[r] \in Settled =>
        MapThenSumSet(LAMBDA w : w.amount, {w \in rows : w.activity = r}) = Amount[r]

\* One announcement explains one dividend: two incomes of the same rate, in one
\* pass or in two with a crash between them, never claim the same.
AnnouncementOnce ==
    \A r, s \in Receipts :
        /\ r # s /\ Kind[r] = "income" /\ Kind[s] = "income" /\ Reverses[r] = 0 /\ Reverses[s] = 0
        /\ status[r] \in Settled /\ status[s] \in Settled
        => used[r] # used[s]

DividendsPlaced == CashIsPlaced /\ AnnouncementOnce

\* "One income and its withholdings": a withholding that posts when its income
\* is attributed already is decided too.  (It is not: its group is not open.)
WithholdingJoins ==
    pass.at = "rest" => \A r, w \in Receipts :
        Kind[r] = "income" /\ Kind[w] = "withholding" /\ Key(r) = Key(w) /\ status[r] \in Settled
            => status[w] \notin OpenStatuses
=============================================================================
