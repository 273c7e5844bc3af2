---------------------------- MODULE MCSignedLots ----------------------------
(***************************************************************************)
(* One sell fill against lots of every size and age: project_lot plans,    *)
(* closes lot by lot in separate transactions, and may be interrupted and  *)
(* planned again from the closures it left behind before any of them.      *)
(***************************************************************************)
EXTENDS SignedLots, FiniteSets

CONSTANTS Lots, MaxUnits, MaxQuantity

VARIABLES
    rank,      \* opened_at order of the lots
    opened,    \* units of each lot when the fill arrived
    quantity,  \* units of the fill
    closed     \* units of each lot that the fill has closed so far

vars == <<rank, opened, quantity, closed>>

Left == [l \in Lots |-> opened[l] - closed[l]]
Plan == PlanLoop(Left, rank, quantity - Spent(closed, 0))

Init ==
    /\ rank \in {r \in [Lots -> 1 .. Cardinality(Lots)] : \A l, k \in Lots : r[l] = r[k] => l = k}
    /\ opened \in [Lots -> 0 .. MaxUnits]
    /\ quantity \in 1 .. MaxQuantity
    /\ closed = [l \in Lots |-> 0]

\* The first closure of a fresh plan, oldest lot first.
Next ==
    /\ \E l \in Lots :
        /\ Plan.take[l] > 0
        /\ \A k \in Lots : Plan.take[k] > 0 => rank[l] <= rank[k]
        /\ closed' = [closed EXCEPT ![l] = @ + Plan.take[l]]
    /\ UNCHANGED <<rank, opened, quantity>>

Spec == Init /\ [][Next]_vars

\* The loop of plan_signed_lot_fill computes the only FIFO allocation there
\* is, and reports exactly the rest of the fill as not covered.
PlanIsTheOnlyFifoTake ==
    LET need == quantity - SumFunction(closed) IN
    /\ {t \in [Lots -> 0 .. MaxUnits] : IsFifoTake(Left, rank, need, t)} = {Plan.take}
    /\ Plan.need = need - SumFunction(Plan.take)

\* However often project_lot is interrupted and planned again, the lots end up
\* closed exactly as one uninterrupted run would have closed them.
ReplayIsExact ==
    LET whole == PlanLoop(opened, rank, quantity).take IN
    \A l \in Lots : closed[l] + Plan.take[l] = whole[l]

\* What a sell takes from the lots, planned once or again and again.
PlansAreExact == PlanIsTheOnlyFifoTake /\ ReplayIsExact
=============================================================================
