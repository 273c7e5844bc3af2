----------------------------- MODULE SignedLots -----------------------------
(***************************************************************************)
(* The FIFO lot planner (tradepulse/settlement/lots.py), as operators.     *)
(* A lot is named by the fill that opened it                               *)
(* (position_lots.originating_fill_id is UNIQUE).  Prices are left out: a  *)
(* closure's realized PnL is a function of the lot, the fill and the       *)
(* quantity, so the quantities stand for it.                               *)
(***************************************************************************)
EXTENDS Integers, Functions, SequencesExt

Lesser(a, b) == IF a <= b THEN a ELSE b

-----------------------------------------------------------------------------
(* What the planner promises, over lots with `remaining` units opened in    *)
(* `rank` order (opened_at), for a fill that still needs `need` units.      *)

\* Never more than a lot holds, nothing from a lot unless every older lot is
\* exhausted, and as much of the need as the lots can give.
IsFifoTake(remaining, rank, need, take) ==
    LET L == DOMAIN remaining IN
    /\ DOMAIN take = L
    /\ \A l \in L : take[l] \in 0 .. remaining[l]
    /\ \A l, k \in L : (take[l] > 0 /\ rank[k] < rank[l]) => take[k] = remaining[k]
    /\ SumFunction(take) = Lesser(need, SumFunction(remaining))

-----------------------------------------------------------------------------
(* What the planner does: the loop of plan_signed_lot_fill.                 *)

\* Mutant: a closure takes the whole lot.
CloseOldestWhole(remaining, acc, l) ==
    IF acc.need <= 0 \/ remaining[l] <= 0 THEN acc
    ELSE [need |-> acc.need - remaining[l], take |-> [acc.take EXCEPT ![l] = remaining[l]]]

\* One turn of the loop: close as much of lot l as is left to allocate.
CloseOldest(remaining, acc, l) ==
    LET quantity == Lesser(remaining[l], acc.need) IN
    IF acc.need <= 0 \/ quantity <= 0 THEN acc
    ELSE [need |-> acc.need - quantity, take |-> [acc.take EXCEPT ![l] = quantity]]

\* The loop over the open opposite lots, oldest first.  The need that is left
\* over opens a lot (or, for a sell, becomes a short-exposure liability).
PlanLoop(remaining, rank, need) ==
    LET L == DOMAIN remaining
        oldestFirst == SetToSortSeq(L, LAMBDA a, b : rank[a] < rank[b])
    IN  FoldLeft(LAMBDA acc, l : CloseOldest(remaining, acc, l),
                 [need |-> need, take |-> [l \in L |-> 0]], oldestFirst)

\* Mutant: a resumed run does not see its own closures.
SpentByOpening(closedByFill, openedByFill) == openedByFill

\* Replay protection: what the fill has already closed or opened counts as
\* spent, so that a resumed run plans only the rest.
Spent(closedByFill, openedByFill) == SumFunction(closedByFill) + openedByFill
=============================================================================
