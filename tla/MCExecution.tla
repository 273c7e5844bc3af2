------------------------------ MODULE MCExecution ------------------------------
(***************************************************************************)
(* Two scan lanes and a monitor lane; a buyer and the monitor share asset  *)
(* X.  Two of the lanes run at a time: the two buyers, which compete for   *)
(* the cash, or the buyer and the monitor that compete for X.  The         *)
(* operator stops and starts trading in the second case only.              *)
(***************************************************************************)
EXTENDS Execution

CONSTANTS b1, b2, m1, X, Y

MCAssetOf == [l \in {b1, b2, m1} |-> IF l = b2 THEN Y ELSE X]

VARIABLE away   \* the lane that is not running

MCInit == Init /\ away \in {b2, m1}
MCNext == Next /\ pc'[away] = "idle" /\ (away = m1 => session' = "active") /\ UNCHANGED away
MCSpec == MCInit /\ [][MCNext]_<<vars, away>> /\ Fairness

=============================================================================
