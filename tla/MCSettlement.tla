---------------------------- MODULE MCSettlement ----------------------------
(***************************************************************************)
(* Instances of Settlement for TLC.  b1, b2 are buy fills of order o1 and  *)
(* s1, s2, s3 sell fills of order o2, in the order they were executed.     *)
(*                                                                         *)
(* A run explores the union of some scenarios, each a bound on what happens *)
(* around the callers; MCNext is Next within the scenario.                  *)
(***************************************************************************)
EXTENDS Settlement

CONSTANTS b1, b2, s1, s2, s3, o1, o2, Scenarios

VARIABLE scenario

Executed == b1 :> 1 @@ b2 :> 2 @@ s1 :> 3 @@ s2 :> 4 @@ s3 :> 5
BuyFills == Fills \cap {b1, b2}
FillRank == [f \in Fills |-> Executed[f]]
FillOrder == [f \in Fills |-> IF f \in BuyFills THEN o1 ELSE o2]

\* The sell s1 closes b1 and a part of b2, or a part of b2 alone.
AcrossLots == [f \in Fills |-> CASE f = b1 -> 1 [] f = b2 -> 3 [] OTHER -> 2]
\* The sells s2 and s3 close b2 in parts.
InParts == [f \in Fills |-> IF f = b2 THEN 2 ELSE 1]

Within ==
    /\ scenario = "across lots" => fills \subseteq {b1, b2, s1} /\ faults = 0 /\ clock = 0
    /\ scenario = "interrupted" => b1 \notin fills /\ (s1 \in fills => lots[b2].opened > 0)
    /\ scenario = "overlapping" => faults = 0 /\ \A o \in Orders : dispute[o] = NoDispute
    /\ scenario = "alone" => ~overlapped

\* The callers are interchangeable.
AnyCaller == Permutations(Procs)

MCInit == Init /\ scenario \in Scenarios
MCNext == Next /\ UNCHANGED scenario /\ Within'
MCSpec == MCInit /\ [][MCNext]_<<vars, scenario>>
MCFairSpec == MCInit /\ [][MCNext]_<<vars, scenario>> /\ Fairness
=============================================================================
