------------------------------ MODULE MCMonitor ------------------------------
(* Positions of one and two units between a stop one below and a final target *)
(* two above the average price.  Reconciliation repairs rows on the first day, *)
(* while the market is open and nothing has failed. *)
EXTENDS Monitor

MCPrices == 1..4
MCEntryPrices == {2}
MCTwoEntryPrices == {2, 3}

Within == rebuild # NoRebuild \/ rebuilt => faults = 0 /\ lot.age = 0 /\ market.open

MCNext == Next /\ Within'
MCSpec == Init /\ [][MCNext]_vars /\ Fairness
=============================================================================
