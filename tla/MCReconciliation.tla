-------------------------- MODULE MCReconciliation --------------------------
(* 1: an external buy the broker may book late; 2: a buy of TradePulse just *)
(* like it.                                                                 *)
EXTENDS Reconciliation, TLC

MCIds == 1..2
MCQty == 1 :> 1 @@ 2 :> 1
MCAlike == {<<1, 2>>}
=============================================================================
