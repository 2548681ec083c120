------------------------- MODULE MCFusionOptimizer -------------------------
(* Six units, held as six outputs of 1 or as four of 1 and one of 2, with  *)
(* fusion transactions of two or three inputs: a batch of up to three      *)
(* fusion transactions, so the poll erases in the middle of the vector and *)
(* reads its stale tail; full_optimize runs several rounds.                *)
EXTENDS FusionOptimizer

MCTotal == 6
MCInitialOutputs ==
    {[a \in 1..6 |-> IF a = 1 THEN 6 ELSE 0],
     [a \in 1..6 |-> CASE a = 1 -> 4 [] a = 2 -> 1 [] OTHER -> 0]}
MCMinFee == 1
MCMinInputs == 2
MCMaxInputs == 3
=============================================================================
