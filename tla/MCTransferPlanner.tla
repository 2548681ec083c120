-------------------------- MODULE MCTransferPlanner --------------------------
(* A 4-bit uint64_t, a fee floor of 2, and wallets of 6 and 12 units: a    *)
(* split of a twice too large transaction makes 4 transfers of fee 2, so   *)
(* 6 is short of its total fee, 12 covers an amount of 2 with room and an  *)
(* amount of 4 exactly.                                                    *)
EXTENDS TransferPlanner

MCModulus == 16
MCMinFee == 2
MCBalances == {6, 12}
MCAmounts == {2, 4}
MCFees == {3}
MCMixins == {1}
MCDefaultMixin == 0
MCSizeChunks == {2}
MCWaitTicks == 1

=============================================================================
