---------------------------- MODULE MCWalletSync ----------------------------
(* A small instance of WalletSync for TLC: a chain of three blocks, two   *)
(* wallet transactions, and the thresholds of the stuck detection and the *)
(* periodic save scaled down so that they are crossed.                     *)
EXTENDS WalletSync

MCMaxHeight == 3
MCMaxTx == 2
MCSavePeriod == 2
MCStuckSaveAfter == 1
MCStuckWarnAfter == 2
MCStuckCap == 3
=============================================================================
