------------------------ MODULE MCInteractiveSession ------------------------
(* Every command line (no arguments, a wallet file, a password, both), and *)
(* the signal handler on the main thread or on a thread of its own.        *)
EXTENDS InteractiveSession

MCConfigs == [walletGiven : BOOLEAN, passGiven : BOOLEAN]
MCMaxSignals == 2
=============================================================================
