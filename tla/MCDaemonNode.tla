---------------------------- MODULE MCDaemonNode ----------------------------
(* Command lines with and without the console, a checkpoint file, a long  *)
(* node id and each kind of fee address, the default --log-level; set_log *)
(* and ban arguments at their edges.                                       *)
EXTENDS DaemonNode

MCOptions ==
    [early : {"none", "help", "version"}, console : BOOLEAN,
     checkpoints : {"default", "file"}, logLevel : {2},
     nodeIdLong : BOOLEAN, feeAddr : {"none", "good", "bad"},
     feeAmount : {0, -1}]
MCLogArgs == {-1, 0, 5, 65535}
MCBanArgs == [ip : {"ok"}, secs : {"absent", "given"}, n : {0, 60}]
MCGarbage == {0, 7}
MCMaxCommands == 2
MCMaxSignals == 2
=============================================================================
