----------------------------- MODULE DaemonNode -----------------------------
(***************************************************************************)
(* The node daemon of src/src/Daemon/Daemon.cpp: main's start-up with its  *)
(* early returns and exceptions, the P2P loop, the console handler thread  *)
(* that DaemonCommandsHandler feeds (src/src/Daemon/                       *)
(* DaemonCommandsHandler.cpp), the Ctrl+C handler that main installs, and  *)
(* the teardown after the loop.                                            *)
(*                                                                         *)
(* The core, the P2P server (NodeServer), the RPC server and the console   *)
(* handler (Common::ConsoleHandler) are not part of this repository; each  *)
(* is one variable saying whether it is initialised, running or            *)
(* deinitialised.  What the model takes of them: p2psrv.sendStopSignal()   *)
(* makes run() return, whether it comes before or during the loop;         *)
(* dch.stop_handling() asks the console thread to stop and then waits for  *)
(* it; the console thread stops between two commands.  The signal handler  *)
(* runs on a thread of its own, as it does on Windows and whenever the     *)
(* kernel delivers SIGINT to a thread that is not blocked in the loop;     *)
(* before it is installed Ctrl+C kills the process.                        *)
(***************************************************************************)
EXTENDS Integers

CONSTANTS
    Options,     \* the command lines, as records of what main tests
    LogArgs,     \* set_log's argument as a uint16_t, -1 if it does not parse
    BanArgs,     \* ban's arguments after std::stoi and stringToIpAddress
    Garbage,     \* what an uninitialised time_t may hold
    MaxCommands, \* console lines in a behaviour
    MaxSignals   \* Ctrl+C presses in a behaviour

\* Logging::Level: FATAL = 0, ERROR = 1, ..., TRACE = 5.
Error == 1
Trace == 5

UInt16 == 65536

ASSUME DaemonAssumption ==
    /\ Options \subseteq
         [early : {"none", "help", "printHash", "version", "badArgs"},
          console : BOOLEAN, checkpoints : {"default", "file"},
          logLevel : Int, nodeIdLong : BOOLEAN,
          feeAddr : {"none", "good", "bad"}, feeAmount : Int]
    /\ LogArgs \subseteq -1..(UInt16 - 1)
    /\ BanArgs \subseteq [ip : {"ok", "bad"},
                          secs : {"absent", "bad", "given"}, n : Int]
    /\ Garbage \subseteq Int
    /\ MaxCommands \in Nat /\ MaxSignals \in Nat

\* The console commands of the DaemonCommandsHandler constructor, by what
\* they call: "save" stands for every command that calls into the core
\* (save, print_bc, print_block, status, print_tx, print_pool,
\* print_pool_sh, rollback_chain, start_mining, stop_mining, show_hr,
\* hide_hr), "peers" for those that call into the P2P server only
\* (print_pl, print_cn, print_ban, unban), and help for the rest.
Commands == {"exit", "help", "save", "peers", "set_log", "ban"}
CoreCommands == {"save"}
PeerCommands == {"exit", "peers", "ban"}

VARIABLES
    pc,        \* where main is
    opt,       \* the parsed command line
    code,      \* "exit0" or "exit1": main returned 0 or 1; "killed"; "none"
    level,     \* the log manager's maximum level
    p2p,       \* "off", "ready", "running" (in run()), "done", "deinit"
    stopReq,   \* sendStopSignal has been called
    core,      \* "off", "ready", "deinit"
    rpc,       \* "off", "running", "stopped"
    con,       \* the console thread: "off", "idle", "busy", "ended"
    cmd,       \* the command it executes
    conStop,   \* the console handler's stop request
    bans,      \* the durations ban_host has been called with
    sig,       \* where the Ctrl+C handler is
    cmds,      \* console lines so far
    signals    \* Ctrl+C presses so far

vars == <<pc, opt, code, level, p2p, stopReq, core, rpc, con, cmd,
          conStop, bans, sig, cmds, signals>>

\* The handler is installed from line 325 to the end of main.
Installed == pc \in {"loop", "stopConsole", "waitConsole", "stopRpc",
                     "deinitCore", "deinitP2p"}

\* The process is alive.
Alive == code = "none"

Init ==
    /\ pc = "parse" /\ opt \in Options /\ code = "none"
    /\ level = Error
    /\ p2p = "off" /\ stopReq = FALSE /\ core = "off" /\ rpc = "off"
    /\ con = "off" /\ cmd = "help" /\ conStop = FALSE
    /\ bans = {} /\ sig = "none" /\ cmds = 0 /\ signals = 0

\* main returns v.
Return(v) == pc' = "done" /\ code' = v

-----------------------------------------------------------------------------
(* main.                                                                   *)

\* Option parsing: --help and --print-hash make the helper return false, so
\* main returns 1, as it does on a parse error; --version returns 0 once
\* the log manager is configured at ERROR plus --log-level.
Parse ==
    /\ pc = "parse" /\ Alive
    /\ \/ opt.early \in {"help", "printHash", "badArgs"} /\ Return("exit1")
          /\ UNCHANGED level
       \/ opt.early = "version" /\ Return("exit0")
          /\ level' = Error + opt.logLevel
       \/ opt.early = "none" /\ pc' = "setup"
          /\ level' = Error + opt.logLevel /\ UNCHANGED code
    /\ UNCHANGED <<opt, p2p, stopReq, core, rpc, con, cmd, conStop,
                   bans, sig, cmds, signals>>

\* The checkpoints and the configuration folder: a checkpoint file that
\* does not load, or a folder that is missing or cannot be made, throws and
\* the catch returns 1.  Then the objects are built and linked.
Setup ==
    /\ pc = "setup" /\ Alive
    /\ \E loaded, folder \in BOOLEAN :
          IF (opt.checkpoints = "file" /\ ~loaded) \/ ~folder
          THEN Return("exit1") ELSE pc' = "p2pInit" /\ UNCHANGED code
    /\ UNCHANGED <<opt, level, p2p, stopReq, core, rpc, con, cmd, conStop,
                   bans, sig, cmds, signals>>

\* p2psrv.init and ccore.init: a failure returns 1.
P2pInit ==
    /\ pc = "p2pInit" /\ Alive
    /\ \/ p2p' = "ready" /\ pc' = "coreInit" /\ UNCHANGED code
       \/ Return("exit1") /\ UNCHANGED p2p
    /\ UNCHANGED <<opt, level, stopReq, core, rpc, con, cmd, conStop,
                   bans, sig, cmds, signals>>

CoreInit ==
    /\ pc = "coreInit" /\ Alive
    /\ \/ core' = "ready" /\ pc' = "console" /\ UNCHANGED code
       \/ Return("exit1") /\ UNCHANGED core
    /\ UNCHANGED <<opt, level, p2p, stopReq, rpc, con, cmd, conStop,
                   bans, sig, cmds, signals>>

\* dch.start_handling() unless --no-console.
StartHandling ==
    /\ pc = "console" /\ Alive
    /\ pc' = "configure"
    /\ con' = IF opt.console THEN "idle" ELSE "off"
    /\ UNCHANGED <<opt, code, level, p2p, stopReq, core, rpc, cmd,
                   conStop, bans, sig, cmds, signals>>

\* The node id, the fee address and amount, the view key: a node id over
\* 128 characters or a fee address that does not parse returns 1 (with the
\* console thread running).  The fee amount above 100000 is lowered in a
\* local variable only, which the RPC server never sees.
Configure ==
    /\ pc = "configure" /\ Alive
    /\ IF opt.nodeIdLong \/ opt.feeAddr = "bad"
       THEN Return("exit1") ELSE pc' = "rpcStart" /\ UNCHANGED code
    /\ UNCHANGED <<opt, level, p2p, stopReq, core, rpc, con, cmd,
                   conStop, bans, sig, cmds, signals>>

\* rpcServer.start throws when it cannot bind; then the handler is
\* installed and main enters p2psrv.run().
RpcStart ==
    /\ pc = "rpcStart" /\ Alive
    /\ \/ rpc' = "running" /\ pc' = "install" /\ UNCHANGED code
       \/ Return("exit1") /\ UNCHANGED rpc
    /\ UNCHANGED <<opt, level, p2p, stopReq, core, con, cmd, conStop,
                   bans, sig, cmds, signals>>

Run ==
    /\ pc = "install" /\ Alive
    /\ pc' = "loop" /\ p2p' = "running"
    /\ UNCHANGED <<opt, code, level, stopReq, core, rpc, con, cmd,
                   conStop, bans, sig, cmds, signals>>

\* run() has returned; main calls dch.stop_handling(): the request, then
\* the wait for the console thread.
LoopReturned ==
    /\ pc = "loop" /\ Alive /\ p2p = "done"
    /\ pc' = "stopConsole"
    /\ UNCHANGED <<opt, code, level, p2p, stopReq, core, rpc, con,
                   cmd, conStop, bans, sig, cmds, signals>>

StopHandling ==
    /\ pc = "stopConsole" /\ Alive
    /\ pc' = "waitConsole" /\ conStop' = TRUE
    /\ UNCHANGED <<opt, code, level, p2p, stopReq, core, rpc, con,
                   cmd, bans, sig, cmds, signals>>

ConsoleJoined ==
    /\ pc = "waitConsole" /\ Alive /\ con \in {"off", "ended"}
    /\ pc' = "stopRpc"
    /\ UNCHANGED <<opt, code, level, p2p, stopReq, core, rpc, con,
                   cmd, conStop, bans, sig, cmds, signals>>

\* Mutant: the teardown without rpcServer.stop().
RpcStopForgotten ==
    /\ pc = "stopRpc" /\ Alive
    /\ pc' = "deinitCore"
    /\ UNCHANGED <<opt, code, level, p2p, stopReq, core, rpc, con, cmd,
                   conStop, bans, sig, cmds, signals>>

\* rpcServer.stop(), ccore.deinit(), p2psrv.deinit() and return 0.
RpcStop ==
    /\ pc = "stopRpc" /\ Alive
    /\ pc' = "deinitCore" /\ rpc' = "stopped"
    /\ UNCHANGED <<opt, code, level, p2p, stopReq, core, con, cmd,
                   conStop, bans, sig, cmds, signals>>

CoreDeinit ==
    /\ pc = "deinitCore" /\ Alive
    /\ pc' = "deinitP2p" /\ core' = "deinit"
    /\ UNCHANGED <<opt, code, level, p2p, stopReq, rpc, con, cmd,
                   conStop, bans, sig, cmds, signals>>

P2pDeinit ==
    /\ pc = "deinitP2p" /\ Alive
    /\ Return("exit0") /\ p2p' = "deinit"
    /\ UNCHANGED <<opt, level, stopReq, core, rpc, con, cmd, conStop,
                   bans, sig, cmds, signals>>

\* The P2P loop returns once the stop signal has been sent.
LoopStop ==
    /\ p2p = "running" /\ stopReq /\ Alive
    /\ p2p' = "done"
    /\ UNCHANGED <<pc, opt, code, level, stopReq, core, rpc, con, cmd,
                   conStop, bans, sig, cmds, signals>>


-----------------------------------------------------------------------------
(* The console thread and the commands.                                    *)

\* Mutant: set_log without the range check.
SetLogNoRange(lvl, a) == IF a = -1 THEN lvl ELSE (a + 1) % UInt16

\* set_log: the argument is parsed into a uint16_t, incremented (so 65535
\* wraps to 0, FATAL) and refused above TRACE.
SetLog(lvl, a) ==
    IF a = -1 THEN lvl
    ELSE LET l == (a + 1) % UInt16 IN IF l > Trace THEN lvl ELSE l

\* ban: a bad seconds argument, 0 seconds or a bad address returns false;
\* without a seconds argument ban_host gets the uninitialised time_t.
\* The durations ban_host may be called with (none if ban returns false).
Ban(a) ==
    IF a.ip = "bad" \/ a.secs = "bad" \/ (a.secs = "given" /\ a.n = 0)
    THEN {}
    ELSE IF a.secs = "absent" THEN Garbage
    ELSE {a.n}

\* The console thread reads a line and dispatches it, until it is asked to
\* stop.
ReadCommand ==
    /\ con = "idle" /\ ~conStop /\ Alive /\ cmds < MaxCommands
    /\ \E c \in Commands : con' = "busy" /\ cmd' = c
    /\ cmds' = cmds + 1
    /\ UNCHANGED <<pc, opt, code, level, p2p, stopReq, core, rpc,
                   conStop, bans, sig, signals>>

\* The command's handler: exit asks the console handler to stop and sends
\* the P2P server the stop signal; set_log and ban change the log level and
\* the ban list; the others only read.
RunCommand ==
    /\ con = "busy" /\ Alive
    /\ con' = "idle"
    /\ IF cmd = "exit" THEN conStop' = TRUE /\ stopReq' = TRUE
       ELSE UNCHANGED <<conStop, stopReq>>
    /\ IF cmd = "set_log" THEN \E a \in LogArgs : level' = SetLog(level, a)
       ELSE UNCHANGED level
    /\ IF cmd = "ban"
       THEN \E a \in BanArgs :
               \/ Ban(a) = {} /\ UNCHANGED bans
               \/ \E t \in Ban(a) : bans' = bans \cup {t}
       ELSE UNCHANGED bans
    /\ UNCHANGED <<pc, opt, code, p2p, core, rpc, cmd, sig, cmds,
                   signals>>

ConsoleEnd ==
    /\ con = "idle" /\ conStop /\ Alive
    /\ con' = "ended"
    /\ UNCHANGED <<pc, opt, code, level, p2p, stopReq, core, rpc, cmd,
                   conStop, bans, sig, cmds, signals>>

-----------------------------------------------------------------------------
(* Ctrl+C: the handler main installs calls dch.stop_handling() and then    *)
(* p2psrv.sendStopSignal().                                                *)

Signal ==
    /\ Alive /\ sig = "none" /\ signals < MaxSignals
    /\ signals' = signals + 1
    /\ IF Installed THEN sig' = "stopConsole" /\ UNCHANGED code
       ELSE code' = "killed" /\ UNCHANGED sig
    /\ UNCHANGED <<pc, opt, level, p2p, stopReq, core, rpc, con, cmd,
                   conStop, bans, cmds>>

SigStopHandling ==
    /\ sig = "stopConsole" /\ Alive
    /\ sig' = "waitConsole" /\ conStop' = TRUE
    /\ UNCHANGED <<pc, opt, code, level, p2p, stopReq, core, rpc, con,
                   cmd, bans, cmds, signals>>

SigJoined ==
    /\ sig = "waitConsole" /\ Alive /\ con \in {"off", "ended"}
    /\ sig' = "stopP2p"
    /\ UNCHANGED <<pc, opt, code, level, p2p, stopReq, core, rpc, con,
                   cmd, conStop, bans, cmds, signals>>

\* Mutant: the handler stops the console only.
SigStopConsoleOnly ==
    /\ sig = "stopP2p" /\ Alive
    /\ sig' = "none"
    /\ UNCHANGED <<pc, opt, code, level, p2p, stopReq, core, rpc, con, cmd,
                   conStop, bans, cmds, signals>>

SigStopP2p ==
    /\ sig = "stopP2p" /\ Alive
    /\ sig' = "none" /\ stopReq' = TRUE
    /\ UNCHANGED <<pc, opt, code, level, p2p, core, rpc, con, cmd,
                   conStop, bans, cmds, signals>>

-----------------------------------------------------------------------------
MainStep ==
    \/ Parse \/ Setup \/ P2pInit \/ CoreInit \/ StartHandling \/ Configure
    \/ RpcStart \/ Run \/ LoopReturned \/ StopHandling \/ ConsoleJoined
    \/ RpcStop \/ CoreDeinit \/ P2pDeinit

SigStep == SigStopHandling \/ SigJoined \/ SigStopP2p

Next ==
    \/ MainStep \/ LoopStop
    \/ ReadCommand \/ RunCommand \/ ConsoleEnd
    \/ Signal \/ SigStep

Spec == Init /\ [][Next]_vars

\* Main, the P2P loop, the handler and a dispatched command keep running,
\* and a console thread asked to stop stops.  Console lines and Ctrl+C are
\* the user's and are not forced.
FairSpec ==
    /\ Spec /\ WF_vars(MainStep) /\ WF_vars(LoopStop)
    /\ WF_vars(RunCommand) /\ WF_vars(ConsoleEnd) /\ WF_vars(SigStep)

-----------------------------------------------------------------------------
\* The types.
Live == {"ready", "running", "done"}

TypeOK ==
    /\ pc \in {"parse", "setup", "p2pInit", "coreInit", "console",
               "configure", "rpcStart", "install", "loop", "stopConsole",
               "waitConsole", "stopRpc", "deinitCore", "deinitP2p", "done"}
    /\ opt \in Options /\ code \in {"none", "exit0", "exit1", "killed"}
    /\ level \in 0..Trace \cup {Error + o.logLevel : o \in Options}
    /\ p2p \in {"off", "deinit"} \cup Live /\ stopReq \in BOOLEAN
    /\ core \in {"off", "ready", "deinit"}
    /\ rpc \in {"off", "running", "stopped"}
    /\ con \in {"off", "idle", "busy", "ended"} /\ cmd \in Commands
    /\ conStop \in BOOLEAN
    /\ bans \subseteq Garbage \cup {a.n : a \in BanArgs}
    /\ sig \in {"none", "stopConsole", "waitConsole", "stopP2p"}
    /\ cmds \in 0..MaxCommands /\ signals \in 0..MaxSignals

\* Nothing calls into a component that is not initialised or already
\* deinitialised: a console command runs on a live core and P2P server,
\* and the RPC server serves only while both are live.  main's teardown
\* waits for the console thread and stops the RPC server before ccore.deinit()
\* and p2psrv.deinit(), whether the stop came from the exit command, from
\* Ctrl+C, or both at once.
CollaboratorsLive ==
    /\ (con = "busy" /\ cmd \in CoreCommands) => core = "ready"
    /\ (con = "busy" /\ cmd \in PeerCommands) => p2p \in Live
    /\ rpc = "running" => core = "ready" /\ p2p \in Live

\* Once the user asks the daemon to stop, by the exit command or by Ctrl+C
\* once the handler is installed, the process ends: the stop reaches the
\* P2P loop, the console thread stops, and main's teardown runs through.
StopAsked == sig # "none" \/ (con = "busy" /\ cmd = "exit")

StopHonoured == StopAsked ~> ~Alive

=============================================================================
