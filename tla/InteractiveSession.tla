------------------------- MODULE InteractiveSession -------------------------
(***************************************************************************)
(* The interactive session (InteractiveSession) of                         *)
(* src/src/CacheWallet/CacheWallet.cpp: run's selection screen and         *)
(* openWallet, the wait for the daemon, the catch-up, inputLoop with       *)
(* getInputAndDoWorkWhileIdle (a reader thread for the console line, a     *)
(* background tick every 5 s), and shutdown with its 20 s watchdog, called *)
(* both by the main thread and by the Ctrl+C handler.                      *)
(*                                                                         *)
(* What a command or a tick does to the wallet is the subject of the other *)
(* modules; here it is one region "inside the wallet" that may be          *)
(* interrupted.  The handler is installed with Tools::SignalHandler, which *)
(* is not part of this repository: a signal starts it unless it is already *)
(* running.  Where it runs is a constant: on the interrupted main thread,  *)
(* which is suspended until the handler returns (HandlerOnMain), or on a   *)
(* thread of its own, which is what happens on Windows and whenever the    *)
(* kernel delivers SIGINT to another thread.                               *)
(***************************************************************************)
EXTENDS Naturals

CONSTANTS
    HandlerOnMain, \* the signal handler runs on the main thread
    Configs,       \* the [walletGiven, passGiven] of the command line
    MaxSignals     \* Ctrl+C presses in a behaviour

ASSUME SessionAssumption ==
    /\ HandlerOnMain \in BOOLEAN
    /\ Configs \subseteq [walletGiven : BOOLEAN, passGiven : BOOLEAN]
    /\ MaxSignals \in Nat

\* The two callers of shutdown: the main thread and the signal handler.
Actors == {"main", "sig"}

\* getAction's answers, and what wallet.load can throw.
Actions == {"Open", "Generate", "Import", "SeedImport"}
LoadResults == {"ok", "badPassword", "alreadyOpen", "notAWallet", "other"}

\* The first letter of an answer at the daemon prompt: T, E, C, anything
\* else, or none (an empty line, and what std::getline leaves at the end of
\* input).
Answers == {"t", "e", "c", "x", ""}

\* Console lines, by what inputLoop does with them: nothing, print only,
\* call into the wallet (balance, transfer, save, optimize, reset, ...),
\* or leave the loop.
Lines == {"", "help", "wallet", "exit"}

VARIABLES
    pc,        \* where the main thread is
    cfg,       \* the parsed command line
    action,    \* run's action
    initial,   \* openWallet's initial
    passUses,  \* uses of the command-line password since the user last
               \* typed a line (cap 2)
    nodeUp,    \* node.getLastKnownBlockHeight() != 0
    eof,       \* the console input has ended
    line,      \* the reader thread's result, "none" while it is pending
    flag,      \* alreadyShuttingDown
    spc,       \* where each actor is in shutdown
    fin,       \* each shutdown call's finishedShutdown
    wd,        \* each shutdown call's timelyShutdown thread
    saved,     \* some shutdown's wallet.save() has returned
    ended,     \* how the process ended: "no", "return", "exit", "watchdog"
    signals    \* Ctrl+C presses so far

vars == <<pc, cfg, action, initial, passUses, nodeUp, eof, line, flag, spc,
          fin, wd, saved, ended, signals>>

\* The handler is installed once run has a wallet.
Installed == pc \notin {"select", "open"}

\* An actor can take a step: the process is alive, and the main thread is
\* not suspended under a handler running on it.
Runs(p) ==
    /\ ended = "no"
    /\ (p = "main" /\ HandlerOnMain) => spc["sig"] = "none"

\* Who is inside a wallet call: the main thread in the catch-up, a tick or
\* a command, either actor in shutdown's save and stop.
InWallet(p) ==
    \/ spc[p] \in {"save", "stop"}
    \/ p = "main" /\ pc \in {"catchUp", "tick", "busy"}

\* Main leaves for shutdown(wallet, node, alreadyShuttingDown).
CallShutdown ==
    /\ pc' = "shutdown"
    /\ spc' = [spc EXCEPT !["main"] = "check"]

-----------------------------------------------------------------------------
Init ==
    /\ pc = "select"
    /\ cfg \in Configs
    /\ action = "Open"
    /\ initial = TRUE
    /\ passUses = 0
    /\ nodeUp \in BOOLEAN
    /\ eof = FALSE
    /\ line = "none"
    /\ flag = FALSE
    /\ spc = [p \in Actors |-> "none"]
    /\ fin = [p \in Actors |-> FALSE]
    /\ wd = [p \in Actors |-> "none"]
    /\ saved = FALSE
    /\ ended = "no"
    /\ signals = 0

\* Whether a pass of run's loop that chose a asks the user for a line:
\* getAction's menu when neither a wallet nor a password is given, and
\* getExistingWalletFileName unless the command line's file exists.
AsksUser(a) == IF a = "Open" /\ cfg.walletGiven THEN BOOLEAN ELSE {TRUE}

\* getAction and handleAction, with openWallet's getExistingWalletFileName
\* for Open.  A wallet or password on the command line means Open without
\* asking; Generate and the imports always give a wallet (they loop until
\* the user's input is valid).  At the end of input an asked line is
\* blank, and the file-name prompt refuses it forever.
SelectAction ==
    /\ pc = "select" /\ Runs("main")
    /\ \E a \in (IF cfg.walletGiven \/ cfg.passGiven THEN {"Open"}
                 ELSE Actions) :
          /\ action' = a
          /\ IF a = "Open" THEN pc' = "open" /\ initial' = TRUE
                           ELSE pc' = "nodeWait" /\ UNCHANGED initial
          /\ \E asked \in AsksUser(a) :
                /\ asked => ~eof
                /\ passUses' = IF asked THEN 0 ELSE passUses
    /\ UNCHANGED <<cfg, nodeUp, eof, line, flag, spc, fin, wd,
                   saved, ended, signals>>

\* One pass of openWallet's loop: the password is the command line's on
\* the first pass of this call, then the user's; a wrong password asks
\* again, any other error returns Nothing and run goes back to selection.
OpenAttempt ==
    /\ pc = "open" /\ Runs("main")
    /\ passUses' = IF initial /\ cfg.passGiven
                   THEN IF passUses < 2 THEN passUses + 1 ELSE 2
                   ELSE 0
    /\ initial' = FALSE
    /\ \E r \in LoadResults :
          pc' = CASE r = "ok"          -> "nodeWait"
                  [] r = "badPassword" -> "open"
                  [] OTHER             -> "select"
    /\ UNCHANGED <<cfg, action, nodeUp, eof, line, flag, spc, fin, wd,
                   saved, ended, signals>>

\* Mutant: E returns from run without calling shutdown.
NodeWaitNoShutdown ==
    /\ pc = "nodeWait" /\ Runs("main")
    /\ IF nodeUp
       THEN /\ pc' = IF action = "Generate" THEN "prompt" ELSE "catchUp"
            /\ UNCHANGED ended
       ELSE \E ans \in (IF eof THEN {""} ELSE Answers) :
              CASE ans = "e" -> ended' = "return" /\ UNCHANGED pc
                [] ans = "c" -> /\ pc' = IF action = "Generate" THEN "prompt"
                                                               ELSE "catchUp"
                                /\ UNCHANGED ended
                [] OTHER     -> UNCHANGED <<pc, ended>>
    /\ UNCHANGED <<cfg, action, initial, passUses, nodeUp, eof, line, flag,
                   spc, fin, wd, saved, signals>>

\* run's loop while the daemon reports height 0: T or an empty line checks
\* again, E shuts down and returns, C goes on anyway; anything else asks
\* again.  At the end of input the answer is empty.  Once the daemon is up,
\* every action but Generate catches up with findNewTransactions.
NodeWait ==
    /\ pc = "nodeWait" /\ Runs("main")
    /\ IF nodeUp
       THEN /\ pc' = IF action = "Generate" THEN "prompt" ELSE "catchUp"
            /\ UNCHANGED spc
       ELSE \E ans \in (IF eof THEN {""} ELSE Answers) :
              CASE ans = "e" -> CallShutdown
                [] ans = "c" -> /\ pc' = IF action = "Generate" THEN "prompt"
                                                               ELSE "catchUp"
                                /\ UNCHANGED spc
                [] OTHER     -> UNCHANGED <<pc, spc>>
    /\ UNCHANGED <<cfg, action, initial, passUses, nodeUp, eof, line, flag,
                   fin, wd, saved, ended, signals>>

\* findNewTransactions returns.
CatchUpDone ==
    /\ pc = "catchUp" /\ Runs("main")
    /\ pc' = "prompt"
    /\ UNCHANGED <<cfg, action, initial, passUses, nodeUp, eof, line, flag,
                   spc, fin, wd, saved, ended, signals>>

\* The reader thread of getInputAndDoWorkWhileIdle returns the line the
\* user typed; at the end of input std::getline returns an empty one.
ReadLine ==
    /\ pc \in {"prompt", "tick"} /\ line = "none" /\ ended = "no" /\ ~eof
    /\ \E l \in Lines : line' = l
    /\ UNCHANGED <<pc, cfg, action, initial, passUses, nodeUp, eof, flag,
                   spc, fin, wd, saved, ended, signals>>

ReadEnd ==
    /\ pc \in {"prompt", "tick"} /\ line = "none" /\ ended = "no" /\ eof
    /\ line' = ""
    /\ UNCHANGED <<pc, cfg, action, initial, passUses, nodeUp, eof, flag,
                   spc, fin, wd, saved, ended, signals>>

\* Mutant: the line is dispatched but kept.
PollKeepLine ==
    /\ pc = "prompt" /\ Runs("main")
    /\ IF line = "none"
       THEN pc' = "tick" /\ UNCHANGED spc
       ELSE CASE line = "exit"   -> CallShutdown
              [] line = "wallet" -> pc' = "busy" /\ UNCHANGED spc
              [] OTHER           -> UNCHANGED <<pc, spc>>
    /\ UNCHANGED <<cfg, action, initial, passUses, nodeUp, eof, line, flag,
                   fin, wd, saved, ended, signals>>

\* The main thread's poll: a line that has arrived is dispatched by
\* inputLoop; otherwise, once 5 s have passed, checkForNewTransactions
\* runs (the 50 ms sleeps in between change nothing).
Poll ==
    /\ pc = "prompt" /\ Runs("main")
    /\ IF line = "none"
       THEN pc' = "tick" /\ UNCHANGED <<line, spc>>
       ELSE /\ line' = "none"
            /\ CASE line = "exit"   -> CallShutdown
                 [] line = "wallet" -> pc' = "busy" /\ UNCHANGED spc
                 [] OTHER           -> UNCHANGED <<pc, spc>>
    /\ UNCHANGED <<cfg, action, initial, passUses, nodeUp, eof, flag, fin,
                   wd, saved, ended, signals>>

\* checkForNewTransactions, or the wallet command, returns to the prompt.
WalletCallDone ==
    /\ pc \in {"tick", "busy"} /\ Runs("main")
    /\ pc' = "prompt"
    /\ UNCHANGED <<cfg, action, initial, passUses, nodeUp, eof, line, flag,
                   spc, fin, wd, saved, ended, signals>>

-----------------------------------------------------------------------------
(***************************************************************************)
(* shutdown, for either caller p.  Reading and setting alreadyShuttingDown *)
(* are two steps.  When it was already set, shutdown prints "Patience" and *)
(* returns false; both callers ignore that for the main thread, which then *)
(* returns from run and from main, and the handler returns.  Otherwise it  *)
(* starts the watchdog, saves, stops the wallet and the node, sets         *)
(* finishedShutdown, joins the watchdog and returns true: the main thread  *)
(* returns from run, the handler calls exit(0).                            *)
(***************************************************************************)
\* Mutant: alreadyShuttingDown is not tested.
ShutdownCheckIgnoringFlag(p) ==
    /\ spc[p] = "check" /\ Runs(p)
    /\ spc' = [spc EXCEPT ![p] = "set"]
    /\ UNCHANGED <<pc, cfg, action, initial, passUses, nodeUp, eof, line,
                   flag, fin, wd, saved, ended, signals>>

ShutdownCheck(p) ==
    /\ spc[p] = "check" /\ Runs(p)
    /\ IF flag
       THEN /\ spc' = [spc EXCEPT ![p] = "none"]
            /\ ended' = IF p = "main" THEN "return" ELSE ended
       ELSE /\ spc' = [spc EXCEPT ![p] = "set"]
            /\ UNCHANGED ended
    /\ UNCHANGED <<pc, cfg, action, initial, passUses, nodeUp, eof, line,
                   flag, fin, wd, saved, signals>>

ShutdownSet(p) ==
    /\ spc[p] = "set" /\ Runs(p)
    /\ flag' = TRUE
    /\ fin' = [fin EXCEPT ![p] = FALSE]
    /\ wd' = [wd EXCEPT ![p] = "running"]
    /\ spc' = [spc EXCEPT ![p] = "save"]
    /\ UNCHANGED <<pc, cfg, action, initial, passUses, nodeUp, eof, line,
                   saved, ended, signals>>

\* wallet.save() returns; it may also never return.
ShutdownSaved(p) ==
    /\ spc[p] = "save" /\ Runs(p)
    /\ saved' = TRUE
    /\ spc' = [spc EXCEPT ![p] = "stop"]
    /\ UNCHANGED <<pc, cfg, action, initial, passUses, nodeUp, eof, line,
                   flag, fin, wd, ended, signals>>

\* wallet.shutdown() and node.shutdown() return; finishedShutdown = true.
ShutdownStopped(p) ==
    /\ spc[p] = "stop" /\ Runs(p)
    /\ fin' = [fin EXCEPT ![p] = TRUE]
    /\ spc' = [spc EXCEPT ![p] = "join"]
    /\ UNCHANGED <<pc, cfg, action, initial, passUses, nodeUp, eof, line,
                   flag, wd, saved, ended, signals>>

ShutdownJoined(p) ==
    /\ spc[p] = "join" /\ wd[p] = "done" /\ Runs(p)
    /\ spc' = [spc EXCEPT ![p] = "none"]
    /\ ended' = IF p = "main" THEN "return" ELSE "exit"
    /\ UNCHANGED <<pc, cfg, action, initial, passUses, nodeUp, eof, line,
                   flag, fin, wd, saved, signals>>

\* Mutant: the watchdog has no time-out.
WatchdogNoTimeout(p) ==
    /\ wd[p] = "running" /\ ended = "no" /\ fin[p]
    /\ wd' = [wd EXCEPT ![p] = "done"]
    /\ UNCHANGED <<pc, cfg, action, initial, passUses, nodeUp, eof, line,
                   flag, spc, fin, saved, ended, signals>>

\* One pass of the timelyShutdown thread: it ends once it sees
\* finishedShutdown, or calls exit(0) when 20 s have passed.  The flag is a
\* plain bool written by another thread, so the build may keep reading a
\* stale FALSE: the time-out stays possible after the flag is set.
Watchdog(p) ==
    /\ wd[p] = "running" /\ ended = "no"
    /\ \/ fin[p] /\ wd' = [wd EXCEPT ![p] = "done"] /\ UNCHANGED ended
       \/ ended' = "watchdog" /\ UNCHANGED wd
    /\ UNCHANGED <<pc, cfg, action, initial, passUses, nodeUp, eof, line,
                   flag, spc, fin, saved, signals>>

\* Ctrl+C once the handler is installed, unless it is already running.
Signal ==
    /\ Installed /\ ended = "no" /\ spc["sig"] = "none"
    /\ signals < MaxSignals
    /\ signals' = signals + 1
    /\ spc' = [spc EXCEPT !["sig"] = "check"]
    /\ UNCHANGED <<pc, cfg, action, initial, passUses, nodeUp, eof, line,
                   flag, fin, wd, saved, ended>>

\* The daemon comes up; the console input ends.
NodeStarts ==
    /\ ~nodeUp /\ ended = "no"
    /\ nodeUp' = TRUE
    /\ UNCHANGED <<pc, cfg, action, initial, passUses, eof, line, flag, spc,
                   fin, wd, saved, ended, signals>>

InputEnds ==
    /\ ~eof /\ ended = "no"
    /\ eof' = TRUE
    /\ UNCHANGED <<pc, cfg, action, initial, passUses, nodeUp, line, flag,
                   spc, fin, wd, saved, ended, signals>>

-----------------------------------------------------------------------------
MainStep ==
    \/ SelectAction \/ OpenAttempt \/ NodeWait \/ CatchUpDone \/ Poll
    \/ WalletCallDone

\* Every step of shutdown but the return of wallet.save().
ShutdownStep(p) ==
    ShutdownCheck(p) \/ ShutdownSet(p) \/ ShutdownStopped(p)
    \/ ShutdownJoined(p)

Next ==
    \/ MainStep \/ ReadLine \/ ReadEnd
    \/ \E p \in Actors : ShutdownStep(p) \/ ShutdownSaved(p) \/ Watchdog(p)
    \/ Signal \/ NodeStarts \/ InputEnds

Spec == Init /\ [][Next]_vars

\* The main thread and the handler keep running, a finished getline is
\* seen, and each watchdog keeps looping.  The user's lines, signals, the
\* daemon and wallet.save() returning are not forced.
FairSpec ==
    /\ Spec /\ WF_vars(MainStep) /\ WF_vars(ReadEnd)
    /\ \A p \in Actors : WF_vars(ShutdownStep(p)) /\ WF_vars(Watchdog(p))


-----------------------------------------------------------------------------
\* The types, and the reader's line is only held while the main thread is
\* at the prompt or in a tick (inputLoop consumes it before it dispatches).
TypeOK ==
    /\ pc \in {"select", "open", "nodeWait", "catchUp", "prompt", "tick",
               "busy", "shutdown"}
    /\ cfg \in Configs /\ action \in Actions
    /\ initial \in BOOLEAN /\ passUses \in 0..2
    /\ nodeUp \in BOOLEAN /\ eof \in BOOLEAN
    /\ line \in Lines \cup {"none"}
    /\ line # "none" => pc \in {"prompt", "tick"}
    /\ flag \in BOOLEAN
    /\ spc \in [Actors -> {"none", "check", "set", "save", "stop", "join"}]
    /\ fin \in [Actors -> BOOLEAN]
    /\ wd \in [Actors -> {"none", "running", "done"}]
    /\ saved \in BOOLEAN
    /\ ended \in {"no", "return", "exit", "watchdog"}
    /\ signals \in 0..MaxSignals

\* shutdown runs at most once: the main thread's exit and the Ctrl+C
\* handler are never both past the alreadyShuttingDown test, saving or
\* stopping the wallet (spec 5: a second cancellation is ignored).
Past == {"save", "stop", "join"}

ShutdownOnce == ~(spc["main"] \in Past /\ spc["sig"] \in Past)

\* The process ends by returning from main or by exit(0) only after a
\* shutdown has saved the wallet; only the watchdog ends it unsaved.
EndOnlySaved == ended \in {"return", "exit"} => saved

\* Once the main thread has called shutdown, the process ends, even if
\* wallet.save() never returns: the watchdog sees to it.  (Ctrl+C pressed
\* without end keeps a handler on the main thread running, so the presses
\* are bounded by MaxSignals.)
ShutdownEnds == pc = "shutdown" ~> ended # "no"

\* The wallet is never called by two actors at once (spec 5: all mutating
\* calls are serialized through the owning task): the Ctrl+C handler's
\* save never runs inside a command, a tick or the catch-up.
WalletCallsSerialized == ~(InWallet("main") /\ InWallet("sig"))

\* openWallet's comment: the command-line password is used only once, so
\* that a bad one cannot loop forever: between two of its uses the user
\* types a line.
ConfigPasswordUsedOnce == passUses <= 1

\* When the console input ends, the session ends: at the daemon prompt the
\* code tests for EOF and shuts down.
InputEndEndsSession == eof ~> ended # "no"


(* The refinement mapping to SessionShutdown: the owner is the caller     *)
(* past the alreadyShuttingDown test, and once it has returned from       *)
(* shutdown the way the process ended tells who it was.                   *)
ShutdownOwner ==
    IF spc["main"] \in Past THEN "main"
    ELSE IF spc["sig"] \in Past THEN "sig"
    ELSE IF ended = "return" THEN "main"
    ELSE IF ended = "exit" THEN "sig"
    ELSE "none"

Shut == INSTANCE SessionShutdown WITH owner <- ShutdownOwner

(* With the handler on the main thread, the two callers of shutdown       *)
(* implement SessionShutdown: one of them takes it over, once for the     *)
(* process, and only it ends the process, after its save, or its          *)
(* watchdog does.                                                          *)
ShutdownSpec == Shut!Spec

====
