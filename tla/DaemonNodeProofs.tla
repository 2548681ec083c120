-------------------------- MODULE DaemonNodeProofs --------------------------
(***************************************************************************)
(* Proofs about DaemonNode, for every value of the constants that          *)
(* DaemonAssumption allows: the daemon's states are well typed, and no     *)
(* console command or RPC request ever runs on a core or P2P server that   *)
(* is not live.  Both follow from the inductive invariant IInv, which      *)
(* ties the life cycle of each component to where main is.                 *)
(***************************************************************************)
EXTENDS DaemonNode, TLAPS

\* The uint16_t wrap of set_log's argument lands in 0..65535.
LEMMA WrapUInt16 ==
    ASSUME NEW x \in Int
    PROVE  x % UInt16 \in Nat
    BY SMT DEF UInt16



\* Where main is, in the order of Daemon.cpp.
BeforeCore == {"parse", "setup", "p2pInit", "coreInit"}
BeforeConsole == BeforeCore \cup {"console"}
Started == {"configure", "rpcStart", "install", "loop", "stopConsole",
            "waitConsole"}
Teardown == {"stopRpc", "deinitCore", "deinitP2p"}

\* What main's position says about the components: the P2P server is
\* initialised before the core, the console thread starts after both, the
\* RPC server runs from its start to the teardown, the console thread has
\* stopped once the teardown begins, and main is done only once the
\* process has ended.
Lifecycle ==
    /\ pc \in {"parse", "setup", "p2pInit"} => p2p = "off"
    /\ pc \in {"coreInit", "console", "configure", "rpcStart", "install"}
          => p2p = "ready"
    /\ pc = "loop" => p2p \in {"running", "done"}
    /\ pc \in {"stopConsole", "waitConsole"} \cup Teardown => p2p = "done"
    /\ pc \in BeforeCore => core = "off"
    /\ pc \in (Started \cup Teardown \cup {"console"}) \ {"deinitP2p"}
          => core = "ready"
    /\ pc = "deinitP2p" => core = "deinit"
    /\ pc \in BeforeConsole \cup {"configure", "rpcStart"} => rpc = "off"
    /\ pc \in {"install", "loop", "stopConsole", "waitConsole", "stopRpc"}
          => rpc = "running"
    /\ pc \in {"deinitCore", "deinitP2p"} => rpc = "stopped"
    /\ pc \in BeforeConsole => con = "off"
    /\ pc \in Teardown => con \in {"off", "ended"}
    /\ pc = "done" => ~Alive

\* The inductive invariant.
IInv == TypeOK /\ Lifecycle /\ CollaboratorsLive

\* set_log leaves the level a Logging::Level, or as it was.
LEMMA SetLogLevel ==
    ASSUME NEW lvl, NEW a \in LogArgs
    PROVE  SetLog(lvl, a) \in {lvl} \cup 0..Trace
    <1>1. CASE a = -1
      BY <1>1 DEF SetLog
    <1>2. CASE a # -1
      <2>1. a \in Int
        BY DaemonAssumption, SMT
      <2>2. a + 1 \in Int
        BY <2>1, SMT
      <2>3. (a + 1) % UInt16 \in Nat
        BY <2>2, WrapUInt16, Zenon
      <2>. QED
        BY <1>2, <2>3 DEF SetLog, Trace
    <1>. QED
      BY <1>1, <1>2

\* ban gives ban_host a garbage value or the parsed seconds.
LEMMA BanRange ==
    ASSUME NEW a \in BanArgs
    PROVE  Ban(a) \subseteq Garbage \cup {a.n}
    BY DEF Ban

\* A live console thread means main is past start_handling and before the
\* teardown: the core and the P2P server are live.
LEMMA ConsoleLive ==
    ASSUME TypeOK, Lifecycle, Alive, con \in {"idle", "busy"}
    PROVE  core = "ready" /\ p2p \in Live
    <1>1. pc \in Started
      BY DEF TypeOK, Lifecycle, Started, Teardown, BeforeConsole, BeforeCore
    <1>. QED
      BY <1>1 DEF Lifecycle, Started, Teardown, Live

\* The initial state.
LEMMA InitIInv == Init => IInv
    <1>. SUFFICES ASSUME Init PROVE IInv
      OBVIOUS
    <1>1. TypeOK
      <2>1. level \in 0..Trace
        BY DEF Init, Error, Trace
      <2>2. cmds \in 0..MaxCommands /\ signals \in 0..MaxSignals
        BY DaemonAssumption DEF Init
      <2>. QED
        BY <2>1, <2>2, Zenon DEF Init, TypeOK, Commands
    <1>2. Lifecycle
      BY DEF Init, Lifecycle, BeforeConsole, BeforeCore, Started, Teardown
    <1>3. CollaboratorsLive
      BY DEF Init, CollaboratorsLive
    <1>. QED
      BY <1>1, <1>2, <1>3 DEF IInv


\* Every step keeps the inductive invariant: one case per action.
LEMMA InductiveStep == IInv /\ [Next]_vars => IInv'
    <1>. SUFFICES ASSUME IInv, [Next]_vars PROVE IInv'
      OBVIOUS
    <1>1. CASE Parse
      BY <1>1 DEF Parse, Return,
         IInv, TypeOK, Lifecycle, CollaboratorsLive, BeforeCore,
         BeforeConsole, Started, Teardown, Live, Alive
    <1>2. CASE Setup
      BY <1>2 DEF Setup, Return,
         IInv, TypeOK, Lifecycle, CollaboratorsLive, BeforeCore,
         BeforeConsole, Started, Teardown, Live, Alive
    <1>3. CASE P2pInit
      BY <1>3 DEF P2pInit, Return,
         IInv, TypeOK, Lifecycle, CollaboratorsLive, BeforeCore,
         BeforeConsole, Started, Teardown, Live, Alive
    <1>4. CASE CoreInit
      BY <1>4 DEF CoreInit, Return,
         IInv, TypeOK, Lifecycle, CollaboratorsLive, BeforeCore,
         BeforeConsole, Started, Teardown, Live, Alive
    <1>5. CASE StartHandling
      BY <1>5 DEF StartHandling,
         IInv, TypeOK, Lifecycle, CollaboratorsLive, BeforeCore,
         BeforeConsole, Started, Teardown, Live, Alive
    <1>6. CASE Configure
      BY <1>6 DEF Configure, Return,
         IInv, TypeOK, Lifecycle, CollaboratorsLive, BeforeCore,
         BeforeConsole, Started, Teardown, Live, Alive
    <1>7. CASE RpcStart
      BY <1>7 DEF RpcStart, Return,
         IInv, TypeOK, Lifecycle, CollaboratorsLive, BeforeCore,
         BeforeConsole, Started, Teardown, Live, Alive
    <1>8. CASE Run
      BY <1>8 DEF Run,
         IInv, TypeOK, Lifecycle, CollaboratorsLive, BeforeCore,
         BeforeConsole, Started, Teardown, Live, Alive
    <1>9. CASE LoopReturned
      BY <1>9 DEF LoopReturned,
         IInv, TypeOK, Lifecycle, CollaboratorsLive, BeforeCore,
         BeforeConsole, Started, Teardown, Live, Alive
    <1>10. CASE StopHandling
      BY <1>10 DEF StopHandling,
         IInv, TypeOK, Lifecycle, CollaboratorsLive, BeforeCore,
         BeforeConsole, Started, Teardown, Live, Alive
    <1>11. CASE ConsoleJoined
      BY <1>11 DEF ConsoleJoined,
         IInv, TypeOK, Lifecycle, CollaboratorsLive, BeforeCore,
         BeforeConsole, Started, Teardown, Live, Alive
    <1>12. CASE RpcStop
      BY <1>12 DEF RpcStop,
         IInv, TypeOK, Lifecycle, CollaboratorsLive, BeforeCore,
         BeforeConsole, Started, Teardown, Live, Alive
    <1>13. CASE CoreDeinit
      BY <1>13 DEF CoreDeinit,
         IInv, TypeOK, Lifecycle, CollaboratorsLive, BeforeCore,
         BeforeConsole, Started, Teardown, Live, Alive
    <1>14. CASE P2pDeinit
      BY <1>14 DEF P2pDeinit, Return,
         IInv, TypeOK, Lifecycle, CollaboratorsLive, BeforeCore,
         BeforeConsole, Started, Teardown, Live, Alive
    <1>15. CASE LoopStop
      BY <1>15 DEF LoopStop,
         IInv, TypeOK, Lifecycle, CollaboratorsLive, BeforeCore,
         BeforeConsole, Started, Teardown, Live, Alive
    <1>16. CASE ReadCommand
      BY <1>16, DaemonAssumption DEF ReadCommand,
         IInv, TypeOK, Lifecycle, CollaboratorsLive, BeforeCore,
         BeforeConsole, Started, Teardown, Live, Alive
    <1>17. CASE RunCommand
      <2>1. level' \in 0..Trace \cup {Error + o.logLevel : o \in Options}
        <3>1. CASE cmd = "set_log"
          <4>1. PICK a \in LogArgs : level' = SetLog(level, a)
            BY <1>17, <3>1 DEF RunCommand
          <4>2. SetLog(level, a) \in {level} \cup 0..Trace
            BY SetLogLevel
          <4>3. level \in 0..Trace \cup {Error + o.logLevel : o \in Options}
            BY DEF IInv, TypeOK
          <4>. QED
            BY <4>1, <4>2, <4>3, Zenon
        <3>2. CASE cmd # "set_log"
          <4>1. level' = level
            BY <1>17, <3>2 DEF RunCommand
          <4>. QED
            BY <4>1, Zenon DEF IInv, TypeOK
        <3>. QED
          BY <3>1, <3>2
      <2>2. bans' \subseteq Garbage \cup {a.n : a \in BanArgs}
        <3>1. CASE cmd = "ban"
          <4>1. PICK a \in BanArgs :
                     \/ Ban(a) = {} /\ bans' = bans
                     \/ \E t \in Ban(a) : bans' = bans \cup {t}
            BY <1>17, <3>1 DEF RunCommand
          <4>2. Ban(a) \subseteq Garbage \cup {a.n}
            BY BanRange
          <4>3. bans \subseteq Garbage \cup {b.n : b \in BanArgs}
            BY DEF IInv, TypeOK
          <4>. QED
            BY <4>1, <4>2, <4>3, Zenon
        <3>2. CASE cmd # "ban"
          <4>1. bans' = bans
            BY <1>17, <3>2 DEF RunCommand
          <4>. QED
            BY <4>1, Zenon DEF IInv, TypeOK
        <3>. QED
          BY <3>1, <3>2
      <2>3. conStop' \in BOOLEAN /\ stopReq' \in BOOLEAN
        BY <1>17 DEF RunCommand, IInv, TypeOK
      <2>. QED
        BY <1>17, <2>1, <2>2, <2>3 DEF RunCommand,
         IInv, TypeOK, Lifecycle, CollaboratorsLive, BeforeCore,
         BeforeConsole, Started, Teardown, Live, Alive
    <1>18. CASE ConsoleEnd
      BY <1>18 DEF ConsoleEnd,
         IInv, TypeOK, Lifecycle, CollaboratorsLive, BeforeCore,
         BeforeConsole, Started, Teardown, Live, Alive
    <1>19. CASE Signal
      BY <1>19, DaemonAssumption DEF Signal,
         IInv, TypeOK, Lifecycle, CollaboratorsLive, BeforeCore,
         BeforeConsole, Started, Teardown, Live, Alive
    <1>20. CASE SigStopHandling
      BY <1>20 DEF SigStopHandling,
         IInv, TypeOK, Lifecycle, CollaboratorsLive, BeforeCore,
         BeforeConsole, Started, Teardown, Live, Alive
    <1>21. CASE SigJoined
      BY <1>21 DEF SigJoined,
         IInv, TypeOK, Lifecycle, CollaboratorsLive, BeforeCore,
         BeforeConsole, Started, Teardown, Live, Alive
    <1>22. CASE SigStopP2p
      BY <1>22 DEF SigStopP2p,
         IInv, TypeOK, Lifecycle, CollaboratorsLive, BeforeCore,
         BeforeConsole, Started, Teardown, Live, Alive
    <1>23. CASE UNCHANGED vars
      BY <1>23 DEF vars,
         IInv, TypeOK, Lifecycle, CollaboratorsLive, BeforeCore,
         BeforeConsole, Started, Teardown, Live, Alive
    <1>. QED
      BY <1>1, <1>2, <1>3, <1>4, <1>5, <1>6, <1>7, <1>8, <1>9, <1>10,
         <1>11, <1>12, <1>13, <1>14, <1>15, <1>16, <1>17, <1>18, <1>19,
         <1>20, <1>21, <1>22, <1>23
         DEF Next, MainStep, SigStep


\* Every reachable state of the daemon is well typed: in particular
\* set_log, whatever its argument and its uint16_t wrap, only ever sets a
\* Logging::Level.
THEOREM TypeCorrect == Spec => []TypeOK
    <1>1. Init => IInv
      BY InitIInv
    <1>2. IInv /\ [Next]_vars => IInv'
      BY InductiveStep
    <1>3. IInv => TypeOK
      BY DEF IInv
    <1>. QED
      BY <1>1, <1>2, <1>3, PTL DEF Spec

\* For every command line, console input and Ctrl+C timing, no console
\* command and no RPC request runs on a core or P2P server that is not
\* live: main's teardown in Daemon.cpp stops them before ccore.deinit()
\* and p2psrv.deinit().
THEOREM CollaboratorsLiveHolds == Spec => []CollaboratorsLive
    <1>1. Init => IInv
      BY InitIInv
    <1>2. IInv /\ [Next]_vars => IInv'
      BY InductiveStep
    <1>3. IInv => CollaboratorsLive
      BY DEF IInv
    <1>. QED
      BY <1>1, <1>2, <1>3, PTL DEF Spec

=============================================================================
