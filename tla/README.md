# MoonBank wallet core: TLA+ models

This directory holds TLA+ models of the core of the MoonBank command-line
wallet, `src/src/CacheWallet/`. Each model is checked with TLC on small
instances. Its central invariants, and two refinements, are proved with
TLAPS. The modelled core
is what `spec.md` calls the synchronisation and transaction-construction engine.
The node daemon (`src/src/Daemon/`) is modelled too, as a program of its own.

## The system

The wallet (`CacheWallet.cpp`, `Transfer.cpp`) is a single-threaded console
program built on CryptoNote's `WalletGreen` and a node client. Its parts are:

| Part | Code | What it does |
|---|---|---|
| SyncCoordinator | `findNewTransactions`, `checkForNewTransactions`, `reset` (CacheWallet.cpp 1132-1320) | Catches the wallet up with the node when it opens, with stuck detection and saves. Announces new transactions. Rescans on `reset`. |
| TransferPlanner | `transfer`, `doTransfer`, `fusionTX`, `splitTx`, `sendMultipleTransactions` (Transfer.cpp 114-266, 496-879) | Validates a payment and submits it. Retries once with mixin 0. Escalates to fusion and then to splitting when the transaction is too large. |
| FusionOptimizer | `makeFusionTransaction`, `optimize`, `quickOptimize`, `fullOptimize` (Transfer.cpp 268-494) | Creates fusion transactions until none can be made, then polls until they confirm. |
| InteractiveSession | `run`, `inputLoop`, `getInputAndDoWorkWhileIdle`, `shutdown` (CacheWallet.cpp 96-216, 776-901, 1025-1074) | Reads console lines on a helper thread while the main thread runs the background tick every 5 s. Dispatches commands. Shuts down on `exit` or on a signal, under a 20 s watchdog. |
| Daemon | `main` (Daemon.cpp 94-355), `DaemonCommandsHandler` (DaemonCommandsHandler.cpp) | The node: starts the P2P server, the core, a console thread and the RPC server, runs the P2P loop until `exit` or Ctrl+C, then tears them down. |

They interact in a simple way. The session is the owner thread. It calls
`findNewTransactions` once after opening, then `checkForNewTransactions` on
every idle tick, then the transfer and optimize handlers on command. A
transfer calls `optimize` through `fusionTX`. The wallet object shows the
background synchronizer's progress only when the owner calls
`updateInternalMoonBank`. The models make that call explicit: a `Refresh`
copies the synchronizer's state into the wallet's visible state.

## Modules

### `WalletSync` (SyncCoordinator)

**State.** The node's height is `localH`. The synchronizer's progress is
`synced` (blocks) and `found` (transactions). The wallet's visible
`getBlockCount` and transaction list are `wBlocks` and `txs`. The wallet
file holds `savedBlocks` and `savedTxs`. The locals of `findNewTransactions`
are `wh`, `lh`, `tc` and `stuck`. `known` is `knownTransactionCount`.

**History variables.** `notified` counts the "New transaction found!"
messages per transaction index. `base` is the count at the start of the
session. `sinceSave` counts the iterations since the last save.

**Abstraction.** A transaction is abstracted to the sign of its
`totalAmount`: 1 incoming, -1 outgoing, 0 fusion. The sign decides what is
announced: the catch-up loop prints `!= 0`, the tick prints `> 0`.

**Actions.** `OpenWallet` covers the load and the preamble of
`findNewTransactions`, including the legacy-upgrade rescan.
`CatchUpIteration` is one loop iteration: refresh, re-read the heights, the
periodic save, then `StuckIteration` or `AdvanceIteration`. The other owner
actions are `FinishCatchUp` (the final save and `knownTransactionCount`),
`BackgroundTick` and `Reset`. The environment actions are `NodeSync`,
`Scan` and `Crash`. A crash keeps only the file.

`counter` is declared inside the loop in the code, so the model evaluates
`counter % SavePeriod = 0` with `counter = 1`.

### `NotificationFeed` (what SyncCoordinator promises)

An abstract specification with no loop, no synchronizer and no file. A
session reads a `feed` of transactions that only grows, takes note of a
prefix of it (`seen`, from `start`), and announces each transaction of that
prefix at most once (`shown`). Incoming transfers are always announced and
fusions never; for outgoing transfers it is the announcer's choice.
`Open(f)` starts a session that has taken note of all of `f`. `Take(f, k, S)`
grows the feed to `f` and takes note up to `k`, announcing the new indices
whose kind is in `S`. `Close` ends the session.

`WalletSync` implements it under the mapping `Feed`:
- `feed` is `txs`.
- `seen` is `Frontier`, or 0 when the wallet is down.
- `start` is `base`.
- `shown` is `notified`.
- `live` is `pc # "down"`.

`OpenWallet` and `Reset` map to `Open`. A catch-up iteration or a tick that
moves the frontier maps to `Take`. A crash maps to `Close`. The node's and
the synchronizer's steps, and `FinishCatchUp`, are stutters. The
`wallet_sync` run checks `FeedSpec`, and `WalletSyncProofs` proves it.

### `DaemonNode` (Daemon)

**State.** `pc` is where `main` is. `opt` is the parsed command line, as the
record of what `main` tests. `code` is how the process ended. `p2p`, `core`
and `rpc` are the life cycles of `p2psrv`, `ccore` and `rpcServer`. `con`,
`cmd` and `conStop` are the console thread, its command and the console
handler's stop request. `stopReq` records that `sendStopSignal` was called.
`sig` is where the Ctrl+C handler is. `level` is the log manager's level.
`bans` holds the durations given to `ban_host`.

**Actions.** Each step of `main` is an action, with its early returns:
- `Parse` (help, print-hash and parse errors return 1; `--version`
  returns 0);
- `Setup` (checkpoints and config folder, which throw);
- `P2pInit` and `CoreInit`;
- `StartHandling`;
- `Configure` (node id over 128 characters, bad fee address);
- `RpcStart` (throws when it cannot bind);
- `Run` (the handler is installed and `p2psrv.run()` starts);
- the teardown: `LoopReturned`, `StopHandling`, `ConsoleJoined`,
  `RpcStop`, `CoreDeinit`, `P2pDeinit`.

`LoopStop` is the P2P loop returning after the stop signal.

The console thread has `ReadCommand`, `RunCommand` and `ConsoleEnd`.
Commands are grouped by what they call:
- `save` stands for every core command;
- `peers` for the P2P-only ones;
- `exit`;
- `set_log`, with its `uint16_t` increment and range check;
- `ban`, with its `stoi`, zero and address checks, and the uninitialised
  `seconds` as a choice from `Garbage`.

The Ctrl+C handler is `Signal`, `SigStopHandling`, `SigJoined` and
`SigStopP2p`. Before `install`, Ctrl+C kills the process.

**Assumptions about code outside the repository.**
- `sendStopSignal` makes `run()` return, even if it comes before `run()`.
- `stop_handling` requests the stop, then joins the console thread.
- The console thread stops between commands.

### `TransferPlanner`

One transfer command, from the console arguments to the last message.

**Arithmetic.** Amounts are kept modulo `Modulus`, standing for 2^64, with
`Add`, `Sub` and `Mul` for the `uint64_t` operations.

**Wallet state.** `actual` is what `getActualBalance()` returns: the
balance as of the last refresh. `unlocked` and `locked` are the chain-side
balances. Change and fusion outputs sit in `locked` until they confirm,
which is the `Unlock` action.

**Abstraction.** `txIsTooLarge` and the messages `wallet.transfer` throws
are free choices at each call, because only the wallet knows a
transaction's size. `optimize` is a single step that may leave some of the
balance locked; the detailed model of optimize is the planned
`FusionOptimizer` module.

**Actions.**
- Front ends: `InlineTransfer` for `transfer <mixin> <addr> <amount> [-f fee]`,
  and `InteractiveTransfer`. The interactive one uses the values
  `getTransferAmount`/`getFee` really return: a `bool`.
- `doTransfer`: `StartTransfer` (the funds check and the confirmation),
  `SubmitTooLarge`, `SubmitAccepted`, `SubmitRetry` and `SubmitGiveUp`.
- `fusionTX`: `Optimize`, `FusionWait` (the one-minute wait in 5 s sleeps,
  with no refresh) and `FusionSubmit`.
- `splitTx` (`SplitTx`), with the plan as a function `SplitPlan`.
- `sendMultipleTransactions`: `SendAccepted`, `SendRefused` and `SendWait`.

### `FusionOptimizer`

`makeFusionTransaction`, `optimize`, `quickOptimize` and `fullOptimize`
(Transfer.cpp 268-494), as one owner thread against a chain that confirms.

**State.** The unspent outputs are `outs`, a bag of amounts. The wallet's
view of the unconfirmed fusion transactions is `wPool`. The chain's view
is `pool`. `txOut` records the outputs each fusion consumed. The locals of
`optimize` are `thr`, `best`, the vector `buf` with its `size` and the
range-for's `snap`, `it`, `endPos` and `completed`. `sent` is a history
variable: the fusion ids that were created.

**Threshold search.** `SearchFrom` is the loop of `makeFusionTransaction`
as written. It halves the threshold while it is above `MinFee` and keeps a
new best only on a strictly larger `estimate`. `RefBest` is the reference
arg-max over the halvings. `estimate` is abstracted to the number of
outputs below the threshold.

**The erase in the range-for.** `std::vector::erase` inside
`for (auto hash : fusionTransactionHashes)` is modelled by what the usual
build does. The loop keeps its cached end iterator. The erase shifts the
later elements down (`EraseRemove`), so the element after an erased one is
never visited. The stale tail slots stay readable up to the old end.

**Actions.** `QuickOptimize` and `FullOptimize` (the confirmation prompt
is a free choice), `Create` (one `makeFusionTransaction` with its
`push_back`, or the failure branch), `PollStart`, `ScanVisit`, `ScanEnd`,
and the environment's `Confirm`.

### `InteractiveSession`

`run`, `getAction`, `openWallet` with `getExistingWalletFileName`, the wait for the daemon, `inputLoop` with
`getInputAndDoWorkWhileIdle`, and `shutdown` (CacheWallet.cpp 96-242,
326-455, 504-548, 587-635, 776-901 and 1025-1074).

**Threads.** There are three. The main thread `pc` runs the selection
loop and the input loop. The reader thread runs `std::getline`, with its
line in `line`. Each caller of `shutdown`, the main thread and the Ctrl+C
handler, has its own program counter in `spc`. The watchdog thread `wd`
calls `exit(0)` after 20 s.

**Constants.** `HandlerOnMain` chooses how the signal is delivered. When
it is TRUE (a POSIX signal), the handler runs on the main thread, which
is suspended until it returns. When it is FALSE (a console control
handler), the handler runs on a thread of its own. `Configs` is the set
of command-line configurations. `MaxSignals` bounds the number of Ctrl+C
presses in a behaviour. Without that bound, a user pressing Ctrl+C forever
starves the main thread, and no liveness property can hold.

**Actions.**
- Main thread: `SelectAction`, `OpenAttempt`, `NodeWait`, `CatchUpDone`,
  `Poll` and `WalletCallDone`.
- Reader thread: `ReadLine` and `ReadEnd`.
- Each caller of `shutdown`: `ShutdownCheck`, `ShutdownSet`, `ShutdownSaved`,
  `ShutdownStopped` and `ShutdownJoined`.
- Watchdog: `Watchdog`.
- Environment: `Signal`, `NodeStarts` and `InputEnds`.

`SelectAction` includes `getExistingWalletFileName` (CacheWallet.cpp
504-548). The file from the command line is used when it exists.
Otherwise, and when no file is given, the user types a name (`AsksUser`).
At the end of input such a line is blank, and the prompt refuses it
forever.

A command, a tick or the catch-up is one region "inside the wallet" (`busy`).
What it does to the wallet is the subject of the other modules.

### `SessionShutdown` (what shutdown promises)

An abstract specification without `alreadyShuttingDown`, the two steps
of its test, the stops and the join. `owner` is the caller that takes over
shutdown's body (`"none"`, `"main"` or `"sig"`), `saved` says that its
`wallet.save()` has returned, and `ended` is how the process ended.
- `Enter(p)`: caller `p` takes over, and nobody has before.
- `Save`: the owner's save returns.
- `Finish`: the owner, having saved, ends the process its own way. The
  main thread returns from `run`, and the handler calls `exit(0)`.
- `Timeout`: the watchdog ends a begun shutdown, saved or not.

`InteractiveSession` implements it under the mapping `Shut`:
- `owner` is `ShutdownOwner`. That is the caller past the test, and after
  it has returned from shutdown, the caller that the way the process ended
  names.
- `saved` is `saved`, and `ended` is `ended`.

`ShutdownSet` maps to `Enter`, `ShutdownSaved` to `Save`, `ShutdownJoined`
to `Finish`, and the watchdog's `exit(0)` to `Timeout`. Every other step is
a stutter, including a `ShutdownCheck` that finds the flag set. The
`session` run checks `ShutdownSpec`, and `InteractiveSessionProofs`
proves it. The refinement only holds with the handler on the main thread:
with the handler on its own thread both callers pass the test (the finding
at `CacheWallet.cpp:1027`), and that is two `Enter`s.

### `ConsoleInput`

`transfer()`'s prompts in order (Transfer.cpp 685-721, 881-1129):
address, amount, fee, mixin and payment id, with the two balance checks.

**Parsers.** The parsers are modelled by what they do to the characters.
`ParseAmount` is the steps of `parseAmount`: trim, erase the commas, find
the point, run the trailing-zero loop, apply the fraction check, erase the
point, check the digits, pad with zeros, and apply `fromString`'s range
check in `UInt64`. `Stoi` is `std::stoi`: leading spaces, a sign, the
longest run of digits, and its two exceptions. `ToUInt16` is the narrowing
to `uint16_t`.

**Library parsers.** The address and payment id are parsed by the
CryptoNote library, so they are abstracted to their outcome. An address
input says whether its length is right, whether
`parseAccountAddressString` accepted it, and what `prefix` holds afterwards.

**The returned values.** `getTransferAmount` and `getFee` return
`parseAmount`'s bool, so an accepted amount or fee is 1, as in the code.

`RefParseAmount` is the amount encoding as `spec.md` section 6 states it.

## Runs

| Run | Result | What it shows |
|---|---|---|
| `wallet_sync` (`MCWalletSync.cfg`) | pass, about 12k states | `NotifyExactlyOnce` holds across crashes, resets, the legacy rescan and background ticks: every incoming transfer of a session is announced exactly once, and no fusion, old or unreached transaction is announced. `CatchUpTerminates` holds under the fairness below. `FeedSpec`: the model implements `NotificationFeed` under `Feed`. |
| `transfer` (`MCTransferPlanner.cfg`) | pass, about 300k states | `SplitConservesValue`: the parts of a split carry the (possibly reduced) amount including the division remainder, and their fees add up to `totalFee`. `RetryAtMostOnce`: at most two `wallet.transfer` calls, and the second only after a retryable message and with mixin 0. `SubmittedInPlanOrder`: parts are submitted in order, each once. |
| `transfer_split_oversized` | violation | `SplitOnlyFitting`: the `continue` of `splitTx` does not rebuild the split, so oversized parts are sent. |
| `transfer_split_hang` | violation | `FittingSplitReturns`: a split that fits the balance exactly never sends its last part (`neededBalance < balance` is strict). |
| `transfer_fusion_stale_wait` | violation | `FusionAbortOnlyWhenShort`: `fusionTX` aborts although the balance has unlocked, because its wait never refreshes the wallet. |
| `fusion` (`MCFusionOptimizer.cfg`) | pass, about 2.8k states | `NoUnconfirmedDropped`: a created fusion id leaves `optimize`'s vector only once it is confirmed. `FusionThresholdIsBest`: each created fusion uses the threshold the reference arg-max picks. `OptimizeReturns`: `optimize` always returns, given that the chain confirms. |
| `fusion_await_skip` | violation | `AwaitEndsOnlyWhenConfirmed`: with ids 1 and 3 confirmed, the erase of 1 shifts 2 into the visited slot. The loop skips 2, visits 3 twice, and `optimize` reports all confirmed while 2 is not. |
| `session` (`MCInteractiveSession.cfg`) | pass, about 10k states | With the handler on the main thread: `ShutdownOnce` (the saves and stops of `shutdown` run for one caller only), `EndOnlySaved` (the process returns or exits normally only after a save), `ShutdownEnds` (once shutdown starts, the process ends, by the watchdog if the save hangs), and `ShutdownSpec` (the model implements `SessionShutdown` under `Shut`). |
| `session_signal_in_command` | violation | `WalletCallsSerialized`: Ctrl+C during a command makes the handler call `wallet.save()` in the middle of that command's wallet call. |
| `session_config_password` | violation | `ConfigPasswordUsedOnce`: the command-line password is not used again until the user has typed a line. `passUses` counts its uses since the last line that `getAction`'s menu, `getExistingWalletFileName` or `getWalletPassword` read. In TLC's trace, `--wallet-file` and `--password` are both given. The file is already open elsewhere, or is not a wallet, so `run` returns to the selection screen. `getAction` then returns Open, and `getExistingWalletFileName` and `openWallet` take the same file and password again. Each call starts with its own `initial = TRUE`, so this loops with no user input. Without `--wallet-file` the user is asked for a file name on every pass, so the reuse is harmless. |
| `console` (`MCConsoleInput.cfg`) | pass, about 3.4k states | `AmountParseMatchesSpec`: on every line of up to 3 characters, `parseAmount` accepts exactly the texts of the spec's encoding, with the spec's value. `TypeOK` includes that the mixin is a `uint16_t`. |
| `daemon` (`MCDaemonNode.cfg`) | pass, about 39k states | `CollaboratorsLive`: no console command and no RPC request runs on a core or P2P server that is not initialised or is deinitialised. This holds whether the stop comes from `exit`, from Ctrl+C, or from both. `StopHonoured`: once `exit` is run or Ctrl+C is handled, the process ends. `TypeOK` includes that `set_log` only ever sets a `Logging::Level`. |

Every property of a passing run has a mutant in `PROJECT.json`: a plausible
bug in the mapped code that TLC must catch.

### Bounds

`MCWalletSync`:
- `MaxHeight = 3` and `MaxTx = 2` give an upgrade from a legacy file, a
  rescan, and transactions found both during catch-up and during a tick.
- `SavePeriod = 2`, and stuck thresholds 1 and 2 with cap 3, so the stuck
  save and the warning branch are both reached.

`MCTransferPlanner`:
- A 4-bit `uint64_t` (16), a fee floor of 2, and balances of 6 and 12.
- A split of a twice-too-large transaction makes 4 parts of fee 2 (total
  fee 8). A balance of 6 is short of that total, and 12 covers an amount of
  2 with room and an amount of 4 exactly. So the conserving split, the
  reduced split and the exact split all occur.
- The overflow case uses an amount of 15.

`MCFusionOptimizer`:
- Six outputs of 1, or four of 1 and one of 2, with fusions of 2 to 3
  inputs and a fee floor of 1.
- A batch holds up to three fusion ids. The skip needs an erase followed
  by an unconfirmed id, which takes three.
- `fullOptimize` runs several rounds.
- The halving from the balance of 6 visits 6, 3 and 1, which is `MinFee`.
  Ties between thresholds occur, and the strict `>` decides them.

`MCInteractiveSession`:
- All four combinations of a wallet file and a password on the command
  line.
- At most two Ctrl+C presses, so the handler can meet the main thread both
  before and after its flag is set.
- Every line kind (empty, `help`, `wallet`, `exit`) and the end of input.

`MCConsoleInput`:
- The characters `0 1 . , space -`, lines of up to 3 characters, one
  decimal place, a `uint64_t` of 100, an `int` of -100..99 and a
  `uint16_t` of 8.
- With these, `10` overflows `parseAmount`, `.00` enters the trailing-zero
  loop, `1.0` has exactly the allowed fraction, `100` is out of `stoi`'s
  range, and `-1` and `11` wrap in the `uint16_t`.

`MCDaemonNode`:
- Every command line the early returns tell apart: a normal start,
  `--help` and `--version`, with and without the console, a default or
  file checkpoint, a long node id, and each kind of fee address.
- Two console lines and two Ctrl+C presses. That is enough for `exit` and
  Ctrl+C to race, and for Ctrl+C to arrive before install and during the
  teardown.
- `set_log` arguments: a parse failure, 0, 5 (refused) and 65535 (wraps
  to FATAL).
- `ban` with no seconds, 0 seconds and 60 seconds.
- Every init step can fail.

### Fairness

`WalletSync` assumes weak fairness of the owner's catch-up steps, of the
synchronizer's scanning and of the node's import. The owner thread never
blocks inside the loop, since its sleeps end. The other two are the
collaborators' own threads. `Reset` and `Crash` are not forced.

`TransferPlanner` assumes weak fairness of the command's steps and of
`Unlock`, meaning the network eventually confirms change. The user's answers
and the wallet's refusals are free choices, never forced.

`FusionOptimizer` assumes weak fairness of the owner's steps and of
`Confirm`. The code's loop sleeps and polls, so it keeps taking steps. The
chain eventually confirms a fusion transaction it was sent.

`InteractiveSession` assumes weak fairness of each thread's steps and of
the reader's `ReadEnd`. The save (`ShutdownSaved`) gets no fairness: it
may hang. That is why the watchdog exists, and `ShutdownEnds` holds because
of it. The user's lines and the signals are not forced.

`DaemonNode` assumes weak fairness of `main`'s steps, of the P2P loop's
return, of a dispatched command finishing, of the console thread stopping
once asked, and of the handler's steps. Each is code that runs without
waiting for the user. Console lines and Ctrl+C are not forced. The daemon
legitimately runs forever when nobody asks it to stop, so deadlock is not
checked: a stopped process takes no steps.

`ConsoleInput` has no liveness property. Its prompts loop as long as the
user types lines the parsers refuse.

## Proofs

`WalletSyncProofs` proves, for every value of the constants allowed by
`ConstantsAssumption`:

- `TypeCorrect`: `Spec => []TypeOK`. It uses the lemmas
  `TxListsAreBoundedSeqs` and `GrowFound` (appending one scanned block keeps
  the list bounded and keeps its prefix), `InitTypeOK`, and `TypeStep` (one
  case per action).
- `NotifyExactlyOnceHolds`: `Spec => []NotifyExactlyOnce`. `NotifyExactlyOnce`
  is not inductive as it stands, so the proof goes through `SyncInductive`
  (the lemma `SyncInductiveHolds`, checked by TLC on the `wallet_sync`
  instance before it was proved), which adds two conjuncts:
  - `TxsPrefixOfFound`: what the wallet shows is a prefix of what the
    synchronizer found. This keeps an announced index bound to the same
    transaction after a refresh.
  - `SessionStartsBeforeFrontier`: the session's first index lies within
    what it has taken note of.

  `NotifyExtends` is the key lemma. Announcing `from+1..Len(new)` of a
  list that extends the old one moves an exactly-once record's frontier to
  `Len(new)`. Both the catch-up loop and the tick use it, each with its own
  set of printed signs. `AnnouncedStable` carries a record over to a list
  that agrees on its prefix.

- `Refinement`: `Spec => FeedSpec`, so `WalletSync` implements
  `NotificationFeed`. `StepRefines` shows that each step of `Next`,
  between two states of `SyncInductive`, is a step of `Feed!Next` or a
  stutter. The invariant is needed for two facts:
  - `TxsPrefixOfFound` gives the feed's `Extends` when a refresh copies
    `found` into `txs`;
  - `NotifyExactlyOnce` bounds the frontier by `Len(txs)`.

  The lemmas are:
  - `ListIsFeed`: a bounded list of signs is in `Feed!Lists`;
  - `ShownVisible`: the signs the catch-up loop and the tick print form a
    `Visible` set;
  - `TakeStep`: a move of the frontier from `Frontier` to `k` with
    `Notify` is a `Take`.

  The proof ends with `PTL` over `Spec` and `Feed!Spec`.

`TransferPlannerProofs` proves, for every value of the constants allowed by
`TransferAssumption` (any modulus, any fee floor, any sets of balances,
amounts, fees, mixins and split sizes):

- `TypeCorrect`: `Spec => []TypeOK`. This includes that the actual balance
  never exceeds the unlocked one.
- `RetryAtMostOnceHolds`: `Spec => []RetryAtMostOnce`.
- `SubmittedInPlanOrderHolds`: `Spec => []SubmittedInPlanOrder`.

None of the three is inductive alone. All go through `PlannerInductive`
(the lemma `PlannerInductiveHolds`, checked by TLC on the `transfer`
instance before it was proved). It adds these facts:

- Unlocked plus locked stays below 2^64. `sendMultipleTransactions` only
  moves change from unlocked to locked, and `Unlock` moves it back.
- Nothing is sent before `sending`.
- `cur` is a valid index while sending.
- `attempts` has one entry for the first try, after a retry, and none
  before.
- A retry is recorded only after a `RetryErrors` message, and with the
  request's mixin set to 0.

`InitInductive` and `InductiveStep` are the two facts of the induction.
`InductiveStep` has one case per action. Its lemmas are:

- `AddRange`: uint64 addition stays in range.
- `AppendSubSeq`: appending `plan[k]` to the prefix before `k` gives the
  prefix up to `k`.
- `SpendBalance`: a spend keeps the balances in range.
- `LastAttempt`: the last element of `attempts` after an append.

`SplitConservesValue` is not proved. It is about `SeqSum` over a plan of any
length, which would need induction over the sum's recursive function. The
installed provers cannot instantiate the library's induction theorems.

`DaemonNodeProofs` proves, for every value of the constants allowed by
`DaemonAssumption` (any command lines, `set_log` and `ban` arguments,
garbage values and bounds):

- `TypeCorrect`: `Spec => []TypeOK`.
- `CollaboratorsLiveHolds`: `Spec => []CollaboratorsLive`.

`CollaboratorsLive` is not inductive: a console thread that is idle may
read a core command next. The strengthening `IInv` adds `Lifecycle`, which
ties the state of `p2p`, `core`, `rpc` and `con` to `pc`. The facts that
matter are these:
- the console thread runs only from `start_handling` until the teardown;
- the RPC server runs from its start to `RpcStop`;
- the console thread has ended or never started once `pc` is in the
  teardown;
- `pc = "done"` only after the process has ended.

TLC checked `IInv` as an invariant on the daemon instance, with the
constants of `MCDaemonNode` (39k states), before the proof used it. Since
it is proved, no run keeps it. The lemmas are:
- `ConsoleLive`: a live console thread implies a live core and P2P server;
- `SetLogLevel` and `BanRange`: what the two state-changing commands can
  produce;
- `InitIInv`;
- `InductiveStep`, with one case per action.

`InteractiveSessionProofs` proves, for every set of command lines and
every bound on Ctrl+C presses that `SessionAssumption` allows:

- `TypeCorrect`: `Spec => []TypeOK`, whichever thread runs the handler.
  `TypeOK` includes that the reader thread's line is only held at the
  prompt or in a tick.
- `ShutdownOnceHolds` and `EndOnlySavedHolds`.
  Each is stated as `ASSUME HandlerOnMain PROVE Spec => ...`. This is the
  case of the `session` run: on POSIX the kernel runs the handler on the
  interrupted main thread. With the handler on a thread of its own, the
  first two are false; see the findings on `CacheWallet.cpp:1027` and
  `:215`.

`ShutdownOnce` is not inductive, because the test and the set of
`alreadyShuttingDown` are two steps. `SessionInductive` adds these facts:
- the main thread is in shutdown only after `run` called it;
- the flag is set exactly while some caller is past it, until the process
  ends;
- the handler waiting to set the flag sees it clear;
- the main thread waiting to set it sees it set only under a handler that
  is past it, and it cannot move while the handler runs;
- whoever is stopping or joining has seen `wallet.save()` return;
- a running watchdog belongs to a caller past the test.

TLC checked `SessionInductive` on the session instance, with three Ctrl+C
presses, before the proof used it. `SessionStep` has one case per action,
and `NodeWait` and `Poll` are split on whether they call shutdown.
`ShutdownRefinement` proves `Spec => ShutdownSpec` under `HandlerOnMain`.
The watchdog fact above was added for it. `ShutdownInitRefines` maps the
initial state, and `ShutdownStepRefines` takes one case per action:
- `ShutdownSet(p)` is `Enter(p)`. Nobody is past the test yet: for the
  handler the flag is clear, and when main moves the handler is at
  `"none"`, so a set flag would need a handler past it. So the owner is
  `"none"` before and `p` after.
- `ShutdownSaved` is `Save`, and `ShutdownJoined(p)` is `Finish`. By
  `ShutdownOnce`, `p` is the owner, and the joiner has saved.
- The watchdog's `exit(0)` is `Timeout`, because its caller is past the
  test.
- A `ShutdownCheck` that finds the flag set is a stutter. For the handler,
  the owner was main. For main, the step cannot happen, because a set flag
  means a handler past the test, and main does not run then.

`OwnerStable` gives every remaining step: nobody crosses the test and
`ended` is unchanged. `ShutdownOwner` is written as an `IF` chain. A `CASE`
chooses among all of its true arms, not the first, so it would not fix the
owner in states where two arms hold.

These stay model-checked only:
- `FusionOptimizer`'s `TypeOK` and `NoUnconfirmedDropped`. The module
  declares the `RECURSIVE` operator `SearchFrom`. Both properties also rest
  on sums of output counts (`SumFunction`) and on what `SelectSeq` keeps.
  Either would need induction over data.
- `ConsoleInput`'s `TypeOK` and `AmountParseMatchesSpec`. Every parser value
  goes through `Num`, a `FoldLeft` over the line's characters. Even
  "`Num(d)` is an integer" needs induction over the line.

Only TLC checks the liveness properties (`CatchUpTerminates`,
`FittingSplitReturns`, `OptimizeReturns`, `ShutdownEnds`, `StopHonoured`), because TLAPS does not reason about fairness or
ENABLED.

## Divergences without a run

These were found while modelling. Most are stated as a property in their
module and violated there, but the project keeps no run for them:

- The catch-up loop declares `int counter = 1;` inside its body, so
  `counter % 60 == 0` never holds and the periodic save never runs. A crash
  late in a long catch-up loses the whole scan (`ProgressSavedPeriodically`
  in `WalletSync`).

- `getFee` and `getTransferAmount` return `parseAmount`'s bool, so an
  interactive transfer sends 1 atomic unit as amount and as fee
  (`FeeAtLeastMinimum`).
- `doTransfer`'s `balance < amount + fee` wraps near 2^64
  (`FundsCheckSound`).
- `splitTx`'s `balance - totalFee` wraps when the fees exceed the balance
  (`SplitWithinBalance`).
- With the handler on its own thread (`HandlerOnMain = FALSE`), both
  callers pass `alreadyShuttingDown` (`ShutdownOnce`). Main also returns
  during the handler's save (`EndOnlySaved`).
- At the end of input every prompt spins on empty lines
  (`InputEndEndsSession`).
- `parseMixin` narrows `std::stoi`'s int to `uint16_t`, so `-1` is
  accepted as 65535 (`MixinBelowMinimumRejected`).
- A mixin out of `int`'s range throws an uncaught `std::out_of_range`
  (`MixinNeverCrashes`).
- `parseAddress` ignores `parseAccountAddressString`'s result and reads
  a `prefix` that a failed parse leaves unset (`AddressParsed`).

In the daemon, with no property because the code involved is outside the
repository:
- A Ctrl+C during `main`'s own `dch.stop_handling()` makes two threads join
  the console thread at once. `DaemonNode` reaches that state: `pc` and
  `sig` are both `"waitConsole"`.
- The handler is never uninstalled, and it holds references to `dch` and
  `p2psrv` after `main` destroys them.
- The fee amount is clamped to 100000 in a local variable only. The RPC
  server keeps the raw `int`, which wraps in `uint32_t` when negative.
- `ban` without seconds passes an uninitialised `time_t`.
- `set_log 65535` wraps to 0 and silently sets FATAL.
- `rollback_chain`'s `lexical_cast` throws uncaught on a non-number.

## Not modelled

- In the daemon: what the core commands print, `print_bc`'s range checks,
  and the core, P2P, RPC and console-handler libraries themselves.
- `ParseArguments.cpp` parses command-line options, which is pure I/O.
- Wallet generation, import and mnemonics (`generateWallet`,
  `importFromKeys`, `mnemonicImportWallet`, `isValidMnemonic`) are
  one-shot key derivation with no concurrency.
- Serialization headers, `Currency.h` and crypto belong to the underlying
  CryptoNote library.
- Printing (`listTransfers`, `balance`, `help`, `ColouredMsg`) has no
  state.
- The CryptoNote library's address and payment-id parsers are
  abstracted to their outcome in `ConsoleInput`.

## Plan

1. An abstract specification of the confirmation wait (`FusionBatch`
   shrinks to empty), and `optimize` with the erase fixed shown to refine
   it.
2. A proof of `NoUnconfirmedDropped`. This needs the threshold search
   written as a recursive function instead of a RECURSIVE operator.
   `FeeAtLeastMinimum` for the inline transfer could be added to
   `PlannerInductive`.
3. Compose `InteractiveSession` with `WalletSync` through `INSTANCE`, so
   that the tick and the catch-up are the synchronisation model's actions.
