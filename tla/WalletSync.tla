----------------------------- MODULE WalletSync -----------------------------
(***************************************************************************)
(* The wallet's synchronisation with the chain (SyncCoordinator), as       *)
(* written in src/src/CacheWallet/CacheWallet.cpp:                         *)
(*                                                                         *)
(*   findNewTransactions   the catch-up loop run when a wallet is opened   *)
(*                         and after a reset, with stuck detection, the    *)
(*                         legacy-upgrade rescan and periodic saves;       *)
(*   checkForNewTransactions  the background tick run while the console    *)
(*                         waits for input;                                *)
(*   reset                 wipe the cached chain data and rescan.          *)
(*                                                                         *)
(* Its collaborators are modelled by what they expose to this code.  The   *)
(* node's local height grows by itself.  WalletGreen's                     *)
(* BlockchainSynchronizer scans blocks in the background (synced, found),  *)
(* but the wallet object only shows its progress (wBlocks, txs) when the   *)
(* owning thread calls updateInternalMoonBank.  The wallet file holds what *)
(* the last save() wrote; a crash loses everything else.                   *)
(*                                                                         *)
(* A transaction is abstracted to the sign of its totalAmount: 1 for an    *)
(* incoming transfer, -1 for an outgoing one, 0 for a fusion transaction.  *)
(* The console messages "New transaction found!" are recorded in notified, *)
(* which counts the messages given for each transaction index (1-based;    *)
(* the code's index i is our i + 1).                                       *)
(***************************************************************************)
EXTENDS Integers, Sequences

CONSTANTS
    MaxHeight,       \* bound on the node's local block height
    MaxTx,           \* bound on the number of wallet transactions
    SavePeriod,      \* the 60 of "counter % 60 == 0"
    StuckSaveAfter,  \* the 19 of "stuckCounter > 19"
    StuckWarnAfter,  \* the 20 of "stuckCounter > 20"
    StuckCap         \* bound on stuckCounter, a model bound only

ASSUME ConstantsAssumption ==
    /\ MaxHeight \in Nat \ {0}
    /\ MaxTx \in Nat
    /\ SavePeriod \in Nat \ {0}
    /\ StuckSaveAfter \in Nat
    /\ StuckWarnAfter \in Nat
    /\ StuckCap \in Nat
    /\ StuckSaveAfter < StuckWarnAfter
    /\ StuckWarnAfter < StuckCap

VARIABLES
    localH,       \* node.getLastLocalBlockHeight()
    synced,       \* blocks the synchronizer has processed (not yet visible)
    found,        \* transactions the synchronizer has found (not yet visible)
    wBlocks,      \* wallet.getBlockCount()
    txs,          \* wallet.getTransaction(0 .. getTransactionCount()-1)
    savedBlocks,  \* block count in the wallet file
    savedTxs,     \* transactions in the wallet file
    pc,           \* "down" (process not running), "catchup"
                  \* (in findNewTransactions) or "idle" (in inputLoop)
    wh,           \* findNewTransactions' local walletHeight
    lh,           \* findNewTransactions' local localHeight
    tc,           \* findNewTransactions' local transactionCount
    stuck,        \* findNewTransactions' local stuckCounter
    known,        \* walletInfo->knownTransactionCount
    base,         \* transactions already in the wallet when the session began
    notified,     \* number of "New transaction found!" messages per index
    sinceSave     \* loop iterations since the last save (history variable)

vars == <<localH, synced, found, wBlocks, txs, savedBlocks, savedTxs,
          pc, wh, lh, tc, stuck, known, base, notified, sinceSave>>

\* The sign of a transaction's totalAmount.
TxAmounts == {-1, 0, 1}

TxIndex == 1..MaxTx

Heights == 0..MaxHeight

\* The wallet file's possible contents.  A file with a block count of 1 and
\* transactions is one written by the legacy wallet.
TxLists == UNION {[1..n -> TxAmounts] : n \in 0..MaxTx}

WalletFiles == [blocks : 1..MaxHeight, txs : TxLists]

\* No messages yet in this session.
NoNotifications == [i \in TxIndex |-> 0]

\* One more message for each index in from+1..to whose amount is in shown.
Notify(from, to, list, shown) ==
    [i \in TxIndex |-> IF from < i /\ i <= to /\ list[i] \in shown
                          THEN notified[i] + 1 ELSE notified[i]]

\* One more iteration without a save; the history variable stops counting
\* once it is past SavePeriod, which is all ProgressSavedPeriodically tells.
Tally(n) == IF n > SavePeriod THEN n ELSE n + 1

\* findNewTransactions prints outgoing and incoming transfers, not fusions
\* (t.totalAmount != 0).
ShownInCatchUp == {-1, 1}

\* checkForNewTransactions prints incoming transfers only (t.totalAmount > 0).
ShownInTick == {1}

\* wallet.updateInternalMoonBank(): the wallet shows the synchronizer's work.
Refresh ==
    /\ wBlocks' = synced
    /\ txs' = found

\* wallet.save()
SaveAfterRefresh ==
    /\ savedBlocks' = synced
    /\ savedTxs' = found

-----------------------------------------------------------------------------
(* Initial state: the program is not running yet; the wallet file and the *)
(* node are in any state they can be in.                                   *)

Init ==
    /\ localH \in Heights
    /\ \E f \in WalletFiles : savedBlocks = f.blocks /\ savedTxs = f.txs
    /\ synced = savedBlocks
    /\ found = savedTxs
    /\ wBlocks = savedBlocks
    /\ txs = savedTxs
    /\ pc = "down"
    /\ wh = 0 /\ lh = 0 /\ tc = 0 /\ stuck = 0
    /\ known = 0
    /\ base = 0
    /\ notified = NoNotifications
    /\ sinceSave = 0

-----------------------------------------------------------------------------
(* The owning thread.                                                      *)

(* run() after openWallet: wallet.load of the file, then the preamble of  *)
(* findNewTransactions up to its loop, including the legacy upgrade that  *)
(* throws away the transactions of a wallet whose height is still 1.       *)
OpenWallet ==
    /\ pc = "down"
    /\ LET legacy == savedBlocks = 1 /\ Len(savedTxs) # 0
       IN /\ wBlocks' = savedBlocks
          /\ synced' = savedBlocks
          /\ txs' = IF legacy THEN <<>> ELSE savedTxs
          /\ found' = txs'
          /\ tc' = Len(txs')
    /\ lh' = localH
    /\ wh' = savedBlocks
    /\ stuck' = 0
    /\ known' = 0
    /\ base' = tc'
    /\ notified' = NoNotifications
    /\ sinceSave' = 0
    /\ pc' = "catchup"
    /\ UNCHANGED <<localH, savedBlocks, savedTxs>>

(* The loop body when wallet.getBlockCount() did not move: the stuck     *)
(* counter grows; at StuckSaveAfter+1 (and not beyond, the else-if) the    *)
(* wallet is saved, beyond StuckWarnAfter the user is only warned.         *)
StuckIteration(periodic) ==
    /\ stuck < StuckCap
    /\ stuck' = stuck + 1
    /\ LET save == \/ periodic
                   \/ ~(stuck' > StuckWarnAfter) /\ stuck' > StuckSaveAfter
       IN /\ IF save THEN SaveAfterRefresh
                     ELSE UNCHANGED <<savedBlocks, savedTxs>>
          /\ sinceSave' = IF save THEN 0 ELSE Tally(sinceSave)
    /\ UNCHANGED <<wh, tc, notified>>

\* Mutant: walletHeight = tmpWalletHeight forgotten.
AdvanceIterationKeepHeight(periodic) ==
    /\ stuck' = 0
    /\ UNCHANGED wh
    /\ IF Len(found) # tc
          THEN /\ notified' = Notify(tc, Len(found), found, ShownInCatchUp)
               /\ tc' = Len(found)
          ELSE UNCHANGED <<notified, tc>>
    /\ IF periodic THEN SaveAfterRefresh
                   ELSE UNCHANGED <<savedBlocks, savedTxs>>
    /\ sinceSave' = IF periodic THEN 0 ELSE Tally(sinceSave)

(* The loop body when the wallet height moved: the stuck counter is reset *)
(* and every transaction found since the last count is announced.          *)
AdvanceIteration(periodic) ==
    /\ stuck' = 0
    /\ wh' = synced
    /\ IF Len(found) # tc
          THEN /\ notified' = Notify(tc, Len(found), found, ShownInCatchUp)
               /\ tc' = Len(found)
          ELSE UNCHANGED <<notified, tc>>
    /\ IF periodic THEN SaveAfterRefresh
                   ELSE UNCHANGED <<savedBlocks, savedTxs>>
    /\ sinceSave' = IF periodic THEN 0 ELSE Tally(sinceSave)

(* One iteration of the loop of findNewTransactions: updateInternalMoonBank,*)
(* the heights read again, the periodic save, then one of the two branches. *)
(* counter is declared inside the loop body, so it is 1 whenever tested.   *)
CatchUpIteration ==
    /\ pc = "catchup"
    /\ wh < lh
    /\ Refresh
    /\ lh' = localH
    /\ LET counter == 1
           periodic == counter % SavePeriod = 0
       IN IF synced = wh THEN StuckIteration(periodic)
                         ELSE AdvanceIteration(periodic)
    /\ UNCHANGED <<localH, synced, found, pc, known, base>>

\* Mutant: the count converted as if it were the last index.
FinishCatchUpLastIndex ==
    /\ pc = "catchup"
    /\ ~(wh < lh)
    /\ savedBlocks' = wBlocks
    /\ savedTxs' = txs
    /\ known' = tc - 1
    /\ sinceSave' = 0
    /\ pc' = "idle"
    /\ UNCHANGED <<localH, synced, found, wBlocks, txs, wh, lh, tc, stuck,
                   base, notified>>

\* Mutant: knownTransactionCount = transactionCount forgotten.
FinishCatchUpKeepKnown ==
    /\ pc = "catchup"
    /\ ~(wh < lh)
    /\ savedBlocks' = wBlocks
    /\ savedTxs' = txs
    /\ sinceSave' = 0
    /\ pc' = "idle"
    /\ UNCHANGED <<localH, synced, found, wBlocks, txs, wh, lh, tc, stuck,
                   base, notified, known>>

(* The loop of findNewTransactions ends: the final save, and the count of *)
(* transactions seen becomes knownTransactionCount.                        *)
FinishCatchUp ==
    /\ pc = "catchup"
    /\ ~(wh < lh)
    /\ savedBlocks' = wBlocks
    /\ savedTxs' = txs
    /\ known' = tc
    /\ sinceSave' = 0
    /\ pc' = "idle"
    /\ UNCHANGED <<localH, synced, found, wBlocks, txs, wh, lh, tc, stuck,
                   base, notified>>

(* checkForNewTransactions, the work done every 5 seconds while the       *)
(* console waits for a line.                                               *)
BackgroundTick ==
    /\ pc = "idle"
    /\ Refresh
    /\ IF Len(found) # known
          THEN /\ notified' = Notify(known, Len(found), found, ShownInTick)
               /\ known' = Len(found)
          ELSE UNCHANGED <<notified, known>>
    /\ UNCHANGED <<localH, synced, found, savedBlocks, savedTxs, pc, wh, lh,
                   tc, stuck, base, sinceSave>>

(* The reset command: clearMoonBankAndShutdown wipes the cached chain data *)
(* and saves, load reopens the emptied wallet, and findNewTransactions     *)
(* starts over.  knownTransactionCount keeps its value until the catch-up  *)
(* ends.                                                                   *)
Reset ==
    /\ pc = "idle"
    /\ savedBlocks' = 1
    /\ savedTxs' = <<>>
    /\ wBlocks' = 1
    /\ txs' = <<>>
    /\ synced' = 1
    /\ found' = <<>>
    /\ lh' = localH
    /\ wh' = 1
    /\ tc' = 0
    /\ stuck' = 0
    /\ base' = 0
    /\ notified' = NoNotifications
    /\ sinceSave' = 0
    /\ pc' = "catchup"
    /\ UNCHANGED <<localH, known>>

-----------------------------------------------------------------------------
(* The environment.                                                        *)

(* The node imports one more block. *)
NodeSync ==
    /\ localH < MaxHeight
    /\ localH' = localH + 1
    /\ UNCHANGED <<synced, found, wBlocks, txs, savedBlocks, savedTxs, pc,
                   wh, lh, tc, stuck, known, base, notified, sinceSave>>

(* The wallet's synchronizer processes one block of the node, which may   *)
(* hold one of the wallet's transactions.                                  *)
Scan ==
    /\ pc # "down"
    /\ synced < localH
    /\ synced' = synced + 1
    /\ \E new \in {<<>>} \cup {<<a>> : a \in TxAmounts} :
          /\ Len(found) + Len(new) <= MaxTx
          /\ found' = found \o new
    /\ UNCHANGED <<localH, wBlocks, txs, savedBlocks, savedTxs, pc, wh, lh,
                   tc, stuck, known, base, notified, sinceSave>>

(* The process is killed; only the wallet file survives. *)
Crash ==
    /\ pc # "down"
    /\ pc' = "down"
    /\ UNCHANGED <<localH, synced, found, wBlocks, txs, savedBlocks, savedTxs,
                   wh, lh, tc, stuck, known, base, notified, sinceSave>>

-----------------------------------------------------------------------------

Owner == OpenWallet \/ CatchUpIteration \/ FinishCatchUp \/ BackgroundTick
         \/ Reset

Environment == NodeSync \/ Scan \/ Crash

Next == Owner \/ Environment

(* The owning thread never stops while the loop or the console poll runs, *)
(* and the node and the synchronizer keep working; the user's commands     *)
(* (reset) and crashes are not forced to happen.                           *)
Fairness ==
    /\ WF_vars(CatchUpIteration \/ FinishCatchUp)
    /\ WF_vars(Scan)
    /\ WF_vars(NodeSync)

Spec == Init /\ [][Next]_vars

FairSpec == Spec /\ Fairness

-----------------------------------------------------------------------------
(* Properties.                                                             *)

TypeOK ==
    /\ localH \in Heights
    /\ synced \in 1..MaxHeight
    /\ found \in Seq(TxAmounts) /\ Len(found) <= MaxTx
    /\ wBlocks \in 1..MaxHeight
    /\ txs \in Seq(TxAmounts) /\ Len(txs) <= MaxTx
    /\ savedBlocks \in 1..MaxHeight
    /\ savedTxs \in Seq(TxAmounts) /\ Len(savedTxs) <= MaxTx
    /\ pc \in {"down", "catchup", "idle"}
    /\ wh \in Nat /\ lh \in Nat /\ tc \in Nat /\ known \in Nat /\ base \in Nat
    /\ stuck \in 0..StuckCap
    /\ notified \in [TxIndex -> Nat]
    /\ sinceSave \in 0..SavePeriod + 1

\* The transactions the current session has taken note of: those counted by
\* the catch-up loop while it runs, knownTransactionCount afterwards.
Frontier == IF pc = "catchup" THEN tc ELSE known

(* Exactly-once notification, across the catch-up loop of                 *)
(* findNewTransactions and the background checkForNewTransactions: no     *)
(* transaction is announced twice in a session, none that was in the      *)
(* wallet before the session or is a fusion is announced, none the        *)
(* session has not reached yet is announced, and every incoming transfer  *)
(* the session has reached has been announced.                            *)
NotifyExactlyOnce ==
    pc # "down" =>
        /\ Frontier <= Len(txs)
        /\ \A i \in TxIndex :
              /\ notified[i] <= 1
              /\ notified[i] = 1 => /\ base < i /\ i <= Frontier
                                    /\ txs[i] # 0
              /\ (base < i /\ i <= Frontier /\ txs[i] = 1)
                    => notified[i] = 1

(* The wallet never shows a transaction list the synchronizer did not    *)
(* produce: what updateInternalMoonBank last exposed is a prefix of what   *)
(* the synchronizer has found, so an index keeps its transaction.  With    *)
(* TypeOK and NotifyExactlyOnce it makes an inductive invariant.           *)
TxsPrefixOfFound ==
    /\ Len(txs) <= Len(found)
    /\ \A i \in 1..Len(txs) : txs[i] = found[i]

\* The session's first transaction lies within what it has taken note of.
SessionStartsBeforeFrontier == pc # "down" => base <= Frontier

SyncInductive ==
    /\ TypeOK
    /\ TxsPrefixOfFound
    /\ SessionStartsBeforeFrontier
    /\ NotifyExactlyOnce

(* The catch-up loop of findNewTransactions always ends (or the process   *)
(* dies) once the synchronizer keeps scanning: the stuck detection never  *)
(* traps it.                                                               *)
CatchUpTerminates == (pc = "catchup") ~> (pc # "catchup")

(* The comment at the save in the loop of findNewTransactions: "Save      *)
(* periodically so if someone closes before completion they don't lose    *)
(* all their progress", every 60 iterations (spec 4.1).  A crash during    *)
(* catch-up then never loses more than SavePeriod iterations of scanning.  *)
ProgressSavedPeriodically ==
    pc = "catchup" => sinceSave <= SavePeriod


(* The refinement mapping to NotificationFeed: the feed is what the       *)
(* wallet shows (txs), the session's frontier is what the catch-up loop   *)
(* or knownTransactionCount has taken note of, and a session lives while  *)
(* the process runs.                                                       *)
Feed == INSTANCE NotificationFeed WITH
            feed <- txs,
            seen <- IF pc = "down" THEN 0 ELSE Frontier,
            start <- base,
            shown <- notified,
            live <- pc # "down"

(* findNewTransactions, checkForNewTransactions, reset and a crash       *)
(* implement NotificationFeed: within a session updateInternalMoonBank    *)
(* only ever extends the list the wallet shows, the frontier never moves  *)
(* back (not even when the catch-up hands over to                         *)
(* knownTransactionCount), and each step announces exactly what it newly  *)
(* takes note of.                                                          *)
FeedSpec == Feed!Spec
=============================================================================
