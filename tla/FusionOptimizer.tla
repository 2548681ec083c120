--------------------------- MODULE FusionOptimizer ---------------------------
(***************************************************************************)
(* The fusion optimizer (FusionOptimizer) of                               *)
(* src/src/CacheWallet/Transfer.cpp: makeFusionTransaction's search for    *)
(* the best threshold, optimize's creation loop and confirmation poll, and *)
(* the quick_optimize and full_optimize commands that call it.             *)
(*                                                                         *)
(* The wallet's unspent outputs are a function from amounts to counts.     *)
(* The chain confirms fusion transactions on its own (Confirm); the wallet *)
(* learns of it only when updateInternalMoonBank runs (Refresh), which     *)
(* moves the fused output into the spendable outputs.  A fusion            *)
(* transaction spends MinInputs..MaxInputs outputs below the threshold     *)
(* and makes one output of their sum; which ones is the wallet's choice.   *)
(*                                                                         *)
(* The confirmation poll erases from fusionTransactionHashes inside a      *)
(* range-for over it.  The range-for caches the end iterator, so the       *)
(* model keeps the vector's storage: buf is its memory, size its length,   *)
(* it the cursor and endPos the cached end.  erase(remove(...)) shifts the *)
(* kept hashes to the front and leaves the slots behind the new end as     *)
(* they were, which is what the usual build does.                          *)
(***************************************************************************)
EXTENDS Integers, Sequences, FiniteSets, Functions

CONSTANTS
    Total,          \* the wallet's balance, in units of the smallest output
    InitialOutputs, \* the output multisets the wallet may start with
    MinFee,         \* CryptoNote::parameters::MINIMUM_FEE
    MinInputs,      \* fewest inputs of a fusion transaction
    MaxInputs       \* most inputs of a fusion transaction

Amt == 1..Total

\* Each fusion transaction turns at least two outputs into one, so a wallet
\* of Total outputs makes at most Total - 1 of them: ids are 1..MaxFusions.
MaxFusions == Total - 1

Ids == 1..MaxFusions

\* CryptoNote::WALLET_INVALID_TRANSACTION_ID
Invalid == 0

ASSUME FusionAssumption ==
    /\ Total \in Nat \ {0}
    /\ InitialOutputs \subseteq [Amt -> 0..Total]
    /\ MinFee \in Nat
    /\ MinInputs \in 2..MaxInputs

VARIABLES
    outs,      \* the wallet's spendable outputs: amount -> count
    pool,      \* fusion transactions not yet confirmed by the chain
    wPool,     \* getUnconfirmedTransactions() as of the last refresh
    txOut,     \* the amount of each fusion transaction's output
    nextId,    \* the id the next fusion transaction gets
    pc,        \* where the command is
    mode,      \* "quick" or "full"
    thr,       \* optimize's threshold argument
    best,      \* makeFusionTransaction's bestThreshold at its last call
    buf,       \* the storage of fusionTransactionHashes
    size,      \* fusionTransactionHashes.size()
    snap,      \* unconfirmedTxHashes of the current poll
    completed, \* fusionCompleted
    it,        \* the range-for's cursor
    endPos,    \* the range-for's cached end
    sent       \* the fusion transactions of the current optimize call

vars == <<outs, pool, wPool, txOut, nextId, pc, mode, thr, best, buf, size,
          snap, completed, it, endPos, sent>>

\* The number of outputs, and their value.
Count(o) == SumFunction(o)
Value(o) == SumFunction([a \in Amt |-> a * o[a]])

\* getActualBalance(): the value of the spendable outputs.
Actual == Value(outs)

\* wallet.estimate(t).fusionReadyCount: the outputs below t.
Estimate(t, o) == SumFunction([a \in Amt |-> IF a < t THEN o[a] ELSE 0])

\* The live part of fusionTransactionHashes.
Live == SubSeq(buf, 1, size)

-----------------------------------------------------------------------------
(***************************************************************************)
(* makeFusionTransaction's loop, as written: while threshold > MINIMUM_FEE *)
(* keep the threshold with the strictly largest estimate, then halve it.   *)
(***************************************************************************)
\* Mutant: a tie moves the threshold down.
SearchFromTies(t, optimizable, bestT, o) ==
    LET RECURSIVE S(_, _, _)
        S(u, opt, b) ==
            IF u > MinFee
            THEN IF Estimate(u, o) >= opt THEN S(u \div 2, Estimate(u, o), u)
                                          ELSE S(u \div 2, opt, b)
            ELSE b
    IN S(t, optimizable, bestT)

RECURSIVE SearchFrom(_, _, _, _)
SearchFrom(t, optimizable, bestT, o) ==
    IF t > MinFee
    THEN IF Estimate(t, o) > optimizable
         THEN SearchFrom(t \div 2, Estimate(t, o), t, o)
         ELSE SearchFrom(t \div 2, optimizable, bestT, o)
    ELSE bestT

BestThreshold(t, o) == SearchFrom(t, 0, t, o)

\* The reference: among the halvings of t above the fee, the largest one of
\* those with the most outputs below it; t itself when none has any.
Halvings(t) == {t \div (2 ^ k) : k \in 0..t}

RefBest(t, o) ==
    LET C   == {c \in Halvings(t) : c > MinFee}
        Top == {c \in C : \A d \in C : Estimate(d, o) <= Estimate(c, o)}
    IN IF \A c \in C : Estimate(c, o) = 0 THEN t
       ELSE CHOOSE c \in Top : \A d \in Top : d <= c

\* The inputs wallet.createFusionTransaction(b, ...) may spend.
Choices(o, b) ==
    {in \in [Amt -> 0..MaxInputs] :
        /\ \A a \in Amt : in[a] <= o[a] /\ (a >= b => in[a] = 0)
        /\ Count(in) \in MinInputs..MaxInputs}

\* The erase(remove(...)) of h: the kept hashes move to the front, the
\* slots behind the new end keep what they held.
EraseRemove(b, n, h) ==
    LET kept == SelectSeq(SubSeq(b, 1, n), LAMBDA x : x # h)
    IN <<[j \in 1..Len(b) |-> IF j <= Len(kept) THEN kept[j] ELSE b[j]],
         Len(kept)>>

\* wallet.updateInternalMoonBank(): the wallet takes note of the fusion
\* transactions the chain confirmed and their outputs become spendable.
Refresh ==
    LET done == wPool \ pool
    IN /\ outs' = [a \in Amt |->
                     outs[a] + Cardinality({i \in done : txOut[i] = a})]
       /\ wPool' = wPool \cap pool

-----------------------------------------------------------------------------
Init ==
    /\ outs \in InitialOutputs
    /\ pool = {} /\ wPool = {}
    /\ txOut = [i \in Ids |-> 0]
    /\ nextId = 1
    /\ pc = "idle"
    /\ mode = "quick"
    /\ thr = 0 /\ best = 0
    /\ buf = <<>> /\ size = 0
    /\ snap = {} /\ completed = FALSE
    /\ it = 1 /\ endPos = 0
    /\ sent = {}

\* A fresh optimize(wallet, threshold) call.
StartOptimize(threshold) ==
    /\ pc' = "creating"
    /\ thr' = threshold
    /\ buf' = <<>> /\ size' = 0
    /\ sent' = {}

\* quick_optimize and full_optimize: confirm, then optimize with the
\* actual balance as the threshold.
Optimize(m) ==
    /\ pc = "idle"
    /\ mode' = m
    /\ \E yes \in BOOLEAN :
          IF yes THEN StartOptimize(Actual)
                 ELSE UNCHANGED <<pc, thr, buf, size, sent>>
    /\ UNCHANGED <<outs, pool, wPool, txOut, nextId, best, snap, completed,
                   it, endPos>>

QuickOptimize == Optimize("quick")
FullOptimize == Optimize("full")

\* Mutant: fullOptimize goes on whatever optimize returned.
ReturnIgnoringResult(r) ==
    IF mode = "full"
    THEN StartOptimize(Actual)
    ELSE /\ pc' = "idle"
         /\ UNCHANGED <<thr, buf, size, sent>>

\* optimize returns r to its caller: quickOptimize reports and returns;
\* fullOptimize runs another round while r is TRUE.
Return(r) ==
    IF mode = "full" /\ r
    THEN StartOptimize(Actual)
    ELSE /\ pc' = "idle"
         /\ UNCHANGED <<thr, buf, size, sent>>

\* Mutant: the id is pushed without the WALLET_INVALID_TRANSACTION_ID test.
CreateNoInvalidCheck ==
    /\ pc = "creating"
    /\ best' = BestThreshold(thr, outs)
    /\ IF Choices(outs, best') # {} /\ nextId <= MaxFusions
       THEN \E in \in Choices(outs, best') :
              /\ outs' = [a \in Amt |-> outs[a] - in[a]]
              /\ txOut' = [txOut EXCEPT ![nextId] = Value(in)]
              /\ pool' = pool \cup {nextId}
              /\ wPool' = wPool \cup {nextId}
              /\ nextId' = nextId + 1
              /\ buf' = Append(SubSeq(buf, 1, size), nextId)
              /\ size' = size + 1
              /\ sent' = sent \cup {nextId}
       ELSE /\ UNCHANGED <<outs, txOut, pool, wPool, nextId, sent>>
            /\ buf' = Append(SubSeq(buf, 1, size), Invalid)
            /\ size' = size + 1
    /\ UNCHANGED <<pc, mode, thr, snap, completed, it, endPos>>

\* One makeFusionTransaction call and what optimize does with its result.
Create ==
    /\ pc = "creating"
    /\ best' = BestThreshold(thr, outs)
    /\ IF Choices(outs, best') # {} /\ nextId <= MaxFusions
       THEN \E in \in Choices(outs, best') :
              /\ outs' = [a \in Amt |-> outs[a] - in[a]]
              /\ txOut' = [txOut EXCEPT ![nextId] = Value(in)]
              /\ pool' = pool \cup {nextId}
              /\ wPool' = wPool \cup {nextId}
              /\ nextId' = nextId + 1
              /\ buf' = Append(SubSeq(buf, 1, size), nextId)
              /\ size' = size + 1
              /\ sent' = sent \cup {nextId}
              /\ UNCHANGED <<pc, mode, thr>>
       ELSE /\ UNCHANGED <<txOut, pool, nextId>>
            /\ IF size = 0
               THEN Return(FALSE) /\ UNCHANGED <<outs, wPool, mode>>
               ELSE /\ Refresh
                    /\ pc' = "polling"
                    /\ UNCHANGED <<mode, thr, buf, size, sent>>
    /\ UNCHANGED <<snap, completed, it, endPos>>

\* The head of the poll loop: getUnconfirmedTransactions(), then the
\* range-for starts with its end cached.
PollStart ==
    /\ pc = "polling"
    /\ snap' = wPool
    /\ completed' = TRUE
    /\ it' = 1
    /\ endPos' = size
    /\ pc' = "scanning"
    /\ UNCHANGED <<outs, pool, wPool, txOut, nextId, mode, thr, best, buf,
                   size, sent>>

\* Mutant: every visited hash is erased.
ScanVisitEraseAll ==
    /\ pc = "scanning"
    /\ it <= endPos
    /\ buf' = EraseRemove(buf, size, buf[it])[1]
    /\ size' = EraseRemove(buf, size, buf[it])[2]
    /\ it' = it + 1
    /\ UNCHANGED <<outs, pool, wPool, txOut, nextId, pc, mode, thr, best,
                   snap, completed, endPos, sent>>

\* One pass of the range-for body with tx = *it.  A hash still pending
\* clears fusionCompleted; any other is erased.
ScanVisit ==
    /\ pc = "scanning"
    /\ it <= endPos
    /\ LET tx == buf[it] IN
         IF tx \in snap
         THEN /\ completed' = FALSE
              /\ UNCHANGED <<buf, size>>
         ELSE /\ buf' = EraseRemove(buf, size, tx)[1]
              /\ size' = EraseRemove(buf, size, tx)[2]
              /\ UNCHANGED completed
    /\ it' = it + 1
    /\ UNCHANGED <<outs, pool, wPool, txOut, nextId, pc, mode, thr, best,
                   snap, endPos, sent>>

\* The range-for ends: either sleep, refresh and poll again, or report
\* "All fusion transactions confirmed!" and return TRUE.
ScanEnd ==
    /\ pc = "scanning"
    /\ it > endPos
    /\ IF completed
       THEN Return(TRUE) /\ UNCHANGED <<outs, wPool>>
       ELSE /\ Refresh
            /\ pc' = "polling"
            /\ UNCHANGED <<thr, buf, size, sent>>
    /\ UNCHANGED <<pool, txOut, nextId, mode, best, snap, completed, it,
                   endPos>>

\* The chain confirms a fusion transaction.
Confirm ==
    \E i \in pool :
        /\ pool' = pool \ {i}
        /\ UNCHANGED <<outs, wPool, txOut, nextId, pc, mode, thr, best, buf,
                       size, snap, completed, it, endPos, sent>>

Owner == Create \/ PollStart \/ ScanVisit \/ ScanEnd

Next == QuickOptimize \/ FullOptimize \/ Owner \/ Confirm

Spec == Init /\ [][Next]_vars

\* The owner thread runs a started command to its end, and the network
\* eventually confirms what was sent.
FairSpec == Spec /\ WF_vars(Owner) /\ WF_vars(Confirm)

-----------------------------------------------------------------------------
TypeOK ==
    /\ outs \in [Amt -> 0..Total]
    /\ pool \subseteq Ids /\ wPool \subseteq Ids
    /\ txOut \in [Ids -> 0..Total]
    /\ nextId \in 1..MaxFusions + 1
    /\ pc \in {"idle", "creating", "polling", "scanning"}
    /\ mode \in {"quick", "full"}
    /\ thr \in 0..Total /\ best \in 0..Total
    /\ buf \in Seq(Ids) /\ size \in 0..Len(buf)
    /\ snap \subseteq Ids /\ completed \in BOOLEAN
    /\ it \in 1..MaxFusions + 1 /\ endPos \in 0..MaxFusions
    /\ sent \subseteq Ids

\* optimize only forgets a fusion transaction of its batch once the chain
\* has confirmed it: an erase in the poll never drops a pending one, even
\* through the stale slots the range-for reads.
NoUnconfirmedDropped ==
    \A i \in sent : (\A j \in 1..size : buf[j] # i) => i \notin pool

\* Every makeFusionTransaction call uses the threshold the reference
\* definition picks: the largest halving with the most fusable outputs.
CreateStep == pc = "creating" /\ (pc' # pc \/ nextId' # nextId)

FusionThresholdIsBest ==
    [][CreateStep => best' = RefBest(thr, outs)]_vars

\* Every quick_optimize and full_optimize command returns to the prompt:
\* fullOptimize's rounds stop once optimize creates nothing.
OptimizeReturns == pc # "idle" ~> pc = "idle"

\* optimize reports "All fusion transactions confirmed!" only when none of
\* the fusion transactions it sent is still unconfirmed (spec 4.3:
\* awaitConfirmation terminates when the set is empty).
AwaitEndsOnlyWhenConfirmed ==
    [][pc = "scanning" /\ pc' # "polling" /\ pc' # "scanning"
         => sent \cap wPool = {}]_vars
====
