--------------------------- MODULE TransferPlanner ---------------------------
(***************************************************************************)
(* One transfer command (TransferPlanner), as written in                  *)
(* src/src/CacheWallet/Transfer.cpp: the two front ends transfer(args) and *)
(* the interactive transfer(), doTransfer with its one mixin-0 retry,      *)
(* fusionTX (optimize, then a one-minute wait for the balance), splitTx    *)
(* and sendMultipleTransactions.                                           *)
(*                                                                         *)
(* Amounts are uint64 in the code and are kept modulo Modulus here.  The   *)
(* wallet is modelled by what the code sees of it: getActualBalance()      *)
(* returns actual, the balance as of the last updateInternalMoonBank; the  *)
(* chain side holds unlocked (spendable) and locked (change and fusion     *)
(* outputs not confirmed yet).  optimize is the subject of                 *)
(* FusionOptimizer and is taken here as one step that may leave part of    *)
(* the balance locked.  A transaction's size is only known to the wallet:  *)
(* txIsTooLarge is a free choice at every call.                            *)
(***************************************************************************)
EXTENDS Integers, Sequences

CONSTANTS
    Modulus,     \* 2^64: the range of uint64_t
    MinFee,      \* CryptoNote::parameters::MINIMUM_FEE
    Balances,    \* actual balances the wallet may hold when the command starts
    Amounts,     \* amounts parseAmount may return for what the user typed
    Fees,        \* fees parseFee accepts (all at least MinFee)
    Mixins,      \* mixins parseMixin accepts
    DefaultMixin,\* CryptoNote::parameters::DEFAULT_MIXIN
    SizeChunks,  \* possible ceil(txSize / maxSize) of a too large transaction
    WaitTicks    \* the one minute of fusionTX, in 5-second sleeps

ASSUME TransferAssumption ==
    /\ Modulus \in Nat \ {0}
    /\ MinFee \in 1..Modulus - 1
    /\ Balances \subseteq 0..Modulus - 1
    /\ Amounts \subseteq 0..Modulus - 1
    /\ Fees \subseteq MinFee..Modulus - 1
    /\ Mixins \subseteq Nat /\ DefaultMixin \in Nat
    /\ SizeChunks \subseteq Nat \ {0, 1}
    /\ WaitTicks \in Nat

VARIABLES
    pc,        \* where the command is
    actual,    \* wallet.getActualBalance()
    unlocked,  \* spendable balance on the chain side
    locked,    \* balance locked on the chain side
    req,       \* the TransactionParameters p: [amount, fee, mixin]
    funds,     \* the balance doTransfer compared amount + fee against
    retried,   \* doTransfer's retried
    attempts,  \* doTransfer's calls of wallet.transfer: [mixin, err]
    plan,      \* splitTx's transfers: [amount, fee, large]
    planned,   \* splitTx's (possibly reduced) amount, its totalFee and the
               \* balance it saw
    cur,       \* sendMultipleTransactions' currentTx
    sent,      \* every transaction the wallet accepted: [amount, fee, large]
    ticks,     \* 5-second sleeps of fusionTX's balance wait so far
    outcome    \* what the command told the user in the end

vars == <<pc, actual, unlocked, locked, req, funds, retried, attempts, plan,
          planned, cur, sent, ticks, outcome>>

\* uint64_t arithmetic.
Add(a, b) == (a + b) % Modulus
Sub(a, b) == (a - b) % Modulus
Mul(a, b) == (a * b) % Modulus

\* The error messages wallet.transfer may throw, "none" when it succeeds;
\* "network" stands for every message doTransfer does not retry.
Errors == {"none", "dust", "mixin", "node", "network"}

\* The messages doTransfer retries once with mixin 0: "Not enough money:
\* Wrong amount", "MixIn count is too big" and "Internal node error".
RetryErrors == {"dust", "mixin", "node"}

Needed(t) == Add(t.amount, t.fee)

\* wallet.transfer(t) accepted: the amount and fee leave the balance and
\* the change, some c of what is left, is locked until it confirms.
Spend(t, large) ==
    \E c \in 0..(actual - Needed(t)) :
        /\ actual' = actual - Needed(t) - c
        /\ unlocked' = unlocked - Needed(t) - c
        /\ locked' = locked + c
        /\ sent' = Append(sent, [amount |-> t.amount, fee |-> t.fee,
                                 large |-> large])

NoPlan == [amount |-> 0, totalFee |-> 0, balance |-> 0]

Init ==
    /\ pc = "idle"
    /\ actual \in Balances
    /\ unlocked = actual
    /\ locked = 0
    /\ req = [amount |-> 0, fee |-> 0, mixin |-> 0]
    /\ funds = 0
    /\ retried = FALSE
    /\ attempts = <<>>
    /\ plan = <<>>
    /\ planned = NoPlan
    /\ cur = 1
    /\ sent = <<>>
    /\ ticks = 0
    /\ outcome = "none"

Finish(o) == pc' = "done" /\ outcome' = o

-----------------------------------------------------------------------------
(* doTransfer up to its loop: the funds check, then confirmTransaction.   *)
StartTransfer(amount, fee, mixin) ==
    /\ req' = [amount |-> amount, fee |-> fee, mixin |-> mixin]
    /\ funds' = actual
    /\ IF actual < Add(amount, fee)
          THEN Finish("insufficient")
          ELSE \E yes \in BOOLEAN :
                  IF yes THEN pc' = "submit" /\ UNCHANGED outcome
                         ELSE Finish("cancelled")

(* transfer(args): "transfer <mixin> <address> <amount> [-f <fee>]        *)
(* [-p <id>]"; without -f the fee is MINIMUM_FEE.                          *)
InlineTransfer ==
    /\ pc = "idle"
    /\ \E amount \in Amounts, fee \in Fees \cup {MinFee}, mixin \in Mixins :
          StartTransfer(amount, fee, mixin)
    /\ UNCHANGED <<actual, unlocked, locked, retried, attempts, plan, planned,
                   cur, sent, ticks>>

(* transfer(): getTransferAmount and getFee return the bool that          *)
(* parseAmount(str, amount) returns, so a valid amount is 1 and a fee     *)
(* typed in is 1; an empty fee line gives MINIMUM_FEE.  Its own funds     *)
(* checks are implied by the one doTransfer repeats.                       *)
InteractiveTransfer ==
    /\ pc = "idle"
    /\ \E typed \in BOOLEAN, mixin \in Mixins \cup {DefaultMixin} :
          StartTransfer(1, IF typed THEN 1 ELSE MinFee, mixin)
    /\ UNCHANGED <<actual, unlocked, locked, retried, attempts, plan, planned,
                   cur, sent, ticks>>

(* One pass of doTransfer's loop.  txIsTooLarge(p) holds: fusionTX takes *)
(* over, and the loop ends when it returns.                                *)
SubmitTooLarge ==
    /\ pc = "submit"
    /\ pc' = "optimize"
    /\ UNCHANGED <<actual, unlocked, locked, req, funds, retried, attempts,
                   plan, planned, cur, sent, ticks, outcome>>

\* wallet.transfer(p) is called and throws err, or returns when err is "none".
Attempt(err) == attempts' = Append(attempts, [mixin |-> req.mixin, err |-> err])

(* wallet.transfer(p) succeeds. *)
SubmitAccepted ==
    /\ pc = "submit"
    /\ Attempt("none")
    /\ Spend(req, FALSE)
    /\ Finish("sent")
    /\ UNCHANGED <<req, funds, retried, plan, planned, cur, ticks>>

\* Mutant: the retry is offered whatever "retried" says.
SubmitRetryAgain ==
    /\ pc = "submit"
    /\ \E err \in RetryErrors : Attempt(err)
    /\ req' = [req EXCEPT !.mixin = 0]
    /\ retried' = TRUE
    /\ UNCHANGED <<pc, actual, unlocked, locked, funds, plan, planned, cur,
                   sent, ticks, outcome>>

(* The catch of doTransfer: a retryable message before any retry, and the *)
(* user agrees to a mixin of 0: the loop goes round again.                 *)
SubmitRetry ==
    /\ pc = "submit"
    /\ \E err \in RetryErrors : Attempt(err)
    /\ ~retried
    /\ req' = [req EXCEPT !.mixin = 0]
    /\ retried' = TRUE
    /\ UNCHANGED <<pc, actual, unlocked, locked, funds, plan, planned, cur,
                   sent, ticks, outcome>>

(* The catch of doTransfer otherwise: the user refuses the retry          *)
(* ("Cancelling transaction."), or the message is not retried, or the     *)
(* retry failed too; the loop ends.                                        *)
SubmitGiveUp ==
    /\ pc = "submit"
    /\ \E err \in Errors \ {"none"} :
          /\ Attempt(err)
          /\ IF err \in RetryErrors /\ ~retried
                THEN Finish("cancelled")
                ELSE Finish("failed")
    /\ UNCHANGED <<actual, unlocked, locked, req, funds, retried, plan,
                   planned, cur, sent, ticks>>

-----------------------------------------------------------------------------
(* fusionTX.                                                               *)

(* optimize(wallet, amount + fee) has run (FusionOptimizer): the fusion   *)
(* transactions it created have confirmed, or it returned while some c of *)
(* the balance is still locked in them; it refreshed the wallet last.      *)
Optimize ==
    /\ pc = "optimize"
    /\ \E c \in 0..unlocked :
          /\ unlocked' = unlocked - c
          /\ locked' = locked + c
          /\ actual' = unlocked - c
    /\ ticks' = 0
    /\ pc' = "fusionWait"
    /\ UNCHANGED <<req, funds, retried, attempts, plan, planned, cur, sent,
                   outcome>>

\* Mutant: the minute is checked with one sleep too many.
FusionWaitLate ==
    /\ pc = "fusionWait"
    /\ actual < Needed(req)
    /\ IF ticks > WaitTicks
          THEN Finish("aborted") /\ UNCHANGED ticks
          ELSE ticks' = ticks + 1 /\ UNCHANGED <<pc, outcome>>
    /\ UNCHANGED <<actual, unlocked, locked, req, funds, retried, attempts,
                   plan, planned, cur, sent>>

(* One pass of fusionTX's loop "while (getActualBalance() < amount +      *)
(* fee)": after a minute the transfer is aborted, otherwise it sleeps 5s. *)
(* Nothing in the loop calls updateInternalMoonBank.                       *)
FusionWait ==
    /\ pc = "fusionWait"
    /\ actual < Needed(req)
    /\ IF ticks >= WaitTicks
          THEN Finish("aborted") /\ UNCHANGED ticks
          ELSE ticks' = ticks + 1 /\ UNCHANGED <<pc, outcome>>
    /\ UNCHANGED <<actual, unlocked, locked, req, funds, retried, attempts,
                   plan, planned, cur, sent>>

(* The rest of fusionTX: txIsTooLarge(p) again, then splitTx or one       *)
(* wallet.transfer whose errors are reported without a retry.              *)
FusionSubmit ==
    /\ pc = "fusionWait"
    /\ ~(actual < Needed(req))
    /\ \/ pc' = "split" /\ UNCHANGED <<actual, unlocked, locked, sent, outcome>>
       \/ Spend(req, FALSE) /\ Finish("sent")
       \/ Finish("failed") /\ UNCHANGED <<actual, unlocked, locked, sent>>
    /\ UNCHANGED <<req, funds, retried, attempts, plan, planned, cur, ticks>>

-----------------------------------------------------------------------------
(* splitTx and sendMultipleTransactions.                                  *)

\* The transfers splitTx builds on its first round, numTxMultiplier = 2, for
\* a transaction of `chunks' times the maximum size, with the balance bal.
SplitCount(chunks) == 2 * chunks

FeePerTx(p, n) == IF p.fee \div n > MinFee THEN p.fee \div n ELSE MinFee

TotalFee(p, n) == Mul(FeePerTx(p, n), n)

SplitAmount(p, n, bal) ==
    IF Add(p.amount, TotalFee(p, n)) > bal THEN Sub(bal, TotalFee(p, n))
                                           ELSE p.amount

\* Mutant: the remainder of the integer division is not added back.
SplitPlanNoChange(p, n, bal) ==
    LET amt == SplitAmount(p, n, bal)
    IN [i \in 1..n |-> [amount |-> amt \div n, fee |-> FeePerTx(p, n)]]

SplitPlan(p, n, bal) ==
    LET amt == SplitAmount(p, n, bal)
    IN [i \in 1..n |->
          [amount |-> amt \div n + (IF i = 1 THEN amt % n ELSE 0),
           fee    |-> FeePerTx(p, n)]]

(* splitTx: the user agrees (or "Cancelling transaction."), the transfers *)
(* are built, and the check "txIsTooLarge(tx) ... continue" only continues *)
(* its own for loop: whatever sizes the transfers have, they are sent.     *)
SplitTx ==
    /\ pc = "split"
    /\ \/ Finish("cancelled") /\ UNCHANGED <<plan, planned>>
       \/ \E chunks \in SizeChunks :
          \E large \in [1..SplitCount(chunks) -> BOOLEAN] :
             LET n == SplitCount(chunks)
                 p == SplitPlan(req, n, actual)
             IN /\ plan' = [i \in 1..n |-> [amount |-> p[i].amount, fee |-> p[i].fee,
                                                 large |-> large[i]]]
                /\ planned' = [amount |-> SplitAmount(req, n, actual),
                               totalFee |-> TotalFee(req, n),
                               balance |-> actual]
                /\ pc' = "sending"
                /\ UNCHANGED outcome
    /\ cur' = 1
    /\ UNCHANGED <<actual, unlocked, locked, req, funds, retried, attempts, sent,
                   ticks>>

\* Mutant: the loop does not move on to the next transfer after a send.
SendAcceptedStay ==
    /\ pc = "sending"
    /\ LET t == plan[cur] IN
          /\ Needed(t) < unlocked
          /\ ~t.large
          /\ \E c \in 0..(unlocked - Needed(t)) :
                /\ actual' = unlocked - Needed(t) - c
                /\ unlocked' = unlocked - Needed(t) - c
                /\ locked' = locked + c
          /\ sent' = Append(sent, t)
    /\ UNCHANGED <<pc, outcome, cur>>
    /\ UNCHANGED <<req, funds, retried, attempts, plan, planned, ticks>>

(* One pass of the while loop of sendMultipleTransactions for transfer    *)
(* cur: updateInternalMoonBank, then wallet.transfer when the needed      *)
(* balance is strictly below the available one.  A transfer the wallet     *)
(* refuses (too large, a network error) throws out of splitTx into the     *)
(* catch of fusionTX, and the command ends there.                          *)
SendAccepted ==
    /\ pc = "sending"
    /\ LET t == plan[cur] IN
          /\ Needed(t) < unlocked
          /\ ~t.large
          /\ \E c \in 0..(unlocked - Needed(t)) :
                /\ actual' = unlocked - Needed(t) - c
                /\ unlocked' = unlocked - Needed(t) - c
                /\ locked' = locked + c
          /\ sent' = Append(sent, t)
    /\ IF cur = Len(plan) THEN Finish("sent") /\ UNCHANGED cur
                          ELSE cur' = cur + 1 /\ UNCHANGED <<pc, outcome>>
    /\ UNCHANGED <<req, funds, retried, attempts, plan, planned, ticks>>

(* The same pass when the wallet refuses the transfer: because it is too  *)
(* large, or with any other message ("network").                           *)
SendRefused ==
    /\ pc = "sending"
    /\ Needed(plan[cur]) < unlocked
    /\ actual' = unlocked
    /\ Finish("failed")
    /\ UNCHANGED <<unlocked, locked, req, funds, retried, attempts, plan,
                   planned, cur, sent, ticks>>

(* The same pass when the balance is short: "Will try again in 5         *)
(* seconds...".                                                            *)
SendWait ==
    /\ pc = "sending"
    /\ ~(Needed(plan[cur]) < unlocked)
    /\ actual' = unlocked
    /\ UNCHANGED <<pc, unlocked, locked, req, funds, retried, attempts, plan,
                   planned, cur, sent, ticks, outcome>>

-----------------------------------------------------------------------------
(* The chain: locked change and fusion outputs confirm and unlock.         *)
Unlock ==
    /\ locked > 0
    /\ \E x \in 1..locked :
          /\ unlocked' = unlocked + x
          /\ locked' = locked - x
    /\ UNCHANGED <<pc, actual, req, funds, retried, attempts, plan, planned,
                   cur, sent, ticks, outcome>>

Command == InlineTransfer \/ InteractiveTransfer
           \/ SubmitTooLarge \/ SubmitAccepted \/ SubmitRetry \/ SubmitGiveUp
           \/ Optimize \/ FusionWait \/ FusionSubmit
           \/ SplitTx \/ SendAccepted \/ SendRefused \/ SendWait

Next == Command \/ Unlock

(* The command's thread runs until the command returns, and the network    *)
(* keeps confirming; the user's answers and the wallet's refusals are not  *)
(* forced.                                                                 *)
Fairness ==
    /\ WF_vars(Command)
    /\ WF_vars(Unlock)

Spec == Init /\ [][Next]_vars

FairSpec == Spec /\ Fairness

-----------------------------------------------------------------------------
(* Properties.                                                             *)

TypeOK ==
    /\ pc \in {"idle", "submit", "optimize", "fusionWait", "split", "sending",
               "done"}
    /\ actual \in 0..Modulus - 1 /\ unlocked \in Nat /\ locked \in Nat
    /\ actual <= unlocked
    /\ req \in [amount : 0..Modulus - 1, fee : 0..Modulus - 1, mixin : Nat]
    /\ funds \in 0..Modulus - 1
    /\ retried \in BOOLEAN
    /\ attempts \in Seq([mixin : Nat, err : Errors])
    /\ plan \in Seq([amount : Nat, fee : Nat, large : BOOLEAN])
    /\ cur \in 1..Len(plan) + 1
    /\ sent \in Seq([amount : Nat, fee : Nat, large : BOOLEAN])
    /\ ticks \in 0..WaitTicks
    /\ outcome \in {"none", "insufficient", "cancelled", "sent", "failed",
                    "aborted"}

\* The sum of a sequence of numbers, as a recursive function (the proofs
\* in TransferPlannerProofs cannot reach the folds of the Functions module).
SeqSum(s) ==
    LET S[i \in 0..Len(s)] == IF i = 0 THEN 0 ELSE S[i - 1] + s[i]
    IN S[Len(s)]

\* The amounts and fees of the transfers of a split.
PlanAmounts == [i \in DOMAIN plan |-> plan[i].amount]
PlanFees == [i \in DOMAIN plan |-> plan[i].fee]

(* splitTx conserves value (spec 3 and 5): the transfers it builds carry  *)
(* the (possibly reduced) amount, the remainder of the integer division   *)
(* included, and their fees add up to totalFee.                            *)
SplitConservesValue ==
    plan # <<>> =>
        /\ SeqSum(PlanAmounts) = planned.amount
        /\ SeqSum(PlanFees) = planned.totalFee

(* The retry policy of doTransfer (spec 4.2): wallet.transfer is called at *)
(* most twice, and a second call only follows a retryable message and     *)
(* uses a mixin of 0.                                                      *)
RetryAtMostOnce ==
    /\ Len(attempts) <= 2
    /\ Len(attempts) = 2 =>
          /\ attempts[1].err \in RetryErrors
          /\ attempts[2].mixin = 0

(* The invariant the proofs of TypeOK, RetryAtMostOnce and               *)
(* SubmittedInPlanOrder rest on: the balance stays a uint64_t in total    *)
(* (change only moves between unlocked and locked), sendMultipleTransactions *)
(* indexes a transfer of the plan, nothing is sent before the split, and  *)
(* doTransfer's attempts are tied to "retried": one failed retryable call *)
(* before the retry, and the retry's request carries mixin 0.             *)
PlannerInductive ==
    /\ TypeOK
    /\ unlocked + locked \in 0..Modulus - 1
    /\ pc = "sending" => cur \in 1..Len(plan)
    /\ pc \in {"idle", "submit", "optimize", "fusionWait", "split"} => sent = <<>>
    /\ pc = "sending" => sent = SubSeq(plan, 1, cur - 1)
    /\ pc = "idle" => ~retried
    /\ pc # "done" => Len(attempts) = IF retried THEN 1 ELSE 0
    /\ Len(attempts) <= IF retried THEN 2 ELSE 1
    /\ retried => /\ Len(attempts) >= 1
                  /\ attempts[1].err \in RetryErrors
                  /\ req.mixin = 0
    /\ Len(attempts) = 2 => attempts[2].mixin = 0

(* sendMultipleTransactions submits the transfers one after the other, in *)
(* the order splitTx built them, each once: while it runs, the wallet has  *)
(* accepted exactly the transfers before the current one.                  *)
SubmittedInPlanOrder ==
    pc = "sending" => sent = SubSeq(plan, 1, cur - 1)

(* parseFee: "Fee must be at least 0.001 $BANK!" -- no transaction is    *)
(* submitted with a fee below MINIMUM_FEE.                                 *)
FeeAtLeastMinimum ==
    \A i \in 1..Len(sent) : sent[i].fee >= MinFee

(* doTransfer's check "balance < amount + fee": a request that gets past  *)
(* it fits in the balance it was checked against.                          *)
FundsCheckSound ==
    pc = "submit" => req.amount + req.fee <= funds

(* splitTx's comment "One of the transfers is too large.  Retry, cutting  *)
(* the transaction into smaller pieces" (spec 4.2): no transfer of a       *)
(* split is submitted while one of them is still too large.                *)
SplitOnlyFitting ==
    pc = "sending" => \A i \in DOMAIN plan : ~plan[i].large

(* fusionTX aborts with "available balance is less than transfer amount   *)
(* specified" only when it is.                                             *)
FusionAbortOnlyWhenShort ==
    outcome = "aborted" => unlocked < Needed(req)

(* splitTx: "we slightly lower the amount they are sending" so that the  *)
(* transfers and their fees fit in the balance (spec 4.2: reduce amount   *)
(* to balance - totalFee).                                                 *)
SplitWithinBalance ==
    plan # <<>> => planned.amount + planned.totalFee <= planned.balance

(* A split whose transfers and fees fit in the balance is sent in full or *)
(* ends in an error (spec 4.2: wait for the change of earlier transfers to *)
(* unlock, which the network eventually confirms).                         *)
FittingSplitReturns ==
    (pc = "sending" /\ planned.amount + planned.totalFee <= planned.balance)
        ~> (pc = "done")

=============================================================================
