------------------------ MODULE TransferPlannerProofs ------------------------
(***************************************************************************)
(* Proofs about TransferPlanner, for every value of the constants that     *)
(* TransferAssumption allows: type correctness of a transfer command,      *)
(* doTransfer's retry policy, and the order in which                       *)
(* sendMultipleTransactions submits a split.  All three follow from the    *)
(* inductive invariant PlannerInductive.                                   *)
(***************************************************************************)
EXTENDS TransferPlanner, SequenceTheorems, TLAPS

USE TransferAssumption

\* uint64_t addition stays a uint64_t.
LEMMA AddRange ==
    ASSUME NEW a \in Int, NEW b \in Int
    PROVE  Add(a, b) \in 0..Modulus - 1
    BY DEF Add

\* Appending the k-th element to the prefix before it gives the prefix up
\* to k: one more transfer of the plan has been sent.
LEMMA AppendSubSeq ==
    ASSUME NEW S, NEW s \in Seq(S), NEW k \in 1..Len(s)
    PROVE  Append(SubSeq(s, 1, k - 1), s[k]) = SubSeq(s, 1, k)
    OBVIOUS

\* A transfer the wallet accepts takes amount + fee out of the balance it
\* was checked against and locks some change c: the balances stay uint64_t
\* values with the visible balance below the spendable one.
LEMMA SpendBalance ==
    ASSUME NEW u \in Nat, NEW l \in Nat, NEW a \in 0..Modulus - 1, a <= u,
           u + l \in 0..Modulus - 1, NEW n \in Nat, NEW c \in 0..(a - n)
    PROVE  /\ a - n - c \in 0..Modulus - 1
           /\ a - n - c <= u - n - c
           /\ u - n - c \in Nat /\ l + c \in Nat
           /\ (u - n - c) + (l + c) \in 0..Modulus - 1
    OBVIOUS

\* doTransfer's last call of wallet.transfer: with one call before it when
\* it retried and none otherwise, the record of calls keeps its shape.
LEMMA LastAttempt ==
    ASSUME NEW a \in Seq([mixin : Nat, err : Errors]),
           NEW b \in Seq([mixin : Nat, err : Errors]),
           NEW rt \in BOOLEAN, NEW m \in Nat,
           Len(a) = IF rt THEN 1 ELSE 0,
           rt => a[1].err \in RetryErrors /\ m = 0,
           Len(b) = Len(a) + 1,
           \A i \in 1..Len(a) : b[i] = a[i],
           b[Len(a) + 1].mixin = m
    PROVE  /\ Len(b) <= IF rt THEN 2 ELSE 1
           /\ rt => Len(b) >= 1 /\ b[1].err \in RetryErrors
           /\ Len(b) = 2 => b[2].mixin = 0
<1>1. CASE rt
    <2>1. Len(a) = 1 /\ Len(b) = 2
        BY <1>1
    <2>2. b[1] = a[1] /\ b[2].mixin = m /\ m = 0 /\ a[1].err \in RetryErrors
        BY <1>1, <2>1
    <2>3. QED
        BY <1>1, <2>1, <2>2
<1>2. CASE ~rt
    <2>1. Len(a) = 0 /\ Len(b) = 1
        BY <1>2
    <2>2. QED
        BY <1>2, <2>1
<1>3. QED
    BY <1>1, <1>2

\* The command starts well typed, with nothing attempted or sent.
LEMMA InitInductive == Init => PlannerInductive
<1> SUFFICES ASSUME Init PROVE PlannerInductive
    OBVIOUS
<1>1. /\ attempts \in Seq([mixin : Nat, err : Errors]) /\ Len(attempts) = 0
      /\ plan \in Seq([amount : Nat, fee : Nat, large : BOOLEAN]) /\ Len(plan) = 0
      /\ sent \in Seq([amount : Nat, fee : Nat, large : BOOLEAN])
    BY EmptySeq DEF Init
<1>2. TypeOK
    <2>1. actual \in 0..Modulus - 1 /\ unlocked \in Nat /\ actual <= unlocked
        BY DEF Init
    <2>2. req \in [amount : 0..Modulus - 1, fee : 0..Modulus - 1, mixin : Nat]
        BY DEF Init
    <2>3. cur \in 1..Len(plan) + 1
        BY <1>1 DEF Init
    <2>4. /\ funds \in 0..Modulus - 1 /\ ticks \in 0..WaitTicks
          /\ locked \in Nat /\ retried \in BOOLEAN
        <3>1. funds = 0 /\ ticks = 0 /\ locked = 0 /\ retried = FALSE
            BY DEF Init
        <3>2. Modulus \in Nat \ {0} /\ WaitTicks \in Nat
            BY DEF TransferAssumption
        <3>3. funds \in 0..Modulus - 1
            BY <3>1, <3>2
        <3>4. ticks \in 0..WaitTicks
            BY <3>1, <3>2
        <3>5. locked \in Nat /\ retried \in BOOLEAN
            BY <3>1
        <3>6. QED
            BY <3>3, <3>4, <3>5
    <2>5. QED
        BY <1>1, <2>1, <2>2, <2>3, <2>4 DEF Init, TypeOK
<1>3. QED
    BY <1>1, <1>2 DEF Init, PlannerInductive

\* Every step of the command and of the chain keeps PlannerInductive.
LEMMA InductiveStep == PlannerInductive /\ [Next]_vars => PlannerInductive'
<1> SUFFICES ASSUME PlannerInductive, [Next]_vars PROVE PlannerInductive'
    OBVIOUS
<1>0. /\ Len(attempts) \in Nat /\ Len(plan) \in Nat /\ Len(sent) \in Nat
      /\ Modulus \in Nat \ {0} /\ MinFee \in 1..Modulus - 1
    BY LenProperties DEF PlannerInductive, TypeOK, TransferAssumption
<1> USE <1>0
<1>1. CASE InlineTransfer
    BY <1>1 DEF InlineTransfer, StartTransfer, Finish, PlannerInductive, TypeOK
<1>2. CASE InteractiveTransfer
    BY <1>2 DEF InteractiveTransfer, StartTransfer, Finish, PlannerInductive, TypeOK
<1>3. CASE SubmitTooLarge
    BY <1>3 DEF SubmitTooLarge, PlannerInductive, TypeOK
<1>4. CASE SubmitAccepted
    <2> DEFINE r == [mixin |-> req.mixin, err |-> "none"]
    <2>1. r \in [mixin : Nat, err : Errors]
        BY DEF PlannerInductive, TypeOK, Errors
    <2>2. /\ attempts' = Append(attempts, r)
          /\ Len(attempts') = Len(attempts) + 1
          /\ attempts' \in Seq([mixin : Nat, err : Errors])
          /\ \A i \in 1..Len(attempts) : attempts'[i] = attempts[i]
          /\ attempts'[Len(attempts) + 1] = r
        BY <1>4, <2>1, AppendProperties DEF SubmitAccepted, Attempt,
           PlannerInductive, TypeOK
    <2>3. PICK c \in 0..(actual - Needed(req)) :
              /\ actual' = actual - Needed(req) - c
              /\ unlocked' = unlocked - Needed(req) - c
              /\ locked' = locked + c
              /\ sent' = Append(sent, [amount |-> req.amount, fee |-> req.fee,
                                       large |-> FALSE])
        BY <1>4 DEF SubmitAccepted, Spend
    <2>4. Needed(req) \in Nat
        BY AddRange DEF Needed, PlannerInductive, TypeOK
    <2>5. /\ actual' \in 0..Modulus - 1 /\ actual' <= unlocked'
          /\ unlocked' \in Nat /\ locked' \in Nat
          /\ unlocked' + locked' \in 0..Modulus - 1
        BY <2>3, <2>4, SpendBalance DEF PlannerInductive, TypeOK
    <2>6. sent' \in Seq([amount : Nat, fee : Nat, large : BOOLEAN])
        BY <2>3, AppendProperties DEF PlannerInductive, TypeOK
    <2>7. pc = "submit" /\ pc' = "done" /\ outcome' = "sent"
          /\ UNCHANGED <<req, funds, retried, plan, planned, cur, ticks>>
        BY <1>4 DEF SubmitAccepted, Finish
    <2>8. TypeOK'
        BY <2>2, <2>5, <2>6, <2>7 DEF PlannerInductive, TypeOK
    <2>9. /\ Len(attempts') <= IF retried' THEN 2 ELSE 1
          /\ retried' => /\ Len(attempts') >= 1
                         /\ attempts'[1].err \in RetryErrors
                         /\ req'.mixin = 0
          /\ Len(attempts') = 2 => attempts'[2].mixin = 0
        <3>1. /\ Len(attempts) = IF retried THEN 1 ELSE 0
              /\ retried => attempts[1].err \in RetryErrors /\ req.mixin = 0
              /\ retried \in BOOLEAN /\ req.mixin \in Nat
              /\ attempts \in Seq([mixin : Nat, err : Errors])
            BY <2>7 DEF PlannerInductive, TypeOK
        <3>2. attempts'[Len(attempts) + 1].mixin = req.mixin
            BY <2>2
        <3>3. QED
            BY <2>2, <2>7, <3>1, <3>2, LastAttempt
    <2>10. QED
        BY <2>5, <2>7, <2>8, <2>9 DEF PlannerInductive
<1>5. CASE SubmitRetry
    <2>1. PICK err \in RetryErrors : Attempt(err)
        BY <1>5 DEF SubmitRetry
    <2> DEFINE r == [mixin |-> req.mixin, err |-> err]
    <2>2. r \in [mixin : Nat, err : Errors]
        BY DEF PlannerInductive, TypeOK, Errors, RetryErrors
    <2>3. pc = "submit" /\ ~retried /\ retried' = TRUE
          /\ req' = [req EXCEPT !.mixin = 0]
          /\ UNCHANGED <<pc, actual, unlocked, locked, funds, plan, planned, cur,
                         sent, ticks, outcome>>
        BY <1>5 DEF SubmitRetry
    <2>4. Len(attempts) = 0
        BY <2>3 DEF PlannerInductive
    <2>5. /\ Len(attempts') = 1
          /\ attempts' \in Seq([mixin : Nat, err : Errors])
          /\ attempts'[1] = r
        BY <2>1, <2>2, <2>4, AppendProperties DEF Attempt, PlannerInductive, TypeOK
    <2>6. req' \in [amount : 0..Modulus - 1, fee : 0..Modulus - 1, mixin : Nat]
          /\ req'.mixin = 0
        BY <2>3 DEF PlannerInductive, TypeOK
    <2>7. TypeOK'
        BY <2>3, <2>5, <2>6 DEF PlannerInductive, TypeOK
    <2>8. QED
        BY <2>3, <2>5, <2>6, <2>7 DEF PlannerInductive, RetryErrors
<1>6. CASE SubmitGiveUp
    <2>1. PICK err \in Errors \ {"none"} :
              /\ Attempt(err)
              /\ IF err \in RetryErrors /\ ~retried
                    THEN Finish("cancelled") ELSE Finish("failed")
        BY <1>6 DEF SubmitGiveUp
    <2> DEFINE r == [mixin |-> req.mixin, err |-> err]
    <2>2. r \in [mixin : Nat, err : Errors]
        BY DEF PlannerInductive, TypeOK
    <2>3. /\ Len(attempts') = Len(attempts) + 1
          /\ attempts' \in Seq([mixin : Nat, err : Errors])
          /\ \A i \in 1..Len(attempts) : attempts'[i] = attempts[i]
          /\ attempts'[Len(attempts) + 1] = r
        BY <2>1, <2>2, AppendProperties DEF Attempt, PlannerInductive, TypeOK
    <2>4. pc = "submit" /\ pc' = "done"
          /\ outcome' \in {"cancelled", "failed"}
          /\ UNCHANGED <<actual, unlocked, locked, req, funds, retried, plan,
                         planned, cur, sent, ticks>>
        BY <1>6, <2>1 DEF SubmitGiveUp, Finish
    <2>5. TypeOK'
        BY <2>3, <2>4 DEF PlannerInductive, TypeOK
    <2>6. /\ Len(attempts') <= IF retried' THEN 2 ELSE 1
          /\ retried' => /\ Len(attempts') >= 1
                         /\ attempts'[1].err \in RetryErrors
                         /\ req'.mixin = 0
          /\ Len(attempts') = 2 => attempts'[2].mixin = 0
        BY <2>3, <2>4, LastAttempt DEF PlannerInductive, TypeOK
    <2>7. QED
        BY <2>3, <2>4, <2>5, <2>6 DEF PlannerInductive
<1>7. CASE Optimize
    BY <1>7 DEF Optimize, PlannerInductive, TypeOK
<1>8. CASE FusionWait
    BY <1>8 DEF FusionWait, Finish, PlannerInductive, TypeOK
<1>9. CASE FusionSubmit
    <2>1. /\ pc = "fusionWait"
          /\ UNCHANGED <<req, funds, retried, attempts, plan, planned, cur, ticks>>
        BY <1>9 DEF FusionSubmit
    <2>2. sent = <<>> /\ Len(attempts) = IF retried THEN 1 ELSE 0
        BY <2>1 DEF PlannerInductive
    <2>3. CASE pc' = "split" /\ UNCHANGED <<actual, unlocked, locked, sent, outcome>>
        <3>1. TypeOK'
            BY <2>1, <2>3 DEF PlannerInductive, TypeOK
        <3>2. QED
            BY <2>1, <2>2, <2>3, <3>1 DEF PlannerInductive
    <2>4. CASE Spend(req, FALSE) /\ Finish("sent")
        <3>1. PICK c \in 0..(actual - Needed(req)) :
                  /\ actual' = actual - Needed(req) - c
                  /\ unlocked' = unlocked - Needed(req) - c
                  /\ locked' = locked + c
                  /\ sent' = Append(sent, [amount |-> req.amount, fee |-> req.fee,
                                           large |-> FALSE])
            BY <2>4 DEF Spend
        <3>2. Needed(req) \in Nat
            BY AddRange DEF Needed, PlannerInductive, TypeOK
        <3>3. /\ actual' \in 0..Modulus - 1 /\ actual' <= unlocked'
              /\ unlocked' \in Nat /\ locked' \in Nat
              /\ unlocked' + locked' \in 0..Modulus - 1
            BY <3>1, <3>2, SpendBalance DEF PlannerInductive, TypeOK
        <3>4. sent' \in Seq([amount : Nat, fee : Nat, large : BOOLEAN])
            BY <3>1, AppendProperties DEF PlannerInductive, TypeOK
        <3>5. pc' = "done" /\ outcome' = "sent"
            BY <2>4 DEF Finish
        <3>6. TypeOK'
            BY <2>1, <3>3, <3>4, <3>5 DEF PlannerInductive, TypeOK
        <3>7. QED
            BY <2>1, <3>3, <3>5, <3>6 DEF PlannerInductive
    <2>5. CASE Finish("failed") /\ UNCHANGED <<actual, unlocked, locked, sent>>
        <3>1. TypeOK'
            BY <2>1, <2>5 DEF Finish, PlannerInductive, TypeOK
        <3>2. QED
            BY <2>1, <2>5, <3>1 DEF Finish, PlannerInductive
    <2>6. QED
        BY <1>9, <2>3, <2>4, <2>5 DEF FusionSubmit
<1>10. CASE SplitTx
    <2>1. /\ pc = "split" /\ cur' = 1
          /\ UNCHANGED <<actual, unlocked, locked, req, funds, retried, attempts,
                         sent, ticks>>
        BY <1>10 DEF SplitTx
    <2>2. sent = <<>> /\ Len(attempts) = IF retried THEN 1 ELSE 0
        BY <2>1 DEF PlannerInductive
    <2>3. CASE Finish("cancelled") /\ UNCHANGED <<plan, planned>>
        <3>1. TypeOK'
            BY <2>1, <2>3 DEF Finish, PlannerInductive, TypeOK
        <3>2. QED
            BY <2>1, <2>3, <3>1 DEF Finish, PlannerInductive
    <2>4. CASE \E chunks \in SizeChunks :
                 \E large \in [1..SplitCount(chunks) -> BOOLEAN] :
                    LET n == SplitCount(chunks)
                        p == SplitPlan(req, n, actual)
                    IN /\ plan' = [i \in 1..n |-> [amount |-> p[i].amount,
                                                    fee |-> p[i].fee,
                                                    large |-> large[i]]]
                       /\ planned' = [amount |-> SplitAmount(req, n, actual),
                                      totalFee |-> TotalFee(req, n),
                                      balance |-> actual]
                       /\ pc' = "sending"
                       /\ UNCHANGED outcome
        <3>0. PICK chunks \in SizeChunks :
                 \E large \in [1..SplitCount(chunks) -> BOOLEAN] :
                  LET n == SplitCount(chunks)
                      p == SplitPlan(req, n, actual)
                  IN /\ plan' = [i \in 1..n |-> [amount |-> p[i].amount,
                                                  fee |-> p[i].fee,
                                                  large |-> large[i]]]
                     /\ pc' = "sending"
                     /\ UNCHANGED outcome
            BY <2>4
        <3>1. PICK large \in [1..SplitCount(chunks) -> BOOLEAN] :
                  LET n == SplitCount(chunks)
                      p == SplitPlan(req, n, actual)
                  IN /\ plan' = [i \in 1..n |-> [amount |-> p[i].amount,
                                                  fee |-> p[i].fee,
                                                  large |-> large[i]]]
                     /\ pc' = "sending"
                     /\ UNCHANGED outcome
            BY <3>0
        <3> DEFINE n == SplitCount(chunks)
        <3>2. n \in Nat /\ n >= 1
            BY DEF SplitCount, TransferAssumption
        <3>4. FeePerTx(req, n) \in Nat
            <4>1. req.fee \in Nat
                BY DEF PlannerInductive, TypeOK
            <4>2. req.fee \div n \in Nat
                BY <3>2, <4>1
            <4>3. QED
                BY <4>2 DEF FeePerTx
        <3>3. SplitAmount(req, n, actual) \in Nat
            <4>1. TotalFee(req, n) \in 0..Modulus - 1
                BY <3>2, <3>4 DEF TotalFee, Mul
            <4>2. actual \in Int /\ req.amount \in Int
                BY DEF PlannerInductive, TypeOK
            <4>3. Sub(actual, TotalFee(req, n)) \in Nat
                BY <4>1, <4>2 DEF Sub
            <4>4. QED
                BY <4>2, <4>3 DEF SplitAmount, PlannerInductive, TypeOK
        <3>5. \A i \in 1..n : /\ SplitPlan(req, n, actual)[i].amount \in Nat
                              /\ SplitPlan(req, n, actual)[i].fee \in Nat
            BY <3>2, <3>3, <3>4 DEF SplitPlan
        <3>6. plan' \in [1..n -> [amount : Nat, fee : Nat, large : BOOLEAN]]
            BY <3>1, <3>5
        <3>7. plan' \in Seq([amount : Nat, fee : Nat, large : BOOLEAN])
              /\ Len(plan') = n
            <4>1. plan' \in Seq([amount : Nat, fee : Nat, large : BOOLEAN])
                <5>1. plan' \in UNION {[1..k -> [amount : Nat, fee : Nat, large : BOOLEAN]] :
                                       k \in Nat}
                    BY <3>2, <3>6, Zenon
                <5>2. QED
                    BY <5>1, SeqDef, Zenon
            <4>2. DOMAIN plan' = 1..Len(plan') /\ Len(plan') \in Nat
                BY <4>1, LenProperties
            <4>3. QED
                BY <3>2, <3>6, <4>1, <4>2
        <3>8. SubSeq(plan', 1, 0) = <<>>
            BY <3>7
        <3>9. TypeOK'
            BY <2>1, <3>1, <3>2, <3>7 DEF PlannerInductive, TypeOK
        <3>10. QED
            BY <2>1, <2>2, <3>1, <3>2, <3>7, <3>8, <3>9 DEF PlannerInductive
    <2>5. QED
        BY <1>10, <2>3, <2>4 DEF SplitTx
<1>11. CASE SendAccepted
    <2> DEFINE R == [amount : Nat, fee : Nat, large : BOOLEAN]
               t == plan[cur]
    <2>1. /\ pc = "sending"
          /\ UNCHANGED <<req, funds, retried, attempts, plan, planned, ticks>>
          /\ sent' = Append(sent, t)
        BY <1>11 DEF SendAccepted
    <2>2. /\ cur \in 1..Len(plan) /\ sent = SubSeq(plan, 1, cur - 1)
          /\ plan \in Seq(R)
        BY <2>1 DEF PlannerInductive, TypeOK
    <2>3. t \in R
        <3>1. plan \in [1..Len(plan) -> R]
            BY <2>2, LenProperties
        <3>2. QED
            BY <2>2, <3>1, Zenon
    <2>4. Needed(t) \in Nat
        <3>1. t.amount \in Int /\ t.fee \in Int
            BY <2>3
        <3>2. Add(t.amount, t.fee) \in 0..Modulus - 1
            BY <3>1, AddRange
        <3>3. QED
            BY <3>2 DEF Needed
    <2>5. PICK c \in 0..(unlocked - Needed(t)) :
              /\ actual' = unlocked - Needed(t) - c
              /\ unlocked' = unlocked - Needed(t) - c
              /\ locked' = locked + c
        BY <1>11 DEF SendAccepted
    <2>6. /\ actual' \in 0..Modulus - 1 /\ actual' <= unlocked'
          /\ unlocked' \in Nat /\ locked' \in Nat
          /\ unlocked' + locked' \in 0..Modulus - 1
        <3>1. unlocked \in 0..Modulus - 1 /\ locked \in Nat
              /\ unlocked + locked \in 0..Modulus - 1
            BY DEF PlannerInductive, TypeOK
        <3>2. /\ unlocked - Needed(t) - c \in 0..Modulus - 1
              /\ unlocked - Needed(t) - c <= unlocked - Needed(t) - c
              /\ unlocked - Needed(t) - c \in Nat /\ locked + c \in Nat
              /\ (unlocked - Needed(t) - c) + (locked + c) \in 0..Modulus - 1
            BY <2>4, <3>1, SpendBalance
        <3>3. QED
            BY <2>5, <3>2, Zenon
    <2>7. sent' = SubSeq(plan, 1, cur) /\ sent' \in Seq(R)
        <3>1. sent' = SubSeq(plan, 1, cur)
            BY <2>1, <2>2, AppendSubSeq
        <3>2. \A i \in 1..cur : plan[i] \in R
            <4>1. plan \in [1..Len(plan) -> R]
                BY <2>2, LenProperties
            <4>2. cur \in 1..Len(plan) /\ Len(plan) \in Nat
                BY <2>2, LenProperties
            <4>3. 1..cur \subseteq 1..Len(plan)
                BY <4>2
            <4>4. QED
                BY <4>1, <4>3, Zenon
        <3>3. SubSeq(plan, 1, cur) \in Seq(R)
            <4>1. cur \in Int
                BY <2>2
            <4>2. QED
                BY <3>2, <4>1, SubSeqProperties
        <3>4. QED
            BY <3>1, <3>3
    <2>8. CASE cur = Len(plan)
        <3>1. pc' = "done" /\ outcome' = "sent" /\ cur' = cur
            BY <1>11, <2>8 DEF SendAccepted, Finish
        <3>2. TypeOK'
            BY <2>1, <2>2, <2>6, <2>7, <3>1 DEF PlannerInductive, TypeOK
        <3>3. QED
            BY <2>1, <2>6, <3>1, <3>2 DEF PlannerInductive
    <2>9. CASE cur # Len(plan)
        <3>1. pc' = "sending" /\ cur' = cur + 1 /\ outcome' = outcome
            BY <1>11, <2>9 DEF SendAccepted
        <3>2. cur' \in 1..Len(plan') /\ sent' = SubSeq(plan', 1, cur' - 1)
            BY <2>1, <2>2, <2>7, <2>9, <3>1
        <3>3. TypeOK'
            <4>1. cur' \in 1..Len(plan') + 1
                BY <3>2
            <4>2. sent' \in Seq(R) /\ plan' \in Seq(R)
                BY <2>1, <2>2, <2>7
            <4>3. QED
                BY <2>1, <2>6, <3>1, <4>1, <4>2 DEF PlannerInductive, TypeOK
        <3>4. QED
            BY <2>1, <2>6, <3>1, <3>2, <3>3 DEF PlannerInductive
    <2>10. QED
        BY <2>8, <2>9
<1>12. CASE SendRefused
    <2>1. /\ actual' = unlocked /\ pc' = "done"
          /\ UNCHANGED <<unlocked, locked, req, funds, retried, attempts, plan,
                         cur, sent, ticks>>
          /\ outcome' \in {"none", "insufficient", "cancelled", "sent",
                            "failed", "aborted"}
        BY <1>12 DEF SendRefused, Finish
    <2>2. unlocked \in 0..Modulus - 1
        BY DEF PlannerInductive, TypeOK
    <2>3. TypeOK'
        BY <2>1, <2>2 DEF PlannerInductive, TypeOK
    <2>4. QED
        BY <2>1, <2>3 DEF PlannerInductive
<1>13. CASE SendWait
    <2>1. actual' \in 0..Modulus - 1 /\ actual' <= unlocked'
        BY <1>13 DEF SendWait, PlannerInductive, TypeOK
    <2>2. TypeOK'
        BY <1>13, <2>1 DEF SendWait, PlannerInductive, TypeOK
    <2>3. QED
        BY <1>13, <2>2 DEF SendWait, PlannerInductive
<1>14. CASE Unlock
    BY <1>14 DEF Unlock, PlannerInductive, TypeOK
<1>15. CASE UNCHANGED vars
    BY <1>15 DEF vars, PlannerInductive, TypeOK
<1>16. QED
    BY <1>1, <1>2, <1>3, <1>4, <1>5, <1>6, <1>7, <1>8, <1>9, <1>10, <1>11,
       <1>12, <1>13, <1>14, <1>15 DEF Next, Command

\* PlannerInductive holds in every state of every behaviour of Spec: the
\* balances stay uint64_t values in total, the send loop indexes the plan
\* and has sent exactly its prefix, and doTransfer's calls match retried.
LEMMA PlannerInductiveHolds == Spec => []PlannerInductive
    BY InitInductive, InductiveStep, PTL DEF Spec

\* Type correctness: every variable of the transfer command keeps its type,
\* in particular the uint64_t balance, request and plan of doTransfer.
THEOREM TypeCorrect == Spec => []TypeOK
    <1>1. PlannerInductive => TypeOK
        BY DEF PlannerInductive
    <1>2. QED
        BY <1>1, PlannerInductiveHolds, PTL

\* doTransfer retries wallet.transfer at most once, only after one of the
\* errors it catches for a retry, and the retry goes out with mixin 0.
THEOREM RetryAtMostOnceHolds == Spec => []RetryAtMostOnce
    <1>1. PlannerInductive => RetryAtMostOnce
        BY DEF PlannerInductive, RetryAtMostOnce
    <1>2. QED
        BY <1>1, PlannerInductiveHolds, PTL

\* sendMultipleTransactions submits the transfers of a split in the order
\* of the plan, one after the other, none skipped and none twice.
THEOREM SubmittedInPlanOrderHolds == Spec => []SubmittedInPlanOrder
    <1>1. PlannerInductive => SubmittedInPlanOrder
        BY DEF PlannerInductive, SubmittedInPlanOrder
    <1>2. QED
        BY <1>1, PlannerInductiveHolds, PTL

=============================================================================
