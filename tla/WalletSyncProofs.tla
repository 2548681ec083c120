-------------------------- MODULE WalletSyncProofs --------------------------
(***************************************************************************)
(* Proofs about WalletSync, for every value of the constants that          *)
(* ConstantsAssumption allows: type correctness, and exactly-once          *)
(* notification of new transactions across the catch-up loop and the      *)
(* background tick.                                                        *)
(***************************************************************************)
EXTENDS WalletSync, SequenceTheorems, TLAPS

USE ConstantsAssumption

\* A bounded transaction list is a sequence of at most MaxTx amounts.
LEMMA TxListsAreBoundedSeqs ==
    ASSUME NEW l \in TxLists
    PROVE  l \in Seq(TxAmounts) /\ Len(l) <= MaxTx
<1>1. PICK n \in 0..MaxTx : l \in [1..n -> TxAmounts]
    BY DEF TxLists
<1>2. l \in Seq(TxAmounts)
    BY <1>1, SeqDef
<1>3. Len(l) = n
    BY <1>1, <1>2, LenProperties
<1>4. QED
    BY <1>2, <1>3

\* Appending at most one amount keeps a list within the bound.
LEMMA GrowFound ==
    ASSUME NEW l \in Seq(TxAmounts), Len(l) <= MaxTx,
           NEW new \in {<<>>} \cup {<<a>> : a \in TxAmounts},
           Len(l) + Len(new) <= MaxTx
    PROVE  /\ l \o new \in Seq(TxAmounts)
           /\ Len(l \o new) <= MaxTx
           /\ Len(l \o new) >= Len(l)
           /\ \A i \in 1..Len(l) : (l \o new)[i] = l[i]
<1>1. new \in Seq(TxAmounts)
    <2>1. CASE new = <<>>
        BY <2>1, EmptySeq
    <2>2. CASE new # <<>>
        <3>1. PICK a \in TxAmounts : new = <<a>>
            BY <2>2
        <3>2. <<a>> = Append(<<>>, a)
            OBVIOUS
        <3>3. QED
            BY <3>1, <3>2, EmptySeq, AppendProperties
    <2>3. QED
        BY <2>1, <2>2
<1>2. QED
    BY <1>1, ConcatProperties

-----------------------------------------------------------------------------

\* Every initial state is well typed.
LEMMA InitTypeOK == Init => TypeOK
    <2> SUFFICES ASSUME Init PROVE TypeOK
        OBVIOUS
    <2>1. PICK f \in WalletFiles : savedBlocks = f.blocks /\ savedTxs = f.txs
        BY DEF Init
    <2>2. savedTxs \in Seq(TxAmounts) /\ Len(savedTxs) <= MaxTx
        BY <2>1, TxListsAreBoundedSeqs DEF WalletFiles
    <2>3. savedBlocks \in 1..MaxHeight
        BY <2>1 DEF WalletFiles
    <2>4. QED
        BY <2>2, <2>3 DEF Init, TypeOK, Heights, NoNotifications, TxIndex
\* Every step keeps the state well typed.
LEMMA TypeStep == TypeOK /\ [Next]_vars => TypeOK'
    <2> SUFFICES ASSUME TypeOK, [Next]_vars PROVE TypeOK'
        OBVIOUS
    <2>0. /\ Len(found) \in Nat /\ Len(txs) \in Nat /\ Len(savedTxs) \in Nat
        BY LenProperties DEF TypeOK
    <2> USE <2>0 DEF Heights, TxIndex
    <2>1. CASE OpenWallet
        BY <2>1, EmptySeq DEF OpenWallet, TypeOK, NoNotifications, TxIndex
    <2>2. CASE CatchUpIteration
        <3> USE DEF TypeOK, Refresh, SaveAfterRefresh, Notify, Tally
        <3>1. CASE synced = wh
            BY <2>2, <3>1 DEF CatchUpIteration, StuckIteration
        <3>2. CASE synced # wh /\ Len(found) # tc
            <4>1. /\ notified' = Notify(tc, Len(found), found, ShownInCatchUp)
                  /\ tc' = Len(found) /\ wh' = synced /\ stuck' = 0
                  /\ sinceSave' \in 0..SavePeriod + 1
                  /\ savedBlocks' \in 1..MaxHeight
                  /\ savedTxs' \in Seq(TxAmounts) /\ Len(savedTxs') <= MaxTx
                BY <2>2, <3>2 DEF CatchUpIteration, AdvanceIteration
            <4>2. notified' \in [TxIndex -> Nat]
                BY <4>1 DEF Notify
            <4>3. QED
                BY <2>2, <4>1, <4>2 DEF CatchUpIteration
        <3>3. CASE synced # wh /\ Len(found) = tc
            BY <2>2, <3>3 DEF CatchUpIteration, AdvanceIteration
        <3>4. QED
            BY <3>1, <3>2, <3>3
    <2>3. CASE FinishCatchUp
        BY <2>3 DEF FinishCatchUp, TypeOK
    <2>4. CASE BackgroundTick
        <3>1. CASE Len(found) # known
            BY <2>4, <3>1 DEF BackgroundTick, TypeOK, Refresh, Notify
        <3>2. CASE Len(found) = known
            BY <2>4, <3>2 DEF BackgroundTick, TypeOK, Refresh
        <3>3. QED
            BY <3>1, <3>2
    <2>5. CASE Reset
        BY <2>5, EmptySeq DEF Reset, TypeOK, NoNotifications, TxIndex
    <2>6. CASE NodeSync
        BY <2>6 DEF NodeSync, TypeOK, Heights
    <2>7. CASE Scan
        <3>1. PICK new \in {<<>>} \cup {<<a>> : a \in TxAmounts} :
                  /\ Len(found) + Len(new) <= MaxTx
                  /\ found' = found \o new
            BY <2>7 DEF Scan
        <3>2. found' \in Seq(TxAmounts) /\ Len(found') <= MaxTx
            BY <3>1, GrowFound DEF TypeOK
        <3>3. QED
            BY <2>7, <3>2 DEF Scan, TypeOK, Heights
    <2>8. CASE Crash
        BY <2>8 DEF Crash, TypeOK
    <2>9. CASE UNCHANGED vars
        BY <2>9 DEF vars, TypeOK
    <2>10. QED
        BY <2>1, <2>2, <2>3, <2>4, <2>5, <2>6, <2>7, <2>8, <2>9
           DEF Next, Owner, Environment

\* The wallet state is always well typed.
THEOREM TypeCorrect == Spec => []TypeOK
    BY InitTypeOK, TypeStep, PTL DEF Spec

-----------------------------------------------------------------------------
(* Exactly-once notification.                                              *)

\* The notification record for a session that has taken note of the
\* transactions base+1..f of the list l.
Announced(n, b, f, l) ==
    \A i \in TxIndex :
        /\ n[i] <= 1
        /\ n[i] = 1 => b < i /\ i <= f /\ l[i] # 0
        /\ (b < i /\ i <= f /\ l[i] = 1) => n[i] = 1

\* Announcing the transactions from+1..Len(new) of a list that extends the
\* old one moves the frontier of an exactly-once record from `from' to
\* Len(new), for either loop's choice of what to show.
LEMMA NotifyExtends ==
    ASSUME NEW old \in Seq(TxAmounts), NEW new \in Seq(TxAmounts),
           NEW b \in Nat, NEW from \in Nat,
           NEW shown \in {ShownInCatchUp, ShownInTick},
           notified \in [TxIndex -> Nat],
           Len(old) <= Len(new), Len(new) <= MaxTx,
           \A i \in 1..Len(old) : old[i] = new[i],
           b <= from, from <= Len(old),
           Announced(notified, b, from, old)
    PROVE  Announced(Notify(from, Len(new), new, shown), b, Len(new), new)
<1> DEFINE m == Notify(from, Len(new), new, shown)
<1> SUFFICES ASSUME NEW i \in TxIndex
             PROVE  /\ m[i] <= 1
                    /\ m[i] = 1 => b < i /\ i <= Len(new) /\ new[i] # 0
                    /\ (b < i /\ i <= Len(new) /\ new[i] = 1) => m[i] = 1
    BY DEF Announced
<1>1. Len(old) \in Nat /\ Len(new) \in Nat
    BY LenProperties
<1>2. CASE i <= from
    <2>1. m[i] = notified[i]
        BY <1>2 DEF Notify, TxIndex
    <2>2. i <= Len(old) => old[i] = new[i]
        BY <1>1 DEF TxIndex
    <2>3. QED
        BY <1>1, <1>2, <2>1, <2>2 DEF Announced, TxIndex
<1>3. CASE from < i
    <2>1. notified[i] = 0
        BY <1>3 DEF Announced, TxIndex
    <2>2. m[i] = IF i <= Len(new) /\ new[i] \in shown THEN 1 ELSE 0
        BY <1>3, <2>1 DEF Notify, TxIndex
    <2>3. 1 \in shown /\ 0 \notin shown
        BY DEF ShownInCatchUp, ShownInTick
    <2>4. QED
        BY <1>1, <1>3, <2>2, <2>3 DEF TxIndex
<1>4. QED
    BY <1>2, <1>3 DEF TxIndex

\* A record that covers only indices where two lists agree holds of both.
LEMMA AnnouncedStable ==
    ASSUME NEW old \in Seq(TxAmounts), NEW new \in Seq(TxAmounts),
           NEW n, NEW b \in Nat, NEW f \in Nat,
           Len(old) <= Len(new),
           \A i \in 1..Len(old) : old[i] = new[i],
           f <= Len(old),
           Announced(n, b, f, old)
    PROVE  Announced(n, b, f, new)
<1>1. Len(old) \in Nat /\ Len(new) \in Nat
    BY LenProperties
<1>2. \A i \in TxIndex : i <= f => old[i] = new[i]
    BY <1>1 DEF TxIndex
<1>3. QED
    BY <1>2 DEF Announced, TxIndex

\* Every initial state satisfies the inductive invariant: the program is
\* not running, and the wallet shows exactly what the file holds.
LEMMA InitInductive == Init => SyncInductive
<1> SUFFICES ASSUME Init PROVE SyncInductive
    OBVIOUS
<1>1. TypeOK
    BY InitTypeOK
<1>2. TxsPrefixOfFound
    BY DEF Init, TxsPrefixOfFound
<1>3. QED
    BY <1>1, <1>2 DEF Init, SyncInductive, SessionStartsBeforeFrontier,
                      NotifyExactlyOnce

\* Every step keeps the inductive invariant.
LEMMA InductiveStep == SyncInductive /\ [Next]_vars => SyncInductive'
<1> SUFFICES ASSUME SyncInductive, [Next]_vars PROVE SyncInductive'
    OBVIOUS
<1>0. /\ TypeOK /\ TypeOK'
      /\ Len(found) \in Nat /\ Len(txs) \in Nat
      /\ tc \in Nat /\ known \in Nat /\ base \in Nat
      /\ TxsPrefixOfFound /\ Len(txs) <= Len(found)
    BY TypeStep, LenProperties DEF SyncInductive, TypeOK, TxsPrefixOfFound
<1>1. CASE OpenWallet
    <2>1. /\ txs' = found' /\ txs' \in Seq(TxAmounts)
          /\ pc' = "catchup" /\ base' = tc' /\ tc' = Len(txs')
          /\ notified' = NoNotifications
        BY <1>0, <1>1, EmptySeq DEF OpenWallet, TypeOK
    <2>2. QED
        BY <1>0, <2>1 DEF SyncInductive, TxsPrefixOfFound,
           SessionStartsBeforeFrontier, NotifyExactlyOnce, Frontier,
           NoNotifications, TxIndex
<1>2. CASE CatchUpIteration
    <2>1. /\ pc = "catchup" /\ pc' = "catchup"
          /\ txs' = found /\ found' = found /\ base' = base
        BY <1>2 DEF CatchUpIteration, Refresh
    <2>2. /\ tc <= Len(txs) /\ base <= tc
          /\ Announced(notified, base, tc, txs)
        BY <2>1 DEF SyncInductive, NotifyExactlyOnce,
           SessionStartsBeforeFrontier, Frontier, Announced
    <2>3. Announced(notified, base, tc, found)
        BY <1>0, <2>2, AnnouncedStable DEF TypeOK, TxsPrefixOfFound
    <2>4. /\ tc' <= Len(found) /\ base <= tc'
          /\ Announced(notified', base, tc', found)
        <3>1. CASE synced = wh
            <4>1. tc' = tc /\ notified' = notified
                BY <1>2, <3>1 DEF CatchUpIteration, StuckIteration
            <4>2. tc' <= Len(found) /\ base <= tc'
                BY <1>0, <2>2, <4>1
            <4>3. Announced(notified', base, tc', found)
                BY <2>3, <4>1
            <4>4. QED
                BY <4>2, <4>3
        <3>2. CASE synced # wh /\ Len(found) # tc
            <4>1. /\ tc' = Len(found)
                  /\ notified' = Notify(tc, Len(found), found, ShownInCatchUp)
                BY <1>2, <3>2 DEF CatchUpIteration, AdvanceIteration
            <4>2. Announced(Notify(tc, Len(found), found, ShownInCatchUp),
                            base, Len(found), found)
                BY <1>0, <2>2, NotifyExtends DEF TypeOK, TxsPrefixOfFound
            <4>3. tc' <= Len(found) /\ base <= tc'
                BY <1>0, <2>2, <4>1
            <4>4. Announced(notified', base, tc', found)
                BY <4>1, <4>2
            <4>5. QED
                BY <4>3, <4>4
        <3>3. CASE synced # wh /\ Len(found) = tc
            <4>1. tc' = tc /\ notified' = notified
                BY <1>2, <3>3 DEF CatchUpIteration, AdvanceIteration
            <4>2. tc' <= Len(found) /\ base <= tc'
                BY <1>0, <2>2, <4>1
            <4>3. Announced(notified', base, tc', found)
                BY <2>3, <4>1
            <4>4. QED
                BY <4>2, <4>3
        <3>4. QED
            BY <3>1, <3>2, <3>3
    <2>5. QED
        BY <1>0, <2>1, <2>4 DEF SyncInductive, TxsPrefixOfFound,
           SessionStartsBeforeFrontier, NotifyExactlyOnce, Frontier, Announced
<1>3. CASE FinishCatchUp
    <2>1. /\ pc = "catchup" /\ pc' = "idle" /\ known' = tc
          /\ UNCHANGED <<txs, found, base, notified>>
        BY <1>3 DEF FinishCatchUp
    <2>2. QED
        BY <1>0, <2>1 DEF SyncInductive, TxsPrefixOfFound,
           SessionStartsBeforeFrontier, NotifyExactlyOnce, Frontier
<1>4. CASE BackgroundTick
    <2>1. /\ pc = "idle" /\ pc' = "idle"
          /\ txs' = found /\ found' = found /\ base' = base
        BY <1>4 DEF BackgroundTick, Refresh
    <2>2. /\ known <= Len(txs) /\ base <= known /\ known \in Nat
          /\ Announced(notified, base, known, txs)
        BY <2>1 DEF SyncInductive, NotifyExactlyOnce,
           SessionStartsBeforeFrontier, Frontier, Announced, TypeOK
    <2>3. /\ known' <= Len(found) /\ base <= known'
          /\ Announced(notified', base, known', found)
        <3>1. CASE Len(found) # known
            <4>1. /\ known' = Len(found)
                  /\ notified' = Notify(known, Len(found), found, ShownInTick)
                BY <1>4, <3>1 DEF BackgroundTick
            <4>2. Announced(Notify(known, Len(found), found, ShownInTick),
                            base, Len(found), found)
                BY <1>0, <2>2, NotifyExtends DEF TypeOK, TxsPrefixOfFound
            <4>3. known' <= Len(found) /\ base <= known'
                BY <1>0, <2>2, <4>1
            <4>4. Announced(notified', base, known', found)
                BY <4>1, <4>2
            <4>5. QED
                BY <4>3, <4>4
        <3>2. CASE Len(found) = known
            <4>1. known' = known /\ notified' = notified
                BY <1>4, <3>2 DEF BackgroundTick
            <4>2. Announced(notified, base, known, found)
                BY <1>0, <2>2, AnnouncedStable DEF TypeOK, TxsPrefixOfFound
            <4>3. known' <= Len(found) /\ base <= known'
                BY <1>0, <2>2, <4>1
            <4>4. Announced(notified', base, known', found)
                BY <4>1, <4>2
            <4>5. QED
                BY <4>3, <4>4
        <3>3. QED
            BY <3>1, <3>2
    <2>4. QED
        BY <1>0, <2>1, <2>3 DEF SyncInductive, TxsPrefixOfFound,
           SessionStartsBeforeFrontier, NotifyExactlyOnce, Frontier, Announced
<1>5. CASE Reset
    <2>1. /\ txs' = <<>> /\ found' = <<>> /\ pc' = "catchup"
          /\ base' = 0 /\ tc' = 0 /\ notified' = NoNotifications
        BY <1>5 DEF Reset
    <2>2. QED
        BY <1>0, <2>1, EmptySeq DEF SyncInductive, TxsPrefixOfFound,
           SessionStartsBeforeFrontier, NotifyExactlyOnce, Frontier,
           NoNotifications, TxIndex
<1>6. CASE NodeSync
    BY <1>0, <1>6 DEF NodeSync, SyncInductive, TxsPrefixOfFound,
       SessionStartsBeforeFrontier, NotifyExactlyOnce, Frontier
<1>7. CASE Scan
    <2>1. PICK new \in {<<>>} \cup {<<a>> : a \in TxAmounts} :
              /\ Len(found) + Len(new) <= MaxTx
              /\ found' = found \o new
        BY <1>7 DEF Scan
    <2>2. /\ Len(found') >= Len(found)
          /\ \A i \in 1..Len(found) : found'[i] = found[i]
        BY <1>0, <2>1, GrowFound DEF TypeOK
    <2>3. TxsPrefixOfFound'
        <3>1. UNCHANGED txs
            BY <1>7 DEF Scan
        <3>2. Len(found') \in Nat
            BY <1>0, LenProperties DEF TypeOK
        <3>3. QED
            BY <1>0, <2>2, <3>1, <3>2 DEF TxsPrefixOfFound
    <2>4. UNCHANGED <<pc, txs, tc, known, base, notified>>
        BY <1>7 DEF Scan
    <2>5. QED
        BY <1>0, <2>3, <2>4 DEF SyncInductive,
           SessionStartsBeforeFrontier, NotifyExactlyOnce, Frontier
<1>8. CASE Crash
    BY <1>0, <1>8 DEF Crash, SyncInductive, TxsPrefixOfFound,
       SessionStartsBeforeFrontier, NotifyExactlyOnce, Frontier
<1>9. CASE UNCHANGED vars
    BY <1>0, <1>9 DEF vars, SyncInductive, TxsPrefixOfFound,
       SessionStartsBeforeFrontier, NotifyExactlyOnce, Frontier
<1>10. QED
    BY <1>1, <1>2, <1>3, <1>4, <1>5, <1>6, <1>7, <1>8, <1>9
       DEF Next, Owner, Environment

\* SyncInductive holds in every state: the list the wallet exposes stays a
\* prefix of what the synchronizer found, a session starts within what it
\* has taken note of, and each incoming transfer of the session up to that
\* point has been announced exactly once.
LEMMA SyncInductiveHolds == Spec => []SyncInductive
    BY InitInductive, InductiveStep, PTL DEF Spec

\* The catch-up loop and the background tick together announce every
\* incoming transfer of a session exactly once, and nothing else.
THEOREM NotifyExactlyOnceHolds == Spec => []NotifyExactlyOnce
<1>1. Spec => []SyncInductive
    BY SyncInductiveHolds
<1>2. SyncInductive => NotifyExactlyOnce
    BY DEF SyncInductive
<1>3. QED
    BY <1>1, <1>2, PTL


-----------------------------------------------------------------------------
(* The refinement of NotificationFeed.                                     *)

\* A bounded list of transactions is a feed of NotificationFeed.
LEMMA ListIsFeed ==
    ASSUME NEW l \in Seq(TxAmounts), Len(l) <= MaxTx
    PROVE  l \in Feed!Lists
<1>1. Len(l) \in 0..MaxTx /\ l \in [1..Len(l) -> TxAmounts]
    BY LenProperties
<1>2. QED
    BY <1>1 DEF Feed!Lists, Feed!Kinds, TxAmounts

\* What either announcer prints is a choice of kinds the feed allows.
LEMMA ShownVisible ==
    ShownInCatchUp \in Feed!Visible /\ ShownInTick \in Feed!Visible
    BY DEF ShownInCatchUp, ShownInTick, Feed!Visible, Feed!Kinds

\* A step of the catch-up loop or of the tick: the wallet shows what the
\* synchronizer found, and the frontier moves from Frontier to k,
\* announcing what it passes whose kind is in shown.
LEMMA TakeStep ==
    ASSUME NEW shown \in {ShownInCatchUp, ShownInTick}, NEW k \in Nat,
           TypeOK, TxsPrefixOfFound, NotifyExactlyOnce,
           pc # "down", pc' = pc,
           txs' = found, base' = base,
           Frontier' = k, Frontier <= k, k <= Len(found),
           notified' = Notify(Frontier, k, found, shown)
    PROVE  Feed!Next
<1>1. found \in Feed!Lists /\ Len(found) <= MaxTx
    BY ListIsFeed DEF TypeOK
<1>2. k \in 0..MaxTx
    BY <1>1 DEF TypeOK
<1>3. shown \in Feed!Visible
    BY ShownVisible
<1>4. Feed!Extends(txs, found)
    BY DEF TxsPrefixOfFound, Feed!Extends
<1>5. Feed!Take(found, k, shown)
    <2>1. Frontier \in Nat
        BY DEF TypeOK, Frontier
    <2>2. QED
        BY <1>4, <2>1 DEF Feed!Take, Notify, TxIndex, Feed!Idx
<1>6. QED
    BY <1>1, <1>2, <1>3, <1>5 DEF Feed!Next

\* Every step of WalletSync is a step of NotificationFeed or leaves what it
\* maps to unchanged.
LEMMA StepRefines ==
    SyncInductive /\ SyncInductive' /\ [Next]_vars
        => [Feed!Next]_Feed!avars
<1> SUFFICES ASSUME SyncInductive, SyncInductive', [Next]_vars
             PROVE  [Feed!Next]_Feed!avars
    OBVIOUS
<1>0. /\ TypeOK /\ TypeOK' /\ TxsPrefixOfFound /\ NotifyExactlyOnce
      /\ Len(found) \in Nat /\ Len(txs) \in Nat
    BY LenProperties DEF SyncInductive, TypeOK
<1>1. CASE OpenWallet
    <2>1. txs' \in Feed!Lists
        BY <1>0, ListIsFeed DEF TypeOK
    <2>2. Feed!Open(txs')
        BY <1>1 DEF OpenWallet, Feed!Open, Frontier, NoNotifications,
                    TxIndex, Feed!Idx
    <2>3. QED
        BY <2>1, <2>2 DEF Feed!Next
<1>2. CASE CatchUpIteration
    <2>1. /\ pc = "catchup" /\ pc' = "catchup" /\ txs' = found
          /\ base' = base /\ Frontier = tc /\ Frontier' = tc'
        BY <1>2 DEF CatchUpIteration, Refresh, Frontier
    <2>2. tc <= Len(found)
        BY <1>0, <2>1 DEF NotifyExactlyOnce, TxsPrefixOfFound, Frontier,
                          TypeOK
    <2>3. CASE Len(found) # tc /\ synced # wh
        <3>1. tc' = Len(found)
              /\ notified' = Notify(tc, Len(found), found, ShownInCatchUp)
            BY <1>2, <2>3 DEF CatchUpIteration, AdvanceIteration
        <3>2. QED
            BY <1>0, <2>1, <2>2, <3>1, TakeStep
    <2>4. CASE ~(Len(found) # tc /\ synced # wh)
        <3>1. tc' = tc /\ notified' = notified
            BY <1>2, <2>4 DEF CatchUpIteration, AdvanceIteration,
                              StuckIteration
        <3>2. notified' = Notify(tc, tc, found, ShownInCatchUp)
            BY <1>0, <3>1 DEF TypeOK, Notify, TxIndex
        <3>3. QED
            BY <1>0, <2>1, <2>2, <3>1, <3>2, TakeStep DEF TypeOK
    <2>5. QED
        BY <2>3, <2>4 DEF Feed!avars
<1>3. CASE FinishCatchUp
    BY <1>3 DEF FinishCatchUp, Frontier, Feed!avars
<1>4. CASE BackgroundTick
    <2>1. /\ pc = "idle" /\ pc' = "idle" /\ txs' = found
          /\ base' = base /\ Frontier = known /\ Frontier' = known'
        BY <1>4 DEF BackgroundTick, Refresh, Frontier
    <2>2. known <= Len(found)
        BY <1>0, <2>1 DEF NotifyExactlyOnce, TxsPrefixOfFound, Frontier,
                          TypeOK
    <2>3. CASE Len(found) # known
        <3>1. known' = Len(found)
              /\ notified' = Notify(known, Len(found), found, ShownInTick)
            BY <1>4, <2>3 DEF BackgroundTick
        <3>2. QED
            BY <1>0, <2>1, <2>2, <3>1, TakeStep
    <2>4. CASE Len(found) = known
        <3>1. known' = known /\ notified' = notified
            BY <1>4, <2>4 DEF BackgroundTick
        <3>2. notified' = Notify(known, known, found, ShownInTick)
            BY <1>0, <3>1 DEF TypeOK, Notify, TxIndex
        <3>3. QED
            BY <1>0, <2>1, <2>2, <2>4, <3>1, <3>2, TakeStep DEF TypeOK
    <2>5. QED
        BY <2>3, <2>4 DEF Feed!avars
<1>5. CASE Reset
    <2>1. <<>> \in Feed!Lists
        <3>1. <<>> \in [1..0 -> Feed!Kinds] /\ 0 \in 0..MaxTx
            OBVIOUS
        <3>2. QED
            BY <3>1 DEF Feed!Lists
    <2>2. Feed!Open(<<>>)
        BY <1>5 DEF Reset, Feed!Open, Frontier, NoNotifications, TxIndex,
                    Feed!Idx
    <2>3. QED
        BY <2>1, <2>2 DEF Feed!Next
<1>6. CASE NodeSync \/ Scan
    BY <1>6 DEF NodeSync, Scan, Frontier, Feed!avars
<1>7. CASE Crash
    BY <1>7 DEF Crash, Feed!Next, Feed!Close
<1>8. CASE UNCHANGED vars
    BY <1>8 DEF vars, Frontier, Feed!avars
<1>9. QED
    BY <1>1, <1>2, <1>3, <1>4, <1>5, <1>6, <1>7, <1>8
       DEF Next, Owner, Environment

(* findNewTransactions, checkForNewTransactions, reset and a crash       *)
(* implement NotificationFeed under the mapping Feed, for all values of   *)
(* the constants: the initial states map to initial states, and every     *)
(* step to a step or a stutter, with SyncInductive as the invariant.      *)
THEOREM Refinement == Spec => FeedSpec
<1>1. Init => Feed!Init
    <2> SUFFICES ASSUME Init PROVE Feed!Init
        OBVIOUS
    <2>1. txs \in Feed!Lists
        <3>1. txs \in Seq(TxAmounts) /\ Len(txs) <= MaxTx
            BY InitTypeOK DEF TypeOK
        <3>2. QED
            BY <3>1, ListIsFeed
    <2>2. QED
        BY <2>1 DEF Init, Feed!Init, NoNotifications, TxIndex, Feed!Idx
<1>2. Spec => []SyncInductive
    BY InitInductive, InductiveStep, PTL DEF Spec
<1>3. QED
    BY <1>1, <1>2, StepRefines, PTL DEF Spec, FeedSpec, Feed!Spec

=============================================================================
