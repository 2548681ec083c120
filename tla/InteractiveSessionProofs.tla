---------------------- MODULE InteractiveSessionProofs ----------------------
(***************************************************************************)
(* Proofs about InteractiveSession, for every command-line set and bound   *)
(* on Ctrl+C presses that SessionAssumption allows.  The states are well   *)
(* typed whatever thread the handler runs on.  When the handler runs on    *)
(* the interrupted main thread (HandlerOnMain), shutdown's body runs at    *)
(* most once and the process only returns or exits after a save.  Both     *)
(* rest on SessionInductive, which says who can have set                   *)
(* alreadyShuttingDown and who can still be before the test of it.         *)
(***************************************************************************)
EXTENDS InteractiveSession, TLAPS

\* The main thread is only in shutdown once run has called it;
\* alreadyShuttingDown is set exactly while some caller is past it, until
\* the process ends; the handler never waits to set it once it is set; the
\* main thread, waiting to set it, sees it set only under a handler that is
\* past it; whoever is stopping or joining has seen wallet.save()
\* return; and a running watchdog belongs to a caller past the test.
ShutdownExclusion ==
    /\ pc # "shutdown" => spc["main"] = "none"
    /\ ShutdownOnce
    /\ \A p \in Actors : spc[p] \in Past => flag
    /\ flag /\ ended = "no" => \E p \in Actors : spc[p] \in Past
    /\ spc["sig"] = "set" => ~flag
    /\ spc["main"] = "set" /\ ended = "no" => ~flag \/ spc["sig"] \in Past
    /\ \A p \in Actors : spc[p] \in {"stop", "join"} => saved
    /\ EndOnlySaved
    /\ \A p \in Actors : wd[p] = "running" => spc[p] \in Past

SessionInductive == TypeOK /\ ShutdownExclusion

\* The initial state is well typed.
LEMMA TypeInit == Init => TypeOK
    <1>. SUFFICES ASSUME Init PROVE TypeOK
      OBVIOUS
    <1>1. passUses \in 0..2 /\ signals \in 0..MaxSignals
      BY SessionAssumption DEF Init
    <1>2. /\ spc \in [Actors -> {"none", "check", "set", "save", "stop",
                                  "join"}]
          /\ fin \in [Actors -> BOOLEAN]
          /\ wd \in [Actors -> {"none", "running", "done"}]
      BY DEF Init
    <1>. QED
      BY <1>1, <1>2, Zenon DEF Init, TypeOK, Actions, Lines

\* Every step keeps the types, wherever the handler runs.
LEMMA TypeStep == TypeOK /\ [Next]_vars => TypeOK'
    <1>. SUFFICES ASSUME TypeOK, [Next]_vars PROVE TypeOK'
      OBVIOUS
    <1>1. CASE SelectAction
      <2>1. PICK a \in Actions :
              /\ action' = a
              /\ IF a = "Open" THEN pc' = "open" /\ initial' = TRUE
                               ELSE pc' = "nodeWait" /\ UNCHANGED initial
              /\ \E asked \in AsksUser(a) :
                    passUses' = IF asked THEN 0 ELSE passUses
        BY <1>1 DEF SelectAction, Actions
      <2>2. passUses' \in 0..2
        BY <2>1 DEF TypeOK
      <2>3. pc' \in {"open", "nodeWait"} /\ initial' \in BOOLEAN
        BY <2>1 DEF TypeOK
      <2>. QED
        BY <1>1, <2>1, <2>2, <2>3 DEF SelectAction, TypeOK
    <1>2. CASE OpenAttempt
      <2>1. passUses' \in 0..2
        BY <1>2 DEF OpenAttempt, TypeOK
      <2>2. pc' \in {"nodeWait", "open", "select"}
        BY <1>2 DEF OpenAttempt
      <2>. QED
        BY <1>2, <2>1, <2>2 DEF OpenAttempt, TypeOK
    <1>3. CASE NodeWait
      BY <1>3 DEF NodeWait, CallShutdown, TypeOK, Answers, Actors
    <1>4. CASE CatchUpDone
      BY <1>4 DEF CatchUpDone, TypeOK
    <1>5. CASE Poll
      BY <1>5 DEF Poll, CallShutdown, TypeOK, Lines, Actors
    <1>6. CASE WalletCallDone
      BY <1>6 DEF WalletCallDone, TypeOK
    <1>7. CASE ReadLine
      BY <1>7 DEF ReadLine, TypeOK
    <1>8. CASE ReadEnd
      BY <1>8 DEF ReadEnd, TypeOK, Lines
    <1>9. ASSUME NEW p \in Actors, ShutdownStep(p) PROVE TypeOK'
      <2>1. CASE ShutdownCheck(p)
        BY <2>1 DEF ShutdownCheck, TypeOK
      <2>2. CASE ShutdownSet(p)
        BY <2>2 DEF ShutdownSet, TypeOK
      <2>3. CASE ShutdownStopped(p)
        BY <2>3 DEF ShutdownStopped, TypeOK
      <2>4. CASE ShutdownJoined(p)
        BY <2>4 DEF ShutdownJoined, TypeOK
      <2>. QED
        BY <1>9, <2>1, <2>2, <2>3, <2>4 DEF ShutdownStep
    <1>10. ASSUME NEW p \in Actors, ShutdownSaved(p) PROVE TypeOK'
      BY <1>10 DEF ShutdownSaved, TypeOK
    <1>11. ASSUME NEW p \in Actors, Watchdog(p) PROVE TypeOK'
      BY <1>11 DEF Watchdog, TypeOK
    <1>12. CASE Signal
      BY <1>12, SessionAssumption DEF Signal, TypeOK, Actors
    <1>13. CASE NodeStarts
      BY <1>13 DEF NodeStarts, TypeOK
    <1>14. CASE InputEnds
      BY <1>14 DEF InputEnds, TypeOK
    <1>15. CASE UNCHANGED vars
      BY <1>15 DEF vars, TypeOK
    <1>. QED
      BY <1>1, <1>2, <1>3, <1>4, <1>5, <1>6, <1>7, <1>8, <1>9, <1>10,
         <1>11, <1>12, <1>13, <1>14, <1>15 DEF Next, MainStep

\* Every state of the session is well typed, on any thread of the handler.
THEOREM TypeCorrect == Spec => []TypeOK
    BY TypeInit, TypeStep, PTL DEF Spec

\* The initial state: nobody is in shutdown and nothing has ended.
LEMMA SessionInit == Init => SessionInductive
    <1>. SUFFICES ASSUME Init PROVE SessionInductive
      OBVIOUS
    <1>. QED
      BY TypeInit DEF Init, SessionInductive, ShutdownExclusion,
         ShutdownOnce, EndOnlySaved, Past, Actors

\* With the handler on the main thread, every step keeps SessionInductive.
LEMMA SessionStep ==
    ASSUME HandlerOnMain, SessionInductive, [Next]_vars
    PROVE  SessionInductive'
    <1>. USE DEF ShutdownExclusion, ShutdownOnce, EndOnlySaved, Past
    <1>1. TypeOK'
      BY TypeStep DEF SessionInductive
    <1>. SUFFICES ShutdownExclusion'
      BY <1>1 DEF SessionInductive
    <1>. TypeOK
      BY DEF SessionInductive
    <1>2. CASE /\ UNCHANGED <<spc, flag, saved, ended, wd>>
               /\ pc' = pc \/ pc # "shutdown"
      BY <1>2 DEF SessionInductive
    <1>3. CASE NodeWait \/ Poll
      <2>1. /\ UNCHANGED <<flag, saved, ended, wd>>
            /\ spc["main"] = "none"
            /\ pc' = "shutdown" => spc' = [spc EXCEPT !["main"] = "check"]
            /\ pc' # "shutdown" => spc' = spc
        BY <1>3 DEF NodeWait, Poll, CallShutdown, SessionInductive
      <2>2. CASE pc' # "shutdown"
        BY <2>1, <2>2 DEF SessionInductive
      <2>3. CASE pc' = "shutdown"
        <3>1. spc'["main"] = "check" /\ spc'["sig"] = spc["sig"]
          BY <2>1, <2>3 DEF TypeOK, Actors
        <3>2. \A q \in Actors : spc[q] \in Past => q = "sig"
          BY <2>1 DEF Actors
        <3>. QED
          BY <2>1, <2>3, <3>1, <3>2 DEF SessionInductive, Actors
      <2>. QED
        BY <2>2, <2>3
    <1>4. ASSUME NEW p \in Actors, ShutdownCheck(p) PROVE ShutdownExclusion'
      BY <1>4 DEF ShutdownCheck, Runs, SessionInductive, TypeOK, Actors
    <1>5. ASSUME NEW p \in Actors, ShutdownSet(p) PROVE ShutdownExclusion'
      BY <1>5 DEF ShutdownSet, Runs, SessionInductive, TypeOK, Actors
    <1>6. ASSUME NEW p \in Actors, ShutdownSaved(p) PROVE ShutdownExclusion'
      BY <1>6 DEF ShutdownSaved, SessionInductive, TypeOK, Actors
    <1>7. ASSUME NEW p \in Actors, ShutdownStopped(p)
          PROVE ShutdownExclusion'
      BY <1>7 DEF ShutdownStopped, SessionInductive, TypeOK, Actors
    <1>8. ASSUME NEW p \in Actors, ShutdownJoined(p) PROVE ShutdownExclusion'
      BY <1>8 DEF ShutdownJoined, Runs, SessionInductive, TypeOK, Actors
    <1>9. ASSUME NEW p \in Actors, Watchdog(p) PROVE ShutdownExclusion'
      <2>1. UNCHANGED <<pc, spc, flag, saved>>
        BY <1>9 DEF Watchdog
      <2>2. \A q \in Actors : wd'[q] = "running" => wd[q] = "running"
        BY <1>9 DEF Watchdog, TypeOK
      <2>3. ended' \in {"no", "watchdog"} /\ (ended' = "no" => ended = "no")
        BY <1>9 DEF Watchdog
      <2>. QED
        BY <2>1, <2>2, <2>3 DEF SessionInductive
    <1>10. CASE Signal
      BY <1>10 DEF Signal, SessionInductive, TypeOK, Actors
    <1>11. CASE SelectAction \/ OpenAttempt \/ CatchUpDone \/ WalletCallDone
                \/ ReadLine \/ ReadEnd \/ NodeStarts \/ InputEnds
      <2>1. /\ UNCHANGED <<spc, flag, saved, ended, wd>>
            /\ pc' = pc \/ pc # "shutdown"
        BY <1>11 DEF SelectAction, OpenAttempt, CatchUpDone,
           WalletCallDone, ReadLine, ReadEnd, NodeStarts, InputEnds
      <2>. QED
        BY <1>2, <2>1
    <1>. QED
      BY <1>2, <1>3, <1>4, <1>5, <1>6, <1>7, <1>8, <1>9, <1>10, <1>11
         DEF Next, MainStep, ShutdownStep, vars

\* With the handler on the main thread, SessionInductive holds throughout.
THEOREM SessionInvariant ==
    ASSUME HandlerOnMain PROVE Spec => []SessionInductive
    <1>1. SessionInductive /\ [Next]_vars => SessionInductive'
      BY SessionStep
    <1>. QED
      BY SessionInit, <1>1, PTL DEF Spec

\* With the handler on the main thread, shutdown's body (the save and the
\* stops after the alreadyShuttingDown test) never runs in the main thread
\* and in the Ctrl+C handler at once.
THEOREM ShutdownOnceHolds ==
    ASSUME HandlerOnMain PROVE Spec => []ShutdownOnce
    <1>1. SessionInductive => ShutdownOnce
      BY DEF SessionInductive, ShutdownExclusion
    <1>. QED
      BY SessionInvariant, <1>1, PTL

\* With the handler on the main thread, run returns and the handler calls
\* exit(0) only after wallet.save() has returned.
THEOREM EndOnlySavedHolds ==
    ASSUME HandlerOnMain PROVE Spec => []EndOnlySaved
    <1>1. SessionInductive => EndOnlySaved
      BY DEF SessionInductive, ShutdownExclusion
    <1>. QED
      BY SessionInvariant, <1>1, PTL

-----------------------------------------------------------------------------
(* The refinement of SessionShutdown.                                      *)

\* The owner only depends on who is past the test and how the process
\* ended.
LEMMA OwnerStable ==
    ASSUME \A q \in Actors : spc'[q] \in Past <=> spc[q] \in Past,
           ended' = ended
    PROVE  ShutdownOwner' = ShutdownOwner
    BY DEF ShutdownOwner, Actors

\* A caller past the test, alone there, is the owner.
LEMMA OwnerIsPast ==
    ASSUME NEW p \in Actors, spc[p] \in Past, ShutdownOnce
    PROVE  ShutdownOwner = p
    <1>1. CASE p = "main"
      BY <1>1 DEF ShutdownOwner
    <1>2. CASE p = "sig"
      <2>1. spc["main"] \notin Past
        BY <1>2 DEF ShutdownOnce
      <2>. QED
        BY <1>2, <2>1 DEF ShutdownOwner
    <1>. QED
      BY <1>1, <1>2 DEF Actors

\* Before anybody passes the test, there is no owner.
LEMMA OwnerNone ==
    ASSUME \A q \in Actors : spc[q] \notin Past, ended = "no"
    PROVE  ShutdownOwner = "none"
    BY DEF ShutdownOwner, Actors

\* With the handler on the main thread, every step of the session is a
\* step of SessionShutdown or leaves its variables alone.
LEMMA ShutdownStepRefines ==
    ASSUME HandlerOnMain, SessionInductive, [Next]_vars
    PROVE  [Shut!Next]_Shut!svars
    <1>. USE DEF SessionInductive, ShutdownExclusion
    <1>. TypeOK
      OBVIOUS
    \* A step that moves nobody across the test and ends nothing.
    <1>1. ASSUME \A q \in Actors : spc'[q] \in Past <=> spc[q] \in Past,
                 UNCHANGED <<saved, ended>>
          PROVE  [Shut!Next]_Shut!svars
      BY <1>1, OwnerStable DEF Shut!svars
    <1>2. CASE NodeWait \/ Poll
      <2>1. spc' = spc \/ spc' = [spc EXCEPT !["main"] = "check"]
        BY <1>2 DEF NodeWait, Poll, CallShutdown
      <2>2. spc["main"] = "none"
        BY <1>2 DEF NodeWait, Poll
      <2>3. \A q \in Actors : spc'[q] \in Past <=> spc[q] \in Past
        BY <2>1, <2>2 DEF TypeOK, Actors, Past
      <2>. QED
        BY <1>1, <1>2, <2>3 DEF NodeWait, Poll
    <1>3. ASSUME NEW p \in Actors, ShutdownCheck(p)
          PROVE  [Shut!Next]_Shut!svars
      <2>1. ~(flag /\ p = "main")
        <3>1. SUFFICES ASSUME flag, p = "main" PROVE FALSE
          OBVIOUS
        <3>2. spc["sig"] = "none" /\ ended = "no" /\ spc["main"] = "check"
          BY <1>3, <3>1 DEF ShutdownCheck, Runs
        <3>. QED
          BY <3>1, <3>2 DEF Actors, Past
      <2>2. UNCHANGED <<saved, ended>>
        BY <1>3, <2>1 DEF ShutdownCheck
      <2>3. \A q \in Actors : spc'[q] \in Past <=> spc[q] \in Past
        BY <1>3 DEF ShutdownCheck, TypeOK, Past
      <2>. QED
        BY <1>1, <2>2, <2>3
    <1>4. ASSUME NEW p \in Actors, ShutdownSet(p)
          PROVE  [Shut!Next]_Shut!svars
      <2>1. ended = "no" /\ spc[p] = "set"
        BY <1>4 DEF ShutdownSet, Runs
      <2>2. ~flag
        <3>1. CASE p = "sig"
          BY <2>1, <3>1
        <3>2. CASE p = "main"
          <4>1. spc["sig"] = "none"
            BY <1>4, <3>2 DEF ShutdownSet, Runs
          <4>. QED
            BY <2>1, <3>2, <4>1 DEF Past
        <3>. QED
          BY <3>1, <3>2 DEF Actors
      <2>3. \A q \in Actors : spc[q] \notin Past
        BY <2>2
      <2>4. ShutdownOwner = "none"
        BY <2>1, <2>3, OwnerNone
      <2>5. spc' = [spc EXCEPT ![p] = "save"] /\ UNCHANGED <<saved, ended>>
        BY <1>4 DEF ShutdownSet
      <2>6. spc'[p] \in Past /\ ShutdownOnce'
        BY <2>3, <2>5 DEF TypeOK, Actors, Past, ShutdownOnce
      <2>7. ShutdownOwner' = p
        <3>1. CASE p = "main"
          BY <2>6, <3>1 DEF ShutdownOwner
        <3>2. CASE p = "sig"
          <4>1. spc'["main"] \notin Past
            BY <2>6, <3>2 DEF ShutdownOnce
          <4>. QED
            BY <2>6, <3>2, <4>1 DEF ShutdownOwner
        <3>. QED
          BY <3>1, <3>2 DEF Actors
      <2>8. Shut!Enter(p)
        BY <2>1, <2>4, <2>5, <2>7 DEF Shut!Enter
      <2>. QED
        BY <2>8 DEF Shut!Next, Shut!Callers, Actors
    <1>5. ASSUME NEW p \in Actors, ShutdownSaved(p)
          PROVE  [Shut!Next]_Shut!svars
      <2>1. ended = "no" /\ spc[p] \in Past
        BY <1>5 DEF ShutdownSaved, Runs, Past
      <2>2. \A q \in Actors : spc'[q] \in Past <=> spc[q] \in Past
        BY <1>5 DEF ShutdownSaved, TypeOK, Past
      <2>3. ShutdownOwner' = ShutdownOwner /\ ShutdownOwner = p
        BY <1>5, <2>1, <2>2, OwnerStable, OwnerIsPast DEF ShutdownSaved
      <2>4. Shut!Save
        BY <1>5, <2>1, <2>3 DEF ShutdownSaved, Shut!Save, Shut!Callers,
           Actors
      <2>. QED
        BY <2>4 DEF Shut!Next
    <1>6. ASSUME NEW p \in Actors, ShutdownStopped(p)
          PROVE  [Shut!Next]_Shut!svars
      <2>1. \A q \in Actors : spc'[q] \in Past <=> spc[q] \in Past
        BY <1>6 DEF ShutdownStopped, TypeOK, Past
      <2>. QED
        BY <1>1, <1>6, <2>1 DEF ShutdownStopped
    <1>7. ASSUME NEW p \in Actors, ShutdownJoined(p)
          PROVE  [Shut!Next]_Shut!svars
      <2>1. ended = "no" /\ spc[p] = "join" /\ saved
        BY <1>7 DEF ShutdownJoined, Runs
      <2>2. ShutdownOwner = p
        BY <2>1, OwnerIsPast DEF Past
      <2>3. /\ spc' = [spc EXCEPT ![p] = "none"]
            /\ ended' = IF p = "main" THEN "return" ELSE "exit"
            /\ UNCHANGED saved
        BY <1>7 DEF ShutdownJoined
      <2>4. \A q \in Actors : spc'[q] \notin Past
        BY <2>1, <2>3 DEF TypeOK, Actors, Past, ShutdownOnce
      <2>5. ShutdownOwner' = p
        BY <2>3, <2>4 DEF ShutdownOwner, Actors
      <2>6. Shut!Finish
        BY <2>1, <2>2, <2>3, <2>5 DEF Shut!Finish, Shut!EndBy,
           Shut!Callers, Actors
      <2>. QED
        BY <2>6 DEF Shut!Next
    <1>8. ASSUME NEW p \in Actors, Watchdog(p)
          PROVE  [Shut!Next]_Shut!svars
      <2>1. UNCHANGED <<spc, saved>> /\ ended = "no"
        BY <1>8 DEF Watchdog
      <2>2. ShutdownOwner' = ShutdownOwner
        BY <2>1, <1>8 DEF ShutdownOwner, Watchdog
      <2>3. CASE ended' = ended
        BY <2>1, <2>2, <2>3 DEF Shut!svars
      <2>4. CASE ended' # ended
        <3>1. ended' = "watchdog" /\ wd[p] = "running"
          BY <1>8, <2>4 DEF Watchdog
        <3>2. ShutdownOwner = p
          BY <3>1, OwnerIsPast
        <3>3. Shut!Timeout
          BY <2>1, <2>2, <3>1, <3>2 DEF Shut!Timeout, Shut!Callers, Actors
        <3>. QED
          BY <3>3 DEF Shut!Next
      <2>. QED
        BY <2>3, <2>4
    <1>9. CASE Signal
      <2>1. spc' = [spc EXCEPT !["sig"] = "check"]
            /\ UNCHANGED <<saved, ended>> /\ spc["sig"] = "none"
        BY <1>9 DEF Signal
      <2>2. \A q \in Actors : spc'[q] \in Past <=> spc[q] \in Past
        BY <2>1 DEF TypeOK, Actors, Past
      <2>. QED
        BY <1>1, <2>1, <2>2
    <1>10. CASE \/ SelectAction \/ OpenAttempt \/ CatchUpDone
                \/ WalletCallDone \/ ReadLine \/ ReadEnd \/ NodeStarts
                \/ InputEnds \/ UNCHANGED vars
      <2>1. UNCHANGED <<spc, saved, ended>>
        BY <1>10 DEF SelectAction, OpenAttempt, CatchUpDone,
           WalletCallDone, ReadLine, ReadEnd, NodeStarts, InputEnds, vars
      <2>. QED
        BY <1>1, <2>1
    <1>. QED
      BY <1>2, <1>3, <1>4, <1>5, <1>6, <1>7, <1>8, <1>9, <1>10
         DEF Next, MainStep, ShutdownStep

\* The session starts where SessionShutdown starts: no owner, nothing
\* saved, the process running.
LEMMA ShutdownInitRefines ==
    Init => Shut!Init
    <1>. SUFFICES ASSUME Init PROVE Shut!Init
      OBVIOUS
    <1>1. spc["main"] \notin Past /\ spc["sig"] \notin Past /\ ended = "no"
      BY DEF Init, Past, Actors
    <1>2. ShutdownOwner = "none"
      BY <1>1 DEF ShutdownOwner
    <1>. QED
      BY <1>2 DEF Init, Shut!Init

\* With the Ctrl+C handler on the main thread, InteractiveSession
\* implements SessionShutdown: shutdown's body is taken over by one caller
\* once, that caller saves before it ends the process its own way, and the
\* watchdog only ends a begun shutdown (ShutdownSpec, checked by the
\* session run).
THEOREM ShutdownRefinement ==
    ASSUME HandlerOnMain
    PROVE  Spec => ShutdownSpec
    <1>1. Init => Shut!Init
      BY ShutdownInitRefines
    <1>2. SessionInductive /\ [Next]_vars => [Shut!Next]_Shut!svars
      BY ShutdownStepRefines
    <1>. QED
      BY <1>1, <1>2, SessionInvariant, PTL DEF Spec, ShutdownSpec, Shut!Spec

====
