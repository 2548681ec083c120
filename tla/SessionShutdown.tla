-------------------------- MODULE SessionShutdown --------------------------
(***************************************************************************)
(* What shutdown promises the session, without alreadyShuttingDown, the   *)
(* two steps of its test, the stops and the join: one caller, the main    *)
(* thread or the Ctrl+C handler, takes over the shutdown, and it does so  *)
(* once for the life of the process.  That owner saves the wallet and     *)
(* then ends the process, by returning from run when it is the main       *)
(* thread, by exit(0) when it is the handler.  The watchdog may end the   *)
(* process at any time once a shutdown has begun, saved or not.           *)
(*                                                                         *)
(* InteractiveSession implements this specification under the mapping    *)
(* Shut given there, when the handler runs on the main thread.            *)
(***************************************************************************)
VARIABLES
    owner,  \* who runs shutdown's body: "none", "main" or "sig"
    saved,  \* the owner's wallet.save() has returned
    ended   \* how the process ended: "no", "return", "exit", "watchdog"

svars == <<owner, saved, ended>>

Callers == {"main", "sig"}

\* How each owner ends the process after its save.
EndBy == [main |-> "return", sig |-> "exit"]

Init ==
    /\ owner = "none"
    /\ saved = FALSE
    /\ ended = "no"

\* A caller takes over the shutdown; nobody has before.
Enter(p) ==
    /\ ended = "no" /\ owner = "none"
    /\ owner' = p
    /\ UNCHANGED <<saved, ended>>

\* The owner's save returns.
Save ==
    /\ ended = "no" /\ owner \in Callers
    /\ saved' = TRUE
    /\ UNCHANGED <<owner, ended>>

\* The owner, having saved, ends the process its own way.
Finish ==
    /\ ended = "no" /\ owner \in Callers /\ saved
    /\ ended' = EndBy[owner]
    /\ UNCHANGED <<owner, saved>>

\* The watchdog of a begun shutdown ends the process.
Timeout ==
    /\ ended = "no" /\ owner \in Callers
    /\ ended' = "watchdog"
    /\ UNCHANGED <<owner, saved>>

Next == (\E p \in Callers : Enter(p)) \/ Save \/ Finish \/ Timeout

Spec == Init /\ [][Next]_svars

====
