-------------------------- MODULE NotificationFeed --------------------------
(***************************************************************************)
(* What the wallet's synchronisation promises the user, without the        *)
(* catch-up loop, the background tick, the synchronizer and the wallet     *)
(* file: a session reads a feed of transactions the wallet shows, which    *)
(* only grows while the session lives; it takes note of a prefix of it,    *)
(* which only grows too, and announces each transaction of that prefix     *)
(* once, when it takes note of it: every incoming transfer, never a        *)
(* fusion.  Opening a wallet or a reset starts a session that has taken    *)
(* note of everything the feed already holds; a crash ends it.             *)
(*                                                                         *)
(* WalletSync implements this specification under the mapping Feed given  *)
(* there.                                                                  *)
(***************************************************************************)
EXTENDS Integers, Sequences

CONSTANT MaxTx   \* bound on the number of wallet transactions

VARIABLES
    feed,   \* the transactions the wallet shows, by the sign of their amount
    seen,   \* how many of them the session has taken note of
    start,  \* how many the session began with
    shown,  \* announcements made in the session, per index
    live    \* a session is running

avars == <<feed, seen, start, shown, live>>

Kinds == {-1, 0, 1}

Idx == 1..MaxTx

Lists == UNION {[1..n -> Kinds] : n \in 0..MaxTx}

\* t continues s: s is a prefix of t.
Extends(s, t) == Len(s) <= Len(t) /\ \A i \in 1..Len(s) : t[i] = s[i]

\* The kinds an announcement may cover: incoming transfers always, fusions
\* never; outgoing transfers are the announcer's choice.
Visible == {S \in SUBSET Kinds : 1 \in S /\ 0 \notin S}

Init ==
    /\ feed \in Lists
    /\ seen = 0 /\ start = 0
    /\ shown = [i \in Idx |-> 0]
    /\ live = FALSE

\* A session begins on the feed f, with all of f already taken note of.
Open(f) ==
    /\ feed' = f
    /\ seen' = Len(f) /\ start' = Len(f)
    /\ shown' = [i \in Idx |-> 0]
    /\ live' = TRUE

\* The feed grows to f and the session takes note of it up to k,
\* announcing what it newly took note of whose kind is in S.
Take(f, k, S) ==
    /\ live
    /\ Extends(feed, f)
    /\ k \in seen..Len(f)
    /\ feed' = f
    /\ seen' = k
    /\ shown' = [i \in Idx |-> IF seen < i /\ i <= k /\ f[i] \in S
                                  THEN shown[i] + 1 ELSE shown[i]]
    /\ UNCHANGED <<start, live>>

\* The session ends; the feed stays as it is.
Close ==
    /\ live
    /\ live' = FALSE
    /\ seen' = 0
    /\ UNCHANGED <<feed, start, shown>>

Next ==
    \/ \E f \in Lists : Open(f)
    \/ \E f \in Lists, k \in 0..MaxTx, S \in Visible : Take(f, k, S)
    \/ Close

Spec == Init /\ [][Next]_avars

\* The promise: in a running session each transaction is announced at
\* most once, only if the session took note of it after it began and it is
\* not a fusion, and every incoming transfer it took note of is announced.
Promise ==
    live =>
        /\ start <= seen /\ seen <= Len(feed)
        /\ \A i \in Idx :
              /\ shown[i] <= 1
              /\ shown[i] = 1 => start < i /\ i <= seen /\ feed[i] # 0
              /\ (start < i /\ i <= seen /\ feed[i] = 1) => shown[i] = 1

=============================================================================
