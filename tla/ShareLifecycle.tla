---------------------------- MODULE ShareLifecycle ----------------------------
(***************************************************************************)
(* What a share promises its owner, whatever the rows, the clock and the   *)
(* handlers do: it is published once, it closes once and for good, and a   *)
(* URL is only ever sent for a request that was let in while it was open,  *)
(* one for each.  VaultDownloads implements it.                            *)
(***************************************************************************)
EXTENDS Naturals

CONSTANTS
    Shares,     \* share ids
    Requests    \* the requests that can be under way at a time

VARIABLES
    phase,      \* phase[s]: "none", "open" or "closed"
    owed,       \* owed[s]: the requests for s let in and not over
    issued      \* issued[s]: how many URLs of s have been sent

lifecycleVars == <<phase, owed, issued>>

Init ==
    /\ phase = [s \in Shares |-> "none"]
    /\ owed = [s \in Shares |-> {}]
    /\ issued = [s \in Shares |-> 0]

\* A share may be over before it has begun: its limit is 0, or its expiry has passed.
Make(s) ==
    /\ phase[s] = "none"
    /\ \E p \in {"open", "closed"} : phase' = [phase EXCEPT ![s] = p]
    /\ UNCHANGED <<owed, issued>>

\* Revoked or used up, one share at a time, or expired, any number of them at once.
Close(S) ==
    /\ \A s \in S : phase[s] = "open"
    /\ phase' = [s \in Shares |-> IF s \in S THEN "closed" ELSE phase[s]]
    /\ UNCHANGED <<owed, issued>>

Admit(s, r) ==
    /\ phase[s] = "open" /\ \A t \in Shares : r \notin owed[t]
    /\ owed' = [owed EXCEPT ![s] = @ \cup {r}]
    /\ UNCHANGED <<phase, issued>>

\* A request let in gets its URL, even from a share that has closed meanwhile ...
Deliver(s, r) ==
    /\ r \in owed[s]
    /\ owed' = [owed EXCEPT ![s] = @ \ {r}]
    /\ issued' = [issued EXCEPT ![s] = @ + 1]
    /\ UNCHANGED phase

\* ... or none.
Drop(s, r) ==
    /\ r \in owed[s]
    /\ owed' = [owed EXCEPT ![s] = @ \ {r}]
    /\ UNCHANGED <<phase, issued>>

Next ==
    \/ \E s \in Shares : Make(s)
    \/ \E S \in SUBSET Shares : Close(S)
    \/ \E s \in Shares, r \in Requests : Admit(s, r) \/ Deliver(s, r) \/ Drop(s, r)

Spec == Init /\ [][Next]_lifecycleVars
=============================================================================
