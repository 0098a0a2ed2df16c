--------------------------- MODULE VaultDownloads ---------------------------
(***************************************************************************)
(* Downloading a shared file: DownloadShare (with a Matrix token) and      *)
(* PublicShareDownload (the share page) of vault-api/internal/api/         *)
(* handler.go over the rows of vault_shares.  A handler reads the row once *)
(* and decides on that copy; the download is counted at the end, by an     *)
(* UPDATE whose error is ignored, after the URL has been made and before   *)
(* it is sent.  In between it may wait for Synapse, and any number of      *)
(* other requests may do the same.                                         *)
(*                                                                         *)
(* A request occupies one of the slots Requests and frees it at its end.   *)
(***************************************************************************)
EXTENDS Integers, FiniteSets

CONSTANTS
    Shares,     \* share ids
    Requests,   \* the requests the server handles at a time
    Viewers,    \* matrix users who download
    Limits,     \* the values of max_downloads owners ask for
    NoLimit,    \* max_downloads IS NULL
    MaxNow,     \* bound of the clock
    MaxCount,   \* bound of the downloads of a share that are counted
    MaxFailed   \* bound of the downloads of a share whose counting fails

ASSUME RequestsAssumption == IsFiniteSet(Requests) /\ Requests # {}
\* CreateShare stores any max_downloads it is sent, a negative one too.
ASSUME LimitsAssumption == Limits \subseteq Int /\ NoLimit \notin Int
ASSUME BoundsAssumption == MaxNow \in Nat /\ MaxCount \in Nat /\ MaxFailed \in Nat

\* share_type and target_id: only a room share with a target has its members checked.
Types == {"link", "room", "untargeted"}

\* expires_at, of which MaxNow + 1 is never reached and stands for NULL.
Expiries == 0..(MaxNow + 1)

VARIABLES
    made,       \* the shares that exist
    type, limit, expiry,    \* their columns share_type, max_downloads and expires_at
    count, revoked,         \* download_count and is_revoked
    now,        \* the clock
    joined,     \* the viewers who are in the room the shares target
    pc,         \* pc[r]: what request r does next; "idle" when the slot is free
    job,        \* job[r]: the share r serves, its viewer, and the download_count r read
    issued,     \* history: issued[s] URLs of s have been sent
    uncounted   \* history: uncounted[s] times counting a download of s failed

columns == <<made, type, limit, expiry>>
vars == <<made, type, limit, expiry, count, revoked, now, joined, pc, job, issued, uncounted>>

NoJob == [share |-> "none"]

Jobs == [share : Shares, viewer : Viewers, seen : Nat]

-----------------------------------------------------------------------------
Init ==
    /\ made = {} /\ now = 0 /\ joined = {}
    /\ type = [s \in Shares |-> "link"] /\ limit = [s \in Shares |-> NoLimit]
    /\ expiry = [s \in Shares |-> 0]
    /\ count = [s \in Shares |-> 0] /\ revoked = [s \in Shares |-> FALSE]
    /\ pc = [r \in Requests |-> "idle"] /\ job = [r \in Requests |-> NoJob]
    /\ issued = [s \in Shares |-> 0] /\ uncounted = [s \in Shares |-> 0]

\* time.Now().After(*share.ExpiresAt)
Expired(s) == now > expiry[s]

MutLimitReached(s) == limit[s] # NoLimit /\ count[s] > limit[s]

MutLimitEarly(s) == limit[s] # NoLimit /\ count[s] + 1 >= limit[s]

\* share.MaxDownloads != nil && share.DownloadCount >= *share.MaxDownloads
LimitReached(s) == limit[s] # NoLimit /\ count[s] >= limit[s]

MutOpen(s) == s \in made /\ ~Expired(s) /\ ~LimitReached(s)

\* The checks both handlers make on the row they read.
Open(s) == s \in made /\ ~revoked[s] /\ ~Expired(s) /\ ~LimitReached(s)

\* CreateShare: the object is not looked at.
CreateShare(s) ==
    /\ s \notin made
    /\ made' = made \cup {s}
    /\ \E t \in Types, l \in Limits \cup {NoLimit}, e \in Expiries :
          /\ type' = [type EXCEPT ![s] = t]
          /\ limit' = [limit EXCEPT ![s] = l]
          /\ expiry' = [expiry EXCEPT ![s] = e]
    /\ UNCHANGED <<count, revoked, now, joined, pc, job, issued, uncounted>>

\* RevokeShare, by its owner; nothing takes a revocation back.
RevokeShare(s) ==
    /\ s \in made
    /\ revoked' = [revoked EXCEPT ![s] = TRUE]
    /\ UNCHANGED <<columns, count, now, joined, pc, job, issued, uncounted>>

Begin(r, s, v, label) ==
    /\ pc[r] = "idle" /\ Open(s)
    /\ pc' = [pc EXCEPT ![r] = label]
    /\ job' = [job EXCEPT ![r] = [share |-> s, viewer |-> v, seen |-> count[s]]]
    /\ UNCHANGED <<columns, count, revoked, now, joined, issued, uncounted>>

\* DownloadShare up to the ACL of a room share.  A refused request changes nothing.
DownloadShare(r, s, v) == Begin(r, s, v, IF type[s] = "room" THEN "room" ELSE "count")

\* PublicShareDownload: a room share needs a Matrix sign-in, a password must match.
PublicShareDownload(r, s, v) == type[s] = "link" /\ Begin(r, s, v, "count")

MutFree(r) == UNCHANGED pc /\ job' = [job EXCEPT ![r] = NoJob]

\* The handler returns: after its answer, or after the error it has answered.
Free(r) ==
    /\ pc' = [pc EXCEPT ![r] = "idle"]
    /\ job' = [job EXCEPT ![r] = NoJob]

\* IsRoomMember asks Synapse.
IsRoomMember(r) ==
    /\ pc[r] = "room"
    /\ \/ job[r].viewer \in joined /\ pc' = [pc EXCEPT ![r] = "count"] /\ UNCHANGED job
       \/ job[r].viewer \notin joined /\ Free(r)
    /\ UNCHANGED <<columns, count, revoked, now, joined, issued, uncounted>>

MutNewCount(r) == job[r].seen + 1

\* SET download_count = download_count + 1
NewCount(r) == count[job[r].share] + 1

\* GetUser and PresignedGetURL, which read nothing that changes, and then
\* IncrementDownloadCount.
IncrementDownloadCount(r) ==
    LET s == job[r].share
    IN  /\ pc[r] = "count"
        /\ \/ /\ count[s] < MaxCount
              /\ count' = [count EXCEPT ![s] = NewCount(r)]
              /\ UNCHANGED uncounted
           \/ /\ uncounted[s] < MaxFailed
              /\ uncounted' = [uncounted EXCEPT ![s] = @ + 1]
              /\ UNCHANGED count
        /\ pc' = [pc EXCEPT ![r] = "answer"]
        /\ UNCHANGED <<columns, revoked, now, joined, job, issued>>

\* writeJSON sends the URL.
Answer(r) ==
    /\ pc[r] = "answer"
    /\ issued' = [issued EXCEPT ![job[r].share] = @ + 1]
    /\ Free(r)
    /\ UNCHANGED <<columns, count, revoked, now, joined, uncounted>>

\* A query fails, the URL cannot be made, the client is gone or the server stops.
Fail(r) ==
    /\ pc[r] # "idle" /\ Free(r)
    /\ UNCHANGED <<columns, count, revoked, now, joined, issued, uncounted>>

Tick ==
    /\ now < MaxNow /\ now' = now + 1
    /\ UNCHANGED <<columns, count, revoked, joined, pc, job, issued, uncounted>>

\* Viewers join and leave the room in Synapse at any time.
ChangeRoom(v) ==
    /\ joined' = IF v \in joined THEN joined \ {v} ELSE joined \cup {v}
    /\ UNCHANGED <<columns, count, revoked, now, pc, job, issued, uncounted>>

Next ==
    \/ \E s \in Shares : CreateShare(s) \/ RevokeShare(s)
    \/ \E r \in Requests :
          \/ \E s \in Shares, v \in Viewers : DownloadShare(r, s, v) \/ PublicShareDownload(r, s, v)
          \/ IsRoomMember(r) \/ IncrementDownloadCount(r) \/ Answer(r) \/ Fail(r)
    \/ Tick
    \/ \E v \in Viewers : ChangeRoom(v)

Spec == Init /\ [][Next]_vars

-----------------------------------------------------------------------------
(* Properties.                                                             *)

\* Type invariant.
TypeOK ==
    /\ made \subseteq Shares /\ now \in 0..MaxNow /\ joined \subseteq Viewers
    /\ type \in [Shares -> Types] /\ limit \in [Shares -> Limits \cup {NoLimit}]
    /\ expiry \in [Shares -> Expiries]
    /\ count \in [Shares -> Nat] /\ revoked \in [Shares -> BOOLEAN]
    /\ pc \in [Requests -> {"idle", "room", "count", "answer"}]
    /\ job \in [Requests -> Jobs \cup {NoJob}]
    /\ issued \in [Shares -> Nat] /\ uncounted \in [Shares -> Nat]
    /\ \A r \in Requests : pc[r] # "idle" => job[r] \in Jobs

\* The requests that have been let in for s and have not counted their download yet.
LetIn(s) == {r \in Requests : pc[r] \in {"room", "count"} /\ job[r].share = s}

Answering(s) == {r \in Requests : pc[r] = "answer" /\ job[r].share = s}

\* Every URL sent, and every one about to be, is in download_count or is one whose
\* counting failed: two requests that count at the same time are both counted.
EveryUrlIsCounted ==
    \A s \in Shares : issued[s] + Cardinality(Answering(s)) <= count[s] + uncounted[s]

\* How many downloads of s its limit can come to.
Most(s) == IF limit[s] > 0 THEN limit[s] + Cardinality(Requests) - 1 ELSE 0

\* max_downloads holds up to the requests let in together: the limit is compared with
\* the count before the download is counted, so the requests the server handles at a
\* time, less one, may pass it, and so may the downloads whose counting failed.  A limit
\* of 0 or below lets nobody in.
OvershootBounded ==
    \A s \in Shares :
        limit[s] # NoLimit =>
            /\ count[s] + Cardinality(LetIn(s)) <= Most(s)
            /\ issued[s] <= Most(s) + uncounted[s]

Closed(s) == s \in made /\ (revoked[s] \/ Expired(s) \/ LimitReached(s))

\* A share once revoked, expired or used up is closed for good: when the requests that
\* had been let in are over, no URL of it is ever sent again.
ClosedIsFinal ==
    [][\A s \in Shares :
          /\ Closed(s) => Closed(s)'
          /\ Closed(s) /\ LetIn(s) \cup Answering(s) = {}
               => LetIn(s)' \cup Answering(s)' = {} /\ issued'[s] = issued[s]]_vars

\* The phase of a share as its row and the clock tell it, and the requests under way for it.
Phase == [s \in Shares |-> IF s \notin made THEN "none" ELSE IF Closed(s) THEN "closed" ELSE "open"]
Owed == [s \in Shares |-> LetIn(s) \cup Answering(s)]

Lifecycle == INSTANCE ShareLifecycle WITH phase <- Phase, owed <- Owed

\* The rows, the clock and the two handlers keep the promise of a share: every step is a
\* step of its life cycle or none.
KeepsLifecycle == Lifecycle!Spec
=============================================================================
