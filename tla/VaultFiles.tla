----------------------------- MODULE VaultFiles -----------------------------
(***************************************************************************)
(* The files of one vault: its bucket in MinIO, the shares of its owner in *)
(* vault_shares, and used_bytes in vault_users, under DeleteFile, MoveFile *)
(* and GetQuota of vault-api/internal/api/handler.go.  A handler makes one *)
(* call after another to MinIO and PostgreSQL, which nothing joins: each   *)
(* call is an action of its own, other requests run in between, and any    *)
(* call may fail.  Buckets are per owner and every statement names the     *)
(* owner, so vaults do not touch each other.                               *)
(*                                                                         *)
(* A file is known by the version its upload gave it, and all files have   *)
(* the size 1.  A request occupies one of the slots Requests.  Only one    *)
(* folder is ever deleted.                                                 *)
(***************************************************************************)
EXTENDS Naturals, FiniteSets, VaultPaths

CONSTANTS
    Keys,       \* object keys
    NoKey,      \* the key of what has none
    Chars,      \* the characters of keys
    Name,       \* Name[k]: the characters of key k
    Path,       \* the path of the folder
    Shares,     \* share ids
    Requests,   \* the requests the server handles at a time
    MaxVersion  \* bound of the uploads

ASSUME KeysAssumption == IsFiniteSet(Keys) /\ NoKey \notin Keys
\* DeleteFile takes a path for a folder's when it ends in a slash.
ASSUME NamesAssumption == Name \in [Keys -> Seq(Chars)] /\ Path \in Seq(Chars) /\ EndsInSlash(Path)
ASSUME BoundAssumption == MaxVersion \in Nat

\* The keys under the folder, and those that match the pattern made from its path.
Folder == {k \in Keys : HasPrefix(Name[k], Path)}

Liked == {k \in Keys : LikePrefix(Name[k], Path)}

VARIABLES
    bucket,     \* bucket[k]: the version of the object, 0 when there is none
    uploads,    \* the versions given so far
    key, state, \* object_key of each share, and whether it exists and is revoked
    used,       \* used_bytes
    pc,         \* pc[r]: the call request r makes next, "idle" when the slot is free
    job,        \* job[r]: what r asks for
    todo,       \* todo[r]: the keys a deletion has listed and not removed yet
    size,       \* size[r]: a size r has read
    before      \* history: the vault when r began; Disturbed once a call of r has failed or
                \* anything but r has changed the vault

shares == <<key, state>>
vars == <<bucket, uploads, key, state, used, pc, job, todo, size, before>>

Versions == 0..MaxVersion

Job(kind, from, to) == [kind |-> kind, from |-> from, to |-> to]

NoJob == Job("none", NoKey, NoKey)

\* A folder deletion names the one folder.
Jobs == {NoJob, Job("folder", NoKey, NoKey), Job("quota", NoKey, NoKey)}
        \cup {Job("delete", k, NoKey) : k \in Keys}
        \cup {j \in [kind : {"move"}, from : Keys, to : Keys] : j.from # j.to}

Snapshots == [bucket : [Keys -> Versions], key : [Shares -> Keys \cup {NoKey}],
              state : [Shares -> {"none", "active", "revoked"}]]

Disturbed == [state |-> "disturbed"]

Stored(b) == {k \in Keys : b[k] # 0}

\* GetBucketSize
BucketSize == Cardinality(Stored(bucket))

Now == [bucket |-> bucket, key |-> key, state |-> state]

Init ==
    /\ bucket = [k \in Keys |-> 0] /\ uploads = 0
    /\ key = [s \in Shares |-> NoKey]
    /\ state = [s \in Shares |-> "none"] /\ used = 0
    /\ pc = [r \in Requests |-> "idle"]
    /\ job = [r \in Requests |-> NoJob]
    /\ todo = [r \in Requests |-> {}] /\ size = [r \in Requests |-> 0]
    /\ before = [r \in Requests |-> Disturbed]

Goto(r, label) == pc' = [pc EXCEPT ![r] = label]

Forget(r) == size' = [size EXCEPT ![r] = 0]

\* A change made by request r disturbs the other requests.
OnlyBy(r) == before' = [q \in Requests |-> IF q = r THEN before[r] ELSE Disturbed]

\* A change made by none of the requests.
ByOthers == before' = [q \in Requests |-> Disturbed]

CallFailed(r) == before' = [before EXCEPT ![r] = Disturbed]

requests == <<pc, job, todo, size>>

-----------------------------------------------------------------------------
(* What the owner's clients do in one call.                                *)

\* PutObject with a URL that GetUploadURL signed, or CreateFolder.
Put(k) ==
    /\ uploads < MaxVersion
    /\ uploads' = uploads + 1 /\ bucket' = [bucket EXCEPT ![k] = uploads + 1]
    /\ ByOthers /\ UNCHANGED <<shares, used, requests>>

\* CreateShare does not ask whether the object exists.
CreateShare(s, k) ==
    /\ state[s] = "none"
    /\ state' = [state EXCEPT ![s] = "active"] /\ key' = [key EXCEPT ![s] = k]
    /\ ByOthers /\ UNCHANGED <<bucket, uploads, used, requests>>

RevokeShare(s) ==
    /\ state[s] # "none"
    /\ state' = [state EXCEPT ![s] = "revoked"]
    /\ ByOthers /\ UNCHANGED <<bucket, uploads, key, used, requests>>

-----------------------------------------------------------------------------
(* The handlers, one call at a time.                                       *)

Begin(r, j, label, n) ==
    /\ pc[r] = "idle" /\ Goto(r, label)
    /\ job' = [job EXCEPT ![r] = j] /\ size' = [size EXCEPT ![r] = n]
    /\ before' = [before EXCEPT ![r] = Now]
    /\ UNCHANGED <<bucket, uploads, shares, used, todo>>

\* A path that ends in a slash is a folder.
DeleteFile(r) ==
    \/ \E k \in Keys : Begin(r, Job("delete", k, NoKey), "remove", 0)
    \/ Begin(r, Job("folder", NoKey, NoKey), "list", 0)

\* MinIO refuses to copy an object onto itself, which ends the request.
MoveFile(r) ==
    \E from, to \in Keys : from # to /\ Begin(r, Job("move", from, to), "copy", 0)

\* GetUser reads used_bytes before the bucket is measured.
GetQuota(r) == Begin(r, Job("quota", NoKey, NoKey), "measure", used)

\* RemoveObject of a file, which succeeds when there is none.
DeleteObject(r) ==
    /\ pc[r] = "remove" /\ Goto(r, "revoke")
    /\ bucket' = [bucket EXCEPT ![job[r].from] = 0]
    /\ OnlyBy(r) /\ UNCHANGED <<uploads, shares, used, job, todo, size>>

\* DeletePrefix lists the objects under the folder (a page of them at a time) ...
ListPrefix(r) ==
    /\ pc[r] = "list" /\ Goto(r, "each")
    /\ todo' = [todo EXCEPT ![r] = Folder \cap Stored(bucket)]
    /\ UNCHANGED <<bucket, uploads, shares, used, job, size, before>>

MutRemoveListed(r, k) ==
    /\ pc[r] = "each" /\ k \in todo[r]
    /\ bucket' = [bucket EXCEPT ![k] = 0]
    /\ todo' = [todo EXCEPT ![r] = {}]
    /\ OnlyBy(r) /\ UNCHANGED <<uploads, shares, used, pc, job, size>>

\* ... and removes them one by one; an object that came later stays.
RemoveListed(r, k) ==
    /\ pc[r] = "each" /\ k \in todo[r]
    /\ bucket' = [bucket EXCEPT ![k] = 0]
    /\ todo' = [todo EXCEPT ![r] = todo[r] \ {k}]
    /\ OnlyBy(r) /\ UNCHANGED <<uploads, shares, used, pc, job, size>>

MutRemovedAll(r) ==
    /\ pc[r] = "each" /\ Goto(r, "revoke")
    /\ UNCHANGED <<bucket, uploads, shares, used, job, todo, size, before>>

RemovedAll(r) ==
    /\ pc[r] = "each" /\ todo[r] = {} /\ Goto(r, "revoke")
    /\ UNCHANGED <<bucket, uploads, shares, used, job, todo, size, before>>

\* The keys of a deletion: object_key = $2, or object_key LIKE $2 || '%'.
Condemned(r) == IF job[r].kind = "folder" THEN Liked ELSE {job[r].from}

\* AND NOT is_revoked
Revoked(r, s) ==
    /\ state[s] = "active"
    /\ key[s] \in Condemned(r)

\* RevokeSharesByObjectKey or RevokeSharesByObjectPrefix.
RevokeShares(r) ==
    /\ pc[r] = "revoke" /\ Goto(r, "size")
    /\ state' = [s \in Shares |-> IF Revoked(r, s) THEN "revoked" ELSE state[s]]
    /\ OnlyBy(r) /\ UNCHANGED <<bucket, uploads, key, used, job, todo, size>>

\* Its error is only logged.
RevokeFails(r) ==
    /\ pc[r] = "revoke" /\ Goto(r, "size")
    /\ CallFailed(r)
    /\ UNCHANGED <<bucket, uploads, shares, used, job, todo, size>>

\* GetBucketSize of a deletion: its error is dropped and the size is then 0.
MeasureAfterDelete(r) ==
    /\ pc[r] = "size" /\ Goto(r, "used")
    /\ \/ size' = [size EXCEPT ![r] = BucketSize] /\ UNCHANGED before
       \/ size' = [size EXCEPT ![r] = 0] /\ CallFailed(r)
    /\ UNCHANGED <<bucket, uploads, shares, used, job, todo>>

MutMeasureForQuota(r) ==
    /\ pc[r] = "measure"
    /\ \/ BucketSize <= size[r] /\ Goto(r, "idle") /\ Forget(r)
       \/ BucketSize > size[r] /\ Goto(r, "used") /\ size' = [size EXCEPT ![r] = BucketSize]
    /\ UNCHANGED <<bucket, uploads, shares, used, job, todo, before>>

\* GetBucketSize of GetQuota: a size that differs from used_bytes as read is stored.
MeasureForQuota(r) ==
    /\ pc[r] = "measure"
    /\ \/ BucketSize = size[r] /\ Goto(r, "idle") /\ Forget(r)
       \/ BucketSize # size[r] /\ Goto(r, "used") /\ size' = [size EXCEPT ![r] = BucketSize]
    /\ UNCHANGED <<bucket, uploads, shares, used, job, todo, before>>

\* UpdateUsedBytes writes what was measured, however long ago.
UpdateUsedBytes(r) ==
    /\ pc[r] = "used" /\ Goto(r, "idle")
    /\ used' = size[r] /\ Forget(r)
    /\ OnlyBy(r) /\ UNCHANGED <<bucket, uploads, shares, job, todo>>

MutCopyObject(r) ==
    /\ pc[r] = "copy" /\ Goto(r, "source")
    /\ UNCHANGED <<bucket, uploads, shares, used, job, todo, size, before>>

\* CopyObject of MoveObject: an error when there is nothing to copy.
CopyObject(r) ==
    /\ pc[r] = "copy" /\ bucket[job[r].from] # 0 /\ Goto(r, "source")
    /\ bucket' = [bucket EXCEPT ![job[r].to] = bucket[job[r].from]]
    /\ OnlyBy(r) /\ UNCHANGED <<uploads, shares, used, job, todo, size>>

\* RemoveObject of MoveObject, by key: whatever object is there now.
RemoveSource(r) ==
    /\ pc[r] = "source" /\ Goto(r, "rekey")
    /\ bucket' = [bucket EXCEPT ![job[r].from] = 0]
    /\ OnlyBy(r) /\ UNCHANGED <<uploads, shares, used, job, todo, size>>

MutFollows(r, s) == key[s] = job[r].to

\* owner_user_id = $1 AND object_key = $2 AND NOT is_revoked
Follows(r, s) == state[s] = "active" /\ key[s] = job[r].from

\* UpdateSharesObjectKey
UpdateSharesObjectKey(r) ==
    /\ pc[r] = "rekey" /\ Goto(r, "idle")
    /\ key' = [s \in Shares |-> IF Follows(r, s) THEN job[r].to ELSE key[s]]
    /\ OnlyBy(r) /\ UNCHANGED <<bucket, uploads, state, used, job, todo, size>>

\* A call fails and the request is over: with an error, or, after the last call of
\* GetQuota, DeleteFile and MoveFile, whose errors are ignored, as if it had not.  What
\* MinIO has done stays done, so a call whose answer is lost ends the request after it.
Fail(r) ==
    /\ pc[r] # "idle" /\ Goto(r, "idle")
    /\ todo' = [todo EXCEPT ![r] = {}] /\ Forget(r)
    /\ job' = [job EXCEPT ![r] = NoJob]
    /\ CallFailed(r)
    /\ UNCHANGED <<bucket, uploads, shares, used>>

Handle(r) ==
    \/ DeleteFile(r) \/ MoveFile(r) \/ GetQuota(r)
    \/ DeleteObject(r) \/ ListPrefix(r) \/ (\E k \in Keys : RemoveListed(r, k)) \/ RemovedAll(r)
    \/ RevokeShares(r) \/ RevokeFails(r) \/ MeasureAfterDelete(r) \/ MeasureForQuota(r)
    \/ UpdateUsedBytes(r) \/ CopyObject(r) \/ RemoveSource(r) \/ UpdateSharesObjectKey(r)
    \/ Fail(r)

Next ==
    \/ \E k \in Keys : Put(k)
    \/ \E s \in Shares : RevokeShare(s) \/ \E k \in Keys : CreateShare(s, k)
    \/ \E r \in Requests : Handle(r)

Spec == Init /\ [][Next]_vars

-----------------------------------------------------------------------------
(* Properties.                                                             *)

Labels == {"idle", "remove", "list", "each", "revoke", "size", "used", "measure",
           "copy", "source", "rekey"}

\* The kinds of request that make a call.
KindsAt(label) ==
    IF label \in {"copy", "source", "rekey"} THEN {"move"}
    ELSE IF label = "remove" THEN {"delete"}
    ELSE IF label \in {"list", "each"} THEN {"folder"}
    ELSE IF label \in {"revoke", "size"} THEN {"delete", "folder"}
    ELSE IF label = "used" THEN {"delete", "folder", "quota"}
    ELSE IF label = "measure" THEN {"quota"}
    ELSE {"none", "delete", "folder", "move", "quota"}

\* A request makes the calls of its kind, and has listed keys only while it removes them.
CallOK(r) == job[r].kind \in KindsAt(pc[r]) /\ (todo[r] # {} => pc[r] = "each")

\* Type invariant.
TypeOK ==
    /\ bucket \in [Keys -> Versions] /\ uploads \in Versions /\ used \in Nat
    /\ key \in [Shares -> Keys \cup {NoKey}] /\ state \in [Shares -> {"none", "active", "revoked"}]
    /\ pc \in [Requests -> Labels] /\ job \in [Requests -> Jobs]
    /\ todo \in [Requests -> SUBSET Folder] /\ size \in [Requests -> Nat]
    /\ before \in [Requests -> Snapshots \cup {Disturbed}]
    /\ \A r \in Requests : CallOK(r)
    /\ \A s \in Shares : state[s] # "none" => key[s] \in Keys

\* Request r, of that kind, has ended with success, and since it began nothing but r
\* has changed the vault.
EndedAlone(r, kind) == pc[r] = "idle" /\ before[r] # Disturbed /\ job[r].kind = kind

Deleted(r) == IF job[r].kind = "folder" THEN Folder ELSE {job[r].from}

\* A deletion that nothing disturbs removes its files and no other, leaves no active
\* share on them (unless a backslash in the folder's path makes the pattern miss them),
\* leaves the shares of the files the statement does not match as they were, and stores
\* the size of what is left: through three systems' calls, in this order.
DeletionIsWhole ==
    \A r \in Requests : EndedAlone(r, "delete") \/ EndedAlone(r, "folder") =>
        /\ \A k \in Keys : bucket[k] = IF k \in Deleted(r) THEN 0 ELSE before[r].bucket[k]
        /\ job[r].kind = "delete" \/ Unescaped(Path) =>
              \A s \in Shares : key[s] \in Deleted(r) => state[s] # "active"
        /\ \A s \in Shares : key[s] \notin Condemned(r) => state[s] = before[r].state[s]
        /\ used = BucketSize

\* A move that nothing disturbs loses no file but the one it replaces, and every active
\* share whose file it did not replace serves the file it served before.
MoveKeepsSharesValid ==
    \A r \in Requests : EndedAlone(r, "move") =>
        /\ \A k \in Keys \ {job[r].to} :
              before[r].bucket[k] # 0 => \E m \in Keys : bucket[m] = before[r].bucket[k]
        /\ \A s \in Shares :
              state[s] = "active" /\ before[r].key[s] # job[r].to
                => bucket[key[s]] = before[r].bucket[before[r].key[s]]

\* A move removes an original only when its copy is in place: unless something else
\* changed the vault since the move began, or one of its calls failed, no file that is
\* stored before the removal is gone after it.
RemovalKeepsCopy ==
    [][\A r \in Requests :
          pc[r] = "source" /\ pc'[r] = "rekey" /\ before[r] # Disturbed
          => \A k \in Keys : \E m \in Keys : bucket'[m] = bucket[k]]_vars

\* used_bytes is the size of the bucket after a quota request that nothing disturbs.
QuotaIsMeasured ==
    \A r \in Requests : EndedAlone(r, "quota") => used = BucketSize

\* The comment of MoveObject: it "copies an object to a new key and deletes the original".
\* What a move removes is what it copied.
MoveDeletesTheOriginal ==
    [][\A r \in Requests :
          pc[r] = "source" /\ pc'[r] = "rekey"
          => \A k \in Keys : bucket[k] # 0 => \E m \in Keys : bucket'[m] = bucket[k]]_vars

\* The comment of RevokeSharesByObjectPrefix: it "marks every active share under a folder
\* as revoked".  A deletion of a folder that nothing disturbs revokes these and no other.
RevokesUnderFolder ==
    \A r \in Requests : EndedAlone(r, "folder") =>
        \A s \in Shares : before[r].state[s] = "active" =>
            (state[s] = "revoked" <=> key[s] \in Folder)
=============================================================================
