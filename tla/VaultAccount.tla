---------------------------- MODULE VaultAccount ----------------------------
(***************************************************************************)
(* One user's account: the row of vault_users and the bucket in MinIO, as  *)
(* Provision and the organisations' handlers make them, and the quota, as  *)
(* GetUploadURL checks it (vault-api/internal/api/handler.go,              *)
(* internal/storage/storage.go, internal/db/db.go).                        *)
(*                                                                         *)
(* An upload does not pass through the server: a request that fits the     *)
(* quota is answered with a URL, and for 15 minutes its holder may store   *)
(* a file of any size under its key, any number of times.  A move copies   *)
(* a file without looking at the quota.                                    *)
(*                                                                         *)
(* A slot of Slots is a request at the server and, when the request has    *)
(* been answered with a URL, that URL until it expires.                    *)
(***************************************************************************)
EXTENDS Integers, FiniteSets, VaultPaths

CONSTANTS
    Chars,      \* the characters of paths and names
    Slots,      \* the requests and the upload URLs there may be at a time
    Targets,    \* the <<path, file_name>> clients upload to
    Folders,    \* the paths of the folders they create
    Declared,   \* the values of file_size
    MaxInt,     \* the largest int64
    MaxSize,    \* the size of the largest file, a multiple of the unit all sizes count
    FreeQuota, PlusQuota,
    MaxCopied   \* bound of the moves between two checks of the quota

Keys == {BuildObjectKey(t[1], t[2]) : t \in Targets} \cup {FolderKey(f) : f \in Folders}

\* GetUploadURL refuses a request without a file_name.
ASSUME PathsAssumption ==
    /\ Slash \in Chars /\ Folders \subseteq Seq(Chars)
    /\ Targets \subseteq Seq(Chars) \X (Seq(Chars) \ {<<>>})
ASSUME SlotsAssumption == IsFiniteSet(Slots)
ASSUME KeysAssumption == IsFiniteSet(Keys)
\* file_size is any int64 a client sends; what is stored adds up within one.
ASSUME SizesAssumption ==
    /\ MaxInt \in Nat /\ Declared \subseteq (-MaxInt - 1)..MaxInt
    /\ MaxSize \in Nat /\ Cardinality(Keys) * MaxSize <= MaxInt
ASSUME QuotasAssumption == FreeQuota \in 0..MaxInt /\ PlusQuota \in 0..MaxInt
ASSUME MaxCopiedAssumption == MaxCopied \in Nat

VARIABLES
    tier,       \* vault_users.tier, which quota_bytes follows; "none" without a row
    bucket,     \* the bucket exists
    object,     \* object[k]: the size of what is stored under k, or Absent
    pc,         \* pc[r]: the call slot r makes next; "url" while its URL is valid
    job,        \* job[r]: what slot r works with
    ready,      \* history: a Provision has been answered "ok"
    byOrg,      \* history: the row was made by an organisation's handler
    admitted,   \* history: what the last check that passed lets be stored
    copied      \* history: the moves that have copied a file since that check

account == <<tier, bucket, ready, byOrg>>
vars == <<tier, bucket, object, pc, job, ready, byOrg, admitted, copied>>

Absent == -1

QuotaOf(t) == IF t = "plus" THEN PlusQuota ELSE FreeQuota

\* The bucket, a unit of size at a time.
Units(f) == {u \in Keys \X (1..MaxSize) : u[2] <= f[u[1]]}

BucketSize == Cardinality(Units(object))

Present == {k \in Keys : object[k] # Absent}

NoJob == [kind |-> "none"]

Jobs == {NoJob}
    \cup [kind : {"provision"}, found : BOOLEAN]
    \cup [kind : {"upload"}, key : Keys, size : Declared, quota : {FreeQuota, PlusQuota}]
    \cup [kind : {"url", "move"}, key : Keys]

-----------------------------------------------------------------------------
Init ==
    /\ tier = "none" /\ bucket = FALSE
    /\ object = [k \in Keys |-> Absent]
    /\ pc = [r \in Slots |-> "idle"] /\ job = [r \in Slots |-> NoJob]
    /\ ready = FALSE /\ byOrg = FALSE
    /\ admitted = 0 /\ copied = 0

Goto(r, label) == pc' = [pc EXCEPT ![r] = label]

MutFree(r) == Goto(r, "idle") /\ UNCHANGED job

\* The handler returns.
Free(r) == Goto(r, "idle") /\ job' = [job EXCEPT ![r] = NoJob]

Begin(r, label, j) ==
    /\ pc[r] = "idle" /\ Goto(r, label)
    /\ job' = [job EXCEPT ![r] = j]

-----------------------------------------------------------------------------
(* Provisioning.                                                           *)

Provision(r) ==
    /\ Begin(r, "exists", [kind |-> "provision", found |-> bucket])
    /\ UNCHANGED <<account, object, admitted, copied>>

MutBucketExists(r) ==
    /\ pc[r] = "exists" /\ Goto(r, "row")
    /\ UNCHANGED <<account, object, job, admitted, copied>>

\* EnsureBucket: BucketExists, and MakeBucket only if there is none.
BucketExists(r) ==
    /\ pc[r] = "exists"
    /\ Goto(r, IF bucket THEN "row" ELSE "make")
    /\ UNCHANGED <<account, object, job, admitted, copied>>

\* MakeBucket fails when another request has made the bucket meanwhile.
MakeBucket(r) ==
    /\ pc[r] = "make"
    /\ \/ bucket /\ Free(r)
       \/ ~bucket /\ Goto(r, "row") /\ UNCHANGED job
    /\ bucket' = TRUE
    /\ UNCHANGED <<tier, object, ready, byOrg, admitted, copied>>

\* INSERT ... ON CONFLICT leaves the tier of a row that is there.
NewTier == IF tier = "none" THEN "free" ELSE tier

GetOrCreateUser(r) ==
    /\ pc[r] = "row" /\ Free(r)
    /\ tier' = NewTier /\ ready' = TRUE
    /\ UNCHANGED <<bucket, object, byOrg, admitted, copied>>

\* ensureVaultUser of the organisations' handlers: the row, without a bucket.
EnsureVaultUser ==
    /\ tier' = NewTier
    /\ byOrg' = (byOrg \/ tier = "none")
    /\ UNCHANGED <<bucket, object, pc, job, ready, admitted, copied>>

\* set-tier, or a commit of an organisation.
SetTier ==
    /\ tier # "none"
    /\ tier' \in {"free", "plus"}
    /\ UNCHANGED <<bucket, object, pc, job, ready, byOrg, admitted, copied>>

-----------------------------------------------------------------------------
(* Uploads.                                                                *)

\* GetUploadURL reads the row: the quota it will compare with.
GetUploadURL(r) ==
    /\ tier # "none"
    /\ \E t \in Targets, d \in Declared :
          Begin(r, "measure", [kind |-> "upload", key |-> BuildObjectKey(t[1], t[2]),
                               size |-> d, quota |-> QuotaOf(tier)])
    /\ UNCHANGED <<account, object, admitted, copied>>

MutFits(used, size, quota) == used <= quota

\* A sum of two int64 values that are not both negative.
Wrap(n) == IF n > MaxInt THEN n - 2 * (MaxInt + 1) ELSE n

\* ~(currentSize+req.FileSize > user.QuotaBytes), whatever file_size is.
Fits(used, size, quota) == Wrap(used + size) <= quota

\* What is left of the quota when the file is stored; but a negative file_size, or one with
\* which the sum wraps, says nothing, and what is stored already is all that is known.
Admitted(used, size, quota) == IF size \in 0..(MaxInt - used) THEN quota - size ELSE used

MutCheckQuota(r) ==
    /\ pc[r] = "measure"
    /\ IF Fits(IF bucket THEN BucketSize ELSE 0, job[r].size, job[r].quota)
       THEN /\ Goto(r, "sign")
            /\ job' = [job EXCEPT ![r] = [kind |-> "url", key |-> job[r].key]]
            /\ admitted' = Admitted(BucketSize, job[r].size, job[r].quota) /\ copied' = 0
       ELSE Free(r) /\ UNCHANGED <<admitted, copied>>
    /\ UNCHANGED <<account, object>>

\* GetBucketSize, which fails without a bucket, and the comparison.
CheckQuota(r) ==
    /\ pc[r] = "measure"
    /\ IF bucket /\ Fits(BucketSize, job[r].size, job[r].quota)
       THEN /\ Goto(r, "sign")
            /\ job' = [job EXCEPT ![r] = [kind |-> "url", key |-> job[r].key]]
            /\ admitted' = Admitted(BucketSize, job[r].size, job[r].quota) /\ copied' = 0
       ELSE Free(r) /\ UNCHANGED <<admitted, copied>>
    /\ UNCHANGED <<account, object>>

\* PresignedPutURL, and the answer.
PresignedPutURL(r) ==
    /\ pc[r] = "sign" /\ Goto(r, "url")
    /\ UNCHANGED <<account, object, job, admitted, copied>>

\* A client uses its URL, with a file of any size.
Put(r, n) ==
    /\ pc[r] = "url" /\ bucket
    /\ object' = [object EXCEPT ![job[r].key] = n]
    /\ UNCHANGED <<account, pc, job, admitted, copied>>

\* A call fails, the client is gone or the server stops; or the 15 minutes of a URL are over.
Stop(r) ==
    /\ pc[r] # "idle" /\ Free(r)
    /\ UNCHANGED <<account, object, admitted, copied>>

-----------------------------------------------------------------------------
(* The other handlers that change what is stored.                          *)

CreateFolder(f) ==
    /\ tier # "none" /\ bucket
    /\ object' = [object EXCEPT ![FolderKey(f)] = 0]
    /\ UNCHANGED <<account, pc, job, admitted, copied>>

\* DeleteFile, and each removal of the deletion of a folder.
DeleteFile(k) ==
    /\ tier # "none" /\ bucket
    /\ object' = [object EXCEPT ![k] = Absent]
    /\ UNCHANGED <<account, pc, job, admitted, copied>>

\* MoveFile: the copy, which no quota limits.
MoveFile(r, from, to) ==
    /\ tier # "none" /\ bucket /\ object[from] # Absent /\ from # to
    /\ copied < MaxCopied
    /\ Begin(r, "remove", [kind |-> "move", key |-> from])
    /\ object' = [object EXCEPT ![to] = object[from]]
    /\ copied' = copied + 1
    /\ UNCHANGED <<account, admitted>>

\* MoveFile: the removal of whatever is under the old key by now.
RemoveObject(r) ==
    /\ pc[r] = "remove" /\ Free(r)
    /\ object' = [object EXCEPT ![job[r].key] = Absent]
    /\ UNCHANGED <<account, admitted, copied>>

Next ==
    \/ \E r \in Slots :
          \/ Provision(r) \/ BucketExists(r) \/ MakeBucket(r) \/ GetOrCreateUser(r)
          \/ GetUploadURL(r) \/ CheckQuota(r) \/ PresignedPutURL(r)
          \/ \E n \in 0..MaxSize : Put(r, n)
          \/ \E from, to \in Keys : MoveFile(r, from, to)
          \/ RemoveObject(r) \/ Stop(r)
    \/ EnsureVaultUser \/ SetTier
    \/ \E f \in Folders : CreateFolder(f)
    \/ \E k \in Keys : DeleteFile(k)

Spec == Init /\ [][Next]_vars

-----------------------------------------------------------------------------
(* Properties.                                                             *)

Labels == {"idle", "exists", "make", "row", "measure", "sign", "url", "remove"}

KindAt(p) ==
    IF p = "idle" THEN "none"
    ELSE IF p \in {"exists", "make", "row"} THEN "provision"
    ELSE IF p = "measure" THEN "upload"
    ELSE IF p = "remove" THEN "move" ELSE "url"

\* Type invariant: each slot makes the calls of its own kind.
TypeOK ==
    /\ tier \in {"none", "free", "plus"} /\ bucket \in BOOLEAN
    /\ object \in [Keys -> Absent..MaxSize]
    /\ pc \in [Slots -> Labels] /\ job \in [Slots -> Jobs]
    /\ \A r \in Slots : job[r].kind = KindAt(pc[r])
    /\ ready \in BOOLEAN /\ byOrg \in BOOLEAN
    /\ admitted \in Int /\ copied \in Nat

\* A user told "ok" has a row and a bucket from then on, however many provisionings
\* overlap and whatever fails.  Only an organisation's handler leaves a row without a
\* bucket, and a provisioning is refused only if it began before the bucket was there: a
\* client that sends it again is not refused again.
ProvisionedIsUsable ==
    /\ ready => tier # "none" /\ bucket
    /\ tier # "none" => bucket \/ byOrg
    /\ \A r \in Slots : pc[r] = "make" => ~job[r].found

\* No URL is signed for a bucket that is not there: an upload never fails for that.
SignedUrlsWork ==
    \A r \in Slots : pc[r] \in {"sign", "url"} => tier # "none" /\ bucket

\* How far a vault passes what a check has admitted: by one file for each URL there may be
\* at a time, because the size is measured when a URL is signed and not when it is used,
\* and by one for each move since, whose copy is not measured at all.  What is admitted is
\* within the quota only if the last file_size that passed was a size: a negative one, or
\* one with which the sum wraps, is admitted however much is stored, and the vault then
\* grows by as much again from what it held.
OvershootBounded == BucketSize <= admitted + (Cardinality(Slots) + copied) * MaxSize

\* What is uploaded to a path under a name without slashes is listed there under its name,
\* and what is listed there as a file was stored for it: buildObjectKey and ListObjects
\* complete a path alike.  A folder, in the root or in another one, is listed where it is
\* once it has been created or something is in it.
ListedWhereStored ==
    /\ \A t \in Targets :
          Plain(t[1]) /\ Flat(t[2]) =>
             ([name |-> t[2], folder |-> FALSE] \in ListObjects(Present, t[1])
                 <=> BuildObjectKey(t[1], t[2]) \in Present)
    /\ \A f \in Folders : \A n \in 0..(Len(f) - 1) :
          LET parent == SubSeq(f, 1, n)
              name == SubSeq(f, n + 1, Len(f))
          IN  Plain(f) /\ (n > 0 => f[n] = Slash) /\ Flat(name) =>
                 ([name |-> name, folder |-> TRUE] \in ListObjects(Present, parent)
                     <=> \E k \in Present : HasPrefix(k, FolderKey(f)))
=============================================================================
