-------------------------- MODULE VaultFilesProofs --------------------------
(***************************************************************************)
(* Theorems about VaultFiles, for any keys, folder, shares and number of   *)
(* requests handled at a time.                                             *)
(***************************************************************************)
EXTENDS VaultFiles, VaultPathsProofs, FiniteSetTheorems

-----------------------------------------------------------------------------
(* Types.                                                                  *)

\* The number of stored objects is a number.
LEMMA SizeType == BucketSize \in Nat
<1>1. Stored(bucket) \subseteq Keys
  BY DEF Stored
<1>2. IsFiniteSet(Stored(bucket))
  BY <1>1, KeysAssumption, FS_Subset
<1>3. QED
  BY <1>2, FS_CardinalityType DEF BucketSize

\* No object is a version too.
LEMMA ZeroVersion == 0 \in Versions
BY BoundAssumption DEF Versions

\* The vault as it is can be remembered.
LEMMA NowType == TypeOK => Now \in Snapshots
BY DEF TypeOK, Now, Snapshots

\* However a step treats the history, it keeps its type.
LEMMA HistoryTypes ==
  ASSUME TypeOK, NEW r \in Requests, OnlyBy(r) \/ ByOthers \/ CallFailed(r)
  PROVE  before' \in [Requests -> Snapshots \cup {Disturbed}]
BY DEF TypeOK, OnlyBy, ByOthers, CallFailed

\* What the fields of a job are.
LEMMA JobFields ==
  ASSUME NEW j \in Jobs
  PROVE  /\ j.kind \in {"none", "delete", "folder", "move", "quota"}
         /\ j.kind \in {"delete", "move"} => j.from \in Keys
         /\ j.kind = "move" => j.to \in Keys /\ j.from # j.to
BY DEF Jobs, NoJob, Job

\* A request that begins is well-typed.
LEMMA BeginTypes ==
  ASSUME TypeOK, NEW r \in Requests, NEW j \in Jobs, NEW n \in Nat,
         NEW label \in {"remove", "list", "measure", "copy"}, j.kind \in KindsAt(label),
         Begin(r, j, label, n)
  PROVE  TypeOK'
<1>1. before' \in [Requests -> Snapshots \cup {Disturbed}]
  BY NowType DEF Begin, TypeOK
<1>2. pc' \in [Requests -> Labels]
  BY DEF Begin, Goto, TypeOK, Labels
<1>3. \A q \in Requests : CallOK(q)'
  <2>1. \A q \in Requests : CallOK(q)
    BY DEF TypeOK
  <2>2. ASSUME NEW q \in Requests PROVE CallOK(q)'
    BY <2>1 DEF Begin, Goto, TypeOK, CallOK
  <2>3. QED
    BY <2>2
<1>4. QED
  BY <1>1, <1>2, <1>3 DEF Begin, TypeOK, shares

\* A call that is made next keeps the kind of its request.
LEMMA NextCall ==
  ASSUME TypeOK, NEW r \in Requests, NEW label \in Labels, job[r].kind \in KindsAt(label),
         Goto(r, label), job' = job, NEW t \in SUBSET Folder, t = {} \/ label = "each",
         todo' = [todo EXCEPT ![r] = t]
  PROVE  /\ pc' \in [Requests -> Labels] /\ todo' \in [Requests -> SUBSET Folder]
         /\ \A q \in Requests : CallOK(q)'
<1>1. pc' \in [Requests -> Labels] /\ todo' \in [Requests -> SUBSET Folder]
  BY DEF TypeOK, Goto
<1>2. ASSUME NEW q \in Requests PROVE CallOK(q)'
  <2>1. CallOK(q)
    BY DEF TypeOK
  <2>2. QED
    BY <2>1 DEF CallOK, Goto, TypeOK
<1>3. QED
  BY <1>1, <1>2

\* Every call keeps the types.
LEMMA HandleTypes == ASSUME TypeOK, NEW r \in Requests, Handle(r) PROVE TypeOK'
<1> DEFINE Goes == /\ pc' \in [Requests -> Labels] /\ todo' \in [Requests -> SUBSET Folder]
                   /\ job' \in [Requests -> Jobs]
                   /\ \A q \in Requests : CallOK(q)'
<1>1. ASSUME NEW label \in Labels, label # "each", Goto(r, label), job' = job,
             job[r].kind \in KindsAt(label), todo' = todo, todo[r] = {} PROVE Goes
  <2>1. todo' = [todo EXCEPT ![r] = {}]
    BY <1>1 DEF TypeOK
  <2>2. QED
    BY <1>1, <2>1, NextCall DEF TypeOK
<1>2. /\ job[r] \in Jobs /\ job[r].kind \in KindsAt(pc[r])
      /\ (pc[r] # "each" => todo[r] = {}) /\ todo[r] \in SUBSET Folder
  <2>1. job[r] \in Jobs /\ todo[r] \in SUBSET Folder
    BY DEF TypeOK
  <2>2. job[r].kind \in KindsAt(pc[r]) /\ (pc[r] # "each" => todo[r] = {})
    BY DEF TypeOK, CallOK
  <2>3. QED
    BY <2>1, <2>2
<1>3. CASE DeleteFile(r)
  <2>1. ASSUME NEW k \in Keys PROVE Job("delete", k, NoKey) \in Jobs
    BY DEF Jobs
  <2>2. Job("folder", NoKey, NoKey) \in Jobs
    BY DEF Jobs
  <2>3. \A k \in Keys : Job("delete", k, NoKey).kind \in KindsAt("remove")
    BY DEF Job, KindsAt
  <2>4. Job("folder", NoKey, NoKey).kind \in KindsAt("list")
    BY DEF Job, KindsAt
  <2>5. QED
    BY <1>3, <2>1, <2>2, <2>3, <2>4, BeginTypes DEF DeleteFile
<1>4. CASE MoveFile(r)
  <2>1. PICK f \in Keys, t \in Keys : f # t /\ Begin(r, Job("move", f, t), "copy", 0)
    BY <1>4 DEF MoveFile
  <2>2. Job("move", f, t) \in Jobs /\ Job("move", f, t).kind \in KindsAt("copy")
    BY <2>1 DEF Jobs, Job, KindsAt
  <2>3. QED
    BY <2>1, <2>2, BeginTypes
<1>5. CASE GetQuota(r)
  <2>1. Job("quota", NoKey, NoKey) \in Jobs /\ Job("quota", NoKey, NoKey).kind \in KindsAt("measure")
    BY DEF Jobs, Job, KindsAt
  <2>2. used \in Nat
    BY DEF TypeOK
  <2>3. QED
    BY <1>5, <2>1, <2>2, BeginTypes DEF GetQuota
<1>6. CASE DeleteObject(r)
  <2>1. Goes
    BY <1>1, <1>2, <1>6 DEF DeleteObject, KindsAt, Labels
  <2>2. QED
    BY <1>6, <2>1, HistoryTypes, ZeroVersion DEF DeleteObject, TypeOK, shares
<1>7. CASE ListPrefix(r)
  <2>1. Folder \cap Stored(bucket) \in SUBSET Folder
    OBVIOUS
  <2>2. Goes
    BY <1>2, <1>7, <2>1, NextCall DEF ListPrefix, KindsAt, Labels, TypeOK
  <2>3. QED
    BY <1>7, <2>2 DEF ListPrefix, TypeOK, shares
<1>8. ASSUME NEW k \in Keys, RemoveListed(r, k) PROVE TypeOK'
  <2>1. Goes
    BY <1>2, <1>8 DEF RemoveListed, TypeOK, CallOK
  <2>2. QED
    BY <1>8, <2>1, HistoryTypes, ZeroVersion DEF RemoveListed, TypeOK, shares
<1>9. CASE RemovedAll(r)
  <2>1. Goes
    BY <1>1, <1>2, <1>9 DEF RemovedAll, KindsAt, Labels
  <2>2. QED
    BY <1>9, <2>1 DEF RemovedAll, TypeOK, shares
<1>10. CASE RevokeShares(r)
  <2>1. Goes
    BY <1>1, <1>2, <1>10 DEF RevokeShares, KindsAt, Labels
  <2>2. state' \in [Shares -> {"none", "active", "revoked"}]
    BY <1>10 DEF RevokeShares, TypeOK
  <2>3. \A s \in Shares : state'[s] # "none" => key'[s] \in Keys
    BY <1>10 DEF RevokeShares, Revoked, TypeOK
  <2>4. QED
    BY <1>10, <2>1, <2>2, <2>3, HistoryTypes DEF RevokeShares, TypeOK
<1>11. CASE RevokeFails(r)
  <2>1. Goes
    BY <1>1, <1>2, <1>11 DEF RevokeFails, KindsAt, Labels
  <2>2. QED
    BY <1>11, <2>1, HistoryTypes DEF RevokeFails, TypeOK, shares
<1>12. CASE MeasureAfterDelete(r)
  <2>1. Goes
    BY <1>1, <1>2, <1>12 DEF MeasureAfterDelete, KindsAt, Labels
  <2>2. size' \in [Requests -> Nat]
    BY <1>12, SizeType DEF MeasureAfterDelete, TypeOK
  <2>3. before' \in [Requests -> Snapshots \cup {Disturbed}]
    BY <1>12, HistoryTypes DEF MeasureAfterDelete, TypeOK
  <2>4. QED
    BY <1>12, <2>1, <2>2, <2>3 DEF MeasureAfterDelete, TypeOK, shares
<1>13. CASE MeasureForQuota(r)
  <2>1. Goes
    BY <1>1, <1>2, <1>13 DEF MeasureForQuota, KindsAt, Labels
  <2>2. size' \in [Requests -> Nat]
    BY <1>13, SizeType DEF MeasureForQuota, TypeOK, Forget
  <2>3. QED
    BY <1>13, <2>1, <2>2 DEF MeasureForQuota, TypeOK, shares
<1>14. CASE UpdateUsedBytes(r)
  <2>1. Goes
    BY <1>1, <1>2, <1>14 DEF UpdateUsedBytes, KindsAt, Labels
  <2>2. QED
    BY <1>14, <2>1, HistoryTypes DEF UpdateUsedBytes, Forget, TypeOK, shares
<1>15. CASE CopyObject(r)
  <2>1. Goes
    BY <1>1, <1>2, <1>15 DEF CopyObject, KindsAt, Labels
  <2>2. job[r].from \in Keys
    BY <1>2, <1>15, JobFields DEF CopyObject, KindsAt
  <2>3. bucket' \in [Keys -> Versions]
    BY <1>15, <2>2 DEF CopyObject, TypeOK
  <2>4. QED
    BY <1>15, <2>1, <2>3, HistoryTypes DEF CopyObject, TypeOK, shares
<1>16. CASE RemoveSource(r)
  <2>1. Goes
    BY <1>1, <1>2, <1>16 DEF RemoveSource, KindsAt, Labels
  <2>2. QED
    BY <1>16, <2>1, HistoryTypes, ZeroVersion DEF RemoveSource, TypeOK, shares
<1>17. CASE UpdateSharesObjectKey(r)
  <2>1. Goes
    BY <1>1, <1>2, <1>17 DEF UpdateSharesObjectKey, KindsAt, Labels
  <2>2. job[r].to \in Keys
    BY <1>2, <1>17, JobFields DEF UpdateSharesObjectKey, KindsAt
  <2>3. QED
    BY <1>17, <2>1, <2>2, HistoryTypes DEF UpdateSharesObjectKey, TypeOK
<1>18. CASE Fail(r)
  <2>1. NoJob \in Jobs /\ NoJob.kind \in KindsAt("idle") /\ "idle" \in Labels
    BY DEF Jobs, NoJob, Job, KindsAt, Labels
  <2>2. Goes
    BY <1>18, <2>1 DEF Fail, Goto, TypeOK, CallOK
  <2>3. QED
    BY <1>18, <2>2, HistoryTypes DEF Fail, Forget, TypeOK, shares
<1>19. QED
  BY <1>3, <1>4, <1>5, <1>6, <1>7, <1>8, <1>9, <1>10, <1>11, <1>12, <1>13, <1>14,
     <1>15, <1>16, <1>17, <1>18 DEF Handle

\* Every step keeps the types.
LEMMA StepTypes == TypeOK /\ [Next]_vars => TypeOK'
<1> SUFFICES ASSUME TypeOK, [Next]_vars PROVE TypeOK'
  OBVIOUS
<1>1. ASSUME NEW k \in Keys, Put(k) PROVE TypeOK'
  <2>1. uploads' \in Versions
    BY <1>1, BoundAssumption DEF Put, TypeOK, Versions
  <2>2. before' \in [Requests -> Snapshots \cup {Disturbed}]
    BY <1>1 DEF Put, ByOthers
  <2>3. QED
    BY <1>1, <2>1, <2>2 DEF Put, TypeOK, CallOK, shares, requests
<1>2. ASSUME NEW s \in Shares, NEW k \in Keys, CreateShare(s, k) PROVE TypeOK'
  BY <1>2 DEF CreateShare, TypeOK, CallOK, ByOthers, requests
<1>3. ASSUME NEW s \in Shares, RevokeShare(s) PROVE TypeOK'
  BY <1>3 DEF RevokeShare, TypeOK, CallOK, ByOthers, requests
<1>4. CASE UNCHANGED vars
  BY <1>4 DEF vars, shares, TypeOK, CallOK
<1>5. QED
  BY <1>1, <1>2, <1>3, <1>4, HandleTypes DEF Next

\* The vault and its requests have their types at all times.
THEOREM TypeCorrect == Spec => []TypeOK
<1>1. Init => TypeOK
  BY BoundAssumption DEF Init, TypeOK, Versions, Labels, Jobs, NoJob, Job, KindsAt, CallOK
<1>2. QED
  BY <1>1, StepTypes, PTL DEF Spec

-----------------------------------------------------------------------------
(* What a request that nothing has disturbed has done so far.              *)

Was(r) == before[r]

SharesAsBefore(r) == key = Was(r).key /\ state = Was(r).state

\* The vault of a move: copied, and then removed, and then followed by the shares.
Copied(r) ==
    \A k \in Keys : bucket[k] = IF k = job[r].to THEN Was(r).bucket[job[r].from] ELSE Was(r).bucket[k]

Moved(r) ==
    \A k \in Keys : bucket[k] = IF k = job[r].from THEN 0
                                ELSE IF k = job[r].to THEN Was(r).bucket[job[r].from]
                                ELSE Was(r).bucket[k]

Followed(r) ==
    /\ state = Was(r).state
    /\ \A s \in Shares :
          key[s] = IF Was(r).state[s] = "active" /\ Was(r).key[s] = job[r].from
                   THEN job[r].to ELSE Was(r).key[s]

\* The vault of a deletion: its files removed but for those in todo, its shares revoked.
Removed(r) ==
    \A k \in Keys : bucket[k] = IF k \in Deleted(r) \ todo[r] THEN 0 ELSE Was(r).bucket[k]

SharesClosed(r) ==
    /\ key = Was(r).key
    /\ \A s \in Shares :
          state[s] = IF Was(r).state[s] = "active" /\ Was(r).key[s] \in Condemned(r)
                     THEN "revoked" ELSE Was(r).state[s]

MovePhase(r) ==
    /\ pc[r] = "copy" => bucket = Was(r).bucket /\ SharesAsBefore(r)
    /\ pc[r] = "source" => Copied(r) /\ SharesAsBefore(r)
    /\ pc[r] = "rekey" => Moved(r) /\ SharesAsBefore(r)
    /\ pc[r] = "idle" => Moved(r) /\ Followed(r)

DeletePhase(r) ==
    /\ pc[r] \in {"remove", "list"} => bucket = Was(r).bucket /\ SharesAsBefore(r)
    /\ pc[r] \in {"each", "revoke"} => Removed(r) /\ SharesAsBefore(r)
    /\ pc[r] \in {"size", "used", "idle"} => Removed(r) /\ SharesClosed(r)
    /\ pc[r] = "used" => size[r] = BucketSize
    /\ pc[r] = "idle" => used = BucketSize

QuotaPhase(r) ==
    /\ pc[r] = "measure" => size[r] = used
    /\ pc[r] = "used" => size[r] = BucketSize
    /\ pc[r] = "idle" => used = BucketSize

Phase(r) ==
    Was(r) # Disturbed =>
        /\ job[r].kind # "none"
        /\ job[r].kind = "move" => MovePhase(r)
        /\ job[r].kind \in {"delete", "folder"} => DeletePhase(r)
        /\ job[r].kind = "quota" => QuotaPhase(r)

InPhase == \A r \in Requests : Phase(r)

\* What the phase of a request depends on.
mine(r) == <<pc[r], job[r], todo[r], size[r], before[r]>>

\* A request that is not touched in a vault that does not change stays in phase.
LEMMA PhaseStays ==
  ASSUME NEW r \in Requests, Phase(r), UNCHANGED mine(r), UNCHANGED <<bucket, shares, used>>
  PROVE  Phase(r)'
BY DEF Phase, MovePhase, DeletePhase, QuotaPhase, Was, SharesAsBefore, Copied, Moved, Followed,
       Removed, SharesClosed, Deleted, Condemned, mine, shares, BucketSize, Stored

\* A request that is disturbed is in phase.
LEMMA DisturbedInPhase == ASSUME NEW r \in Requests, before'[r] = Disturbed PROVE Phase(r)'
BY DEF Phase, Was

\* A step of one request leaves the others in phase: it changes nothing, or disturbs them.
LEMMA OthersInPhase ==
  ASSUME TypeOK, NEW r \in Requests, Handle(r), NEW q \in Requests, q # r, Phase(q)
  PROVE  Phase(q)'
<1>1. /\ pc'[q] = pc[q] /\ job'[q] = job[q] /\ todo'[q] = todo[q] /\ size'[q] = size[q]
  BY DEF TypeOK, Handle, DeleteFile, MoveFile, GetQuota, Begin, DeleteObject, ListPrefix,
         RemoveListed, RemovedAll, RevokeShares, RevokeFails, MeasureAfterDelete,
         MeasureForQuota, UpdateUsedBytes, CopyObject, RemoveSource, UpdateSharesObjectKey,
         Fail, Forget, Goto
<1>2. \/ before'[q] = Disturbed
      \/ before'[q] = before[q] /\ UNCHANGED <<bucket, shares, used>>
  <2>1. CASE OnlyBy(r)
    BY <2>1 DEF OnlyBy
  <2>2. CASE ~OnlyBy(r)
    BY <2>2 DEF TypeOK, Handle, DeleteFile, MoveFile, GetQuota, Begin, DeleteObject, ListPrefix,
         RemoveListed, RemovedAll, RevokeShares, RevokeFails, MeasureAfterDelete,
         MeasureForQuota, UpdateUsedBytes, CopyObject, RemoveSource, UpdateSharesObjectKey,
         Fail, CallFailed
  <2>3. QED
    BY <2>1, <2>2
<1>3. CASE before'[q] = Disturbed
  BY <1>3, DisturbedInPhase
<1>4. CASE before'[q] = before[q] /\ UNCHANGED <<bucket, shares, used>>
  BY <1>1, <1>4, PhaseStays DEF mine
<1>5. QED
  BY <1>2, <1>3, <1>4

\* A call of a move brings it to its next phase.
LEMMA MoveInPhase ==
  ASSUME TypeOK, NEW r \in Requests, Phase(r), before[r] # Disturbed,
         CopyObject(r) \/ RemoveSource(r) \/ UpdateSharesObjectKey(r)
  PROVE  Phase(r)'
<1>1. /\ job' = job /\ job[r].kind = "move" /\ before'[r] = before[r]
      /\ job[r].from \in Keys /\ job[r].to \in Keys /\ job[r].from # job[r].to
  <2>1. pc[r] \in {"copy", "source", "rekey"} /\ job' = job /\ OnlyBy(r)
    BY DEF CopyObject, RemoveSource, UpdateSharesObjectKey
  <2>2. job[r] \in Jobs /\ job[r].kind = "move"
    BY <2>1 DEF TypeOK, CallOK, KindsAt
  <2>3. QED
    BY <2>1, <2>2, JobFields DEF OnlyBy
<1>2. MovePhase(r)
  BY <1>1 DEF Phase, Was
<1>3. bucket \in [Keys -> Versions] /\ key \in [Shares -> Keys \cup {NoKey}] /\ pc[r] \in Labels
  BY DEF TypeOK
<1>4. CASE CopyObject(r)
  <2>1. pc[r] = "copy" /\ pc'[r] = "source" /\ UNCHANGED shares
    BY <1>4 DEF CopyObject, Goto, TypeOK
  <2>2. bucket = before[r].bucket /\ SharesAsBefore(r)
    BY <1>2, <2>1 DEF MovePhase, Was
  <2>3. Copied(r)'
    BY <1>1, <1>3, <1>4, <2>2 DEF CopyObject, Copied, Was
  <2>4. SharesAsBefore(r)'
    BY <1>1, <2>1, <2>2 DEF SharesAsBefore, shares, Was
  <2>5. QED
    BY <1>1, <2>1, <2>3, <2>4 DEF Phase, MovePhase
<1>5. CASE RemoveSource(r)
  <2>1. pc[r] = "source" /\ pc'[r] = "rekey" /\ UNCHANGED shares
    BY <1>5 DEF RemoveSource, Goto, TypeOK
  <2>2. Copied(r) /\ SharesAsBefore(r)
    BY <1>2, <2>1 DEF MovePhase
  <2>3. Moved(r)'
    BY <1>1, <1>3, <1>5, <2>2 DEF RemoveSource, Copied, Moved, Was
  <2>4. SharesAsBefore(r)'
    BY <1>1, <2>1, <2>2 DEF SharesAsBefore, shares, Was
  <2>5. QED
    BY <1>1, <2>1, <2>3, <2>4 DEF Phase, MovePhase
<1>6. CASE UpdateSharesObjectKey(r)
  <2>1. pc[r] = "rekey" /\ pc'[r] = "idle" /\ UNCHANGED <<bucket, state>>
    BY <1>6 DEF UpdateSharesObjectKey, Goto, TypeOK
  <2>2. Moved(r) /\ SharesAsBefore(r)
    BY <1>2, <2>1 DEF MovePhase
  <2>3. Moved(r)'
    BY <1>1, <2>1, <2>2 DEF Moved, Was
  <2>4. Followed(r)'
    BY <1>1, <1>3, <1>6, <2>1, <2>2 DEF UpdateSharesObjectKey, Follows, Followed, SharesAsBefore, Was
  <2>5. QED
    BY <1>1, <2>1, <2>3, <2>4 DEF Phase, MovePhase
<1>7. QED
  BY <1>4, <1>5, <1>6

\* The calls of a deletion that change the bucket or the shares bring it to its next phase.
LEMMA DeleteInPhase ==
  ASSUME TypeOK, NEW r \in Requests, Phase(r), before[r] # Disturbed,
         \/ DeleteObject(r) \/ ListPrefix(r) \/ RemovedAll(r) \/ RevokeShares(r)
         \/ \E k \in Keys : RemoveListed(r, k)
  PROVE  Phase(r)'
<1>1. /\ job' = job /\ job[r].kind \in {"delete", "folder"} /\ before'[r] = before[r]
      /\ Deleted(r)' = Deleted(r) /\ Condemned(r)' = Condemned(r)
  <2>1. /\ pc[r] \in {"remove", "list", "each", "revoke"} /\ job' = job
        /\ OnlyBy(r) \/ before' = before
    BY DEF DeleteObject, ListPrefix, RemovedAll, RevokeShares, RemoveListed
  <2>2. job[r].kind \in {"delete", "folder"}
    BY <2>1 DEF TypeOK, CallOK, KindsAt
  <2>3. QED
    BY <2>1, <2>2 DEF OnlyBy, Deleted, Condemned
<1>2. DeletePhase(r)
  BY <1>1 DEF Phase, Was
<1>3. /\ bucket \in [Keys -> Versions] /\ state \in [Shares -> {"none", "active", "revoked"}]
      /\ (pc[r] # "each" => todo[r] = {}) /\ todo \in [Requests -> SUBSET Folder]
      /\ job[r].kind \in KindsAt(pc[r])
  BY DEF TypeOK, CallOK
<1>4. DeletePhase(r)' => Phase(r)'
  BY <1>1 DEF Phase
<1>5. CASE DeleteObject(r)
  <2>1. pc[r] = "remove" /\ pc'[r] = "revoke" /\ UNCHANGED <<shares, todo>>
    BY <1>5 DEF DeleteObject, Goto, TypeOK
  <2>2. bucket = before[r].bucket /\ SharesAsBefore(r)
    BY <1>2, <2>1 DEF DeletePhase, Was
  <2>3. Deleted(r) = {job[r].from}
    BY <1>3, <2>1 DEF KindsAt, Deleted
  <2>4. Removed(r)'
    BY <1>1, <1>3, <1>5, <2>1, <2>2, <2>3 DEF DeleteObject, Removed, Was
  <2>5. SharesAsBefore(r)'
    BY <1>1, <2>1, <2>2 DEF SharesAsBefore, shares, Was
  <2>6. QED
    BY <1>4, <2>1, <2>4, <2>5 DEF DeletePhase
<1>6. CASE ListPrefix(r)
  <2>1. /\ pc[r] = "list" /\ pc'[r] = "each" /\ UNCHANGED <<bucket, shares>>
        /\ todo'[r] = Folder \cap Stored(bucket)
    BY <1>6 DEF ListPrefix, Goto, TypeOK
  <2>2. bucket = before[r].bucket /\ SharesAsBefore(r)
    BY <1>2, <2>1 DEF DeletePhase, Was
  <2>3. Deleted(r) = Folder
    BY <1>3, <2>1 DEF KindsAt, Deleted
  <2>4. Removed(r)'
    BY <1>1, <2>1, <2>2, <2>3 DEF Removed, Was, Stored
  <2>5. SharesAsBefore(r)'
    BY <1>1, <2>1, <2>2 DEF SharesAsBefore, shares, Was
  <2>6. QED
    BY <1>4, <2>1, <2>4, <2>5 DEF DeletePhase
<1>7. ASSUME NEW k \in Keys, RemoveListed(r, k) PROVE Phase(r)'
  <2>1. /\ pc[r] = "each" /\ pc'[r] = "each" /\ UNCHANGED shares /\ k \in todo[r]
        /\ todo'[r] = todo[r] \ {k} /\ bucket' = [bucket EXCEPT ![k] = 0]
    BY <1>7, <1>3 DEF RemoveListed
  <2>2. Removed(r) /\ SharesAsBefore(r)
    BY <1>2, <2>1 DEF DeletePhase
  <2>3. k \in Deleted(r)
    BY <1>3, <2>1 DEF KindsAt, Deleted
  <2>4. Removed(r)'
    BY <1>1, <1>3, <2>1, <2>2, <2>3 DEF Removed, Was
  <2>5. SharesAsBefore(r)'
    BY <1>1, <2>1, <2>2 DEF SharesAsBefore, shares, Was
  <2>6. QED
    BY <1>4, <2>1, <2>4, <2>5 DEF DeletePhase
<1>8. CASE RemovedAll(r)
  <2>1. pc[r] = "each" /\ pc'[r] = "revoke" /\ UNCHANGED <<bucket, shares, todo>>
    BY <1>8 DEF RemovedAll, Goto, TypeOK
  <2>2. Removed(r) /\ SharesAsBefore(r)
    BY <1>2, <2>1 DEF DeletePhase
  <2>3. Removed(r)' /\ SharesAsBefore(r)'
    BY <1>1, <2>1, <2>2 DEF Removed, SharesAsBefore, shares, Was
  <2>4. QED
    BY <1>4, <2>1, <2>3 DEF DeletePhase
<1>9. CASE RevokeShares(r)
  <2>1. pc[r] = "revoke" /\ pc'[r] = "size" /\ UNCHANGED <<bucket, key, todo>>
    BY <1>9 DEF RevokeShares, Goto, TypeOK
  <2>2. Removed(r) /\ SharesAsBefore(r)
    BY <1>2, <2>1 DEF DeletePhase
  <2>3. Removed(r)'
    BY <1>1, <2>1, <2>2 DEF Removed, Was
  <2>4. SharesClosed(r)'
    BY <1>1, <1>3, <1>9, <2>1, <2>2 DEF RevokeShares, Revoked, SharesClosed, SharesAsBefore, Was
  <2>5. QED
    BY <1>4, <2>1, <2>3, <2>4 DEF DeletePhase
<1>10. QED
  BY <1>5, <1>6, <1>7, <1>8, <1>9

\* The calls that measure the bucket and store its size bring a request to its next phase.
LEMMA SizeInPhase ==
  ASSUME TypeOK, NEW r \in Requests, Phase(r), before[r] # Disturbed, before'[r] # Disturbed,
         MeasureAfterDelete(r) \/ MeasureForQuota(r) \/ UpdateUsedBytes(r)
  PROVE  Phase(r)'
<1>1. UNCHANGED <<bucket, shares, job, todo>> /\ BucketSize' = BucketSize
  BY DEF MeasureAfterDelete, MeasureForQuota, UpdateUsedBytes, BucketSize, Stored, Forget
<1>2. before'[r] = before[r]
  BY DEF MeasureAfterDelete, MeasureForQuota, UpdateUsedBytes, OnlyBy, CallFailed, TypeOK
<1>3. /\ job[r].kind \in KindsAt(pc[r]) /\ size \in [Requests -> Nat] /\ pc \in [Requests -> Labels]
  BY DEF TypeOK, CallOK
<1>4. /\ Removed(r) => Removed(r)'
      /\ SharesClosed(r) => SharesClosed(r)'
  BY <1>1, <1>2 DEF Removed, SharesClosed, Deleted, Condemned, Was, shares
<1>5. CASE MeasureAfterDelete(r)
  <2>1. pc[r] = "size" /\ pc'[r] = "used" /\ job[r].kind \in {"delete", "folder"}
    BY <1>3, <1>5 DEF MeasureAfterDelete, Goto, KindsAt
  <2>2. Removed(r) /\ SharesClosed(r)
    BY <2>1 DEF Phase, DeletePhase, Was
  <2>3. size'[r] = BucketSize
    BY <1>3, <1>5 DEF MeasureAfterDelete, CallFailed, TypeOK
  <2>4. QED
    BY <1>1, <1>4, <2>1, <2>2, <2>3 DEF Phase, DeletePhase
<1>6. CASE MeasureForQuota(r)
  <2>1. pc[r] = "measure" /\ job[r].kind = "quota" /\ used' = used /\ size[r] = used
    BY <1>3, <1>6 DEF MeasureForQuota, KindsAt, Phase, QuotaPhase, Was
  <2>2. \/ BucketSize = size[r] /\ pc'[r] = "idle"
        \/ pc'[r] = "used" /\ size'[r] = BucketSize
    BY <1>3, <1>6 DEF MeasureForQuota, Goto
  <2>3. QED
    BY <1>1, <2>1, <2>2 DEF Phase, QuotaPhase
<1>7. CASE UpdateUsedBytes(r)
  <2>1. /\ pc[r] = "used" /\ pc'[r] = "idle" /\ used' = size[r]
        /\ job[r].kind \in {"delete", "folder", "quota"}
    BY <1>3, <1>7 DEF UpdateUsedBytes, Goto, KindsAt
  <2>2. size[r] = BucketSize
    BY <2>1 DEF Phase, DeletePhase, QuotaPhase, Was
  <2>3. job[r].kind \in {"delete", "folder"} => Removed(r) /\ SharesClosed(r)
    BY <2>1 DEF Phase, DeletePhase, Was
  <2>4. QED
    BY <1>1, <1>4, <2>1, <2>2, <2>3 DEF Phase, DeletePhase, QuotaPhase
<1>8. QED
  BY <1>5, <1>6, <1>7

\* A request begins in its first phase.
LEMMA BeginInPhase ==
  ASSUME TypeOK, NEW r \in Requests, DeleteFile(r) \/ MoveFile(r) \/ GetQuota(r)
  PROVE  Phase(r)'
<1> DEFINE First(kind, label) ==
      \/ kind = "move" /\ label = "copy"
      \/ kind = "delete" /\ label = "remove"
      \/ kind = "folder" /\ label = "list"
      \/ kind = "quota" /\ label = "measure"
<1>1. ASSUME NEW j, NEW label, NEW n, Begin(r, j, label, n), First(j.kind, label),
             j.kind = "quota" => n = used
      PROVE  Phase(r)'
  <2>1. /\ pc'[r] = label /\ job'[r] = j /\ size'[r] = n /\ before'[r] = Now
        /\ UNCHANGED <<bucket, shares, used>>
    BY <1>1 DEF Begin, Goto, TypeOK
  <2>2. SharesAsBefore(r)' /\ bucket' = Was(r)'.bucket
    BY <2>1 DEF SharesAsBefore, Was, Now, shares
  <2>3. QED
    BY <1>1, <2>1, <2>2 DEF Phase, MovePhase, DeletePhase, QuotaPhase
<1>2. CASE DeleteFile(r)
  BY <1>1, <1>2 DEF DeleteFile, Job
<1>3. CASE MoveFile(r)
  BY <1>1, <1>3 DEF MoveFile, Job
<1>4. CASE GetQuota(r)
  BY <1>1, <1>4 DEF GetQuota, Job
<1>5. QED
  BY <1>2, <1>3, <1>4

\* Every step keeps every request in its phase.
LEMMA StepInPhase == TypeOK /\ InPhase /\ [Next]_vars => InPhase'
<1> SUFFICES ASSUME TypeOK, InPhase, [Next]_vars, NEW q \in Requests PROVE Phase(q)'
  BY DEF InPhase
<1>1. Phase(q)
  BY DEF InPhase
<1>2. ASSUME NEW r \in Requests, Handle(r) PROVE Phase(q)'
  <2>1. CASE q # r
    BY <1>1, <1>2, <2>1, OthersInPhase
  <2>2. CASE q = r /\ (DeleteFile(r) \/ MoveFile(r) \/ GetQuota(r))
    BY <2>2, BeginInPhase
  <2>3. CASE before'[q] = Disturbed
    BY <2>3, DisturbedInPhase
  <2>4. CASE /\ q = r /\ before'[q] # Disturbed
             /\ ~(DeleteFile(r) \/ MoveFile(r) \/ GetQuota(r))
    <3>1. ~Fail(r) /\ ~RevokeFails(r)
      BY <2>4 DEF Fail, RevokeFails, CallFailed, TypeOK
    <3>2. before[q] # Disturbed
      BY <1>2, <2>4, <3>1 DEF Handle, DeleteObject, ListPrefix, RemoveListed, RemovedAll,
           RevokeShares, MeasureAfterDelete, MeasureForQuota, UpdateUsedBytes, CopyObject,
           RemoveSource, UpdateSharesObjectKey, OnlyBy, CallFailed, TypeOK
    <3>3. QED
      BY <1>1, <1>2, <2>4, <3>1, <3>2, MoveInPhase, DeleteInPhase, SizeInPhase DEF Handle
  <2>5. QED
    BY <2>1, <2>2, <2>3, <2>4
<1>3. CASE \/ \E k \in Keys : Put(k)
           \/ \E s \in Shares : RevokeShare(s) \/ \E k \in Keys : CreateShare(s, k)
  <2>1. before'[q] = Disturbed
    BY <1>3 DEF Put, RevokeShare, CreateShare, ByOthers
  <2>2. QED
    BY <2>1, DisturbedInPhase
<1>4. CASE UNCHANGED vars
  BY <1>1, <1>4, PhaseStays DEF vars, mine, shares
<1>5. QED
  BY <1>2, <1>3, <1>4 DEF Next

\* Requests are in phase at all times.
LEMMA AlwaysInPhase == Spec => []InPhase
<1>1. Init => InPhase
  BY DEF Init, InPhase, Phase, Was
<1>2. QED
  BY <1>1, StepInPhase, TypeCorrect, PTL DEF Spec

-----------------------------------------------------------------------------
(* The folder and the pattern made from its path.                          *)

\* The pattern matches every key under a folder whose path has no backslash.
LEMMA FolderIsLiked == Unescaped(Path) => Folder \subseteq Liked
<1> SUFFICES ASSUME Unescaped(Path), NEW k \in Keys, HasPrefix(Name[k], Path)
             PROVE  LikePrefix(Name[k], Path)
  BY DEF Folder, Liked
<1>1. Name[k] \in Seq(Chars) /\ Path \in Seq(Chars)
  BY NamesAssumption
<1>2. QED
  BY <1>1, PrefixIsLiked

\* It matches no other when the path has none of LIKE's special characters.
LEMMA LiteralFolder == Literal(Path) => Liked = Folder
<1> SUFFICES ASSUME Literal(Path) PROVE Liked = Folder
  OBVIOUS
<1>1. Unescaped(Path)
  BY DEF Literal, Unescaped
<1>2. ASSUME NEW k \in Keys, LikePrefix(Name[k], Path) PROVE HasPrefix(Name[k], Path)
  <2>1. Name[k] \in Seq(Chars) /\ Path \in Seq(Chars)
    BY NamesAssumption
  <2>2. QED
    BY <1>2, <2>1, LikedIsPrefix
<1>3. Liked \subseteq Folder
  BY <1>2 DEF Liked, Folder
<1>4. QED
  BY <1>1, <1>3, FolderIsLiked

\* A deletion that nothing disturbs is whole: files, shares and used_bytes agree.
THEOREM DeletionsAreWhole == Spec => []DeletionIsWhole
<1>1. TypeOK /\ InPhase => DeletionIsWhole
  <2> SUFFICES ASSUME TypeOK, InPhase, NEW r \in Requests,
                      EndedAlone(r, "delete") \/ EndedAlone(r, "folder")
               PROVE  /\ \A k \in Keys : bucket[k] = IF k \in Deleted(r) THEN 0 ELSE before[r].bucket[k]
                      /\ job[r].kind = "delete" \/ Unescaped(Path) =>
                            \A s \in Shares : key[s] \in Deleted(r) => state[s] # "active"
                      /\ \A s \in Shares : key[s] \notin Condemned(r) => state[s] = before[r].state[s]
                      /\ used = BucketSize
    BY DEF DeletionIsWhole
  <2>1. Removed(r) /\ SharesClosed(r) /\ used = BucketSize
    BY DEF InPhase, Phase, DeletePhase, EndedAlone, Was
  <2>2. todo[r] = {}
    BY DEF TypeOK, CallOK, EndedAlone
  <2>3. job[r].kind = "delete" \/ Unescaped(Path) => Deleted(r) \subseteq Condemned(r)
    BY FolderIsLiked DEF Deleted, Condemned, EndedAlone
  <2>4. QED
    BY <2>1, <2>2, <2>3 DEF Removed, SharesClosed, Was
<1>2. QED
  BY <1>1, TypeCorrect, AlwaysInPhase, PTL

\* A folder with a literal path: its deletion, when nothing disturbs it, revokes exactly the
\* active shares under the folder, as the comment of RevokeSharesByObjectPrefix says.
THEOREM LiteralFoldersClose == Literal(Path) => (Spec => []RevokesUnderFolder)
<1> SUFFICES ASSUME Literal(Path) PROVE Spec => []RevokesUnderFolder
  OBVIOUS
<1>1. InPhase => RevokesUnderFolder
  <2> SUFFICES ASSUME InPhase, NEW r \in Requests, EndedAlone(r, "folder"),
                      NEW s \in Shares, before[r].state[s] = "active"
               PROVE  state[s] = "revoked" <=> key[s] \in Folder
    BY DEF RevokesUnderFolder
  <2>1. SharesClosed(r) /\ Condemned(r) = Folder
    BY LiteralFolder DEF InPhase, Phase, DeletePhase, EndedAlone, Was, Condemned
  <2>2. QED
    BY <2>1 DEF SharesClosed, Was
<1>2. QED
  BY <1>1, AlwaysInPhase, PTL

\* A move that nothing disturbs keeps the files and the shares.
THEOREM MovesKeepShares == Spec => []MoveKeepsSharesValid
<1>1. TypeOK /\ InPhase => MoveKeepsSharesValid
  <2> SUFFICES ASSUME TypeOK, InPhase, NEW r \in Requests, EndedAlone(r, "move")
               PROVE  /\ \A k \in Keys \ {job[r].to} :
                            before[r].bucket[k] # 0 => \E m \in Keys : bucket[m] = before[r].bucket[k]
                      /\ \A s \in Shares :
                            state[s] = "active" /\ before[r].key[s] # job[r].to
                              => bucket[key[s]] = before[r].bucket[before[r].key[s]]
    BY DEF MoveKeepsSharesValid
  <2>1. Moved(r) /\ Followed(r)
    BY DEF InPhase, Phase, MovePhase, EndedAlone, Was
  <2>2. job[r].from \in Keys /\ job[r].to \in Keys /\ job[r].from # job[r].to
    BY JobFields DEF TypeOK, EndedAlone
  <2>3. ASSUME NEW k \in Keys \ {job[r].to}, before[r].bucket[k] # 0
        PROVE  \E m \in Keys : bucket[m] = before[r].bucket[k]
    <3>1. CASE k = job[r].from
      BY <2>1, <2>2, <3>1 DEF Moved, Was
    <3>2. CASE k # job[r].from
      BY <2>1, <2>3, <3>2 DEF Moved, Was
    <3>3. QED
      BY <3>1, <3>2
  <2>4. ASSUME NEW s \in Shares, state[s] = "active", before[r].key[s] # job[r].to
        PROVE  bucket[key[s]] = before[r].bucket[before[r].key[s]]
    <3>1. CASE before[r].key[s] = job[r].from
      BY <2>1, <2>2, <2>4, <3>1 DEF Moved, Followed, Was
    <3>2. CASE before[r].key[s] # job[r].from
      <4>1. key[s] = before[r].key[s] /\ key[s] \in Keys
        BY <2>1, <2>4, <3>2 DEF Followed, Was, TypeOK
      <4>2. QED
        BY <2>1, <2>4, <3>2, <4>1 DEF Moved, Was
    <3>3. QED
      BY <3>1, <3>2
  <2>5. QED
    BY <2>3, <2>4
<1>2. QED
  BY <1>1, TypeCorrect, AlwaysInPhase, PTL

\* A move that nothing has disturbed removes an original whose copy is in place.
THEOREM RemovalsKeepCopies == Spec => RemovalKeepsCopy
<1>1. TypeOK /\ InPhase /\ [Next]_vars =>
        [\A r \in Requests :
            pc[r] = "source" /\ pc'[r] = "rekey" /\ before[r] # Disturbed
            => \A k \in Keys : \E m \in Keys : bucket'[m] = bucket[k]]_vars
  <2> SUFFICES ASSUME TypeOK, InPhase, [Next]_vars, NEW r \in Requests,
                      pc[r] = "source", pc'[r] = "rekey", before[r] # Disturbed
               PROVE  \A k \in Keys : \E m \in Keys : bucket'[m] = bucket[k]
    OBVIOUS
  <2>1. RemoveSource(r)
    <3>1. PICK q \in Requests : Handle(q)
      BY DEF Next, vars, Put, RevokeShare, CreateShare, requests
    <3>2. q = r
      BY <3>1 DEF TypeOK, Handle, DeleteFile, MoveFile, GetQuota, Begin, DeleteObject, ListPrefix,
         RemoveListed, RemovedAll, RevokeShares, RevokeFails, MeasureAfterDelete,
         MeasureForQuota, UpdateUsedBytes, CopyObject, RemoveSource, UpdateSharesObjectKey,
         Fail, Goto
    <3>3. QED
      BY <3>1, <3>2 DEF TypeOK, Handle, DeleteFile, MoveFile, GetQuota, Begin, DeleteObject,
         ListPrefix, RemoveListed, RemovedAll, RevokeShares, RevokeFails, MeasureAfterDelete,
         MeasureForQuota, UpdateUsedBytes, CopyObject, UpdateSharesObjectKey, Fail, Goto
  <2>2. job[r] \in Jobs /\ job[r].kind = "move"
    BY DEF TypeOK, CallOK, KindsAt
  <2>3. job[r].from \in Keys /\ job[r].to \in Keys /\ job[r].from # job[r].to
    BY <2>2, JobFields
  <2>4. Copied(r)
    BY <2>2 DEF InPhase, Phase, MovePhase, Was
  <2>5. bucket[job[r].to] = bucket[job[r].from]
    BY <2>3, <2>4 DEF Copied
  <2>6. bucket' = [bucket EXCEPT ![job[r].from] = 0] /\ bucket \in [Keys -> Versions]
    BY <2>1 DEF RemoveSource, TypeOK
  <2>7. ASSUME NEW k \in Keys PROVE \E m \in Keys : bucket'[m] = bucket[k]
    <3>1. CASE k = job[r].from
      <4>1. bucket'[job[r].to] = bucket[k]
        BY <2>3, <2>5, <2>6, <3>1
      <4>2. QED
        BY <2>3, <4>1
    <3>2. CASE k # job[r].from
      <4>1. bucket'[k] = bucket[k]
        BY <2>6, <3>2
      <4>2. QED
        BY <4>1
    <3>3. QED
      BY <3>1, <3>2
  <2>8. QED
    BY <2>7
<1>2. QED
  BY <1>1, TypeCorrect, AlwaysInPhase, PTL DEF Spec, RemovalKeepsCopy

\* used_bytes is the size of the bucket after a quota request that nothing disturbs.
THEOREM QuotasAreMeasured == Spec => []QuotaIsMeasured
<1>1. InPhase => QuotaIsMeasured
  BY DEF InPhase, Phase, QuotaPhase, QuotaIsMeasured, EndedAlone, Was
<1>2. QED
  BY <1>1, AlwaysInPhase, PTL
=============================================================================
