------------------------- MODULE VaultAccountProofs -------------------------
(***************************************************************************)
(* Theorems about VaultAccount, for any keys, sizes and quotas and any     *)
(* number of requests and URLs at a time.                                  *)
(***************************************************************************)
EXTENDS VaultAccount, VaultPathsProofs, FiniteSetTheorems, TLAPS

-----------------------------------------------------------------------------
(* Types.                                                                  *)

\* What a step may do to a slot, if it does anything to slots.
SlotStep(r) ==
    \/ UNCHANGED <<pc, job>>
    \/ Free(r)
    \/ \E label \in Labels, j \in Jobs :
          Goto(r, label) /\ job' = [job EXCEPT ![r] = j] /\ j.kind = KindAt(label)
    \/ \E label \in Labels :
          Goto(r, label) /\ UNCHANGED job /\ KindAt(label) = KindAt(pc[r])

LEMMA SlotTypes ==
  ASSUME TypeOK, NEW r \in Slots, SlotStep(r)
  PROVE  /\ pc' \in [Slots -> Labels] /\ job' \in [Slots -> Jobs]
         /\ \A s \in Slots : job'[s].kind = KindAt(pc'[s])
<1> USE DEF TypeOK
<1>1. CASE UNCHANGED <<pc, job>>
  BY <1>1
<1>2. CASE Free(r)
  BY <1>2 DEF Free, Goto, Labels, Jobs, NoJob, KindAt
<1>3. ASSUME NEW label \in Labels, NEW j \in Jobs,
             Goto(r, label), job' = [job EXCEPT ![r] = j], j.kind = KindAt(label)
      PROVE  /\ pc' \in [Slots -> Labels] /\ job' \in [Slots -> Jobs]
             /\ \A s \in Slots : job'[s].kind = KindAt(pc'[s])
  BY <1>3 DEF Goto
<1>4. ASSUME NEW label \in Labels, Goto(r, label), UNCHANGED job, KindAt(label) = KindAt(pc[r])
      PROVE  /\ pc' \in [Slots -> Labels] /\ job' \in [Slots -> Jobs]
             /\ \A s \in Slots : job'[s].kind = KindAt(pc'[s])
  BY <1>4 DEF Goto
<1>5. QED
  BY <1>1, <1>2, <1>3, <1>4 DEF SlotStep

LEMMA KeyTypes ==
  /\ \A t \in Targets : BuildObjectKey(t[1], t[2]) \in Keys
  /\ \A f \in Folders : FolderKey(f) \in Keys
BY DEF Keys

LEMMA JobKeys ==
  ASSUME TypeOK, NEW r \in Slots, job[r].kind \in {"upload", "url", "move"}
  PROVE  job[r].key \in Keys
BY DEF TypeOK, Jobs, NoJob

\* The slots' own actions are steps of their slot.
LEMMA ProvisionSlots ==
  ASSUME TypeOK, NEW r \in Slots,
         Provision(r) \/ BucketExists(r) \/ MakeBucket(r) \/ GetOrCreateUser(r)
  PROVE  SlotStep(r)
<1> USE DEF TypeOK
<1>1. CASE Provision(r)
  <2> DEFINE j == [kind |-> "provision", found |-> bucket]
  <2>1. j \in Jobs /\ j.kind = KindAt("exists") /\ "exists" \in Labels
    BY DEF Jobs, KindAt, Labels
  <2>2. Goto(r, "exists") /\ job' = [job EXCEPT ![r] = j]
    BY <1>1 DEF Provision, Begin
  <2>3. QED
    BY <2>1, <2>2 DEF SlotStep
<1>2. CASE BucketExists(r)
  BY <1>2 DEF BucketExists, SlotStep, Labels, KindAt
<1>3. CASE MakeBucket(r)
  BY <1>3 DEF MakeBucket, SlotStep, Labels, KindAt
<1>4. CASE GetOrCreateUser(r)
  BY <1>4 DEF GetOrCreateUser, SlotStep
<1>5. QED
  BY <1>1, <1>2, <1>3, <1>4

LEMMA UploadSlots ==
  ASSUME TypeOK, NEW r \in Slots, GetUploadURL(r) \/ CheckQuota(r) \/ PresignedPutURL(r)
  PROVE  SlotStep(r)
<1> USE DEF TypeOK
<1>1. CASE GetUploadURL(r)
  <2>1. PICK t \in Targets, d \in Declared :
           Begin(r, "measure", [kind |-> "upload", key |-> BuildObjectKey(t[1], t[2]),
                                size |-> d, quota |-> QuotaOf(tier)])
    BY <1>1 DEF GetUploadURL
  <2> DEFINE j == [kind |-> "upload", key |-> BuildObjectKey(t[1], t[2]),
                   size |-> d, quota |-> QuotaOf(tier)]
  <2>2. j \in Jobs
    BY KeyTypes DEF Jobs, QuotaOf
  <2>3. j.kind = KindAt("measure") /\ "measure" \in Labels
    BY DEF KindAt, Labels
  <2>4. Goto(r, "measure") /\ job' = [job EXCEPT ![r] = j]
    BY <2>1 DEF Begin
  <2> HIDE DEF j
  <2>5. QED
    BY <2>2, <2>3, <2>4 DEF SlotStep
<1>2. CASE CheckQuota(r)
  <2> DEFINE j == [kind |-> "url", key |-> job[r].key]
  <2>1. (Goto(r, "sign") /\ job' = [job EXCEPT ![r] = j]) \/ Free(r)
    BY <1>2 DEF CheckQuota
  <2>2. job[r].key \in Keys
    BY <1>2, JobKeys DEF CheckQuota, KindAt
  <2>3. j \in Jobs /\ j.kind = KindAt("sign") /\ "sign" \in Labels
    BY <2>2 DEF Jobs, KindAt, Labels
  <2> HIDE DEF j
  <2>4. QED
    BY <2>1, <2>3 DEF SlotStep
<1>3. CASE PresignedPutURL(r)
  BY <1>3 DEF PresignedPutURL, SlotStep, Labels, KindAt
<1>4. QED
  BY <1>1, <1>2, <1>3

LEMMA MoveSlots ==
  ASSUME TypeOK, NEW r \in Slots,
         \/ \E from, to \in Keys : MoveFile(r, from, to)
         \/ RemoveObject(r) \/ Stop(r)
  PROVE  SlotStep(r)
<1> USE DEF TypeOK
<1>1. ASSUME NEW from \in Keys, NEW to \in Keys, MoveFile(r, from, to) PROVE SlotStep(r)
  <2> DEFINE j == [kind |-> "move", key |-> from]
  <2>1. j \in Jobs /\ j.kind = KindAt("remove") /\ "remove" \in Labels
    BY DEF Jobs, KindAt, Labels
  <2>2. Goto(r, "remove") /\ job' = [job EXCEPT ![r] = j]
    BY <1>1 DEF MoveFile, Begin
  <2>3. QED
    BY <2>1, <2>2 DEF SlotStep
<1>2. CASE RemoveObject(r) \/ Stop(r)
  BY <1>2 DEF RemoveObject, Stop, SlotStep
<1>3. QED
  BY <1>1, <1>2

\* What a step may do to the stored objects.
ObjectStep ==
    \/ UNCHANGED object
    \/ \E k \in Keys, n \in Absent..MaxSize : object' = [object EXCEPT ![k] = n]

LEMMA ObjectTypes ==
  ASSUME TypeOK, ObjectStep
  PROVE  object' \in [Keys -> Absent..MaxSize]
BY DEF TypeOK, ObjectStep

Spots == Keys \X (1..MaxSize)

\* What the signed URLs may still fill.
Owed == {u \in Spots : \E r \in Slots : pc[r] \in {"sign", "url"} /\ job[r].key = u[1]}

\* What is stored or may still be, by the URLs that are out.  It is this that no use of a
\* URL enlarges.
Reach == Units(object) \cup Owed

LEMMA SpotsFinite ==
  /\ IsFiniteSet(Spots)
  /\ \A k \in Keys : IsFiniteSet({k} \X (1..MaxSize)) /\ Cardinality({k} \X (1..MaxSize)) = MaxSize
  /\ IsFiniteSet(Slots \X (1..MaxSize))
  /\ Cardinality(Slots \X (1..MaxSize)) = Cardinality(Slots) * MaxSize
<1>1. IsFiniteSet(1..MaxSize) /\ Cardinality(1..MaxSize) = MaxSize /\ MaxSize \in Nat
  BY FS_Interval, SizesAssumption
<1>2. IsFiniteSet(Spots)
  BY <1>1, FS_Product, KeysAssumption DEF Spots
<1>3. IsFiniteSet(Slots \X (1..MaxSize))
      /\ Cardinality(Slots \X (1..MaxSize)) = Cardinality(Slots) * MaxSize
  BY <1>1, FS_Product, SlotsAssumption
<1>4. ASSUME NEW k \in Keys
      PROVE  IsFiniteSet({k} \X (1..MaxSize)) /\ Cardinality({k} \X (1..MaxSize)) = MaxSize
  <2>1. IsFiniteSet({k}) /\ Cardinality({k}) = 1
    BY FS_Singleton
  <2>2. IsFiniteSet({k} \X (1..MaxSize)) /\ Cardinality({k} \X (1..MaxSize)) = 1 * MaxSize
    BY <1>1, <2>1, FS_Product, ZenonT(60)
  <2>3. QED
    BY <1>1, <2>2
<1>5. QED
  BY <1>2, <1>3, <1>4

LEMMA ReachSpots ==
  /\ Units(object) \in SUBSET Spots /\ Owed \in SUBSET Spots /\ Reach \in SUBSET Spots
  /\ Units(object)' \in SUBSET Spots /\ Owed' \in SUBSET Spots /\ Reach' \in SUBSET Spots
<1>1. Units(object) \in SUBSET Spots /\ Units(object') \in SUBSET Spots
  BY DEF Units, Spots
<1>2. Owed \in SUBSET Spots /\ Owed' \in SUBSET Spots
  BY DEF Owed, Spots
<1>3. QED
  BY <1>1, <1>2 DEF Reach

\* Every subset of Spots is finite and has a size.
LEMMA SizesOfSpots ==
  ASSUME NEW T \in SUBSET Spots
  PROVE  IsFiniteSet(T) /\ Cardinality(T) \in Nat
BY SpotsFinite, FS_Subset, FS_CardinalityType

\* What CheckQuota compares are numbers.
LEMMA CheckedTypes ==
  ASSUME TypeOK, NEW r \in Slots, pc[r] = "measure"
  PROVE  BucketSize \in Nat /\ job[r].size \in Int /\ job[r].quota \in 0..MaxInt
<1>1. job[r].kind = "upload"
  BY DEF TypeOK, KindAt
<1>2. job[r] \in [kind : {"upload"}, key : Keys, size : Declared, quota : {FreeQuota, PlusQuota}]
  BY <1>1 DEF TypeOK, Jobs, NoJob
<1>3. job[r].size \in Declared /\ job[r].quota \in {FreeQuota, PlusQuota}
  BY <1>2
<1>4. job[r].size \in (-MaxInt - 1)..MaxInt
  BY <1>3, SizesAssumption, Zenon
<1>5. job[r].quota \in 0..MaxInt
  BY <1>3, QuotasAssumption
<1>6. BucketSize \in Nat
  BY ReachSpots, SizesOfSpots DEF BucketSize
<1>7. QED
  BY <1>4, <1>5, <1>6, SizesAssumption

\* Every step keeps the types.
LEMMA StepTypes == TypeOK /\ [Next]_vars => TypeOK'
<1> SUFFICES ASSUME TypeOK, [Next]_vars PROVE TypeOK'
  OBVIOUS
<1> DEFINE Scalars == /\ tier' \in {"none", "free", "plus"} /\ bucket' \in BOOLEAN
                      /\ ready' \in BOOLEAN /\ byOrg' \in BOOLEAN
                      /\ admitted' \in Int /\ copied' \in Nat
<1>1. ASSUME NEW r \in Slots, SlotStep(r), ObjectStep, Scalars PROVE TypeOK'
  BY <1>1, SlotTypes, ObjectTypes DEF TypeOK
<1>2. ASSUME NEW r \in Slots,
             Provision(r) \/ BucketExists(r) \/ MakeBucket(r) \/ GetOrCreateUser(r)
      PROVE  TypeOK'
  <2>1. ObjectStep
    BY <1>2 DEF Provision, BucketExists, MakeBucket, GetOrCreateUser, ObjectStep
  <2>2. Scalars
    BY <1>2 DEF TypeOK, Provision, BucketExists, MakeBucket, GetOrCreateUser, NewTier, account
  <2>3. QED
    BY <1>1, <1>2, <2>1, <2>2, ProvisionSlots
<1>3. ASSUME NEW r \in Slots, GetUploadURL(r) \/ CheckQuota(r) \/ PresignedPutURL(r)
      PROVE  TypeOK'
  <2>1. ObjectStep
    BY <1>3 DEF GetUploadURL, CheckQuota, PresignedPutURL, ObjectStep
  <2>2. CheckQuota(r) => Admitted(BucketSize, job[r].size, job[r].quota) \in Int
    BY CheckedTypes DEF CheckQuota, Admitted
  <2>3. Scalars
    BY <1>3, <2>2 DEF TypeOK, GetUploadURL, CheckQuota, PresignedPutURL, account
  <2>4. QED
    BY <1>1, <1>3, <2>1, <2>3, UploadSlots
<1>4. ASSUME NEW r \in Slots, NEW n \in 0..MaxSize, Put(r, n) PROVE TypeOK'
  <2>1. job[r].key \in Keys
    BY <1>4, JobKeys DEF Put, TypeOK, KindAt
  <2>2. n \in Absent..MaxSize
    BY SizesAssumption DEF Absent
  <2>3. ObjectStep
    BY <1>4, <2>1, <2>2 DEF Put, ObjectStep
  <2>4. SlotStep(r) /\ Scalars
    BY <1>4 DEF Put, SlotStep, TypeOK, account
  <2>5. QED
    BY <1>1, <2>3, <2>4
<1>5. ASSUME NEW r \in Slots, NEW from \in Keys, NEW to \in Keys, MoveFile(r, from, to)
      PROVE  TypeOK'
  <2>1. ObjectStep
    BY <1>5 DEF MoveFile, ObjectStep, TypeOK
  <2>2. Scalars
    BY <1>5 DEF MoveFile, TypeOK, account
  <2>3. QED
    BY <1>1, <1>5, <2>1, <2>2, MoveSlots
<1>6. ASSUME NEW r \in Slots, RemoveObject(r) PROVE TypeOK'
  <2>1. job[r].key \in Keys
    BY <1>6, JobKeys DEF RemoveObject, TypeOK, KindAt
  <2>2. Absent \in Absent..MaxSize
    BY SizesAssumption DEF Absent
  <2>3. ObjectStep
    BY <1>6, <2>1, <2>2 DEF RemoveObject, ObjectStep
  <2>4. Scalars
    BY <1>6 DEF RemoveObject, TypeOK, account
  <2>5. QED
    BY <1>1, <1>6, <2>3, <2>4, MoveSlots
<1>7. ASSUME NEW r \in Slots, Stop(r) PROVE TypeOK'
  <2>1. ObjectStep /\ Scalars
    BY <1>7 DEF Stop, ObjectStep, TypeOK, account
  <2>2. QED
    BY <1>1, <1>7, <2>1, MoveSlots
<1>8. CASE EnsureVaultUser \/ SetTier
  BY <1>8 DEF EnsureVaultUser, SetTier, NewTier, TypeOK
<1>9. ASSUME NEW k \in Keys, NEW n \in {Absent, 0}, object' = [object EXCEPT ![k] = n],
             UNCHANGED <<account, pc, job, admitted, copied>>
      PROVE  TypeOK'
  <2>1. n \in Absent..MaxSize
    BY SizesAssumption DEF Absent
  <2>2. QED
    BY <1>9, <2>1 DEF TypeOK, account
<1>10. ASSUME NEW f \in Folders, CreateFolder(f) PROVE TypeOK'
  BY <1>9, <1>10, KeyTypes DEF CreateFolder
<1>11. ASSUME NEW k \in Keys, DeleteFile(k) PROVE TypeOK'
  BY <1>9, <1>11 DEF DeleteFile
<1>12. CASE UNCHANGED vars
  BY <1>12 DEF vars, TypeOK
<1>13. QED
  BY <1>2, <1>3, <1>4, <1>5, <1>6, <1>7, <1>8, <1>10, <1>11, <1>12 DEF Next

LEMMA InitTypes == Init => TypeOK
<1> SUFFICES ASSUME Init PROVE TypeOK
  OBVIOUS
<1>1. Absent \in Absent..MaxSize
  BY SizesAssumption DEF Absent
<1>2. NoJob \in Jobs /\ NoJob.kind = KindAt("idle")
  BY DEF NoJob, Jobs, KindAt
<1>3. pc \in [Slots -> Labels] /\ job \in [Slots -> Jobs]
  BY <1>2 DEF Init, Labels
<1>4. object \in [Keys -> Absent..MaxSize]
  BY <1>1 DEF Init
<1>5. \A r \in Slots : job[r].kind = KindAt(pc[r])
  BY <1>2 DEF Init
<1>6. bucket \in BOOLEAN /\ ready \in BOOLEAN /\ byOrg \in BOOLEAN /\ tier \in {"none", "free", "plus"}
  BY Zenon DEF Init
<1>7. admitted \in Int /\ copied \in Nat
  BY DEF Init
<1>8. QED
  BY <1>3, <1>4, <1>5, <1>6, <1>7, Zenon DEF TypeOK

\* Each slot makes the calls of its own kind, on values of their types.
THEOREM TypeCorrect == Spec => []TypeOK
BY InitTypes, StepTypes, PTL DEF Spec

-----------------------------------------------------------------------------
(* Provisioning.                                                           *)

\* What the two properties rest on: the row is asked for when the bucket is there, the
\* quota is measured for a user who has a row, and the bucket stays.
Usable ==
    /\ ProvisionedIsUsable /\ SignedUrlsWork
    /\ \A r \in Slots :
          /\ pc[r] = "row" => bucket
          /\ pc[r] = "measure" => tier # "none"
          /\ pc[r] \in {"exists", "make"} /\ job[r].found => bucket

\* Nothing takes the row or the bucket away, and a slot that moves on to a call that
\* needs them has found them.
Grows ==
    /\ tier # "none" => tier' # "none"
    /\ bucket => bucket'
    /\ ready' => ready \/ (tier' # "none" /\ bucket')
    /\ tier' # "none" => tier # "none" \/ byOrg' \/ bucket'
    /\ byOrg => byOrg'

\* What a slot comes to by a step.
Reached(s) ==
    \/ pc'[s] = "idle"
    \/ pc'[s] = "remove"
    \/ pc'[s] = pc[s] /\ job'[s] = job[s]
    \/ pc'[s] = "exists" /\ (job'[s].found => bucket)
    \/ pc'[s] = "make" /\ ~bucket /\ pc[s] = "exists" /\ job'[s] = job[s]
    \/ pc'[s] = "row" /\ bucket'
    \/ pc'[s] = "measure" /\ tier # "none"
    \/ pc'[s] = "sign" /\ pc[s] = "measure" /\ bucket
    \/ pc'[s] = "url" /\ pc[s] = "sign"

LEMMA ReachedOthers ==
  ASSUME TypeOK, NEW r \in Slots, SlotStep(r), NEW s \in Slots, s # r
  PROVE  pc'[s] = pc[s] /\ job'[s] = job[s]
BY DEF TypeOK, SlotStep, Free, Goto

LEMMA UsableKept ==
  ASSUME TypeOK, TypeOK', Usable, Grows, \A s \in Slots : Reached(s)
  PROVE  Usable'
<1>1. ASSUME NEW s \in Slots
      PROVE  /\ pc'[s] = "row" => bucket'
             /\ pc'[s] = "measure" => tier' # "none"
             /\ pc'[s] \in {"sign", "url"} => tier' # "none" /\ bucket'
  BY <1>1 DEF Usable, SignedUrlsWork, Grows, Reached
<1>2. ASSUME NEW s \in Slots
      PROVE  /\ pc'[s] \in {"exists", "make"} /\ job'[s].found => bucket'
             /\ pc'[s] = "make" => ~job'[s].found
  BY <1>2 DEF Usable, ProvisionedIsUsable, Grows, Reached
<1>3. ready' => tier' # "none" /\ bucket'
  BY DEF Usable, ProvisionedIsUsable, Grows
<1>4. tier' # "none" => bucket' \/ byOrg'
  BY DEF Usable, ProvisionedIsUsable, Grows
<1>5. ProvisionedIsUsable'
  BY <1>2, <1>3, <1>4 DEF ProvisionedIsUsable
<1>6. SignedUrlsWork'
  BY <1>1 DEF SignedUrlsWork
<1>7. QED
  BY <1>1, <1>2, <1>5, <1>6 DEF Usable

\* A step of slot r keeps Usable when r itself has reached a call it may make.
LEMMA SlotUsable ==
  ASSUME TypeOK, TypeOK', Usable, Grows, NEW r \in Slots, SlotStep(r), Reached(r)
  PROVE  Usable'
<1>1. \A s \in Slots : Reached(s)
  BY ReachedOthers DEF Reached
<1>2. QED
  BY <1>1, UsableKept

LEMMA StepUsable == TypeOK /\ Usable /\ [Next]_vars => Usable'
<1> SUFFICES ASSUME TypeOK, Usable, [Next]_vars PROVE Usable'
  OBVIOUS
<1>1. TypeOK'
  BY StepTypes
<1>2. UNCHANGED account => Grows
  BY DEF Grows, account
<1>3. ASSUME UNCHANGED <<pc, job>>, Grows PROVE Usable'
  BY <1>1, <1>3, UsableKept DEF Reached
<1>4. ASSUME NEW r \in Slots, Free(r) PROVE pc'[r] = "idle"
  BY <1>4 DEF Free, Goto, TypeOK
<1>5. ASSUME NEW r \in Slots, Provision(r) PROVE Usable'
  <2>1. pc'[r] = "exists" /\ job'[r].found = bucket
    BY <1>5 DEF Provision, Begin, Goto, TypeOK
  <2>2. Grows /\ SlotStep(r)
    BY <1>2, <1>5, ProvisionSlots DEF Provision
  <2>3. QED
    BY <1>1, <2>1, <2>2, SlotUsable DEF Reached
<1>6. ASSUME NEW r \in Slots, BucketExists(r) PROVE Usable'
  <2>1. job'[r] = job[r] /\ pc[r] = "exists" /\ pc'[r] = IF bucket THEN "row" ELSE "make"
    BY <1>6 DEF BucketExists, Goto, TypeOK
  <2>2. Grows /\ SlotStep(r) /\ bucket' = bucket
    BY <1>2, <1>6, ProvisionSlots DEF BucketExists, account
  <2>3. QED
    BY <1>1, <2>1, <2>2, SlotUsable DEF Reached
<1>7. ASSUME NEW r \in Slots, MakeBucket(r) PROVE Usable'
  <2>1. bucket' /\ pc'[r] \in {"idle", "row"}
    BY <1>4, <1>7 DEF MakeBucket, Goto, TypeOK
  <2>2. Grows /\ SlotStep(r)
    BY <1>7, ProvisionSlots DEF MakeBucket, Grows
  <2>3. QED
    BY <1>1, <2>1, <2>2, SlotUsable DEF Reached
<1>8. ASSUME NEW r \in Slots, GetOrCreateUser(r) PROVE Usable'
  <2>1. bucket /\ bucket' = bucket /\ byOrg' = byOrg /\ tier' # "none" /\ pc'[r] = "idle"
    BY <1>4, <1>8 DEF GetOrCreateUser, NewTier, Usable
  <2>2. Grows /\ SlotStep(r)
    BY <1>8, <2>1, ProvisionSlots DEF Grows
  <2>3. QED
    BY <1>1, <2>1, <2>2, SlotUsable DEF Reached
<1>9. ASSUME NEW r \in Slots, GetUploadURL(r) PROVE Usable'
  <2>1. pc'[r] = "measure" /\ tier # "none"
    BY <1>9 DEF GetUploadURL, Begin, Goto, TypeOK
  <2>2. Grows /\ SlotStep(r)
    BY <1>2, <1>9, UploadSlots DEF GetUploadURL
  <2>3. QED
    BY <1>1, <2>1, <2>2, SlotUsable DEF Reached
<1>10. ASSUME NEW r \in Slots, CheckQuota(r) PROVE Usable'
  <2>1. pc'[r] = "idle" \/ (pc'[r] = "sign" /\ bucket /\ pc[r] = "measure")
    BY <1>4, <1>10 DEF CheckQuota, Goto, TypeOK
  <2>2. Grows /\ SlotStep(r)
    BY <1>2, <1>10, UploadSlots DEF CheckQuota
  <2>3. QED
    BY <1>1, <2>1, <2>2, SlotUsable DEF Reached
<1>11. ASSUME NEW r \in Slots, PresignedPutURL(r) PROVE Usable'
  <2>1. pc'[r] = "url" /\ pc[r] = "sign"
    BY <1>11 DEF PresignedPutURL, Goto, TypeOK
  <2>2. Grows /\ SlotStep(r)
    BY <1>2, <1>11, UploadSlots DEF PresignedPutURL
  <2>3. QED
    BY <1>1, <2>1, <2>2, SlotUsable DEF Reached
<1>12. ASSUME NEW r \in Slots, NEW n \in 0..MaxSize, Put(r, n) PROVE Usable'
  BY <1>2, <1>3, <1>12 DEF Put
<1>13. ASSUME NEW r \in Slots, NEW from \in Keys, NEW to \in Keys, MoveFile(r, from, to)
       PROVE  Usable'
  <2>1. pc'[r] = "remove"
    BY <1>13 DEF MoveFile, Begin, Goto, TypeOK
  <2>2. Grows /\ SlotStep(r)
    BY <1>2, <1>13, MoveSlots DEF MoveFile
  <2>3. QED
    BY <1>1, <2>1, <2>2, SlotUsable DEF Reached
<1>14. ASSUME NEW r \in Slots, RemoveObject(r) \/ Stop(r) PROVE Usable'
  <2>1. pc'[r] = "idle"
    BY <1>4, <1>14 DEF RemoveObject, Stop
  <2>2. Grows /\ SlotStep(r)
    BY <1>2, <1>14, MoveSlots DEF RemoveObject, Stop
  <2>3. QED
    BY <1>1, <2>1, <2>2, SlotUsable DEF Reached
<1>15. CASE EnsureVaultUser \/ SetTier
  <2>1. ASSUME EnsureVaultUser PROVE Grows
    <3>1. tier' # "none" /\ UNCHANGED <<bucket, ready>>
      BY <2>1 DEF EnsureVaultUser, NewTier
    <3>2. byOrg' = (byOrg \/ tier = "none")
      BY <2>1 DEF EnsureVaultUser
    <3>3. QED
      BY <3>1, <3>2, Zenon DEF Grows
  <2>2. ASSUME SetTier PROVE Grows
    BY <2>2 DEF SetTier, Grows
  <2>3. QED
    BY <1>3, <1>15, <2>1, <2>2 DEF EnsureVaultUser, SetTier
<1>16. ASSUME NEW f \in Folders, CreateFolder(f) PROVE Usable'
  BY <1>2, <1>3, <1>16 DEF CreateFolder
<1>17. ASSUME NEW k \in Keys, DeleteFile(k) PROVE Usable'
  BY <1>2, <1>3, <1>17 DEF DeleteFile
<1>18. CASE UNCHANGED vars
  BY <1>2, <1>3, <1>18 DEF vars, account
<1>19. QED
  BY <1>5, <1>6, <1>7, <1>8, <1>9, <1>10, <1>11, <1>12, <1>13, <1>14, <1>15, <1>16,
     <1>17, <1>18 DEF Next

LEMMA UsableAlways == Spec => [](TypeOK /\ Usable)
<1>1. Init => TypeOK /\ Usable
  BY InitTypes DEF Init, Usable, ProvisionedIsUsable, SignedUrlsWork
<1>2. TypeOK /\ Usable /\ [Next]_vars => (TypeOK /\ Usable)'
  BY StepTypes, StepUsable
<1>3. QED
  BY <1>1, <1>2, PTL DEF Spec

\* A user told "ok" has a row and a bucket, and a provisioning sent again is not refused.
THEOREM ProvisioningHolds == Spec => []ProvisionedIsUsable
<1>1. Usable => ProvisionedIsUsable
  BY DEF Usable
<1>2. QED
  BY <1>1, UsableAlways, PTL

\* A URL is signed only for a bucket that is there.
THEOREM UrlsWork == Spec => []SignedUrlsWork
<1>1. Usable => SignedUrlsWork
  BY DEF Usable
<1>2. QED
  BY <1>1, UsableAlways, PTL

-----------------------------------------------------------------------------
(* The quota.                                                              *)

ReachBounded == Cardinality(Reach) <= admitted + (Cardinality(Slots) + copied) * MaxSize

\* A step that does not check the quota keeps the bound when it adds at most the file of
\* one copy.
LEMMA ReachKept ==
  ASSUME TypeOK, TypeOK', ReachBounded, UNCHANGED admitted, copied' = copied, Reach' \subseteq Reach
  PROVE  ReachBounded'
<1>1. Cardinality(Reach') <= Cardinality(Reach)
  BY ReachSpots, SizesOfSpots, FS_Subset
<1>2. Cardinality(Reach') \in Nat /\ Cardinality(Reach) \in Nat
  BY ReachSpots, SizesOfSpots
<1>3. admitted \in Int /\ copied \in Nat /\ Cardinality(Slots) \in Nat /\ MaxSize \in Nat
  BY SlotsAssumption, SizesAssumption, FS_CardinalityType DEF TypeOK
<1>4. (Cardinality(Slots) + copied) * MaxSize \in Int
  BY <1>3
<1>5. QED
  BY <1>1, <1>2, <1>3, <1>4 DEF ReachBounded

LEMMA ReachCopied ==
  ASSUME TypeOK, TypeOK', ReachBounded, UNCHANGED admitted, copied' = copied + 1,
         NEW k \in Keys, Reach' \subseteq Reach \cup ({k} \X (1..MaxSize))
  PROVE  ReachBounded'
<1> DEFINE file == {k} \X (1..MaxSize)
           c == Cardinality(Slots)
<1>1. IsFiniteSet(Reach) /\ IsFiniteSet(file) /\ Cardinality(file) = MaxSize
  BY ReachSpots, SizesOfSpots, SpotsFinite
<1>2. IsFiniteSet(Reach \cup file) /\ IsFiniteSet(Reach \cap file)
      /\ Cardinality(Reach \cup file)
            = Cardinality(Reach) + Cardinality(file) - Cardinality(Reach \cap file)
  BY <1>1, FS_Union, FS_Intersection
<1>3. Cardinality(Reach) \in Nat /\ Cardinality(Reach \cap file) \in Nat
      /\ Cardinality(Reach') \in Nat /\ Cardinality(Reach \cup file) \in Nat
  BY <1>1, <1>2, FS_CardinalityType, ReachSpots, SizesOfSpots
<1>4. Cardinality(Reach') <= Cardinality(Reach \cup file)
  BY <1>2, FS_Subset
<1>5. admitted \in Int /\ copied \in Nat /\ c \in Nat /\ MaxSize \in Nat
  BY SlotsAssumption, SizesAssumption, FS_CardinalityType DEF TypeOK
<1>6. (c + (copied + 1)) * MaxSize = (c + copied) * MaxSize + MaxSize
      /\ (c + copied) * MaxSize \in Int
  BY <1>5
<1>7. Cardinality(Reach') <= Cardinality(Reach) + MaxSize
  <2> HIDE DEF file
  <2> QED
    BY <1>1, <1>2, <1>3, <1>4, <1>5
<1>8. Cardinality(Reach) <= admitted + (c + copied) * MaxSize
  BY DEF ReachBounded
<1>9. Cardinality(Reach') <= admitted + (c + (copied + 1)) * MaxSize
  <2> HIDE DEF c
  <2> QED
    BY <1>3, <1>5, <1>6, <1>7, <1>8
<1>10. QED
  BY <1>9 DEF ReachBounded

\* As many files as slots are owed at the most.
LEMMA OwedBounded == TypeOK => Cardinality(Owed) <= Cardinality(Slots) * MaxSize
<1> SUFFICES ASSUME TypeOK PROVE Cardinality(Owed) <= Cardinality(Slots) * MaxSize
  OBVIOUS
<1> DEFINE live == {r \in Slots : pc[r] \in {"sign", "url"}}
           D == live \X (1..MaxSize)
           f == [x \in D |-> <<job[x[1]].key, x[2]>>]
<1>1. D \in SUBSET (Slots \X (1..MaxSize))
  OBVIOUS
<1>2. IsFiniteSet(D) /\ Cardinality(D) <= Cardinality(Slots \X (1..MaxSize))
  BY <1>1, SpotsFinite, FS_Subset
<1>3. ASSUME NEW x \in D PROVE f[x] \in Owed
  <2>1. x[1] \in Slots /\ pc[x[1]] \in {"sign", "url"} /\ x[2] \in 1..MaxSize
    OBVIOUS
  <2>2. job[x[1]].key \in Keys
    BY <2>1, JobKeys DEF TypeOK, KindAt
  <2>3. QED
    BY <2>1, <2>2 DEF Owed, Spots
<1>4. ASSUME NEW u \in Owed PROVE \E x \in D : f[x] = u
  <2>1. PICK r \in live : job[r].key = u[1]
    BY DEF Owed
  <2>2. u = <<u[1], u[2]>> /\ u[2] \in 1..MaxSize
    BY DEF Owed, Spots
  <2>3. <<r, u[2]>> \in D /\ f[<<r, u[2]>>] = u
    BY <2>1, <2>2
  <2>4. QED
    BY <2>3
<1>5. f \in Surjection(D, Owed)
  <2> HIDE DEF D
  <2>1. f \in [D -> Owed]
    BY <1>3
  <2> HIDE DEF f
  <2>2. QED
    BY <1>4, <2>1 DEF Surjection
<1>6. Cardinality(Owed) <= Cardinality(D)
  BY <1>2, <1>5, FS_Surjection
<1>7. Cardinality(Owed) \in Nat /\ Cardinality(D) \in Nat
      /\ Cardinality(Slots \X (1..MaxSize)) \in Nat
  BY <1>2, ReachSpots, SizesOfSpots, SpotsFinite, FS_CardinalityType
<1>8. QED
  BY <1>2, <1>6, <1>7, SpotsFinite

\* A slot that does not come to a URL owes nothing new.
LEMMA OwedSlot ==
  ASSUME TypeOK, NEW r \in Slots, SlotStep(r),
         pc'[r] \in {"sign", "url"} => pc[r] \in {"sign", "url"} /\ job'[r] = job[r]
  PROVE  Owed' \subseteq Owed
BY ReachedOthers DEF Owed

\* Storing n under k fills at most the file of k.
LEMMA UnitsStored ==
  ASSUME TypeOK, NEW k \in Keys, NEW n \in Absent..MaxSize, object' = [object EXCEPT ![k] = n]
  PROVE  /\ Units(object') \subseteq Units(object) \cup ({k} \X (1..MaxSize))
         /\ n <= 0 => Units(object') \subseteq Units(object)
BY SizesAssumption DEF Units, TypeOK, Absent

LEMMA OwedBoundedNext == TypeOK' => Cardinality(Owed') <= Cardinality(Slots) * MaxSize
<1>1. (TypeOK => Cardinality(Owed) <= Cardinality(Slots) * MaxSize)'
  BY OwedBounded, PTL
<1>2. QED
  BY <1>1

LEMMA CheckReach ==
  ASSUME TypeOK, TypeOK', ReachBounded, NEW r \in Slots, CheckQuota(r)
  PROVE  ReachBounded'
<1> DEFINE c == Cardinality(Slots)
<1>1. SlotStep(r) /\ object' = object
  BY UploadSlots DEF CheckQuota
<1>2. CASE bucket /\ Fits(BucketSize, job[r].size, job[r].quota)
  <2> DEFINE size == job[r].size
             quota == job[r].quota
  <2>1. admitted' = Admitted(BucketSize, size, quota) /\ copied' = 0
    BY <1>2 DEF CheckQuota
  <2>2. BucketSize \in Nat /\ size \in Int /\ quota \in 0..MaxInt
    BY CheckedTypes DEF CheckQuota
  <2>3. BucketSize <= admitted'
    <3>1. CASE size \in 0..(MaxInt - BucketSize)
      <4>1. Wrap(BucketSize + size) = BucketSize + size
        BY <2>2, <3>1, SizesAssumption DEF Wrap
      <4>2. BucketSize + size <= quota
        BY <1>2, <4>1 DEF Fits
      <4>3. admitted' = quota - size
        BY <2>1, <3>1 DEF Admitted
      <4>4. QED
        BY <2>2, <4>2, <4>3
    <3>2. CASE size \notin 0..(MaxInt - BucketSize)
      BY <2>1, <2>2, <3>2 DEF Admitted
    <3>3. QED
      BY <3>1, <3>2
  <2>4. Cardinality(Reach') <= BucketSize + Cardinality(Owed')
    <3>1. Reach' = Units(object) \cup Owed'
      BY <1>1 DEF Reach
    <3>2. IsFiniteSet(Units(object)) /\ IsFiniteSet(Owed')
          /\ BucketSize \in Nat /\ Cardinality(Owed') \in Nat
      BY ReachSpots, SizesOfSpots DEF BucketSize
    <3>3. Cardinality(Reach')
             = BucketSize + Cardinality(Owed') - Cardinality(Units(object) \cap Owed')
      BY <3>1, <3>2, FS_Union DEF BucketSize
    <3>4. Cardinality(Units(object) \cap Owed') \in Nat
      BY <3>2, FS_Intersection, FS_CardinalityType
    <3>5. QED
      BY <3>2, <3>3, <3>4
  <2>5. Cardinality(Owed') <= c * MaxSize
    BY OwedBoundedNext
  <2>6. /\ BucketSize \in Nat /\ Cardinality(Owed') \in Nat /\ Cardinality(Reach') \in Nat
         /\ admitted' \in Int /\ c \in Nat /\ MaxSize \in Nat
    BY ReachSpots, SizesOfSpots, SlotsAssumption, SizesAssumption, FS_CardinalityType
    DEF BucketSize, TypeOK
  <2>7. c * MaxSize \in Int /\ c + 0 = c
    BY <2>6
  <2>8. Cardinality(Reach') <= admitted' + (c + copied') * MaxSize
    <3> HIDE DEF c
    <3> QED
      BY <2>1, <2>3, <2>4, <2>5, <2>6, <2>7
  <2>9. QED
    BY <2>8 DEF ReachBounded
<1>3. CASE ~(bucket /\ Fits(BucketSize, job[r].size, job[r].quota))
  <2>1. Free(r) /\ UNCHANGED <<admitted, copied>>
    BY <1>3 DEF CheckQuota
  <2>2. Owed' \subseteq Owed
    BY <1>1, <2>1, OwedSlot DEF Free, Goto, TypeOK
  <2>3. Reach' \subseteq Reach
    BY <1>1, <2>2 DEF Reach
  <2>4. QED
    BY <2>1, <2>3, ReachKept
<1>4. QED
  BY <1>2, <1>3

LEMMA StepReach == TypeOK /\ ReachBounded /\ [Next]_vars => ReachBounded'
<1> SUFFICES ASSUME TypeOK, ReachBounded, [Next]_vars PROVE ReachBounded'
  OBVIOUS
<1>1. TypeOK'
  BY StepTypes
<1>2. ASSUME NEW r \in Slots, SlotStep(r), UNCHANGED <<object, admitted, copied>>,
             pc'[r] \in {"sign", "url"} => pc[r] \in {"sign", "url"} /\ job'[r] = job[r]
      PROVE  ReachBounded'
  BY <1>1, <1>2, OwedSlot, ReachKept DEF Reach
<1>3. ASSUME UNCHANGED <<pc, job, admitted, copied>>, NEW k \in Keys, NEW n \in Absent..MaxSize,
             object' = [object EXCEPT ![k] = n],
             n <= 0 \/ {k} \X (1..MaxSize) \subseteq Owed
      PROVE  ReachBounded'
  <2>1. Owed' = Owed
    BY <1>3 DEF Owed
  <2>2. Units(object') \subseteq Units(object) \cup Owed
    BY <1>3, UnitsStored
  <2>3. Reach' \subseteq Reach
    BY <2>1, <2>2 DEF Reach
  <2>4. QED
    BY <1>1, <1>3, <2>3, ReachKept
<1>4. ASSUME NEW r \in Slots, Free(r) PROVE pc'[r] = "idle"
  BY <1>4 DEF Free, Goto, TypeOK
<1>5. ASSUME NEW r \in Slots,
             Provision(r) \/ BucketExists(r) \/ MakeBucket(r) \/ GetOrCreateUser(r)
      PROVE  ReachBounded'
  <2>1. pc'[r] \notin {"sign", "url"}
    BY <1>4, <1>5 DEF Provision, BucketExists, MakeBucket, GetOrCreateUser, Begin, Goto, TypeOK
  <2>2. UNCHANGED <<object, admitted, copied>>
    BY <1>5 DEF Provision, BucketExists, MakeBucket, GetOrCreateUser
  <2>3. QED
    BY <1>2, <1>5, <2>1, <2>2, ProvisionSlots
<1>6. ASSUME NEW r \in Slots, GetUploadURL(r) \/ PresignedPutURL(r) PROVE ReachBounded'
  <2>1. pc'[r] = "measure" \/ (pc[r] = "sign" /\ job' = job)
    BY <1>6 DEF GetUploadURL, PresignedPutURL, Begin, Goto, TypeOK
  <2>2. UNCHANGED <<object, admitted, copied>>
    BY <1>6 DEF GetUploadURL, PresignedPutURL
  <2>3. QED
    BY <1>2, <1>6, <2>1, <2>2, UploadSlots
<1>7. ASSUME NEW r \in Slots, CheckQuota(r) PROVE ReachBounded'
  BY <1>1, <1>7, CheckReach
<1>8. ASSUME NEW r \in Slots, NEW n \in 0..MaxSize, Put(r, n) PROVE ReachBounded'
  <2>1. job[r].key \in Keys
    BY <1>8, JobKeys DEF Put, TypeOK, KindAt
  <2>2. n \in Absent..MaxSize
    BY SizesAssumption DEF Absent
  <2>3. {job[r].key} \X (1..MaxSize) \subseteq Owed
    BY <1>8, <2>1 DEF Put, Owed, Spots
  <2>4. QED
    BY <1>3, <1>8, <2>1, <2>2, <2>3 DEF Put
<1>9. ASSUME NEW r \in Slots, NEW from \in Keys, NEW to \in Keys, MoveFile(r, from, to)
      PROVE  ReachBounded'
  <2>1. SlotStep(r) /\ pc'[r] = "remove"
    BY <1>9, MoveSlots DEF MoveFile, Begin, Goto, TypeOK
  <2>2. Owed' \subseteq Owed
    BY <2>1, OwedSlot
  <2>3. object[from] \in Absent..MaxSize
    BY DEF TypeOK
  <2>4. Units(object') \subseteq Units(object) \cup ({to} \X (1..MaxSize))
    BY <1>9, <2>3, UnitsStored DEF MoveFile
  <2>5. Reach' \subseteq Reach \cup ({to} \X (1..MaxSize))
    BY <2>2, <2>4 DEF Reach
  <2>6. UNCHANGED admitted /\ copied' = copied + 1
    BY <1>9 DEF MoveFile
  <2>7. QED
    BY <1>1, <2>5, <2>6, ReachCopied
<1>10. ASSUME NEW r \in Slots, RemoveObject(r) PROVE ReachBounded'
  <2>1. job[r].key \in Keys
    BY <1>10, JobKeys DEF RemoveObject, TypeOK, KindAt
  <2>2. SlotStep(r) /\ pc'[r] = "idle"
    BY <1>4, <1>10, MoveSlots DEF RemoveObject
  <2>3. Owed' \subseteq Owed
    BY <2>2, OwedSlot
  <2>4. Absent \in Absent..MaxSize /\ Absent <= 0
    BY SizesAssumption DEF Absent
  <2>5. Units(object') \subseteq Units(object)
    BY <1>10, <2>1, <2>4, UnitsStored DEF RemoveObject
  <2>6. Reach' \subseteq Reach
    BY <2>3, <2>5 DEF Reach
  <2>7. QED
    BY <1>1, <1>10, <2>6, ReachKept DEF RemoveObject
<1>11. ASSUME NEW r \in Slots, Stop(r) PROVE ReachBounded'
  BY <1>2, <1>4, <1>11, MoveSlots DEF Stop
<1>12. CASE EnsureVaultUser \/ SetTier
  <2>1. UNCHANGED <<object, pc, job, admitted, copied>>
    BY <1>12 DEF EnsureVaultUser, SetTier
  <2>2. Reach' = Reach
    BY <2>1 DEF Reach, Owed
  <2>3. QED
    BY <1>1, <2>1, <2>2, ReachKept
<1>13. Absent \in Absent..MaxSize /\ 0 \in Absent..MaxSize /\ Absent <= 0
  BY SizesAssumption DEF Absent
<1>14. ASSUME NEW f \in Folders, CreateFolder(f) PROVE ReachBounded'
  <2>1. FolderKey(f) \in Keys /\ 0 <= 0
    BY KeyTypes
  <2>2. object' = [object EXCEPT ![FolderKey(f)] = 0] /\ UNCHANGED <<pc, job, admitted, copied>>
    BY <1>14 DEF CreateFolder
  <2>3. QED
    BY <1>3, <1>13, <2>1, <2>2
<1>15. ASSUME NEW k \in Keys, DeleteFile(k) PROVE ReachBounded'
  BY <1>3, <1>13, <1>15 DEF DeleteFile
<1>16. CASE UNCHANGED vars
  <2>1. Reach' = Reach /\ UNCHANGED <<admitted, copied>>
    BY <1>16 DEF vars, Reach, Owed
  <2>2. QED
    BY <1>1, <2>1, ReachKept
<1>17. QED
  BY <1>5, <1>6, <1>7, <1>8, <1>9, <1>10, <1>11, <1>12, <1>14, <1>15, <1>16 DEF Next

LEMMA InitReach == Init => ReachBounded
<1> SUFFICES ASSUME Init PROVE ReachBounded
  OBVIOUS
<1>1. Reach = {}
  BY SizesAssumption DEF Init, Reach, Units, Owed, Absent
<1>2. Cardinality(Slots) \in Nat /\ MaxSize \in Nat
  BY SlotsAssumption, SizesAssumption, FS_CardinalityType
<1>3. Cardinality(Slots) * MaxSize \in Nat
  BY <1>2
<1>4. 0 <= 0 + (Cardinality(Slots) + 0) * MaxSize
  BY <1>2, <1>3
<1>5. admitted = 0 /\ copied = 0
  BY DEF Init
<1>6. QED
  BY <1>1, <1>4, <1>5, FS_EmptySet DEF ReachBounded

\* A vault passes what a check has admitted by one file for each URL and each move at the
\* most, whatever int64 the clients declare.
THEOREM OvershootHolds == Spec => []OvershootBounded
<1>1. Init => TypeOK /\ ReachBounded
  BY InitTypes, InitReach
<1>2. TypeOK /\ ReachBounded /\ [Next]_vars => (TypeOK /\ ReachBounded)'
  BY StepTypes, StepReach
<1>3. TypeOK /\ ReachBounded => OvershootBounded
  <2> SUFFICES ASSUME TypeOK, ReachBounded PROVE OvershootBounded
    OBVIOUS
  <2>1. BucketSize <= Cardinality(Reach)
    BY ReachSpots, SizesOfSpots, FS_Subset DEF Reach, BucketSize
  <2>2. BucketSize \in Nat /\ Cardinality(Reach) \in Nat
    BY ReachSpots, SizesOfSpots DEF BucketSize
  <2>3. admitted \in Int /\ copied \in Nat /\ Cardinality(Slots) \in Nat /\ MaxSize \in Nat
    BY SlotsAssumption, SizesAssumption, FS_CardinalityType DEF TypeOK
  <2>4. (Cardinality(Slots) + copied) * MaxSize \in Int
    BY <2>3
  <2>5. QED
    BY <2>1, <2>2, <2>3, <2>4 DEF ReachBounded, OvershootBounded
<1>4. QED
  BY <1>1, <1>2, <1>3, PTL DEF Spec

-----------------------------------------------------------------------------
(* Listings.                                                               *)

LEMMA KeysAreStrings == Present \in SUBSET Seq(Chars)
<1>1. ASSUME NEW t \in Targets PROVE BuildObjectKey(t[1], t[2]) \in Seq(Chars)
  <2>1. t[1] \in Seq(Chars) /\ t[2] \in Seq(Chars)
    BY PathsAssumption
  <2>2. CASE t[1] \in {<<>>, <<Slash>>}
    BY <2>1, <2>2 DEF BuildObjectKey
  <2>3. CASE t[1] \notin {<<>>, <<Slash>>}
    <3> DEFINE path == IF Head(t[1]) = Slash THEN Tail(t[1]) ELSE t[1]
    <3>1. path \in Seq(Chars)
      BY <2>1, <2>3, HeadTailProperties
    <3>2. WithSlash(path) \in Seq(Chars)
      BY <3>1, WithSlashType, PathsAssumption
    <3>3. BuildObjectKey(t[1], t[2]) = WithSlash(path) \o t[2]
      BY <2>3 DEF BuildObjectKey
    <3>4. QED
      BY <2>1, <3>2, <3>3, ConcatProperties
  <2>4. QED
    BY <2>2, <2>3
<1>2. ASSUME NEW f \in Folders PROVE FolderKey(f) \in Seq(Chars)
  BY WithSlashType, PathsAssumption DEF FolderKey
<1>3. QED
  BY <1>1, <1>2 DEF Present, Keys

\* Whatever is stored, by whatever steps: a file is listed in the folder it was uploaded to,
\* a folder in the one it is in, and nothing else is listed under their names.
THEOREM StoredIsListed == Spec => []ListedWhereStored
<1>1. ListedWhereStored
  <2>1. ASSUME NEW t \in Targets, Plain(t[1]), Flat(t[2])
        PROVE  [name |-> t[2], folder |-> FALSE] \in ListObjects(Present, t[1])
                  <=> BuildObjectKey(t[1], t[2]) \in Present
    <3> DEFINE p == ListingPrefix(t[1])
    <3>1. t[1] \in Seq(Chars) /\ t[2] \in Seq(Chars) /\ t[2] # <<>> /\ Slash \in Chars
      BY PathsAssumption
    <3>2. p \in Seq(Chars) /\ BuildObjectKey(t[1], t[2]) = p \o t[2]
      BY <2>1, <3>1, UploadedUnder
    <3>3. ListObjects(Present, t[1]) = Entries(KeysListed(Present, p), p)
      BY DEF ListObjects
    <3> HIDE DEF p
    <3>4. QED
      BY <2>1, <3>1, <3>2, <3>3, KeysAreStrings, FileListed
  <2>2. ASSUME NEW f \in Folders, NEW n \in 0..(Len(f) - 1),
               Plain(f), n > 0 => f[n] = Slash, Flat(SubSeq(f, n + 1, Len(f)))
        PROVE  [name |-> SubSeq(f, n + 1, Len(f)), folder |-> TRUE]
                     \in ListObjects(Present, SubSeq(f, 1, n))
                  <=> \E k \in Present : HasPrefix(k, FolderKey(f))
    <3> DEFINE parent == SubSeq(f, 1, n)
               name == SubSeq(f, n + 1, Len(f))
    <3>1. f \in Seq(Chars) /\ Slash \in Chars
      BY PathsAssumption
    <3>2. /\ name \in Seq(Chars) /\ ListingPrefix(parent) = parent /\ parent \in Seq(Chars)
          /\ FolderKey(f) = Append(parent \o name, Slash)
      BY <2>2, <3>1, FolderUnder
    <3>3. ListObjects(Present, parent) = Entries(KeysListed(Present, parent), parent)
      BY <3>2 DEF ListObjects
    <3>4. Flat(name)
      BY <2>2
    <3> HIDE DEF parent, name
    <3>5. [name |-> name, folder |-> TRUE] \in ListObjects(Present, parent)
             <=> \E k \in Present : HasPrefix(k, FolderKey(f))
      BY <3>1, <3>2, <3>3, <3>4, KeysAreStrings, FolderListed, ZenonT(60)
    <3>6. QED
      BY <3>5 DEF parent, name
  <2>3. QED
    BY <2>1, <2>2 DEF ListedWhereStored
<1>2. QED
  BY <1>1, PTL
=============================================================================
