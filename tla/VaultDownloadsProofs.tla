------------------------ MODULE VaultDownloadsProofs ------------------------
(***************************************************************************)
(* Theorems about VaultDownloads, for any shares, viewers and limits and   *)
(* any number of requests handled at a time.                               *)
(***************************************************************************)
EXTENDS VaultDownloads, FiniteSetTheorems, TLAPS

Rest == <<count, revoked, now, joined, issued, uncounted>>

\* A new job has the share, the viewer and the count the request has read.
LEMMA JobType ==
  ASSUME TypeOK, NEW s \in Shares, NEW v \in Viewers
  PROVE  [share |-> s, viewer |-> v, seen |-> count[s]] \in Jobs
BY DEF TypeOK, Jobs

\* Every step keeps the types.
LEMMA StepTypes == TypeOK /\ [Next]_vars => TypeOK'
<1> SUFFICES ASSUME TypeOK, [Next]_vars PROVE TypeOK'
  OBVIOUS
<1> USE DEF TypeOK
<1>1. ASSUME NEW s \in Shares, CreateShare(s) PROVE TypeOK'
  BY <1>1 DEF CreateShare
<1>2. ASSUME NEW s \in Shares, RevokeShare(s) PROVE TypeOK'
  BY <1>2 DEF RevokeShare, columns
<1>3. ASSUME NEW r \in Requests, NEW s \in Shares, NEW v \in Viewers,
             NEW label \in {"room", "count"}, Begin(r, s, v, label)
      PROVE  TypeOK'
  <2>1. [share |-> s, viewer |-> v, seen |-> count[s]] \in Jobs
    BY JobType
  <2>2. QED
    BY <1>3, <2>1 DEF Begin, columns
<1>4. ASSUME NEW r \in Requests, Free(r), UNCHANGED <<columns, Rest>> PROVE TypeOK'
  BY <1>4 DEF Free, columns, Rest
<1>5. ASSUME NEW r \in Requests, IsRoomMember(r) PROVE TypeOK'
  <2>1. CASE pc' = [pc EXCEPT ![r] = "count"] /\ UNCHANGED job
    BY <1>5, <2>1 DEF IsRoomMember, columns
  <2>2. CASE Free(r)
    BY <1>4, <1>5, <2>2 DEF IsRoomMember, Rest
  <2>3. QED
    BY <1>5, <2>1, <2>2 DEF IsRoomMember
<1>6. ASSUME NEW r \in Requests, IncrementDownloadCount(r) PROVE TypeOK'
  <2>1. job[r].share \in Shares
    BY <1>6 DEF IncrementDownloadCount, Jobs
  <2>2. count' \in [Shares -> Nat] /\ uncounted' \in [Shares -> Nat]
    BY <1>6, <2>1 DEF IncrementDownloadCount, NewCount
  <2>3. QED
    BY <1>6, <2>2 DEF IncrementDownloadCount, columns
<1>7. ASSUME NEW r \in Requests, Answer(r) PROVE TypeOK'
  <2>1. job[r].share \in Shares
    BY <1>7 DEF Answer, Jobs
  <2>2. issued' \in [Shares -> Nat]
    BY <1>7, <2>1 DEF Answer
  <2>3. QED
    BY <1>7, <2>2 DEF Answer, Free, columns
<1>8. ASSUME NEW r \in Requests, Fail(r) PROVE TypeOK'
  BY <1>4, <1>8 DEF Fail, Rest
<1>9. CASE Tick
  BY <1>9, BoundsAssumption DEF Tick, columns
<1>10. ASSUME NEW v \in Viewers, ChangeRoom(v) PROVE TypeOK'
  BY <1>10 DEF ChangeRoom, columns
<1>11. CASE UNCHANGED vars
  BY <1>11 DEF vars
<1>12. QED
  BY <1>1, <1>2, <1>3, <1>5, <1>6, <1>7, <1>8, <1>9, <1>10, <1>11
  DEF Next, DownloadShare, PublicShareDownload

\* The columns, counters and requests have their types at all times.
THEOREM TypeCorrect == Spec => []TypeOK
<1>1. Init => TypeOK
  BY BoundsAssumption DEF Init, TypeOK, Types, Expiries
<1>2. QED
  BY <1>1, StepTypes, PTL DEF Spec

-----------------------------------------------------------------------------
(* How a step moves the requests of a share and its counters.              *)

\* A request gives up, or nothing of s changes.
Quiet(s) ==
    /\ LetIn(s)' \subseteq LetIn(s) /\ Answering(s)' \subseteq Answering(s)
    /\ count'[s] = count[s] /\ uncounted'[s] = uncounted[s] /\ issued'[s] = issued[s]

Enters(s) ==
    /\ Open(s) /\ limit'[s] = limit[s] /\ Answering(s)' = Answering(s)
    /\ count'[s] = count[s] /\ uncounted'[s] = uncounted[s] /\ issued'[s] = issued[s]

Counts(s, r) ==
    /\ r \in LetIn(s) /\ LetIn(s)' = LetIn(s) \ {r}
    /\ r \notin Answering(s) /\ Answering(s)' = Answering(s) \cup {r}
    /\ \/ count'[s] = count[s] + 1 /\ uncounted'[s] = uncounted[s]
       \/ count'[s] = count[s] /\ uncounted'[s] = uncounted[s] + 1
    /\ issued'[s] = issued[s] /\ s \in made

Answers(s, r) ==
    /\ r \in Answering(s) /\ Answering(s)' = Answering(s) \ {r}
    /\ LetIn(s)' = LetIn(s)
    /\ count'[s] = count[s] /\ uncounted'[s] = uncounted[s] /\ issued'[s] = issued[s] + 1

\* Nothing has been done for a share that does not exist yet.
NothingEarly ==
    \A s \in Shares :
        s \notin made => /\ LetIn(s) = {} /\ Answering(s) = {}
                         /\ count[s] = 0 /\ uncounted[s] = 0 /\ issued[s] = 0

\* A step that neither counts nor lets anyone in is quiet.
LEMMA FreeIsQuiet ==
  ASSUME TypeOK, NEW r \in Requests, Free(r), UNCHANGED Rest, NEW s \in Shares
  PROVE  Quiet(s)
BY DEF TypeOK, Free, Rest, Quiet, LetIn, Answering

\* For each share a step is one of the four.
LEMMA Traffic ==
  ASSUME TypeOK, NothingEarly, [Next]_vars, NEW s \in Shares
  PROVE  Quiet(s) \/ Enters(s) \/ \E r \in Requests : Counts(s, r) \/ Answers(s, r)
<1>1. CASE UNCHANGED <<pc, job, count, issued, uncounted>>
  BY <1>1 DEF Quiet, LetIn, Answering
<1>2. ASSUME NEW r \in Requests, NEW t \in Shares, NEW v \in Viewers,
             NEW label \in {"room", "count"}, Begin(r, t, v, label)
      PROVE  Quiet(s) \/ Enters(s)
  <2>1. UNCHANGED <<count, issued, uncounted, limit>> /\ Open(t)
    BY <1>2 DEF Begin, columns
  <2>2. Answering(s)' = Answering(s)
    BY <1>2 DEF Begin, Answering, TypeOK
  <2>3. CASE t = s
    BY <2>1, <2>2, <2>3 DEF Enters
  <2>4. CASE t # s
    <3>1. LetIn(s)' \subseteq LetIn(s)
      BY <1>2, <2>4 DEF Begin, LetIn, TypeOK
    <3>2. QED
      BY <2>1, <2>2, <3>1 DEF Quiet
  <2>5. QED
    BY <2>3, <2>4
<1>3. ASSUME NEW r \in Requests, IsRoomMember(r) PROVE Quiet(s)
  <2>1. CASE pc' = [pc EXCEPT ![r] = "count"] /\ UNCHANGED job
    BY <1>3, <2>1 DEF IsRoomMember, Quiet, LetIn, Answering, TypeOK
  <2>2. CASE Free(r)
    BY <1>3, <2>2, FreeIsQuiet DEF IsRoomMember, Rest
  <2>3. QED
    BY <1>3, <2>1, <2>2 DEF IsRoomMember
<1>4. ASSUME NEW r \in Requests, IncrementDownloadCount(r) PROVE Quiet(s) \/ Counts(s, r)
  <2>1. job[r].share \in Shares /\ UNCHANGED <<job, issued>> /\ pc[r] = "count"
    BY <1>4 DEF IncrementDownloadCount, TypeOK, Jobs
  <2>2. pc' = [pc EXCEPT ![r] = "answer"]
    BY <1>4 DEF IncrementDownloadCount
  <2>3. CASE job[r].share # s
    <3>1. count'[s] = count[s] /\ uncounted'[s] = uncounted[s]
      BY <1>4, <2>1, <2>3 DEF IncrementDownloadCount, TypeOK
    <3>2. LetIn(s)' \subseteq LetIn(s) /\ Answering(s)' \subseteq Answering(s)
      BY <2>1, <2>2, <2>3 DEF LetIn, Answering, TypeOK
    <3>3. QED
      BY <2>1, <3>1, <3>2 DEF Quiet
  <2>4. CASE job[r].share = s
    <3>1. \/ count'[s] = count[s] + 1 /\ uncounted'[s] = uncounted[s]
          \/ count'[s] = count[s] /\ uncounted'[s] = uncounted[s] + 1
      BY <1>4, <2>4 DEF IncrementDownloadCount, TypeOK, NewCount
    <3>2. r \in LetIn(s) /\ r \notin Answering(s)
      BY <2>1, <2>4 DEF LetIn, Answering
    <3>3. LetIn(s)' = LetIn(s) \ {r} /\ Answering(s)' = Answering(s) \cup {r}
      BY <2>1, <2>2, <2>4 DEF LetIn, Answering, TypeOK
    <3>4. s \in made
      BY <3>2 DEF NothingEarly
    <3>5. QED
      BY <2>1, <3>1, <3>2, <3>3, <3>4 DEF Counts
  <2>5. QED
    BY <2>3, <2>4
<1>5. ASSUME NEW r \in Requests, Answer(r) PROVE Quiet(s) \/ Answers(s, r)
  <2>1. job[r].share \in Shares /\ pc[r] = "answer" /\ UNCHANGED <<count, uncounted>>
    BY <1>5 DEF Answer, TypeOK, Jobs
  <2>2. pc' = [pc EXCEPT ![r] = "idle"] /\ \A q \in Requests : q # r => job'[q] = job[q]
    BY <1>5 DEF Answer, Free, TypeOK
  <2>3. LetIn(s)' = LetIn(s) /\ Answering(s)' = Answering(s) \ {r}
    BY <2>1, <2>2 DEF LetIn, Answering, TypeOK
  <2>4. CASE job[r].share # s
    BY <1>5, <2>1, <2>3, <2>4 DEF Answer, Quiet, TypeOK
  <2>5. CASE job[r].share = s
    <3>1. r \in Answering(s)
      BY <2>1, <2>5 DEF Answering
    <3>2. issued'[s] = issued[s] + 1
      BY <1>5, <2>5 DEF Answer, TypeOK
    <3>3. QED
      BY <2>1, <2>3, <3>1, <3>2 DEF Answers
  <2>6. QED
    BY <2>4, <2>5
<1>6. ASSUME NEW r \in Requests, Fail(r) PROVE Quiet(s)
  BY <1>6, FreeIsQuiet DEF Fail, Rest
<1>7. ASSUME NEW t \in Shares, CreateShare(t) \/ RevokeShare(t)
      PROVE  UNCHANGED <<pc, job, count, issued, uncounted>>
  BY <1>7 DEF CreateShare, RevokeShare
<1>8. Tick \/ (\E v \in Viewers : ChangeRoom(v)) \/ UNCHANGED vars
      => UNCHANGED <<pc, job, count, issued, uncounted>>
  BY DEF Tick, ChangeRoom, vars
<1>9. QED
  BY <1>1, <1>2, <1>3, <1>4, <1>5, <1>6, <1>7, <1>8
  DEF Next, DownloadShare, PublicShareDownload

\* A share keeps its columns from its creation on; creating is the only way to exist.
LEMMA ColumnsStay ==
  ASSUME TypeOK, [Next]_vars, NEW s \in Shares
  PROVE  /\ s \in made => s \in made' /\ limit'[s] = limit[s] /\ expiry'[s] = expiry[s]
         /\ s \notin made => limit'[s] = limit[s] \/ s \in made'
         /\ revoked[s] => revoked'[s]
         /\ now <= now'
<1>1. CASE UNCHANGED <<columns, revoked>> /\ (now' = now \/ Tick)
  BY <1>1 DEF columns, Tick, TypeOK
<1>2. ASSUME NEW t \in Shares, CreateShare(t) PROVE UNCHANGED <<revoked, now>>
  BY <1>2 DEF CreateShare
<1>3. ASSUME NEW t \in Shares, RevokeShare(t) PROVE UNCHANGED <<columns, now>>
  BY <1>3 DEF RevokeShare
<1>4. CASE \E t \in Shares : CreateShare(t)
  <2>1. PICK t \in Shares : CreateShare(t)
    BY <1>4
  <2>2. t \notin made /\ made' = made \cup {t} /\ UNCHANGED <<revoked, now>>
    BY <2>1 DEF CreateShare
  <2>3. s # t => limit'[s] = limit[s] /\ expiry'[s] = expiry[s]
    BY <2>1 DEF CreateShare, TypeOK
  <2>4. QED
    BY <2>2, <2>3 DEF TypeOK
<1>5. CASE \E t \in Shares : RevokeShare(t)
  BY <1>5 DEF RevokeShare, columns, TypeOK
<1>6. ASSUME NEW r \in Requests,
             \/ \E t \in Shares, v \in Viewers :
                   DownloadShare(r, t, v) \/ PublicShareDownload(r, t, v)
             \/ IsRoomMember(r) \/ IncrementDownloadCount(r) \/ Answer(r) \/ Fail(r)
      PROVE  UNCHANGED <<columns, revoked, now>>
  BY <1>6 DEF DownloadShare, PublicShareDownload, Begin, IsRoomMember,
              IncrementDownloadCount, Answer, Fail
<1>7. Tick => UNCHANGED <<columns, revoked>>
  BY DEF Tick
<1>8. (\E v \in Viewers : ChangeRoom(v)) \/ UNCHANGED vars => UNCHANGED <<columns, revoked, now>>
  BY DEF ChangeRoom, vars, columns
<1>9. QED
  BY <1>1, <1>4, <1>5, <1>6, <1>7, <1>8 DEF Next

\* Nothing is done for a share before it exists.
LEMMA StepNothingEarly == TypeOK /\ NothingEarly /\ [Next]_vars => NothingEarly'
<1> SUFFICES ASSUME TypeOK, NothingEarly, [Next]_vars, NEW s \in Shares, s \notin made'
             PROVE  /\ LetIn(s)' = {} /\ Answering(s)' = {}
                    /\ count'[s] = 0 /\ uncounted'[s] = 0 /\ issued'[s] = 0
  BY DEF NothingEarly
<1>1. s \notin made
  BY ColumnsStay
<1>2. /\ LetIn(s) = {} /\ Answering(s) = {}
      /\ count[s] = 0 /\ uncounted[s] = 0 /\ issued[s] = 0
  BY <1>1 DEF NothingEarly
<1>3. Quiet(s)
  BY <1>1, <1>2, Traffic DEF Enters, Open, Counts, Answers
<1>4. QED
  BY <1>2, <1>3 DEF Quiet

\* Nothing is ever done for a share that does not exist.
LEMMA NothingIsEarly == Spec => []NothingEarly
<1>1. Init => NothingEarly
  BY DEF Init, NothingEarly, LetIn, Answering
<1>2. QED
  BY <1>1, StepNothingEarly, TypeCorrect, PTL DEF Spec

-----------------------------------------------------------------------------
(* The counts.                                                             *)

\* A set of requests has a size, which that of a larger set bounds.
LEMMA Sizes ==
  ASSUME NEW A, NEW B, B \subseteq Requests, A \subseteq B
  PROVE  /\ IsFiniteSet(A) /\ IsFiniteSet(B)
         /\ Cardinality(A) \in Nat /\ Cardinality(B) \in Nat
         /\ Cardinality(A) <= Cardinality(B)
<1>1. IsFiniteSet(Requests)
  BY RequestsAssumption
<1>2. IsFiniteSet(B)
  BY <1>1, FS_Subset
<1>3. QED
  BY <1>2, FS_Subset, FS_CardinalityType

\* Every step keeps the URLs within what has been counted or failed to be.
LEMMA StepCounted == TypeOK /\ NothingEarly /\ EveryUrlIsCounted /\ [Next]_vars => EveryUrlIsCounted'
<1> SUFFICES ASSUME TypeOK, NothingEarly, EveryUrlIsCounted, [Next]_vars, NEW s \in Shares
             PROVE  issued'[s] + Cardinality(Answering(s)') <= count'[s] + uncounted'[s]
  BY DEF EveryUrlIsCounted
<1>1. /\ issued[s] \in Nat /\ count[s] \in Nat /\ uncounted[s] \in Nat
      /\ issued[s] + Cardinality(Answering(s)) <= count[s] + uncounted[s]
  BY DEF TypeOK, EveryUrlIsCounted
<1>2. Answering(s) \subseteq Requests
  BY DEF Answering
<1>3. IsFiniteSet(Answering(s)) /\ Cardinality(Answering(s)) \in Nat
  BY <1>2, Sizes
<1>4. CASE Quiet(s)
  <2>1. /\ Cardinality(Answering(s)') \in Nat
        /\ Cardinality(Answering(s)') <= Cardinality(Answering(s))
    BY <1>2, <1>4, Sizes DEF Quiet
  <2>2. QED
    BY <1>1, <1>3, <1>4, <2>1 DEF Quiet
<1>5. CASE Enters(s)
  BY <1>1, <1>5 DEF Enters
<1>6. ASSUME NEW r \in Requests, Counts(s, r)
      PROVE  issued'[s] + Cardinality(Answering(s)') <= count'[s] + uncounted'[s]
  <2>1. Cardinality(Answering(s)') = Cardinality(Answering(s)) + 1
    BY <1>3, <1>6, FS_AddElement, ZenonT(60) DEF Counts
  <2>2. QED
    BY <1>1, <1>3, <1>6, <2>1 DEF Counts
<1>7. ASSUME NEW r \in Requests, Answers(s, r)
      PROVE  issued'[s] + Cardinality(Answering(s)') <= count'[s] + uncounted'[s]
  <2>1. Cardinality(Answering(s)') = Cardinality(Answering(s)) - 1
    BY <1>3, <1>7, FS_RemoveElement DEF Answers
  <2>2. QED
    BY <1>1, <1>3, <1>7, <2>1 DEF Answers
<1>8. QED
  BY <1>4, <1>5, <1>6, <1>7, Traffic

\* However many requests count their downloads at the same time, every URL that has been
\* sent is in download_count or is one whose counting failed.
THEOREM UrlsAreCounted == Spec => []EveryUrlIsCounted
<1>1. Init => EveryUrlIsCounted
  <2>1. ASSUME Init, NEW s \in Shares PROVE Answering(s) = {} /\ issued[s] = 0
                                            /\ count[s] = 0 /\ uncounted[s] = 0
    BY <2>1 DEF Init, Answering
  <2>2. QED
    BY <2>1, FS_EmptySet DEF EveryUrlIsCounted
<1>2. QED
  BY <1>1, StepCounted, TypeCorrect, NothingIsEarly, PTL DEF Spec

LetInBounded ==
    \A s \in Shares :
        limit[s] # NoLimit =>
            count[s] + Cardinality(LetIn(s)) <= Most(s)

\* Each step keeps the downloads counted, and those still to be, within the limit and
\* the requests that are handled at a time: the request let in last has compared them.
LEMMA StepLetIn == TypeOK /\ NothingEarly /\ LetInBounded /\ [Next]_vars => LetInBounded'
<1> SUFFICES ASSUME TypeOK, NothingEarly, LetInBounded, [Next]_vars, NEW s \in Shares,
                    limit'[s] # NoLimit
             PROVE  count'[s] + Cardinality(LetIn(s)') <= Most(s)'
  BY DEF LetInBounded
<1>1. count[s] \in Nat /\ limit'[s] \in Int
  BY StepTypes, LimitsAssumption DEF TypeOK
<1>2. LetIn(s) \subseteq Requests /\ LetIn(s)' \subseteq Requests
  BY DEF LetIn
<1>3. /\ IsFiniteSet(LetIn(s)) /\ Cardinality(LetIn(s)) \in Nat
      /\ Cardinality(LetIn(s)') \in Nat /\ Cardinality(Requests) \in Nat
      /\ Cardinality(LetIn(s)') <= Cardinality(Requests)
  BY <1>2, Sizes
<1>4. Cardinality(Requests) >= 1
  BY <1>3, RequestsAssumption, FS_EmptySet
<1>5. Most(s)' \in Nat
  BY <1>1, <1>3, <1>4 DEF Most
<1>6. ASSUME limit'[s] = limit[s]
      PROVE  Most(s)' = Most(s) /\ count[s] + Cardinality(LetIn(s)) <= Most(s)
  BY <1>6 DEF Most, LetInBounded
<1>7. CASE limit'[s] = limit[s] /\ Quiet(s)
  <2>1. Cardinality(LetIn(s)') <= Cardinality(LetIn(s))
    BY <1>2, <1>7, Sizes DEF Quiet
  <2>2. QED
    BY <1>1, <1>3, <1>5, <1>6, <1>7, <2>1 DEF Quiet
<1>8. CASE Enters(s)
  <2>1. count[s] < limit'[s]
    BY <1>1, <1>8 DEF Enters, Open, LimitReached
  <2>2. Most(s)' = limit'[s] + Cardinality(Requests) - 1
    BY <1>1, <2>1 DEF Most
  <2>3. QED
    BY <1>1, <1>3, <1>8, <2>1, <2>2 DEF Enters
<1>9. ASSUME NEW r \in Requests, Counts(s, r), limit'[s] = limit[s]
      PROVE  count'[s] + Cardinality(LetIn(s)') <= Most(s)'
  <2>1. Cardinality(LetIn(s)') = Cardinality(LetIn(s)) - 1
    BY <1>3, <1>9, FS_RemoveElement DEF Counts
  <2>2. QED
    BY <1>1, <1>3, <1>5, <1>6, <1>9, <2>1 DEF Counts
<1>10. ASSUME NEW r \in Requests, Answers(s, r), limit'[s] = limit[s]
       PROVE  count'[s] + Cardinality(LetIn(s)') <= Most(s)'
  BY <1>6, <1>10 DEF Answers
<1>11. CASE s \notin made
  <2>1. count[s] = 0 /\ LetIn(s) = {} /\ Answering(s) = {}
    BY <1>11 DEF NothingEarly
  <2>2. Quiet(s)
    BY <1>11, <2>1, Traffic DEF Enters, Open, Counts, Answers
  <2>3. count'[s] = 0 /\ LetIn(s)' = {}
    BY <2>1, <2>2 DEF Quiet
  <2>4. QED
    BY <1>5, <2>3, FS_EmptySet
<1>12. CASE s \in made
  <2>1. limit'[s] = limit[s]
    BY <1>12, ColumnsStay
  <2>2. QED
    BY <1>7, <1>8, <1>9, <1>10, <2>1, Traffic
<1>13. QED
  BY <1>11, <1>12

\* max_downloads is passed by no more than the requests let in together, less one, and
\* the downloads whose counting failed.
THEOREM Overshoot == Spec => []OvershootBounded
<1>1. Init => LetInBounded
  BY DEF Init, LetInBounded
<1>2. Spec => []LetInBounded
  BY <1>1, StepLetIn, TypeCorrect, NothingIsEarly, PTL DEF Spec
<1>3. TypeOK /\ LetInBounded /\ EveryUrlIsCounted => OvershootBounded
  <2> SUFFICES ASSUME TypeOK, LetInBounded, EveryUrlIsCounted, NEW s \in Shares,
                      limit[s] # NoLimit
               PROVE  /\ count[s] + Cardinality(LetIn(s)) <= Most(s)
                      /\ issued[s] <= Most(s) + uncounted[s]
    BY DEF OvershootBounded
  <2>1. count[s] + Cardinality(LetIn(s)) <= Most(s)
    BY DEF LetInBounded
  <2>2. issued[s] + Cardinality(Answering(s)) <= count[s] + uncounted[s]
    BY DEF EveryUrlIsCounted
  <2>3. /\ count[s] \in Nat /\ limit[s] \in Int /\ issued[s] \in Nat /\ uncounted[s] \in Nat
    BY LimitsAssumption DEF TypeOK
  <2>4. LetIn(s) \subseteq Requests /\ Answering(s) \subseteq Requests
    BY DEF LetIn, Answering
  <2>5. /\ Cardinality(LetIn(s)) \in Nat /\ Cardinality(Answering(s)) \in Nat
        /\ Cardinality(Requests) \in Nat
    BY <2>4, Sizes
  <2>6. Most(s) \in Int
    BY <2>3, <2>5 DEF Most
  <2>7. QED
    BY <2>1, <2>2, <2>3, <2>5, <2>6
<1>4. QED
  BY <1>2, <1>3, TypeCorrect, UrlsAreCounted, PTL

\* What closing a share means for a step.
Final(s) ==
    /\ Closed(s) => Closed(s)'
    /\ Closed(s) /\ LetIn(s) \cup Answering(s) = {}
         => LetIn(s)' \cup Answering(s)' = {} /\ issued'[s] = issued[s]

LEMMA StepFinal ==
  ASSUME TypeOK, NothingEarly, [Next]_vars, NEW s \in Shares, Closed(s)
  PROVE  Final(s)
<1>1. /\ s \in made' /\ limit'[s] = limit[s] /\ expiry'[s] = expiry[s]
      /\ revoked[s] => revoked'[s]
      /\ now <= now'
  BY ColumnsStay DEF Closed
<1>2. ~Enters(s)
  BY DEF Enters, Open, Closed
<1>3. Quiet(s) \/ \E r \in Requests : Counts(s, r) \/ Answers(s, r)
  BY <1>2, Traffic
<1>4. /\ count[s] \in Nat /\ count'[s] \in Nat /\ now \in Nat /\ now' \in Nat
      /\ expiry[s] \in Nat /\ (limit[s] # NoLimit => limit[s] \in Int)
  <2>1. TypeOK /\ TypeOK'
    BY StepTypes
  <2>2. count[s] \in Nat /\ count'[s] \in Nat /\ now \in Nat /\ now' \in Nat
    BY <2>1, BoundsAssumption DEF TypeOK
  <2>3. expiry[s] \in Nat /\ (limit[s] # NoLimit => limit[s] \in Int)
    <3>1. expiry[s] \in Expiries /\ limit[s] \in Limits \cup {NoLimit}
      BY <2>1 DEF TypeOK
    <3>2. Expiries \subseteq Nat
      BY BoundsAssumption DEF Expiries
    <3>3. QED
      BY <3>1, <3>2, LimitsAssumption
  <2>4. QED
    BY <2>2, <2>3
<1>5. count[s] <= count'[s]
  BY <1>3, <1>4 DEF Quiet, Counts, Answers
<1>6. Closed(s)'
  BY <1>1, <1>4, <1>5 DEF Closed, Expired, LimitReached
<1>7. ASSUME LetIn(s) \cup Answering(s) = {}
      PROVE  LetIn(s)' \cup Answering(s)' = {} /\ issued'[s] = issued[s]
  BY <1>3, <1>7 DEF Quiet, Counts, Answers
<1>8. QED
  BY <1>6, <1>7 DEF Final

\* A share once revoked, expired or used up never opens again, and sends no URL once
\* the requests that had been let in are over.
THEOREM ClosedForGood == Spec => ClosedIsFinal
<1>1. TypeOK /\ NothingEarly /\ [Next]_vars => [\A s \in Shares : Final(s)]_vars
  BY StepFinal DEF Final
<1>2. QED
  BY <1>1, TypeCorrect, NothingIsEarly, PTL DEF Spec, ClosedIsFinal, Final

-----------------------------------------------------------------------------
(* The life cycle.                                                         *)

LEMMA SameRow == UNCHANGED <<columns, count, revoked, now>> => Phase' = Phase
BY DEF columns, Phase, Closed, Expired, LimitReached

LEMMA SameRequests == UNCHANGED <<pc, job>> => Owed' = Owed
BY DEF Owed, LetIn, Answering

\* Shares close, whatever has closed them.
LEMMA StepClose ==
  ASSUME TypeOK, NothingEarly, [Next]_vars, UNCHANGED <<columns, issued>>, Owed' = Owed
  PROVE  [Lifecycle!Next]_Lifecycle!lifecycleVars
<1> DEFINE S == {s \in Shares : Phase[s] = "open" /\ Phase'[s] = "closed"}
<1>1. ASSUME NEW s \in Shares
      PROVE  Phase'[s] = IF s \in S THEN "closed" ELSE Phase[s]
  <2>1. Closed(s) => Closed(s)'
    BY <1>1, StepFinal DEF Final
  <2>2. s \in made <=> s \in made'
    BY DEF columns
  <2>3. QED
    BY <2>1, <2>2 DEF Phase
<1>2. Phase' = [s \in Shares |-> IF s \in S THEN "closed" ELSE Phase[s]]
  BY <1>1 DEF Phase
<1>3. Lifecycle!Close(S)
  BY <1>2 DEF Lifecycle!Close
<1>4. QED
  BY <1>3 DEF Lifecycle!Next

\* A request ends.
LEMMA StepEnd ==
  ASSUME TypeOK, NEW r \in Requests, pc[r] # "idle", Free(r),
         UNCHANGED <<columns, count, revoked, now>>
  PROVE  /\ job[r].share \in Shares /\ r \in Owed[job[r].share]
         /\ Owed' = [Owed EXCEPT ![job[r].share] = @ \ {r}]
         /\ Phase' = Phase
<1>1. job[r].share \in Shares /\ pc[r] \in {"room", "count", "answer"}
  BY DEF TypeOK, Jobs
<1>2. \A q \in Requests : q # r => pc'[q] = pc[q] /\ job'[q] = job[q]
  BY DEF Free, TypeOK
<1>3. pc'[r] = "idle"
  BY DEF Free, TypeOK
<1>4. r \in Owed[job[r].share]
  BY <1>1 DEF Owed, LetIn, Answering
<1>5. ASSUME NEW s \in Shares
      PROVE  Owed'[s] = IF s = job[r].share THEN Owed[s] \ {r} ELSE Owed[s]
  <2>1. Owed'[s] = {q \in Requests : pc'[q] \in {"room", "count", "answer"} /\ job'[q].share = s}
    BY DEF Owed, LetIn, Answering
  <2>2. Owed[s] = {q \in Requests : pc[q] \in {"room", "count", "answer"} /\ job[q].share = s}
    BY DEF Owed, LetIn, Answering
  <2>3. QED
    BY <1>2, <1>3, <2>1, <2>2
<1>6. Owed' = [Owed EXCEPT ![job[r].share] = @ \ {r}]
  BY <1>1, <1>5, ZenonT(60) DEF Owed
<1>7. QED
  BY <1>1, <1>4, <1>6, SameRow

\* A request is let in.
LEMMA StepAdmit ==
  ASSUME TypeOK, NEW r \in Requests, NEW s \in Shares, NEW v \in Viewers,
         NEW label \in {"room", "count"}, Begin(r, s, v, label)
  PROVE  Lifecycle!Admit(s, r)
<1>1. Phase' = Phase /\ Phase[s] = "open"
  <2>1. Phase' = Phase
    BY SameRow DEF Begin
  <2>2. QED
    BY <2>1 DEF Begin, Open, Phase, Closed
<1>2. pc[r] = "idle" /\ pc'[r] = label /\ job'[r].share = s
  BY DEF Begin, TypeOK
<1>3. \A q \in Requests : q # r => pc'[q] = pc[q] /\ job'[q] = job[q]
  BY DEF Begin, TypeOK
<1>4. \A t \in Shares : r \notin Owed[t]
  BY <1>2 DEF Owed, LetIn, Answering
<1>5. ASSUME NEW t \in Shares
      PROVE  Owed'[t] = IF t = s THEN Owed[t] \cup {r} ELSE Owed[t]
  <2>1. Owed'[t] = {q \in Requests : pc'[q] \in {"room", "count", "answer"} /\ job'[q].share = t}
    BY DEF Owed, LetIn, Answering
  <2>2. Owed[t] = {q \in Requests : pc[q] \in {"room", "count", "answer"} /\ job[q].share = t}
    BY DEF Owed, LetIn, Answering
  <2>3. QED
    BY <1>2, <1>3, <2>1, <2>2
<1>6. Owed' = [Owed EXCEPT ![s] = @ \cup {r}]
  BY <1>5 DEF Owed
<1>7. issued' = issued
  BY DEF Begin
<1>8. QED
  BY <1>1, <1>4, <1>6, <1>7 DEF Lifecycle!Admit

LEMMA StepLifecycle ==
  TypeOK /\ NothingEarly /\ [Next]_vars => [Lifecycle!Next]_Lifecycle!lifecycleVars
<1> SUFFICES ASSUME TypeOK, NothingEarly, [Next]_vars
             PROVE  [Lifecycle!Next]_Lifecycle!lifecycleVars
  OBVIOUS
<1>1. ASSUME NEW s \in Shares, CreateShare(s) PROVE Lifecycle!Next
  <2>1. Phase[s] = "none" /\ Phase'[s] \in {"open", "closed"}
    BY <1>1 DEF CreateShare, Phase
  <2>2. ASSUME NEW t \in Shares, t # s PROVE Phase'[t] = Phase[t]
    <3>1. /\ t \in made <=> t \in made'
          /\ limit'[t] = limit[t] /\ expiry'[t] = expiry[t]
          /\ UNCHANGED <<count, revoked, now>>
      BY <1>1, <2>2 DEF CreateShare, TypeOK
    <3>2. QED
      BY <3>1 DEF Phase, Closed, Expired, LimitReached
  <2>3. Phase' = [Phase EXCEPT ![s] = Phase'[s]]
    BY <2>2 DEF Phase
  <2>4. Owed' = Owed /\ issued' = issued
    BY <1>1, SameRequests DEF CreateShare
  <2>5. Lifecycle!Make(s)
    BY <2>1, <2>3, <2>4 DEF Lifecycle!Make
  <2>6. QED
    BY <2>5 DEF Lifecycle!Next
<1>2. ASSUME NEW s \in Shares, RevokeShare(s)
      PROVE  [Lifecycle!Next]_Lifecycle!lifecycleVars
  BY <1>2, StepClose, SameRequests DEF RevokeShare
<1>3. ASSUME NEW r \in Requests, NEW s \in Shares, NEW v \in Viewers,
             DownloadShare(r, s, v) \/ PublicShareDownload(r, s, v)
      PROVE  Lifecycle!Next
  <2>1. \E label \in {"room", "count"} : Begin(r, s, v, label)
    BY <1>3 DEF DownloadShare, PublicShareDownload
  <2>2. Lifecycle!Admit(s, r)
    BY <2>1, StepAdmit
  <2>3. QED
    BY <2>2 DEF Lifecycle!Next
<1>4. ASSUME NEW r \in Requests, pc[r] # "idle", Free(r), UNCHANGED <<columns, Rest>>
      PROVE  Lifecycle!Next
  <2>1. Lifecycle!Drop(job[r].share, r)
    BY <1>4, StepEnd DEF Rest, Lifecycle!Drop
  <2>2. job[r].share \in Shares
    BY <1>4, StepEnd DEF Rest
  <2>3. QED
    BY <2>1, <2>2 DEF Lifecycle!Next
<1>5. ASSUME NEW r \in Requests, IsRoomMember(r)
      PROVE  [Lifecycle!Next]_Lifecycle!lifecycleVars
  <2>1. CASE pc' = [pc EXCEPT ![r] = "count"] /\ UNCHANGED job
    <3>1. \A q \in Requests : pc'[q] \in {"room", "count"} <=> pc[q] \in {"room", "count"}
      BY <1>5, <2>1 DEF IsRoomMember, TypeOK
    <3>2. \A q \in Requests : pc'[q] = "answer" <=> pc[q] = "answer"
      BY <1>5, <2>1 DEF IsRoomMember, TypeOK
    <3>3. Owed' = Owed
      BY <2>1, <3>1, <3>2 DEF Owed, LetIn, Answering
    <3>4. QED
      BY <1>5, <3>3, StepClose DEF IsRoomMember
  <2>2. CASE Free(r)
    BY <1>4, <1>5, <2>2 DEF IsRoomMember, Rest
  <2>3. QED
    BY <1>5, <2>1, <2>2 DEF IsRoomMember
<1>6. ASSUME NEW r \in Requests, IncrementDownloadCount(r)
      PROVE  [Lifecycle!Next]_Lifecycle!lifecycleVars
  <2>1. pc[r] = "count" /\ pc' = [pc EXCEPT ![r] = "answer"] /\ UNCHANGED <<columns, job, issued>>
    BY <1>6 DEF IncrementDownloadCount
  <2>2. \A q \in Requests :
          pc'[q] \in {"room", "count", "answer"} <=> pc[q] \in {"room", "count", "answer"}
    BY <2>1 DEF TypeOK
  <2>3. ASSUME NEW s \in Shares
        PROVE  LetIn(s)' \cup Answering(s)' = LetIn(s) \cup Answering(s)
    BY <2>1, <2>2 DEF LetIn, Answering
  <2>4. Owed' = Owed
    BY <2>3 DEF Owed
  <2>5. QED
    BY <2>1, <2>4, StepClose
<1>7. ASSUME NEW r \in Requests, Answer(r) PROVE Lifecycle!Next
  <2>1. /\ job[r].share \in Shares /\ r \in Owed[job[r].share]
        /\ Owed' = [Owed EXCEPT ![job[r].share] = @ \ {r}]
        /\ Phase' = Phase
    BY <1>7, StepEnd DEF Answer
  <2>2. Lifecycle!Deliver(job[r].share, r)
    BY <1>7, <2>1 DEF Answer, Lifecycle!Deliver
  <2>3. QED
    BY <2>1, <2>2 DEF Lifecycle!Next
<1>8. ASSUME NEW r \in Requests, Fail(r) PROVE Lifecycle!Next
  BY <1>4, <1>8 DEF Fail, Rest
<1>9. CASE Tick
  BY <1>9, StepClose, SameRequests DEF Tick
<1>10. ASSUME NEW v \in Viewers, ChangeRoom(v)
       PROVE  [Lifecycle!Next]_Lifecycle!lifecycleVars
  BY <1>10, StepClose, SameRequests DEF ChangeRoom
<1>11. CASE UNCHANGED vars
  BY <1>11, StepClose, SameRequests DEF vars, columns
<1>12. QED
  BY <1>1, <1>2, <1>3, <1>5, <1>6, <1>7, <1>8, <1>9, <1>10, <1>11 DEF Next

\* The two handlers over the rows and the clock implement the life cycle of a share: each
\* of their steps is a step of it, for the share it is about, or none.
THEOREM ImplementsLifecycle == Spec => KeepsLifecycle
<1>1. Init => Lifecycle!Init
  BY DEF Init, Lifecycle!Init, Phase, Owed, LetIn, Answering
<1>2. QED
  BY <1>1, StepLifecycle, TypeCorrect, NothingIsEarly, PTL
  DEF Spec, KeepsLifecycle, Lifecycle!Spec
=============================================================================
