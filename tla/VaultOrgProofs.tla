--------------------------- MODULE VaultOrgProofs ---------------------------
(***************************************************************************)
(* Theorems about VaultOrg, for any users, organisations and number of     *)
(* requests.                                                               *)
(***************************************************************************)
EXTENDS VaultOrg, TLAPS

Changes == {"add", "role", "tier", "remove"}

\* What the transactions write is a row, and an action of the audit log.
LEMMA NewRowIsRow ==
  ASSUME NEW row \in Rows, NEW d \in Demands, d.kind \in Changes
  PROVE  NewRow(row, d) \in Rows /\ AuditAction(d.kind) \in Actions
<1>1. /\ row.role \in Roles /\ row.status \in {"absent", "active", "removed"}
      /\ row.assigned \in Tiers /\ row.removedAt \in BOOLEAN
  BY DEF Rows
<1>2. d.role \in Roles /\ d.tier \in Tiers
  BY DEF Demands, NoDemand, Changes
<1>3. NewRow(row, d) \in Rows
  BY <1>1, <1>2 DEF NewRow, AddedRow, RemovedRow, Row, Rows, Roles, Tiers
<1>4. AuditAction(d.kind) \in Actions
  BY DEF AuditAction, Actions
<1>5. QED
  BY <1>3, <1>4

Entries == [action : Actions, at : Nat]

RequestsOK ==
    /\ pc \in [Requests -> Labels]
    /\ req \in [Requests -> Demands]
    /\ hit \in [Requests -> BOOLEAN]
    /\ \A r \in Requests : RequestOK(pc[r], req[r], hit[r])

StoredOK ==
    /\ tier \in [Users -> Tiers \cup {"none"}]
    /\ member \in [Orgs -> [Users -> Rows]]
    /\ audit \in [Orgs -> [Users -> SUBSET Entries]]
    /\ missed \subseteq {"role", "tier", "remove"} \X Orgs \X Users
    /\ overtaken \subseteq Orgs \X Users
    /\ raced \in [Requests -> BOOLEAN]

StampsOK == clock \in Nat /\ began \in [Requests -> Nat]

\* The type invariant is the part on the requests, the part on what is stored and the
\* times of the transactions.
LEMMA TypeParts == TypeOK <=> RequestsOK /\ StoredOK /\ StampsOK
BY DEF TypeOK, RequestsOK, StoredOK, StampsOK, Entries

\* A step that begins no transaction: the clock stands, and only r's own time may be reset.
KeepsClock(r) == UNCHANGED clock /\ (UNCHANGED began \/ began' = [began EXCEPT ![r] = 0])

\* Begin is the only step that reads the clock.
LEMMA OnlyBeginStamps ==
  ASSUME NEW r \in Requests, Act(r)
  PROVE  Begin(r) \/ KeepsClock(r)
<1>1. ASSUME GiveUp(r) \/ Commit(r) \/ SetTier(r) PROVE KeepsClock(r)
  BY <1>1 DEF GiveUp, Commit, SetTier, Leave, KeepsClock
<1>2. CASE RequireOrgAdmin(r) \/ AskForOrganization(r) \/ EnsureVaultUser(r) \/ FirstUpdate(r)
  BY <1>2 DEF RequireOrgAdmin, AskForOrganization, EnsureVaultUser, FirstUpdate, KeepsClock
<1>3. CASE LoadTarget(r)
  BY <1>1, <1>3 DEF LoadTarget, KeepsClock
<1>4. CASE InsertOrganization(r)
  BY <1>1, <1>4 DEF InsertOrganization, Leave, KeepsClock
<1>5. CASE ReadRole(r) \/ CountOwners(r)
  BY <1>1, <1>5 DEF ReadRole, CountOwners, KeepsClock
<1>6. QED
  BY <1>1, <1>2, <1>3, <1>4, <1>5 DEF Act, Step, Fail, DeadlockAbort

\* Times are natural numbers.
LEMMA StepStamps == ASSUME StampsOK, [Next]_vars PROVE StampsOK'
<1>1. CASE UNCHANGED vars
  BY <1>1 DEF vars, StampsOK
<1>2. ASSUME NEW r \in Requests, Act(r) PROVE StampsOK'
  <2>1. CASE Begin(r)
    BY <2>1 DEF Begin, StampsOK
  <2>2. CASE KeepsClock(r)
    BY <2>2 DEF KeepsClock, StampsOK
  <2>3. QED
    BY <1>2, <2>1, <2>2, OnlyBeginStamps
<1>3. QED
  BY <1>1, <1>2 DEF Next

\* A step of one request keeps the others as they are.
LEMMA OneMoves ==
  ASSUME RequestsOK, NEW r \in Requests, NEW p, NEW d, NEW h, RequestOK(p, d, h),
         pc' = [pc EXCEPT ![r] = p], req' = [req EXCEPT ![r] = d], hit' = [hit EXCEPT ![r] = h]
  PROVE  RequestsOK'
<1>1. p \in Labels /\ d \in Demands /\ h \in BOOLEAN
  BY DEF RequestOK
<1>2. /\ pc' \in [Requests -> Labels] /\ req' \in [Requests -> Demands]
      /\ hit' \in [Requests -> BOOLEAN]
  BY <1>1 DEF RequestsOK
<1>3. ASSUME NEW s \in Requests PROVE RequestOK(pc'[s], req'[s], hit'[s])
  <2>1. CASE s = r
    BY <2>1 DEF RequestsOK
  <2>2. CASE s # r
    BY <2>2 DEF RequestsOK
  <2>3. QED
    BY <2>1, <2>2
<1>4. QED
  BY <1>2, <1>3 DEF RequestsOK

\* A request that only goes on to its next statement leaves the requests well formed.
LEMMA OneMovesOn ==
  ASSUME RequestsOK, NEW r \in Requests, NEW p, RequestOK(p, req[r], hit[r]),
         Goto(r, p), UNCHANGED <<req, hit>>
  PROVE  RequestsOK'
<1>1. pc' \in [Requests -> Labels]
  BY DEF RequestsOK, Goto, RequestOK
<1>2. ASSUME NEW s \in Requests PROVE RequestOK(pc'[s], req'[s], hit'[s])
  <2>1. CASE s = r
    BY <2>1 DEF RequestsOK, Goto
  <2>2. CASE s # r
    BY <2>2 DEF RequestsOK, Goto
  <2>3. QED
    BY <2>1, <2>2
<1>3. QED
  BY <1>1, <1>2 DEF RequestsOK

\* So does a request that leaves.
LEMMA OneLeaves ==
  ASSUME RequestsOK, NEW r \in Requests, Leave(r)
  PROVE  RequestsOK'
<1>1. RequestOK("done", NoDemand, FALSE)
  BY DEF RequestOK, Labels, Demands
<1>2. /\ pc' \in [Requests -> Labels] /\ req' \in [Requests -> Demands]
      /\ hit' \in [Requests -> BOOLEAN]
  BY DEF RequestsOK, Leave, Goto, Labels, Demands
<1>3. ASSUME NEW s \in Requests PROVE RequestOK(pc'[s], req'[s], hit'[s])
  <2>1. CASE s = r
    <3>1. pc'[s] = "done" /\ req'[s] = NoDemand /\ hit'[s] = FALSE
      BY <2>1 DEF RequestsOK, Leave, Goto
    <3>2. QED
      BY <3>1 DEF RequestOK, Labels, Demands
  <2>2. CASE s # r
    BY <2>2 DEF RequestsOK, Leave, Goto
  <2>3. QED
    BY <2>1, <2>2
<1>4. QED
  BY <1>2, <1>3 DEF RequestsOK

\* An early return, an error or a rollback keeps the types: nothing is committed.
LEMMA GiveUpTypes == ASSUME TypeOK, NEW r \in Requests, GiveUp(r) PROVE TypeOK'
<1>1. RequestsOK'
  BY TypeParts, OneLeaves DEF GiveUp
<1>2. StoredOK' /\ StampsOK'
  BY TypeParts DEF GiveUp, Leave, StoredOK, StampsOK, database
<1>3. QED
  BY <1>1, <1>2 DEF TypeOK, RequestsOK, StoredOK, StampsOK, Entries

\* An entry is well formed, and joins the entries on the target of its request.
LEMMA InsertAuditTypes ==
  ASSUME StoredOK, StampsOK, NEW r \in Requests, NEW action \in Actions,
         req[r].org \in Orgs, req[r].target \in Users, InsertAudit(r, action)
  PROVE  audit' \in [Orgs -> [Users -> SUBSET Entries]] /\ overtaken' \subseteq Orgs \X Users
<1> DEFINE o == req[r].org
           u == req[r].target
           e == [action |-> action, at |-> began[r]]
<1>1. e \in Entries
  BY DEF StampsOK, Entries
<1>2. audit' = [audit EXCEPT ![o][u] = @ \cup {e}]
  BY DEF InsertAudit
<1>3. audit' \in [Orgs -> [Users -> SUBSET Entries]]
  <2> HIDE DEF e
  <2> QED
    BY <1>1, <1>2 DEF StoredOK
<1>4. overtaken' \subseteq Orgs \X Users
  BY DEF InsertAudit, StoredOK
<1>5. QED
  BY <1>3, <1>4

\* Every step keeps the types, and each request at a statement of its own operation.
LEMMA StepTypes == TypeOK /\ [Next]_vars => TypeOK'
<1> SUFFICES ASSUME TypeOK, [Next]_vars PROVE RequestsOK' /\ StoredOK'
  BY TypeParts, StepStamps DEF TypeOK, RequestsOK, StoredOK, StampsOK, Entries
<1> USE DEF Goto
<1>0. RequestsOK /\ StoredOK /\ StampsOK
  BY TypeParts
<1>1. ASSUME NEW r \in Requests, RequireOrgAdmin(r) PROVE RequestsOK' /\ StoredOK'
  <2>1. PICK o \in Orgs, a \in Users, u \in Users, b \in Bodies :
          /\ b.kind \in Kinds
          /\ IsOrgAdminRole(ActiveRole(o, a))
          /\ b.kind = "add" => CanAssignOrgRole(ActiveRole(o, a), b.role)
          /\ req' = [req EXCEPT ![r] = [kind |-> b.kind, org |-> o, target |-> u, role |-> b.role,
                                        tier |-> b.tier, actorRole |-> ActiveRole(o, a)]]
          /\ Goto(r, IF b.kind = "add" THEN "ensure" ELSE "target")
    BY <1>1, Zenon DEF RequireOrgAdmin
  <2> DEFINE d == [kind |-> b.kind, org |-> o, target |-> u, role |-> b.role,
                   tier |-> b.tier, actorRole |-> ActiveRole(o, a)]
             p == IF b.kind = "add" THEN "ensure" ELSE "target"
  <2>2. b.kind \in Changes /\ b.role \in Roles /\ b.tier \in Tiers
    BY InputsAssumption DEF Bodies, Changes, Roles, Tiers
  <2>3. d \in Demands /\ d # NoDemand /\ d.kind = b.kind
    BY <2>1, <2>2 DEF Demands, NoDemand, Changes, Roles, IsOrgAdminRole
  <2>4. RequestOK(p, d, hit[r])
    <3> HIDE DEF d
    <3>1. hit[r] \in BOOLEAN
      BY <1>0 DEF RequestsOK
    <3>2. QED
      BY <2>2, <2>3, <3>1 DEF RequestOK, Labels, Changes
  <2>5. hit' = [hit EXCEPT ![r] = hit[r]]
    BY <1>0, <1>1 DEF RequireOrgAdmin, RequestsOK
  <2>6. RequestsOK'
    BY <1>0, <2>1, <2>4, <2>5, OneMoves
  <2>7. QED
    BY <1>0, <1>1, <2>6 DEF RequireOrgAdmin, StoredOK, database
<1>2. ASSUME NEW r \in Requests, AskForOrganization(r) PROVE RequestsOK' /\ StoredOK'
  <2>1. PICK o \in Orgs, u \in Users :
          req' = [req EXCEPT ![r] = [kind |-> "create", org |-> o, target |-> u, role |-> "owner",
                                     tier |-> "free", actorRole |-> "owner"]]
    BY <1>2 DEF AskForOrganization
  <2> DEFINE d == [kind |-> "create", org |-> o, target |-> u, role |-> "owner",
                   tier |-> "free", actorRole |-> "owner"]
  <2>2. d \in Demands /\ d # NoDemand /\ d.kind = "create"
    BY DEF Demands, NoDemand, Roles, Tiers
  <2>3. RequestOK("ensure", d, hit[r])
    <3> HIDE DEF d
    <3>1. hit[r] \in BOOLEAN
      BY <1>0 DEF RequestsOK
    <3>2. QED
      BY <2>2, <3>1 DEF RequestOK, Labels
  <2>4. hit' = [hit EXCEPT ![r] = hit[r]] /\ pc' = [pc EXCEPT ![r] = "ensure"]
    BY <1>0, <1>2 DEF AskForOrganization, RequestsOK
  <2>5. RequestsOK'
    BY <1>0, <2>1, <2>3, <2>4, OneMoves
  <2>6. QED
    BY <1>0, <1>2, <2>5 DEF AskForOrganization, StoredOK, database
<1>3. ASSUME NEW r \in Requests, SetTier(r) PROVE RequestsOK' /\ StoredOK'
  <2>1. RequestsOK'
    BY <1>0, <1>3, OneLeaves DEF SetTier
  <2>2. QED
    BY <1>0, <1>3, <2>1, InputsAssumption DEF SetTier, StoredOK
<1>4. ASSUME NEW r \in Requests, GiveUp(r) PROVE RequestsOK' /\ StoredOK'
  BY <1>4, GiveUpTypes DEF TypeOK, RequestsOK, StoredOK, Entries
<1>5. ASSUME NEW r \in Requests, LoadTarget(r) PROVE RequestsOK' /\ StoredOK'
  <2>1. CASE GiveUp(r)
    BY <1>4, <2>1
  <2>2. CASE ~GiveUp(r)
    <3>1. RequestOK("begin", req[r], hit[r])
      BY <1>0, <1>5 DEF LoadTarget, RequestsOK, RequestOK, Labels
    <3>2. RequestsOK'
      BY <1>0, <1>5, <2>2, <3>1, OneMovesOn DEF LoadTarget
    <3>3. QED
      BY <1>0, <1>5, <2>2, <3>2 DEF LoadTarget, StoredOK, database
  <2>3. QED
    BY <2>1, <2>2
<1>6. ASSUME NEW r \in Requests, EnsureVaultUser(r) PROVE RequestsOK' /\ StoredOK'
  <2>1. RequestOK("begin", req[r], hit[r]) /\ req[r].target \in Users
    BY <1>0, <1>6 DEF EnsureVaultUser, RequestsOK, RequestOK, Labels, Demands, NoDemand
  <2>2. RequestsOK'
    BY <1>0, <1>6, <2>1, OneMovesOn DEF EnsureVaultUser
  <2>3. QED
    BY <1>0, <1>6, <2>1, <2>2 DEF EnsureVaultUser, StoredOK, Tiers
<1>6a. ASSUME NEW r \in Requests, Begin(r) PROVE RequestsOK' /\ StoredOK'
  <2> DEFINE p == IF req[r].kind = "create" THEN "insert"
                  ELSE IF req[r].kind = "add" THEN "first" ELSE "read"
  <2>1. RequestOK(p, req[r], hit[r])
    BY <1>0, <1>6a DEF Begin, RequestsOK, RequestOK, Labels
  <2>2. RequestsOK'
    BY <1>0, <1>6a, <2>1, OneMovesOn DEF Begin
  <2>3. QED
    BY <1>0, <1>6a, <2>2 DEF Begin, StoredOK, database
<1>7. ASSUME NEW r \in Requests, InsertOrganization(r) PROVE RequestsOK' /\ StoredOK'
  <2>1. CASE GiveUp(r)
    BY <1>4, <2>1
  <2>2. CASE ~GiveUp(r)
    <3>1. req[r].org \in Orgs /\ req[r].target \in Users
      BY <1>0, <1>7 DEF InsertOrganization, RequestsOK, RequestOK, Demands, NoDemand
    <3> DEFINE o == req[r].org
               u == req[r].target
               row == Row("owner", "active", "free", FALSE)
    <3>2. row \in Rows /\ "organisation.create" \in Actions
      BY DEF Row, Rows, Roles, Tiers, Actions
    <3>3. RequestsOK'
      BY <1>0, <1>7, <2>2, OneLeaves DEF InsertOrganization
    <3>a. /\ member' = [member EXCEPT ![o][u] = row]
          /\ InsertAudit(r, "organisation.create")
      BY <1>7, <2>2, Zenon DEF InsertOrganization
    <3>4. member' \in [Orgs -> [Users -> Rows]]
      <4> HIDE DEF row
      <4> QED
        BY <1>0, <3>1, <3>2, <3>a DEF StoredOK
    <3>5. audit' \in [Orgs -> [Users -> SUBSET Entries]] /\ overtaken' \subseteq Orgs \X Users
      BY <1>0, <3>1, <3>2, <3>a, InsertAuditTypes
    <3>6. raced' \in [Requests -> BOOLEAN] /\ UNCHANGED <<tier, missed>>
      BY <1>7, <2>2 DEF InsertOrganization, MarkRaced
    <3>7. QED
      BY <1>0, <3>3, <3>4, <3>5, <3>6 DEF StoredOK
  <2>3. QED
    BY <2>1, <2>2
<1>8. ASSUME NEW r \in Requests, ReadRole(r) PROVE RequestsOK' /\ StoredOK'
  <2>1. CASE GiveUp(r)
    BY <1>4, <2>1
  <2>2. CASE ~GiveUp(r)
    <3>1. RequestOK("count", req[r], hit[r]) /\ RequestOK("first", req[r], hit[r])
      BY <1>0, <1>8 DEF ReadRole, RequestsOK, RequestOK, Labels
    <3>2. RequestsOK'
      BY <1>0, <1>8, <2>2, <3>1, OneMovesOn DEF ReadRole
    <3>3. QED
      BY <1>0, <1>8, <2>2, <3>2 DEF ReadRole, StoredOK, database
  <2>3. QED
    BY <2>1, <2>2
<1>9. ASSUME NEW r \in Requests, CountOwners(r) PROVE RequestsOK' /\ StoredOK'
  <2>1. CASE GiveUp(r)
    BY <1>4, <2>1
  <2>2. CASE ~GiveUp(r)
    <3>1. RequestOK("first", req[r], hit[r])
      BY <1>0, <1>9 DEF CountOwners, RequestsOK, RequestOK, Labels
    <3>2. RequestsOK'
      BY <1>0, <1>9, <2>2, <3>1, OneMovesOn DEF CountOwners
    <3>3. QED
      BY <1>0, <1>9, <2>2, <3>2 DEF CountOwners, StoredOK, database
  <2>3. QED
    BY <2>1, <2>2
<1>10. ASSUME NEW r \in Requests, FirstUpdate(r) PROVE RequestsOK' /\ StoredOK'
  <2> DEFINE h == FirstRow(req[r].kind) = "user" \/ Matches(r)
  <2>1. RequestOK("last", req[r], h)
    BY <1>0, <1>10 DEF FirstUpdate, RequestsOK, RequestOK, Labels, FirstRow
  <2>2. req' = [req EXCEPT ![r] = req[r]]
    BY <1>0, <1>10 DEF FirstUpdate, RequestsOK
  <2>3. RequestsOK'
    BY <1>0, <1>10, <2>1, <2>2, OneMoves DEF FirstUpdate
  <2>4. QED
    BY <1>0, <1>10, <2>3 DEF FirstUpdate, StoredOK, database
<1>11. ASSUME NEW r \in Requests, Commit(r) PROVE RequestsOK' /\ StoredOK'
  <2> DEFINE o == req[r].org
             u == req[r].target
  <2>1. /\ req[r] \in Demands /\ req[r].kind \in Changes /\ o \in Orgs /\ u \in Users
        /\ req[r].tier \in Tiers /\ (req[r].kind = "add" => hit[r])
    BY <1>0, <1>11 DEF Commit, RequestsOK, RequestOK, Demands, NoDemand, Changes
  <2>2. member' \in [Orgs -> [Users -> Rows]]
    BY <1>0, <1>11, <2>1, NewRowIsRow DEF Commit, StoredOK
  <2>3. audit' \in [Orgs -> [Users -> SUBSET Entries]] /\ overtaken' \subseteq Orgs \X Users
    <3>1. AuditAction(req[r].kind) \in Actions
      BY DEF AuditAction, Actions
    <3>2. InsertAudit(r, AuditAction(req[r].kind))
      BY <1>11 DEF Commit
    <3> HIDE DEF o, u
    <3>3. QED
      BY <1>0, <2>1, <3>1, <3>2, InsertAuditTypes DEF o, u
  <2>4. tier' \in [Users -> Tiers \cup {"none"}]
    BY <1>0, <1>11, <2>1 DEF Commit, StoredOK, VaultTier, Tiers
  <2>5. missed' \subseteq {"role", "tier", "remove"} \X Orgs \X Users
    BY <1>0, <1>11, <2>1 DEF Commit, StoredOK, Changes
  <2>6. raced' \in [Requests -> BOOLEAN]
    BY <1>11 DEF Commit, MarkRaced
  <2>7. RequestsOK'
    BY <1>0, <1>11, OneLeaves DEF Commit
  <2>8. QED
    BY <2>2, <2>3, <2>4, <2>5, <2>6, <2>7 DEF StoredOK
<1>12. CASE UNCHANGED vars
  BY <1>0, <1>12 DEF vars, RequestsOK, StoredOK
<1>13. QED
  BY <1>1, <1>2, <1>3, <1>4, <1>5, <1>6, <1>6a, <1>7, <1>8, <1>9, <1>10, <1>11, <1>12
  DEF Next, Act, Step, Fail, DeadlockAbort

\* Every statement of every handler writes values of the columns' types, and a request
\* runs only statements of its own operation.
THEOREM TypeCorrect == Spec => []TypeOK
<1>1. Init => TypeOK
  BY DEF Init, TypeOK, RequestOK, Demands, NoDemand, Labels, Rows, Row, NoRow, Roles, Tiers
<1>2. QED
  BY <1>1, StepTypes, PTL DEF Spec

-----------------------------------------------------------------------------
(* What a step may write.                                                  *)

\* A step that leaves the members and the log alone, and locks a row only in FirstUpdate.
Quiet(r) ==
    /\ UNCHANGED <<member, audit, missed, overtaken>>
    /\ pc'[r] = "last" => FirstUpdate(r)

\* A successful creation.
Founds(r) ==
    LET o == req[r].org
        u == req[r].target
    IN  /\ pc[r] = "insert" /\ ~OrgExists(o)
        /\ member' = [member EXCEPT ![o][u] = Row("owner", "active", "free", FALSE)]
        /\ InsertAudit(r, "organisation.create")
        /\ MarkRaced(r, o) /\ Leave(r) /\ UNCHANGED <<tier, missed>>

\* Every step of a request is of one of three kinds.
LEMMA StepKinds ==
  ASSUME TypeOK, NEW r \in Requests, Act(r)
  PROVE  Quiet(r) \/ Founds(r) \/ Commit(r)
<1>1. pc \in [Requests -> Labels]
  BY DEF TypeOK
<1>2. ASSUME GiveUp(r) PROVE Quiet(r)
  BY <1>1, <1>2 DEF GiveUp, Leave, Goto, Quiet, database
<1>3. CASE RequireOrgAdmin(r)
  BY <1>1, <1>3 DEF RequireOrgAdmin, Goto, Quiet, database
<1>4. CASE AskForOrganization(r)
  BY <1>1, <1>4 DEF AskForOrganization, Goto, Quiet, database
<1>5. CASE SetTier(r)
  BY <1>1, <1>5 DEF SetTier, Leave, Goto, Quiet
<1>6. CASE LoadTarget(r)
  BY <1>1, <1>2, <1>6 DEF LoadTarget, Goto, Quiet, database
<1>7. CASE EnsureVaultUser(r)
  BY <1>1, <1>7 DEF EnsureVaultUser, Goto, Quiet
<1>7a. CASE Begin(r)
  BY <1>1, <1>7a DEF Begin, Goto, Quiet, database
<1>8. CASE InsertOrganization(r)
  BY <1>2, <1>8, Zenon DEF InsertOrganization, SlugTaken, Founds
<1>9. CASE ReadRole(r)
  BY <1>1, <1>2, <1>9 DEF ReadRole, Goto, Quiet, database
<1>10. CASE CountOwners(r)
  BY <1>1, <1>2, <1>10 DEF CountOwners, Goto, Quiet, database
<1>11. CASE FirstUpdate(r)
  BY <1>11 DEF FirstUpdate, Quiet, database
<1>12. QED
  BY <1>2, <1>3, <1>4, <1>5, <1>6, <1>7, <1>7a, <1>8, <1>9, <1>10, <1>11
  DEF Act, Step, Fail, DeadlockAbort

\* A step of r leaves the other requests where they are.
LEMMA OthersStay ==
  ASSUME TypeOK, NEW r \in Requests, Act(r), NEW s \in Requests, s # r
  PROVE  pc'[s] = pc[s] /\ req'[s] = req[s] /\ hit'[s] = hit[s]
<1>1. /\ pc \in [Requests -> Labels] /\ req \in [Requests -> Demands]
      /\ hit \in [Requests -> BOOLEAN]
  BY DEF TypeOK
<1>2. ASSUME Leave(r) PROVE pc'[s] = pc[s] /\ req'[s] = req[s] /\ hit'[s] = hit[s]
  BY <1>1, <1>2 DEF Leave, Goto
<1>3. CASE RequireOrgAdmin(r)
  BY <1>1, <1>3 DEF RequireOrgAdmin, Goto
<1>4. CASE AskForOrganization(r)
  BY <1>1, <1>4 DEF AskForOrganization, Goto
<1>5. CASE SetTier(r) \/ GiveUp(r) \/ Commit(r)
  BY <1>2, <1>5 DEF SetTier, GiveUp, Commit
<1>6. CASE LoadTarget(r)
  BY <1>1, <1>5, <1>6 DEF LoadTarget, Goto
<1>7. CASE EnsureVaultUser(r) \/ Begin(r)
  BY <1>1, <1>7 DEF EnsureVaultUser, Begin, Goto
<1>8. CASE InsertOrganization(r)
  BY <1>2, <1>5, <1>8, Zenon DEF InsertOrganization
<1>9. CASE ReadRole(r)
  BY <1>1, <1>5, <1>9 DEF ReadRole, Goto
<1>10. CASE CountOwners(r)
  BY <1>1, <1>5, <1>10 DEF CountOwners, Goto
<1>11. CASE FirstUpdate(r)
  BY <1>1, <1>11 DEF FirstUpdate, Goto
<1>12. QED
  BY <1>3, <1>4, <1>5, <1>6, <1>7, <1>8, <1>9, <1>10, <1>11
  DEF Act, Step, Fail, DeadlockAbort

\* What a request in its transaction's last step is for.
LEMMA DemandTypes ==
  ASSUME TypeOK, NEW r \in Requests, pc[r] \notin {"new", "done"}
  PROVE  /\ req[r].org \in Orgs /\ req[r].target \in Users
         /\ req[r].role \in Roles /\ req[r].tier \in Tiers
         /\ pc[r] \in {"first", "last"} => req[r].kind \in Changes
         /\ pc[r] = "last" /\ req[r].kind = "add" => hit[r]
BY DEF TypeOK, RequestOK, Demands, NoDemand, Changes

\* The entry that the transaction of r inserts, and the log it joins.
Entry(r, action) == [action |-> action, at |-> began[r]]

CreationEntry(r) == Entry(r, "organisation.create")

Enters(e, o, u) == audit'[o][u] = audit[o][u] \cup {e}

\* An entry joins those on the target of its request, and no others.
LEMMA EntryJoins ==
  ASSUME audit \in [Orgs -> [Users -> SUBSET Entries]], NEW r \in Requests, NEW action,
         req[r].org \in Orgs, req[r].target \in Users, InsertAudit(r, action),
         NEW o \in Orgs, NEW u \in Users
  PROVE  /\ o = req[r].org /\ u = req[r].target => Enters(Entry(r, action), o, u)
         /\ ~(o = req[r].org /\ u = req[r].target) => audit'[o][u] = audit[o][u]
<1>1. audit' = [audit EXCEPT ![req[r].org][req[r].target] = @ \cup {Entry(r, action)}]
  BY DEF InsertAudit, Entry
<1>2. QED
  BY <1>1 DEF Enters

\* The row a commit leaves, and the rows it leaves alone.
LEMMA CommitWrites ==
  ASSUME TypeOK, NEW r \in Requests, Commit(r), NEW o \in Orgs, NEW u \in Users
  PROVE  /\ o = req[r].org /\ u = req[r].target
              => /\ member'[o][u] = IF hit[r] THEN NewRow(member[o][u], req[r]) ELSE member[o][u]
                 /\ Enters(Entry(r, AuditAction(req[r].kind)), o, u)
         /\ ~(o = req[r].org /\ u = req[r].target)
              => member'[o][u] = member[o][u] /\ audit'[o][u] = audit[o][u]
<1>1. /\ member \in [Orgs -> [Users -> Rows]] /\ audit \in [Orgs -> [Users -> SUBSET Entries]]
  BY DEF TypeOK, Entries
<1>2. pc[r] = "last"
  BY DEF Commit
<1>3. req[r].org \in Orgs /\ req[r].target \in Users
  BY <1>2, DemandTypes
<1>4. InsertAudit(r, AuditAction(req[r].kind))
  BY DEF Commit
<1>5. /\ o = req[r].org /\ u = req[r].target
           => Enters(Entry(r, AuditAction(req[r].kind)), o, u)
      /\ ~(o = req[r].org /\ u = req[r].target) => audit'[o][u] = audit[o][u]
  BY <1>1, <1>3, <1>4, EntryJoins
<1>6. QED
  BY <1>1, <1>3, <1>5 DEF Commit

\* The row and the audit entry a creation leaves, and what it leaves alone.
LEMMA FoundsWrites ==
  ASSUME TypeOK, NEW r \in Requests, Founds(r), NEW o \in Orgs, NEW u \in Users
  PROVE  /\ o = req[r].org /\ u = req[r].target
              => /\ member'[o][u] = Row("owner", "active", "free", FALSE)
                 /\ Enters(CreationEntry(r), o, u)
         /\ ~(o = req[r].org /\ u = req[r].target)
              => member'[o][u] = member[o][u] /\ audit'[o][u] = audit[o][u]
<1>1. /\ member \in [Orgs -> [Users -> Rows]] /\ audit \in [Orgs -> [Users -> SUBSET Entries]]
  BY DEF TypeOK, Entries
<1>2. pc[r] = "insert"
  BY DEF Founds
<1>3. req[r].org \in Orgs /\ req[r].target \in Users
  BY <1>2, DemandTypes
<1>4. InsertAudit(r, "organisation.create")
  BY DEF Founds
<1>5. /\ o = req[r].org /\ u = req[r].target
           => Enters(CreationEntry(r), o, u)
      /\ ~(o = req[r].org /\ u = req[r].target) => audit'[o][u] = audit[o][u]
  BY <1>1, <1>3, <1>4, EntryJoins DEF CreationEntry
<1>6. QED
  BY <1>1, <1>3, <1>5 DEF Founds

\* A log changes by one entry, which has the time of the transaction that ends.
LEMMA LogGrows ==
  ASSUME TypeOK, NEW r \in Requests, Act(r), NEW o \in Orgs, NEW u \in Users
  PROVE  \/ audit'[o][u] = audit[o][u]
         \/ (Commit(r) \/ Founds(r)) /\ \E e : Enters(e, o, u) /\ e.at = began[r]
<1>1. CASE Quiet(r)
  BY <1>1 DEF Quiet
<1>2. CASE Commit(r)
  <2>1. audit'[o][u] = audit[o][u] \/ Enters(Entry(r, AuditAction(req[r].kind)), o, u)
    BY <1>2, CommitWrites
  <2>2. Entry(r, AuditAction(req[r].kind)).at = began[r]
    BY DEF Entry
  <2>3. QED
    BY <1>2, <2>1, <2>2
<1>3. CASE Founds(r)
  <2>1. audit'[o][u] = audit[o][u] \/ Enters(CreationEntry(r), o, u)
    BY <1>3, FoundsWrites
  <2>2. CreationEntry(r).at = began[r]
    BY DEF CreationEntry, Entry
  <2>3. QED
    BY <1>3, <2>1, <2>2
<1>4. QED
  BY <1>1, <1>2, <1>3, StepKinds

-----------------------------------------------------------------------------
(* Row locks.                                                              *)

\* At most one transaction holds a row, and a member's row that is held is active.
LocksOK ==
    /\ \A r, s \in Requests, u \in Users : HoldsUser(r, u) /\ HoldsUser(s, u) => r = s
    /\ \A r, s \in Requests, o \in Orgs, u \in Users :
          HoldsMember(r, o, u) /\ HoldsMember(s, o, u) => r = s
    /\ \A r \in Requests, o \in Orgs, u \in Users :
          HoldsMember(r, o, u) => member[o][u].status = "active"

\* A request that comes to hold a row has just written it, and no other held it.
LEMMA NewHolder ==
  ASSUME TypeOK, LocksOK, NEW r \in Requests, Act(r), NEW s \in Requests
  PROVE  /\ \A u \in Users : HoldsUser(s, u)' =>
              HoldsUser(s, u) \/ (s = r /\ \A x \in Requests : ~HoldsUser(x, u))
         /\ \A o \in Orgs, u \in Users : HoldsMember(s, o, u)' =>
              \/ HoldsMember(s, o, u)
              \/ s = r /\ Quiet(r) /\ member[o][u].status = "active"
                 /\ \A x \in Requests : ~HoldsMember(x, o, u)
<1>1. CASE s # r
  BY <1>1, OthersStay DEF HoldsUser, HoldsMember
<1>2. CASE s = r /\ pc'[r] # "last"
  BY <1>2 DEF HoldsUser, HoldsMember
<1>3. CASE s = r /\ pc'[r] = "last"
  <2>1. FirstUpdate(r)
    <3>1. pc \in [Requests -> Labels]
      BY DEF TypeOK
    <3>2. ~Founds(r) /\ ~Commit(r)
      BY <1>3, <3>1 DEF Founds, Commit, Leave, Goto
    <3>3. QED
      BY <1>3, <3>2, StepKinds DEF Quiet
  <2>2. /\ pc[r] = "first" /\ req' = req /\ pc'[r] = "last" /\ Quiet(r)
        /\ hit'[r] = (FirstRow(req[r].kind) = "user" \/ Matches(r))
    BY <1>3, <2>1 DEF FirstUpdate, Quiet, database, TypeOK
  <2>3. \A x \in Requests : x # r =>
           /\ FirstRow(req[r].kind) = "user" => ~HoldsUser(x, req[r].target)
           /\ FirstRow(req[r].kind) = "member" /\ Matches(r)
                => ~HoldsMember(x, req[r].org, req[r].target)
    BY <2>1, <2>2 DEF FirstUpdate, Blocked, WaitsFor, WantsUser, WantsMember
  <2>4. \A u \in Users, o \in Orgs : ~HoldsUser(r, u) /\ ~HoldsMember(r, o, u)
    BY <2>2 DEF HoldsUser, HoldsMember
  <2>5. QED
    BY <1>3, <2>2, <2>3, <2>4 DEF HoldsUser, HoldsMember, Matches, FirstRow
<1>4. QED
  BY <1>1, <1>2, <1>3

\* No other request writes to a member's row that is held.
LEMMA HeldRowStays ==
  ASSUME TypeOK, LocksOK, NEW r \in Requests, Act(r), NEW s \in Requests, s # r,
         NEW o \in Orgs, NEW u \in Users, HoldsMember(s, o, u)
  PROVE  member'[o][u] = member[o][u]
<1>1. member[o][u].status = "active"
  BY DEF LocksOK
<1>2. CASE Quiet(r)
  BY <1>2 DEF Quiet
<1>3. CASE Founds(r)
  BY <1>1, <1>3, FoundsWrites DEF Founds, OrgExists
<1>4. CASE Commit(r)
  <2>1. CASE req[r].kind = "add"
    <3>1. ~(req[r].org = o /\ req[r].target = u)
      BY <1>4, <2>1 DEF Commit, Blocked, WaitsFor, WantsMember, FirstRow
    <3>2. QED
      BY <1>4, <3>1, CommitWrites
  <2>2. CASE req[r].kind # "add" /\ hit[r]
    <3>1. ~(req[r].org = o /\ req[r].target = u)
      BY <1>4, <2>2 DEF Commit, HoldsMember, FirstRow, LocksOK
    <3>2. QED
      BY <1>4, <3>1, CommitWrites
  <2>3. CASE ~hit[r]
    BY <1>4, <2>3, CommitWrites
  <2>4. QED
    BY <2>1, <2>2, <2>3
<1>5. QED
  BY <1>2, <1>3, <1>4, StepKinds

\* Every step keeps a row locked by one transaction at most, and a held member active.
LEMMA StepLocks == TypeOK /\ LocksOK /\ [Next]_vars => LocksOK'
<1> SUFFICES ASSUME TypeOK, LocksOK, [Next]_vars PROVE LocksOK'
  OBVIOUS
<1>1. CASE UNCHANGED vars
  BY <1>1 DEF vars, LocksOK, HoldsUser, HoldsMember
<1>2. ASSUME NEW r \in Requests, Act(r) PROVE LocksOK'
  <2>1. ASSUME NEW s \in Requests, NEW t \in Requests, NEW u \in Users,
               HoldsUser(s, u)', HoldsUser(t, u)'
        PROVE  s = t
    BY <1>2, <2>1, NewHolder DEF LocksOK
  <2>2. ASSUME NEW s \in Requests, NEW t \in Requests, NEW o \in Orgs, NEW u \in Users,
               HoldsMember(s, o, u)', HoldsMember(t, o, u)'
        PROVE  s = t
    BY <1>2, <2>2, NewHolder DEF LocksOK
  <2>3. ASSUME NEW s \in Requests, NEW o \in Orgs, NEW u \in Users, HoldsMember(s, o, u)'
        PROVE  member'[o][u].status = "active"
    <3>1. CASE s = r
      <4>1. Quiet(r)
        <5>1. pc \in [Requests -> Labels] /\ pc'[r] = "last"
          BY <2>3, <3>1 DEF TypeOK, HoldsMember
        <5>2. QED
          BY <1>2, <5>1, StepKinds DEF Founds, Commit, Leave, Goto
      <4>2. member[o][u].status = "active"
        BY <1>2, <2>3, NewHolder DEF LocksOK
      <4>3. QED
        BY <4>1, <4>2 DEF Quiet
    <3>2. CASE s # r
      <4>1. HoldsMember(s, o, u)
        BY <1>2, <2>3, <3>2, NewHolder
      <4>2. QED
        BY <1>2, <3>2, <4>1, HeldRowStays DEF LocksOK
    <3>3. QED
      BY <3>1, <3>2
  <2>4. QED
    BY <2>1, <2>2, <2>3 DEF LocksOK
<1>3. QED
  BY <1>1, <1>2 DEF Next

\* Whatever requests overlap, no two transactions hold one row.
THEOREM LocksAreExclusive == Spec => []LocksOK
<1>1. Init => LocksOK
  BY DEF Init, LocksOK, HoldsUser, HoldsMember
<1>2. QED
  BY <1>1, StepLocks, TypeCorrect, PTL DEF Spec
\* Requests that wait for each other in a circle always include an addition and a
\* change of tier or removal of the same member: the database that ends one of them has
\* ended the deadlock.
THEOREM WaitCycles == Spec => []WaitCyclesPairAddWithMember
<1>1. TypeOK /\ LocksOK => WaitCyclesPairAddWithMember
  <2> SUFFICES ASSUME TypeOK, LocksOK, NEW S \in SUBSET Requests, S # {},
                      \A x \in S : \E y \in S : WaitsFor(x, y)
               PROVE  \E x, y \in S : /\ WaitsFor(x, y) /\ WaitsFor(y, x)
                                     /\ req[x].kind = "add" /\ req[y].kind \in {"tier", "remove"}
    BY DEF WaitCyclesPairAddWithMember
  <2>1. ASSUME NEW x \in S, pc[x] = "last", req[x].kind = "add"
        PROVE  \E y \in S : /\ WaitsFor(x, y) /\ WaitsFor(y, x)
                             /\ req[y].kind \in {"tier", "remove"}
    <3>1. PICK y \in S : WaitsFor(x, y)
      OBVIOUS
    <3>2. /\ HoldsMember(y, req[x].org, req[x].target) /\ pc[y] = "last" /\ x # y
          /\ req[y].target = req[x].target /\ req[y].kind # "add"
      BY <2>1, <3>1 DEF WaitsFor, WantsUser, WantsMember, HoldsMember, FirstRow
    <3>3. PICK z \in S : WaitsFor(y, z)
      OBVIOUS
    <3>4. /\ WantsUser(y) /\ HoldsUser(z, req[y].target)
          /\ req[y].kind \in {"tier", "remove"}
      BY <3>2, <3>3, DemandTypes DEF WaitsFor, WantsUser, WantsMember, FirstRow, Changes
    <3>5. HoldsUser(x, req[y].target)
      BY <2>1, <3>2 DEF HoldsUser, FirstRow
    <3>6. WaitsFor(y, x)
      BY <3>2, <3>4, <3>5 DEF WaitsFor
    <3>7. QED
      BY <3>1, <3>4, <3>6
  <2>2. PICK x \in S : TRUE
    OBVIOUS
  <2>3. PICK y \in S : WaitsFor(x, y)
    OBVIOUS
  <2>4. pc[y] = "last"
    BY <2>3 DEF WaitsFor, HoldsUser, HoldsMember
  <2>5. CASE req[y].kind = "add"
    BY <2>1, <2>4, <2>5
  <2>6. CASE req[y].kind # "add"
    <3>1. PICK z \in S : WaitsFor(y, z)
      OBVIOUS
    <3>2. HoldsUser(z, req[y].target)
      BY <2>4, <2>6, <3>1 DEF WaitsFor, WantsUser, WantsMember, FirstRow
    <3>3. pc[z] = "last" /\ req[z].kind = "add"
      BY <3>2 DEF HoldsUser, FirstRow
    <3>4. QED
      BY <2>1, <3>3
  <2>7. QED
    BY <2>5, <2>6
<1>2. QED
  BY <1>1, TypeCorrect, LocksAreExclusive, PTL

-----------------------------------------------------------------------------
(* The member's row.                                                       *)

\* A commit that found its row, other than an addition, finds it active still.
LEMMA FoundIsActive ==
  ASSUME TypeOK, LocksOK, NEW r \in Requests, Commit(r), hit[r], req[r].kind # "add"
  PROVE  member[req[r].org][req[r].target].status = "active"
<1>1. pc[r] = "last"
  BY DEF Commit
<1>2. req[r].org \in Orgs /\ req[r].target \in Users
  BY <1>1, DemandTypes
<1>3. QED
  BY <1>1, <1>2 DEF LocksOK, HoldsMember, FirstRow

\* Every step keeps the columns of removed rows as a removal writes them: the row an
\* UPDATE found is active until its commit, so only a removal makes a removed row.
LEMMA StepRemovedRows ==
  TypeOK /\ LocksOK /\ RemovedRowsAreFree /\ [Next]_vars => RemovedRowsAreFree'
<1> SUFFICES ASSUME TypeOK, LocksOK, RemovedRowsAreFree, [Next]_vars,
                    NEW o \in Orgs, NEW u \in Users
             PROVE  /\ (member'[o][u].status = "removed") <=> member'[o][u].removedAt
                    /\ member'[o][u].status = "removed" => member'[o][u].assigned = "free"
  BY DEF RemovedRowsAreFree
<1>1. CASE member'[o][u] = member[o][u]
  BY <1>1 DEF RemovedRowsAreFree
<1>2. ASSUME NEW r \in Requests, Founds(r), member'[o][u] # member[o][u] PROVE
          member'[o][u] = Row("owner", "active", "free", FALSE)
  BY <1>2, FoundsWrites
<1>3. ASSUME NEW r \in Requests, Commit(r), member'[o][u] # member[o][u]
      PROVE  /\ (member'[o][u].status = "removed") <=> member'[o][u].removedAt
             /\ member'[o][u].status = "removed" => member'[o][u].assigned = "free"
  <2>1. /\ o = req[r].org /\ u = req[r].target /\ hit[r]
        /\ member'[o][u] = NewRow(member[o][u], req[r])
    BY <1>3, CommitWrites
  <2>2. member[o][u] \in Rows /\ req[r].kind \in Changes
    <3>1. pc[r] = "last"
      BY <1>3 DEF Commit
    <3>2. QED
      BY <3>1, DemandTypes DEF TypeOK
  <2>3. CASE req[r].kind = "add"
    BY <2>1, <2>3 DEF NewRow, AddedRow, Row
  <2>4. CASE req[r].kind = "remove"
    BY <2>1, <2>4 DEF NewRow, RemovedRow, Row
  <2>5. CASE req[r].kind \in {"role", "tier"}
    <3>1. member[o][u].status = "active" /\ ~member[o][u].removedAt
      BY <1>3, <2>1, <2>2, <2>5, FoundIsActive DEF RemovedRowsAreFree, Rows
    <3>2. member'[o][u].status = "active" /\ ~member'[o][u].removedAt
      BY <2>1, <2>5, <3>1, SMTT(30) DEF NewRow, Row
    <3>3. QED
      BY <3>2
  <2>6. QED
    BY <2>2, <2>3, <2>4, <2>5 DEF Changes
<1>4. QED
  BY <1>1, <1>2, <1>3, StepKinds DEF Next, Quiet, vars, Row

\* Whatever overlaps, the row of a removed member says 'free' and carries its removal
\* time, and no other row does.
THEOREM RemovedRows == Spec => []RemovedRowsAreFree
<1>1. Init => RemovedRowsAreFree
  <2>1. NoRow.status # "removed" /\ ~NoRow.removedAt
    BY DEF NoRow, Row
  <2>2. ASSUME Init, NEW o \in Orgs, NEW u \in Users PROVE member[o][u] = NoRow
    <3>1. member = [p \in Orgs |-> [v \in Users |-> NoRow]]
      BY <2>2 DEF Init
    <3>2. QED
      BY <3>1, Zenon
  <2>3. QED
    BY <2>1, <2>2 DEF RemovedRowsAreFree
<1>2. QED
  BY <1>1, StepRemovedRows, TypeCorrect, LocksAreExclusive, PTL DEF Spec

-----------------------------------------------------------------------------
(* The audit log.                                                          *)

\* A request past its role read has a row to work on: rows are never deleted.
RowsStay ==
    \A r \in Requests :
        pc[r] \in {"count", "first", "last"} /\ req[r].kind # "add" =>
            member[req[r].org][req[r].target].status # "absent"

\* Nothing deletes a member's row: the code has no DELETE on organisation_members.
LEMMA RowsPersist ==
  ASSUME TypeOK, LocksOK, [Next]_vars, NEW o \in Orgs, NEW u \in Users,
         member[o][u].status # "absent"
  PROVE  member'[o][u].status # "absent"
<1>1. ASSUME NEW r \in Requests, Founds(r) PROVE member'[o][u].status # "absent"
  BY <1>1, FoundsWrites DEF Row
<1>2. ASSUME NEW r \in Requests, Commit(r) PROVE member'[o][u].status # "absent"
  <2>1. \/ member'[o][u] = member[o][u]
        \/ member'[o][u] = NewRow(member[o][u], req[r])
    BY <1>2, CommitWrites
  <2>2. NewRow(member[o][u], req[r]).status # "absent"
    BY DEF NewRow, AddedRow, RemovedRow, Row
  <2>3. QED
    BY <2>1, <2>2
<1>3. QED
  BY <1>1, <1>2, StepKinds DEF Next, Quiet, vars

\* How a request comes to its last two statements.
LEMMA IntoTransaction ==
  ASSUME TypeOK, NEW r \in Requests, Act(r), pc'[r] \in {"count", "first", "last"}
  PROVE  /\ req'[r] = req[r] /\ raced' = raced /\ UNCHANGED <<member, audit, missed>>
         /\ \/ pc[r] = "begin" /\ pc'[r] = "first" /\ req[r].kind = "add"
            \/ pc[r] = "read" /\ ReadRole(r) /\ ActiveRole(req[r].org, req[r].target) # ""
            \/ pc[r] = "count" /\ pc'[r] = "first" /\ AnotherOwner(req[r].org)
            \/ pc[r] = "first" /\ pc'[r] = "last"
<1>1. /\ pc \in [Requests -> Labels] /\ req \in [Requests -> Demands]
      /\ pc[r] = "begin" => req[r].kind \in {"create", "add", "role", "tier", "remove"}
  BY DEF TypeOK, RequestOK
<1>2. ~Leave(r)
  BY <1>1 DEF Leave, Goto
<1>3. ~GiveUp(r) /\ ~Commit(r) /\ ~SetTier(r)
  BY <1>2 DEF GiveUp, Commit, SetTier
<1>4. ~RequireOrgAdmin(r) /\ ~AskForOrganization(r) /\ ~InsertOrganization(r)
  BY <1>1, <1>2, <1>3 DEF RequireOrgAdmin, AskForOrganization, InsertOrganization, Goto
<1>5. ~LoadTarget(r) /\ ~EnsureVaultUser(r)
  BY <1>1, <1>3 DEF LoadTarget, EnsureVaultUser, Goto
<1>6. CASE Begin(r)
  BY <1>1, <1>6 DEF Begin, Goto, database
<1>7. CASE ReadRole(r)
  BY <1>1, <1>3, <1>7 DEF ReadRole, database
<1>8. CASE CountOwners(r)
  BY <1>1, <1>3, <1>8 DEF CountOwners, Goto, database
<1>9. CASE FirstUpdate(r)
  BY <1>1, <1>9 DEF FirstUpdate, Goto, database
<1>10. QED
  BY <1>3, <1>4, <1>5, <1>6, <1>7, <1>8, <1>9 DEF Act, Step, Fail, DeadlockAbort

\* Where a request has a transaction open.
InTransaction == {"insert", "read", "count", "first", "last"}

\* A transaction is opened by Begin, and has its time from there on.
LEMMA ToTransaction ==
  ASSUME TypeOK, NEW r \in Requests, Act(r), pc'[r] \in InTransaction
  PROVE  \/ Begin(r)
         \/ pc[r] \in InTransaction \ {"insert"} /\ pc'[r] \in {"count", "first", "last"}
            /\ UNCHANGED began
<1>1. pc \in [Requests -> Labels]
  BY DEF TypeOK
<1>2. ~Leave(r)
  BY <1>1 DEF Leave, Goto, InTransaction
<1>3. ~GiveUp(r) /\ ~Commit(r) /\ ~SetTier(r)
  BY <1>2 DEF GiveUp, Commit, SetTier
<1>4. ~RequireOrgAdmin(r) /\ ~AskForOrganization(r) /\ ~InsertOrganization(r)
  BY <1>1, <1>2, <1>3 DEF RequireOrgAdmin, AskForOrganization, InsertOrganization, Goto, InTransaction
<1>5. ~LoadTarget(r) /\ ~EnsureVaultUser(r)
  BY <1>1, <1>3 DEF LoadTarget, EnsureVaultUser, Goto, InTransaction
<1>6. CASE ReadRole(r) \/ CountOwners(r) \/ FirstUpdate(r)
  BY <1>1, <1>3, <1>6 DEF ReadRole, CountOwners, FirstUpdate, Goto, InTransaction
<1>7. QED
  BY <1>3, <1>4, <1>5, <1>6 DEF Act, Step, Fail, DeadlockAbort

\* Every step keeps the row that a transaction under way has read in existence.
LEMMA StepRowsStay == TypeOK /\ LocksOK /\ RowsStay /\ [Next]_vars => RowsStay'
<1> SUFFICES ASSUME TypeOK, LocksOK, RowsStay, [Next]_vars, NEW s \in Requests,
                    pc'[s] \in {"count", "first", "last"}, req'[s].kind # "add"
             PROVE  member'[req'[s].org][req'[s].target].status # "absent"
  BY DEF RowsStay
<1>1. CASE UNCHANGED vars
  BY <1>1 DEF vars, RowsStay
<1>2. ASSUME NEW r \in Requests, Act(r), r # s
      PROVE  member'[req'[s].org][req'[s].target].status # "absent"
  <2>1. pc'[s] = pc[s] /\ req'[s] = req[s]
    BY <1>2, OthersStay
  <2>2. member[req[s].org][req[s].target].status # "absent"
    BY <2>1 DEF RowsStay
  <2>3. req[s].org \in Orgs /\ req[s].target \in Users
    BY <2>1, DemandTypes
  <2>4. QED
    BY <2>1, <2>2, <2>3, RowsPersist
<1>3. ASSUME Act(s) PROVE member'[req'[s].org][req'[s].target].status # "absent"
  <2>1. req'[s] = req[s] /\ member' = member
    BY <1>3, IntoTransaction
  <2>2. member[req[s].org][req[s].target].status # "absent"
    BY <1>3, <2>1, IntoTransaction DEF RowsStay, ActiveRole
  <2>3. QED
    BY <2>1, <2>2
<1>4. QED
  BY <1>1, <1>2, <1>3 DEF Next

\* A new entry in a log: one about membership that is newer than the others about it is
\* the latest of them, and one about something else changes nothing.
LEMMA LatestJoins ==
  ASSUME NEW log \in SUBSET Entries, NEW e \in Entries, NEW A \in SUBSET Membership
  PROVE  /\ e.action \in A /\ (\A f \in log : f.action \in Membership => f.at < e.at)
              => LatestIn(log \cup {e}, A)
         /\ e.action \notin Membership /\ LatestIn(log, A) => LatestIn(log \cup {e}, A)
BY DEF LatestIn, Entries

\* What a membership entry does to a log: it is the latest unless it was overtaken.
LEMMA NotOvertaken ==
  ASSUME TypeOK, NEW r \in Requests, NEW action \in Membership, InsertAudit(r, action),
         NEW o \in Orgs, NEW u \in Users, o = req[r].org, u = req[r].target,
         <<o, u>> \notin overtaken', NEW A \in SUBSET Membership, action \in A
  PROVE  LatestIn(audit[o][u] \cup {Entry(r, action)}, A)
<1>1. audit[o][u] \in SUBSET Entries /\ began[r] \in Nat
  BY DEF TypeOK, Entries
<1>2. \A f \in audit[o][u] : f.action \in Membership => ~(f.at >= began[r])
  BY DEF InsertAudit
<1>3. /\ Entry(r, action) \in Entries /\ Entry(r, action).action = action
      /\ Entry(r, action).at = began[r]
  BY <1>1 DEF Entry, Entries, Actions, Membership
<1>4. PICK e \in Entries : e = Entry(r, action) /\ e.action = action /\ e.at = began[r]
  BY <1>3
<1>5. \A f \in audit[o][u] : f.action \in Membership => f.at < e.at
  BY <1>1, <1>2, <1>4 DEF Entries
<1>6. LatestIn(audit[o][u] \cup {e}, A)
  BY <1>1, <1>4, <1>5 DEF LatestIn, Entries
<1>7. QED
  BY <1>4, <1>6

\* A transaction's write to overtaken is about its own target.
LEMMA OvertakenElsewhere ==
  ASSUME NEW r \in Requests, NEW action, InsertAudit(r, action), NEW o \in Orgs, NEW u \in Users,
         ~(o = req[r].org /\ u = req[r].target) \/ action \notin Membership
  PROVE  <<o, u>> \in overtaken' <=> <<o, u>> \in overtaken
BY DEF InsertAudit

\* Every step keeps the audit log in agreement with the members' status.
LEMMA StepLog ==
  TypeOK /\ LocksOK /\ RowsStay /\ LogTellsStatus /\ [Next]_vars => LogTellsStatus'
<1> DEFINE Joined == {"organisation.create", "member.add"}
           Told(status, log, late, m) ==
             /\ status = "absent" => \A e \in log : e.action \notin Membership
             /\ status = "removed" => \E e \in log : e.action = "member.remove"
             /\ status = "removed" /\ ~late => LatestIn(log, {"member.remove"})
             /\ status = "active" /\ ~late /\ ~m => LatestIn(log, Joined)
           Late(o, u) == <<o, u>> \in overtaken
           Missed(o, u) == <<"remove", o, u>> \in missed
<1> SUFFICES ASSUME TypeOK, LocksOK, RowsStay, LogTellsStatus, [Next]_vars,
                    NEW o \in Orgs, NEW u \in Users
             PROVE  Told(member'[o][u].status, audit'[o][u], Late(o, u)', Missed(o, u)')
  BY DEF LogTellsStatus
<1>1. Told(member[o][u].status, audit[o][u], Late(o, u), Missed(o, u))
  BY DEF LogTellsStatus
<1>2. audit[o][u] \in SUBSET Entries /\ member[o][u] \in Rows
  BY DEF TypeOK, Entries
<1>3. {"member.remove"} \in SUBSET Membership /\ Joined \in SUBSET Membership
  BY DEF Membership
<1>4. CASE /\ member'[o][u].status = member[o][u].status /\ audit'[o][u] = audit[o][u]
           /\ Late(o, u)' <=> Late(o, u)
           /\ Missed(o, u) => Missed(o, u)'
  <2> HIDE DEF Joined, Late, Missed
  <2> QED
    BY <1>1, <1>4
<1>5. ASSUME NEW r \in Requests, Founds(r)
      PROVE  Told(member'[o][u].status, audit'[o][u], Late(o, u)', Missed(o, u)')
  <2>1. InsertAudit(r, "organisation.create") /\ missed' = missed
    BY <1>5 DEF Founds
  <2>2. CASE ~(o = req[r].org /\ u = req[r].target)
    <3>1. member'[o][u] = member[o][u] /\ audit'[o][u] = audit[o][u] /\ (Late(o, u)' <=> Late(o, u))
      BY <1>5, <2>1, <2>2, FoundsWrites, OvertakenElsewhere
    <3>2. QED
      BY <1>4, <2>1, <3>1
  <2>3. CASE o = req[r].org /\ u = req[r].target
    <3>1. member'[o][u] = Row("owner", "active", "free", FALSE)
      BY <1>5, <2>3, FoundsWrites
    <3>2. audit'[o][u] = audit[o][u] \cup {CreationEntry(r)}
      <4>1. Enters(CreationEntry(r), o, u)
        BY <1>5, <2>3, FoundsWrites
      <4>2. QED
        BY <4>1 DEF Enters
    <3>3. ~Late(o, u)' => LatestIn(audit'[o][u], Joined)
      BY <1>3, <2>1, <2>3, <3>2, NotOvertaken DEF Membership, CreationEntry
    <3>4. member'[o][u].status = "active"
      BY <3>1 DEF Row
    <3>5. QED
      BY <3>3, <3>4
  <2>4. QED
    BY <2>2, <2>3
<1>6. ASSUME NEW r \in Requests, Commit(r)
      PROVE  Told(member'[o][u].status, audit'[o][u], Late(o, u)', Missed(o, u)')
  <2> DEFINE k == req[r].kind
             a == AuditAction(k)
  <2>1. pc[r] = "last" /\ InsertAudit(r, a)
    BY <1>6 DEF Commit
  <2>2. k \in Changes /\ (k = "add" => hit[r]) /\ missed \subseteq missed'
    BY <1>6, <2>1, DemandTypes DEF Commit
  <2>3. CASE ~(o = req[r].org /\ u = req[r].target)
    <3>1. member'[o][u] = member[o][u] /\ audit'[o][u] = audit[o][u] /\ (Late(o, u)' <=> Late(o, u))
      BY <1>6, <2>1, <2>3, CommitWrites, OvertakenElsewhere
    <3>2. QED
      BY <1>4, <2>2, <3>1
  <2>4. CASE o = req[r].org /\ u = req[r].target
    <3>0. Enters(Entry(r, a), o, u)
      BY <1>6, <2>4, CommitWrites
    <3>1. /\ audit'[o][u] = audit[o][u] \cup {Entry(r, a)}
          /\ member'[o][u] = IF hit[r] THEN NewRow(member[o][u], req[r]) ELSE member[o][u]
      BY <1>6, <2>4, <3>0, CommitWrites DEF Enters
    <3>2. /\ a \in Actions
          /\ a \in Membership <=> k \in {"add", "remove"}
          /\ k = "add" => a = "member.add"
          /\ k = "remove" => a = "member.remove"
          /\ Entry(r, a) \in Entries /\ Entry(r, a).action = a
      BY <2>2 DEF AuditAction, Actions, Membership, Changes, Entry, Entries, TypeOK
    <3> HIDE DEF a
    <3>3. CASE k = "add"
      <4>1. member'[o][u].status = "active"
        BY <2>2, <3>1, <3>3 DEF NewRow, AddedRow, Row
      <4>2. ~Late(o, u)' => LatestIn(audit'[o][u], Joined)
        BY <1>3, <2>1, <2>4, <3>1, <3>2, <3>3, NotOvertaken
      <4>3. QED
        BY <4>1, <4>2
    <3>4. CASE k = "remove"
      <4>1. ~Late(o, u)' => LatestIn(audit'[o][u], {"member.remove"})
        BY <1>3, <2>1, <2>4, <3>1, <3>2, <3>4, NotOvertaken
      <4>2. \E e \in audit'[o][u] : e.action = "member.remove"
        BY <3>1, <3>2, <3>4
      <4>3. CASE hit[r]
        <5>1. member'[o][u].status = "removed"
          BY <3>1, <3>4, <4>3 DEF NewRow, RemovedRow, Row
        <5>2. QED
          BY <4>1, <4>2, <5>1
      <4>4. CASE ~hit[r]
        <5>1. member'[o][u].status # "absent"
          BY <2>1, <2>4, <3>1, <3>4, <4>4 DEF RowsStay
        <5>2. Missed(o, u)'
          BY <1>6, <2>4, <3>4, <4>4 DEF Commit
        <5>3. QED
          BY <4>1, <4>2, <5>1, <5>2
      <4>5. QED
        BY <4>3, <4>4
    <3>5. CASE k \in {"role", "tier"}
      <4>1. member'[o][u].status = member[o][u].status
        BY <3>1, <3>5 DEF NewRow, Row
      <4>2. a \notin Membership /\ (Late(o, u)' <=> Late(o, u))
        BY <2>1, <3>2, <3>5, OvertakenElsewhere
      <4>3. /\ LatestIn(audit[o][u], {"member.remove"})
                 => LatestIn(audit'[o][u], {"member.remove"})
            /\ LatestIn(audit[o][u], Joined) => LatestIn(audit'[o][u], Joined)
        <5>1. PICK e \in Entries : e = Entry(r, a) /\ e.action \notin Membership
          BY <3>2, <4>2
        <5>2. \A A \in SUBSET Membership : LatestIn(audit[o][u], A) => LatestIn(audit[o][u] \cup {e}, A)
          BY <1>2, <5>1, LatestJoins
        <5> HIDE DEF Joined
        <5>3. QED
          BY <1>3, <3>1, <5>1, <5>2
      <4>4. /\ (\A e \in audit[o][u] : e.action \notin Membership)
                 => \A e \in audit'[o][u] : e.action \notin Membership
            /\ (\E e \in audit[o][u] : e.action = "member.remove")
                 => \E e \in audit'[o][u] : e.action = "member.remove"
        BY <3>1, <3>2, <4>2
      <4>5. Missed(o, u) => Missed(o, u)'
        BY <2>2
      <4> HIDE DEF Late, Missed, Joined
      <4>6. QED
        BY <1>1, <4>1, <4>2, <4>3, <4>4, <4>5
    <3>6. QED
      BY <2>2, <3>3, <3>4, <3>5 DEF Changes
  <2>5. QED
    BY <2>3, <2>4
<1>7. QED
  BY <1>4, <1>5, <1>6, StepKinds DEF Next, Quiet, vars

\* Whatever requests overlap, the audit log read by its times tells every member's status,
\* but where the transaction that settled it began before another that is entered, or a
\* duplicate removal committed without finding its row.
THEOREM LogIsTrue == Spec => []LogTellsStatus
<1>1. Init => RowsStay
  BY DEF Init, RowsStay
<1>2. Init => LogTellsStatus
  <2>1. NoRow.status = "absent"
    BY DEF NoRow, Row
  <2>2. ASSUME Init, NEW o \in Orgs, NEW u \in Users
        PROVE  member[o][u] = NoRow /\ audit[o][u] = {}
    <3>1. /\ member = [p \in Orgs |-> [v \in Users |-> NoRow]]
          /\ audit = [p \in Orgs |-> [v \in Users |-> {}]]
      BY <2>2 DEF Init
    <3>2. QED
      BY <3>1, Zenon
  <2>3. QED
    BY <2>1, <2>2 DEF LogTellsStatus
<1>3. QED
  BY <1>1, <1>2, StepRowsStay, StepLog, TypeCorrect, LocksAreExclusive, PTL DEF Spec

\* Of the requests that race for a slug one founds the organisation.
THEOREM OneCreation == Spec => []OneFounder
<1>1. Init => OneFounder
  <2>1. ASSUME Init, NEW o \in Orgs, NEW u \in Users PROVE audit[o][u] = {}
    <3>1. audit = [p \in Orgs |-> [v \in Users |-> {}]]
      BY <2>1 DEF Init
    <3>2. QED
      BY <3>1, Zenon
  <2>2. QED
    BY <2>1 DEF OneFounder
<1>2. TypeOK /\ LogTellsStatus /\ OneFounder /\ [Next]_vars => OneFounder'
  <2> DEFINE created == "organisation.create"
             Creations(o, u) == {e \in audit[o][u] : e.action = created}
  <2> SUFFICES ASSUME TypeOK, LogTellsStatus, OneFounder, [Next]_vars,
                      NEW o \in Orgs, NEW u \in Users, NEW v \in Users,
                      NEW e \in Creations(o, u)', NEW f \in Creations(o, v)'
               PROVE  u = v /\ e = f
    BY DEF OneFounder
  <2>1. ASSUME \A w \in Users : Creations(o, w)' \subseteq Creations(o, w) PROVE u = v /\ e = f
    BY <2>1 DEF OneFounder
  <2>2. ASSUME NEW r \in Requests, Commit(r), NEW w \in Users
        PROVE  Creations(o, w)' \subseteq Creations(o, w)
    <3>1. Entry(r, AuditAction(req[r].kind)).action # created
      BY DEF AuditAction, Entry
    <3>2. QED
      BY <2>2, <3>1, CommitWrites DEF Enters
  <2>3. ASSUME NEW r \in Requests, Founds(r) PROVE u = v /\ e = f
    <3>1. CASE o # req[r].org
      <4>1. \A w \in Users : audit'[o][w] = audit[o][w]
        BY <2>3, <3>1, FoundsWrites
      <4>2. QED
        BY <2>1, <4>1
    <3>2. CASE o = req[r].org
      <4>1. \A w \in Users : member[o][w].status = "absent"
        BY <2>3, <3>2 DEF Founds, OrgExists
      <4>2. \A w \in Users : Creations(o, w) = {}
        BY <4>1 DEF LogTellsStatus, Membership
      <4>3. \A w \in Users : Creations(o, w)' \subseteq
                                IF w = req[r].target THEN {CreationEntry(r)} ELSE {}
        <5>1. \A w \in Users :
                 \/ audit'[o][w] = audit[o][w]
                 \/ w = req[r].target /\ audit'[o][w] = audit[o][w] \cup {CreationEntry(r)}
          <6>1. \A w \in Users : audit'[o][w] = audit[o][w]
                                    \/ (w = req[r].target /\ Enters(CreationEntry(r), o, w))
            BY <2>3, <3>2, FoundsWrites
          <6>2. QED
            BY <6>1 DEF Enters
        <5>2. QED
          BY <4>2, <5>1
      <4>4. QED
        BY <4>3
    <3>3. QED
      BY <3>1, <3>2
  <2>4. QED
    BY <2>1, <2>2, <2>3, StepKinds DEF Next, Quiet, vars
<1>3. QED
  BY <1>1, <1>2, TypeCorrect, LogIsTrue, PTL DEF Spec

-----------------------------------------------------------------------------
(* Owners and ranks.                                                       *)

\* A request that has checked its target is told of every change of the organisation's
\* rows that another request commits.
LEMMA RaceIsMarked ==
  ASSUME TypeOK, NEW r \in Requests, Act(r), NEW s \in Requests, s # r, pc[s] \in Checked
  PROVE  \/ raced'[s]
         \/ raced'[s] = raced[s] /\ \A u \in Users : member'[req[s].org][u] = member[req[s].org][u]
<1>1. req[s].org \in Orgs
  BY DemandTypes DEF Checked
<1>2. raced \in [Requests -> BOOLEAN]
  BY DEF TypeOK
<1>3. ASSUME UNCHANGED member, raced'[s] = raced[s]
      PROVE  raced'[s] = raced[s] /\ \A u \in Users : member'[req[s].org][u] = member[req[s].org][u]
  BY <1>3
<1>4. ASSUME GiveUp(r) PROVE UNCHANGED member /\ raced'[s] = raced[s]
  BY <1>2, <1>4 DEF GiveUp, database
<1>5. CASE RequireOrgAdmin(r)
  BY <1>3, <1>5 DEF RequireOrgAdmin, database
<1>6. CASE AskForOrganization(r)
  BY <1>3, <1>6 DEF AskForOrganization, database
<1>7. CASE SetTier(r) \/ EnsureVaultUser(r) \/ Begin(r)
  BY <1>3, <1>7 DEF SetTier, EnsureVaultUser, Begin, database
<1>8. CASE LoadTarget(r)
  BY <1>3, <1>4, <1>8 DEF LoadTarget, database
<1>9. CASE ReadRole(r)
  BY <1>3, <1>4, <1>9 DEF ReadRole, database
<1>10. CASE CountOwners(r)
  BY <1>3, <1>4, <1>10 DEF CountOwners, database
<1>11. CASE FirstUpdate(r)
  BY <1>3, <1>11 DEF FirstUpdate, database
<1>12. ASSUME NEW o \in Orgs, MarkRaced(r, o), o = req[s].org PROVE raced'[s]
  BY <1>12 DEF MarkRaced, Checked
<1>13. ASSUME NEW o \in Orgs, MarkRaced(r, o), o # req[s].org PROVE raced'[s] = raced[s]
  BY <1>2, <1>13 DEF MarkRaced
<1>14. CASE Commit(r)
  <2>1. pc[r] = "last" /\ MarkRaced(r, req[r].org)
    BY <1>14 DEF Commit
  <2>2. req[r].org \in Orgs
    BY <2>1, DemandTypes
  <2>3. CASE req[r].org = req[s].org
    BY <1>12, <2>1, <2>2, <2>3
  <2>4. CASE req[r].org # req[s].org
    BY <1>1, <1>13, <1>14, <2>1, <2>2, <2>4, CommitWrites
  <2>5. QED
    BY <2>3, <2>4
<1>15. CASE Founds(r)
  <2>1. pc[r] = "insert" /\ MarkRaced(r, req[r].org)
    BY <1>15 DEF Founds
  <2>2. req[r].org \in Orgs
    BY <2>1, DemandTypes
  <2>3. CASE req[r].org = req[s].org
    BY <1>12, <2>1, <2>2, <2>3
  <2>4. CASE req[r].org # req[s].org
    BY <1>1, <1>13, <1>15, <2>1, <2>2, <2>4, FoundsWrites
  <2>5. QED
    BY <2>3, <2>4
<1>16. CASE InsertOrganization(r)
  BY <1>3, <1>4, <1>15, <1>16, Zenon DEF InsertOrganization, SlugTaken, Founds
<1>17. QED
  BY <1>3, <1>4, <1>5, <1>6, <1>7, <1>8, <1>9, <1>10, <1>11, <1>14, <1>16
  DEF Act, Step, Fail, DeadlockAbort

TakesOwner(d) == d.kind = "remove" \/ (d.kind = "role" /\ d.role # "owner")

\* Until another request changes the organisation, a demotion or removal that has
\* passed ensureAnotherOwnerTx leaves the organisation an owner other than its target.
OtherOwner(r) ==
    \/ ActiveRole(req[r].org, req[r].target) # "owner"
    \/ \E v \in Users \ {req[r].target} : ActiveRole(req[r].org, v) = "owner"

OwnersCounted ==
    \A r \in Requests :
        pc[r] \in {"first", "last"} /\ TakesOwner(req[r]) /\ ~raced[r] => OtherOwner(r)

\* Every step keeps what ensureAnotherOwnerTx counted, for the requests that no commit
\* of another has marked as raced.
LEMMA StepOwnersCounted == TypeOK /\ OwnersCounted /\ [Next]_vars => OwnersCounted'
<1> SUFFICES ASSUME TypeOK, OwnersCounted, [Next]_vars, NEW s \in Requests,
                    pc'[s] \in {"first", "last"}, TakesOwner(req'[s]), ~raced'[s]
             PROVE  OtherOwner(s)'
  BY DEF OwnersCounted, TakesOwner
<1> DEFINE o == req[s].org
           u == req[s].target
<1>1. ASSUME OtherOwner(s), req'[s] = req[s], u \in Users,
             \A w \in Users : member'[o][w] = member[o][w]
      PROVE  OtherOwner(s)'
  BY <1>1 DEF OtherOwner, ActiveRole
<1>2. CASE UNCHANGED vars
  BY <1>2 DEF vars, OwnersCounted, OtherOwner, TakesOwner, ActiveRole
<1>3. ASSUME NEW r \in Requests, Act(r), r # s
      PROVE  OtherOwner(s) /\ req'[s] = req[s] /\ u \in Users /\ \A w \in Users : member'[o][w] = member[o][w]
  <2>1. pc'[s] = pc[s] /\ req'[s] = req[s]
    BY <1>3, OthersStay
  <2>2. ~raced[s] /\ \A w \in Users : member'[o][w] = member[o][w]
    BY <1>3, <2>1, RaceIsMarked DEF Checked
  <2>3. OtherOwner(s)
    BY <2>1, <2>2 DEF OwnersCounted
  <2>4. u \in Users
    BY <2>1, DemandTypes
  <2>5. QED
    BY <2>1, <2>2, <2>3, <2>4
<1>4. ASSUME Act(s)
      PROVE  OtherOwner(s) /\ req'[s] = req[s] /\ u \in Users /\ \A w \in Users : member'[o][w] = member[o][w]
  <2>1. /\ req'[s] = req[s] /\ raced' = raced /\ UNCHANGED member
        /\ \/ req[s].kind = "add"
           \/ ReadRole(s) /\ pc[s] = "read" /\ ActiveRole(o, u) # ""
           \/ pc[s] = "count" /\ AnotherOwner(o)
           \/ pc[s] = "first"
    BY <1>4, IntoTransaction
  <2>2. pc[s] \notin {"new", "done"}
    BY <2>1 DEF TypeOK, RequestOK, NoDemand, TakesOwner
  <2>3. o \in Orgs /\ u \in Users
    BY <2>2, DemandTypes
  <2>4. OtherOwner(s)
    <3>1. CASE req[s].kind = "add"
      BY <2>1, <3>1 DEF TakesOwner
    <3>2. CASE ReadRole(s) /\ pc[s] = "read" /\ ActiveRole(o, u) # ""
      <4>1. ~GiveUp(s)
        BY <2>1, <2>2 DEF GiveUp, Leave, Goto, TypeOK
      <4>2. pc'[s] # "count" /\ pc[s] \in Labels
        BY DEF TypeOK
      <4>3. QED
        BY <2>1, <3>2, <4>1, <4>2 DEF ReadRole, Goto, TakesOwner, TypeOK, OtherOwner
    <3>3. CASE AnotherOwner(o)
      BY <2>3, <3>3 DEF AnotherOwner, OtherOwner
    <3>4. CASE pc[s] = "first"
      BY <2>1, <3>4 DEF OwnersCounted
    <3>5. QED
      BY <2>1, <3>1, <3>2, <3>3, <3>4
  <2>5. QED
    BY <2>1, <2>3, <2>4
<1>5. QED
  BY <1>1, <1>2, <1>3, <1>4 DEF Next

\* An undisturbed request that is to take an owner away still has another owner beside
\* it, to its commit.
LEMMA OwnersAreCounted == Spec => []OwnersCounted
<1>1. Init => OwnersCounted
  BY DEF Init, OwnersCounted
<1>2. QED
  BY <1>1, StepOwnersCounted, TypeCorrect, PTL DEF Spec

\* A demotion or removal takes an organisation's last owner only when another request
\* changed the organisation while it ran; alone, an addition is what can do it.
THEOREM LastOwner == Spec => LastOwnerUnlessRaced
<1> DEFINE Culprit(o) == \E r \in Requests :
                             /\ pc[r] = "last" /\ pc'[r] = "done" /\ req[r].org = o
                             /\ req[r].kind = "add" \/ raced[r]
<1>1. TypeOK /\ LocksOK /\ OwnersCounted /\ [Next]_vars =>
          [\A o \in Orgs : HasOwner(o) /\ ~HasOwner(o)' => Culprit(o)]_vars
  <2> SUFFICES ASSUME TypeOK, LocksOK, OwnersCounted, NEW r \in Requests, Act(r),
                      NEW o \in Orgs, HasOwner(o), ~HasOwner(o)'
               PROVE  Culprit(o)
    BY DEF Next
  <2>1. PICK v \in Users : ActiveRole(o, v) = "owner"
    BY DEF HasOwner
  <2>2. \A w \in Users : member'[o][w] = member[o][w] => ActiveRole(o, w)' = ActiveRole(o, w)
    BY DEF ActiveRole
  <2>3. \A w \in Users : ActiveRole(o, w) = "owner" => member'[o][w] # member[o][w]
    BY <2>2 DEF HasOwner
  <2>4. Commit(r) /\ req[r].org = o /\ hit[r]
    <3>1. ~Quiet(r)
      BY <2>1, <2>3 DEF Quiet
    <3>2. ~Founds(r)
      <4>1. member[o][v].status = "active"
        BY <2>1 DEF ActiveRole
      <4>2. Founds(r) => o # req[r].org
        BY <4>1 DEF Founds, OrgExists
      <4>3. QED
        BY <2>1, <2>3, <4>2, FoundsWrites
    <3>3. QED
      BY <2>1, <2>3, <3>1, <3>2, StepKinds, CommitWrites
  <2>5. pc[r] = "last" /\ pc'[r] = "done"
    BY <2>4 DEF Commit, Leave, Goto, TypeOK
  <2>6. SUFFICES ASSUME req[r].kind # "add", ~raced[r] PROVE FALSE
    BY <2>4, <2>5
  <2>7. PICK u \in Users : u = req[r].target /\ req[r].kind \in Changes
    BY <2>5, DemandTypes
  <2>8. /\ member'[o][u] = NewRow(member[o][u], req[r])
        /\ \A w \in Users \ {u} : member'[o][w] = member[o][w]
    BY <2>4, <2>7, CommitWrites
  <2>9. ActiveRole(o, u) = "owner"
    BY <2>1, <2>3, <2>8
  <2>10. member[o][u].status = "active" /\ member[o][u].role = "owner"
    BY <2>9 DEF ActiveRole
  <2>11. CASE TakesOwner(req[r])
    <3>1. \E w \in Users \ {u} : ActiveRole(o, w) = "owner"
      BY <2>4, <2>5, <2>6, <2>7, <2>9, <2>11 DEF OwnersCounted, OtherOwner
    <3>2. QED
      BY <2>3, <2>8, <3>1
  <2>12. CASE ~TakesOwner(req[r])
    <3>1. req[r].kind = "tier" \/ (req[r].kind = "role" /\ req[r].role = "owner")
      BY <2>6, <2>7, <2>12 DEF TakesOwner, Changes
    <3>2. member'[o][u].status = "active" /\ member'[o][u].role = "owner"
      BY <2>8, <2>10, <3>1 DEF NewRow, Row
    <3>3. ActiveRole(o, u)' = "owner"
      BY <3>2 DEF ActiveRole
    <3>4. QED
      BY <2>7, <3>3 DEF HasOwner
  <2>13. QED
    BY <2>11, <2>12
<1>2. QED
  BY <1>1, TypeCorrect, LocksAreExclusive, OwnersAreCounted, PTL DEF Spec, LastOwnerUnlessRaced

\* A change of a member's row comes to db.Begin() by the check of its target.
LEMMA ToBegin ==
  ASSUME TypeOK, NEW s \in Requests, Act(s), pc'[s] = "begin",
         req'[s].kind \in {"role", "tier", "remove"}
  PROVE  LoadTarget(s) /\ ~GiveUp(s)
<1>1. pc \in [Requests -> Labels] /\ (pc[s] = "ensure" => req[s].kind \in {"create", "add"})
  BY DEF TypeOK, RequestOK
<1>2. ~Leave(s)
  BY <1>1 DEF Leave, Goto
<1>3. ~GiveUp(s) /\ ~Commit(s) /\ ~SetTier(s)
  BY <1>2 DEF GiveUp, Commit, SetTier
<1>4. ~RequireOrgAdmin(s) /\ ~AskForOrganization(s) /\ ~InsertOrganization(s)
  BY <1>1, <1>2, <1>3 DEF RequireOrgAdmin, AskForOrganization, InsertOrganization, Goto
<1>5. ~EnsureVaultUser(s) /\ ~CountOwners(s) /\ ~FirstUpdate(s)
  BY <1>1, <1>3 DEF EnsureVaultUser, CountOwners, FirstUpdate, Goto
<1>6. ~ReadRole(s) /\ ~Begin(s)
  BY <1>1, <1>3 DEF ReadRole, Begin, Goto
<1>7. QED
  BY <1>3, <1>4, <1>5, <1>6 DEF Act, Step, Fail, DeadlockAbort

\* Until another request changes the organisation, the row an administrator's request
\* has checked is that of a plain member.
RankChecked ==
    \A r \in Requests :
        /\ pc[r] \in Checked /\ req[r].kind \in {"role", "tier", "remove"}
        /\ req[r].actorRole = "admin" /\ ~raced[r]
        => ActiveRole(req[r].org, req[r].target) = "member"

\* Every step keeps what CanManageOrgMember checked, for the requests that no commit of
\* another has marked as raced.
LEMMA StepRankChecked == TypeOK /\ RankChecked /\ [Next]_vars => RankChecked'
<1> SUFFICES ASSUME TypeOK, RankChecked, [Next]_vars, NEW s \in Requests,
                    pc'[s] \in Checked, req'[s].kind \in {"role", "tier", "remove"},
                    req'[s].actorRole = "admin", ~raced'[s]
             PROVE  (ActiveRole(req[s].org, req[s].target) = "member")'
  BY DEF RankChecked
<1>1. CASE UNCHANGED vars
  BY <1>1 DEF vars, RankChecked, ActiveRole
<1>2. ASSUME NEW r \in Requests, Act(r), r # s
      PROVE  (ActiveRole(req[s].org, req[s].target) = "member")'
  <2>1. pc'[s] = pc[s] /\ req'[s] = req[s]
    BY <1>2, OthersStay
  <2>2. ~raced[s] /\ \A w \in Users : member'[req[s].org][w] = member[req[s].org][w]
    BY <1>2, <2>1, RaceIsMarked DEF Checked
  <2>3. ActiveRole(req[s].org, req[s].target) = "member"
    BY <2>1, <2>2 DEF RankChecked
  <2>4. req[s].target \in Users
    BY <2>1, DemandTypes DEF Checked
  <2>5. QED
    BY <2>1, <2>2, <2>3, <2>4 DEF ActiveRole
<1>3. CASE Act(s) /\ pc'[s] # "begin"
  <2>1. CASE pc'[s] = "read"
    <3>1. Begin(s)
      BY <1>3, <2>1, ToTransaction DEF InTransaction
    <3>2. pc[s] = "begin" /\ UNCHANGED <<req, raced, member>>
      BY <3>1 DEF Begin, database
    <3>3. ActiveRole(req[s].org, req[s].target) = "member"
      BY <3>2 DEF RankChecked, Checked
    <3>4. QED
      BY <3>2, <3>3 DEF ActiveRole
  <2>2. CASE pc'[s] # "read"
    <3>1. /\ req'[s] = req[s] /\ raced' = raced /\ UNCHANGED member
          /\ pc[s] \in Checked
      BY <1>3, <2>2, IntoTransaction DEF Checked
    <3>2. ActiveRole(req[s].org, req[s].target) = "member"
      BY <3>1 DEF RankChecked
    <3>3. QED
      BY <3>1, <3>2 DEF ActiveRole
  <2>3. QED
    BY <2>1, <2>2
<1>4. CASE Act(s) /\ pc'[s] = "begin"
  <2>1. LoadTarget(s) /\ ~GiveUp(s)
    BY <1>4, ToBegin
  <2>2. /\ CanManageOrgMember(req[s].actorRole, ActiveRole(req[s].org, req[s].target))
        /\ req' = req /\ member' = member
    BY <2>1 DEF LoadTarget, database
  <2>3. QED
    BY <2>2 DEF CanManageOrgMember, ActiveRole
<1>5. QED
  BY <1>1, <1>2, <1>3, <1>4 DEF Next

\* An administrator's change of role or tier, or removal, reaches a plain member's row
\* only, unless another request changed the organisation after the check of ranks.
THEOREM Ranks == Spec => RankRespected
<1>1. Init => RankChecked
  BY DEF Init, RankChecked, Checked
<1>2. Spec => []RankChecked
  BY <1>1, StepRankChecked, TypeCorrect, PTL DEF Spec
<1>3. TypeOK /\ RankChecked /\ [Next]_vars =>
        [\A r \in Requests :
            /\ pc[r] = "last" /\ pc'[r] = "done" /\ member' # member
            /\ req[r].actorRole = "admin"
            => \/ req[r].kind = "add" \/ raced[r]
               \/ ActiveRole(req[r].org, req[r].target) = "member"]_vars
  BY DemandTypes DEF RankChecked, Checked, Changes
<1>4. QED
  BY <1>2, <1>3, TypeCorrect, PTL DEF Spec, RankRespected

-----------------------------------------------------------------------------
(* The two tiers of a member.                                              *)

\* What keeps the tiers together: without a row in the organisation a vault is free, and
\* the founder of an organisation has a vault.
TiersTogether ==
    /\ AssignedTierIsVaultTier
    /\ \A o \in Orgs, u \in Users : member[o][u].status = "absent" => tier[u] \in {"none", "free"}
    /\ \A r \in Requests : pc[r] \in {"begin", "insert"} /\ req[r].kind = "create"
                              => tier[req[r].target] # "none"

\* How the tier of a vault changes without set-tier.
LEMMA QuietTier ==
  ASSUME TypeOK, "setTier" \notin Kinds, NEW r \in Requests, Act(r), ~Commit(r)
  PROVE  /\ \A u \in Users : tier'[u] = tier[u] \/ (tier[u] = "none" /\ tier'[u] = "free")
         /\ pc'[r] \in {"begin", "insert"} /\ req'[r].kind = "create" =>
              req'[r] = req[r] /\ (tier'[req[r].target] # "none" \/ Begin(r))
<1>1. /\ pc \in [Requests -> Labels] /\ req \in [Requests -> Demands]
      /\ tier \in [Users -> Tiers \cup {"none"}]
  BY DEF TypeOK
<1>2. ASSUME GiveUp(r) PROVE tier' = tier /\ pc'[r] = "done"
  BY <1>1, <1>2 DEF GiveUp, Leave, Goto, database
<1>3. CASE RequireOrgAdmin(r)
  BY <1>1, <1>3 DEF RequireOrgAdmin, Goto, database
<1>4. CASE AskForOrganization(r)
  BY <1>1, <1>4 DEF AskForOrganization, Goto, database
<1>5. ~SetTier(r)
  BY DEF SetTier
<1>6. CASE LoadTarget(r)
  <2>1. req[r].kind # "create"
    BY <1>6 DEF LoadTarget, TypeOK, RequestOK
  <2>2. QED
    BY <1>1, <1>2, <1>6, <2>1 DEF LoadTarget, Goto, database
<1>7. CASE EnsureVaultUser(r)
  <2>1. req[r].target \in Users /\ req' = req
    BY <1>7, DemandTypes DEF EnsureVaultUser
  <2>2. \A v \in Users : tier'[v] = IF v = req[r].target /\ tier[v] = "none" THEN "free" ELSE tier[v]
    BY <1>1, <1>7, <2>1 DEF EnsureVaultUser
  <2>3. QED
    BY <2>1, <2>2
<1>8. CASE InsertOrganization(r)
  <2>1. CASE GiveUp(r)
    BY <1>2, <2>1
  <2>2. CASE ~GiveUp(r)
    BY <1>1, <1>8, <2>2 DEF InsertOrganization, Leave, Goto
  <2>3. QED
    BY <2>1, <2>2
<1>9. CASE ReadRole(r)
  BY <1>1, <1>2, <1>9 DEF ReadRole, Goto, database
<1>10. CASE CountOwners(r)
  BY <1>1, <1>2, <1>10 DEF CountOwners, Goto, database
<1>11. CASE FirstUpdate(r)
  BY <1>1, <1>11 DEF FirstUpdate, Goto, database
<1>12. CASE Begin(r)
  BY <1>1, <1>12 DEF Begin, database
<1>13. QED
  BY <1>2, <1>3, <1>4, <1>5, <1>6, <1>7, <1>8, <1>9, <1>10, <1>11, <1>12
  DEF Act, Step, Fail, DeadlockAbort

\* Every step keeps the assigned tier and the vault's tier together, when there is one
\* organisation to assign tiers and nobody uses set-tier.
LEMMA StepTiers ==
  ASSUME NEW only, Orgs = {only}, "setTier" \notin Kinds
  PROVE  TypeOK /\ LocksOK /\ RowsStay /\ TiersTogether /\ [Next]_vars => TiersTogether'
<1> DEFINE Agree(row, t, m, u) ==
             /\ \/ row.status = "absent"
                \/ row.assigned = t
                \/ \E k \in {"tier", "remove"} : <<k, only, u>> \in m
             /\ row.status = "absent" => t \in {"none", "free"}
           Founding(r) == pc[r] \in {"begin", "insert"} /\ req[r].kind = "create"
           Housed(r) == Founding(r) => tier[req[r].target] # "none"
<1> SUFFICES ASSUME TypeOK, LocksOK, RowsStay, TiersTogether, [Next]_vars
             PROVE  /\ \A u \in Users : Agree(member'[only][u], tier'[u], missed', u)
                    /\ \A r \in Requests : Housed(r)'
  BY DEF TiersTogether, AssignedTierIsVaultTier
<1>1. /\ \A u \in Users : Agree(member[only][u], tier[u], missed, u)
      /\ \A r \in Requests : Housed(r)
  BY DEF TiersTogether, AssignedTierIsVaultTier
<1>2. /\ \A u \in Users : member[only][u] \in Rows /\ tier[u] \in Tiers \cup {"none"}
      /\ \A u \in Users : member[only][u].assigned \in Tiers
      /\ pc \in [Requests -> Labels]
  BY DEF TypeOK, Rows
<1>3. CASE UNCHANGED vars
  BY <1>1, <1>3 DEF vars
<1>4. ASSUME NEW r \in Requests, Act(r),
             \A u \in Users : tier'[u] = "none" => tier[u] = "none",
             Founding(r)' => req'[r] = req[r] /\ tier'[req[r].target] # "none",
             NEW s \in Requests
      PROVE  Housed(s)'
  <2>1. CASE s = r
    BY <1>4, <2>1
  <2>2. CASE s # r
    <3>1. pc'[s] = pc[s] /\ req'[s] = req[s]
      BY <1>4, <2>2, OthersStay
    <3>2. Founding(s) => req[s].target \in Users
      BY DemandTypes
    <3>3. QED
      BY <1>1, <1>4, <3>1, <3>2
  <2>3. QED
    BY <2>1, <2>2
<1>5. ASSUME NEW r \in Requests, Act(r), Quiet(r), ~Commit(r)
      PROVE  /\ \A u \in Users : Agree(member'[only][u], tier'[u], missed', u)
             /\ \A s \in Requests : Housed(s)'
  <2>1. \A u \in Users : tier'[u] = tier[u] \/ (tier[u] = "none" /\ tier'[u] = "free")
    BY <1>5, QuietTier
  <2>2. Founding(r)' => req'[r] = req[r] /\ tier'[req[r].target] # "none"
    <3>1. CASE Begin(r)
      BY <1>1, <3>1 DEF Begin, database
    <3>2. CASE ~Begin(r)
      BY <1>5, <3>2, QuietTier
    <3>3. QED
      BY <3>1, <3>2
  <2>3. \A s \in Requests : Housed(s)'
    <3>1. \A u \in Users : tier'[u] = "none" => tier[u] = "none"
      BY <2>1
    <3>2. QED
      BY <1>4, <1>5, <2>2, <3>1
  <2>4. ASSUME NEW u \in Users PROVE Agree(member'[only][u], tier'[u], missed', u)
    BY <1>1, <1>2, <1>5, <2>1 DEF Quiet, Tiers
  <2>5. QED
    BY <2>3, <2>4
<1>6. ASSUME NEW r \in Requests, Act(r), Founds(r)
      PROVE  /\ \A u \in Users : Agree(member'[only][u], tier'[u], missed', u)
             /\ \A s \in Requests : Housed(s)'
  <2>1. /\ tier' = tier /\ missed' = missed /\ pc'[r] = "done" /\ pc[r] = "insert"
        /\ req[r].org = only /\ req[r].target \in Users /\ req[r].kind = "create"
    BY <1>2, <1>6, DemandTypes DEF Founds, Leave, Goto, TypeOK, RequestOK
  <2>2. member[only][req[r].target].status = "absent"
    BY <1>6, <2>1 DEF Founds, OrgExists
  <2>3. tier[req[r].target] = "free"
    BY <1>1, <2>1, <2>2
  <2>4. ASSUME NEW u \in Users PROVE Agree(member'[only][u], tier'[u], missed', u)
    <3>1. CASE u = req[r].target
      <4>1. member'[only][u].assigned = "free" /\ member'[only][u].status = "active"
        BY <1>6, <2>1, <3>1, FoundsWrites DEF Row
      <4>2. QED
        BY <2>1, <2>3, <3>1, <4>1
    <3>2. CASE u # req[r].target
      <4>1. member'[only][u] = member[only][u]
        BY <1>6, <2>1, <3>2, FoundsWrites
      <4>2. QED
        BY <1>1, <2>1, <4>1
    <3>3. QED
      BY <3>1, <3>2
  <2>5. QED
    BY <1>4, <1>6, <2>1, <2>4
<1>7. ASSUME NEW r \in Requests, Act(r), Commit(r)
      PROVE  /\ \A u \in Users : Agree(member'[only][u], tier'[u], missed', u)
             /\ \A s \in Requests : Housed(s)'
  <2> DEFINE d == req[r]
             v == req[r].target
  <2>1. /\ pc[r] = "last" /\ pc'[r] = "done" /\ d.org = only /\ v \in Users
        /\ d.kind \in Changes /\ (d.kind = "add" => hit[r]) /\ VaultTier(d) \in Tiers
    <3>1. pc[r] = "last" /\ pc'[r] = "done"
      BY <1>2, <1>7 DEF Commit, Leave, Goto
    <3>2. QED
      BY <3>1, DemandTypes DEF VaultTier, Tiers
  <2>2. /\ \A u \in Users : tier'[u] = IF u = v /\ d.kind # "role" THEN VaultTier(d) ELSE tier[u]
        /\ missed \subseteq missed'
        /\ ~hit[r] => <<d.kind, only, v>> \in missed'
    BY <1>7, <2>1 DEF Commit, TypeOK
  <2>3. \A s \in Requests : Housed(s)'
    <3>1. \A u \in Users : tier'[u] = "none" => tier[u] = "none"
      BY <2>1, <2>2 DEF Tiers
    <3>2. QED
      BY <1>4, <1>7, <2>1, <3>1
  <2>4. ASSUME NEW u \in Users, u # v PROVE Agree(member'[only][u], tier'[u], missed', u)
    <3>1. member'[only][u] = member[only][u] /\ tier'[u] = tier[u]
      BY <1>7, <2>1, <2>2, <2>4, CommitWrites
    <3>2. QED
      BY <1>1, <2>2, <3>1
  <2>5. Agree(member'[only][v], tier'[v], missed', v)
    <3>1. /\ member'[only][v] = IF hit[r] THEN NewRow(member[only][v], d) ELSE member[only][v]
      BY <1>7, <2>1, CommitWrites
    <3>2. CASE d.kind = "role"
      <4>1. member'[only][v].assigned = member[only][v].assigned
            /\ member'[only][v].status = member[only][v].status
        BY <3>1, <3>2 DEF NewRow, Row
      <4>2. tier'[v] = tier[v]
        BY <2>1, <2>2, <3>2
      <4>3. QED
        BY <1>1, <2>1, <2>2, <4>1, <4>2
    <3>3. CASE d.kind # "role" /\ ~hit[r]
      <4>1. member'[only][v].status # "absent"
        BY <2>1, <3>1, <3>3 DEF RowsStay
      <4>2. \E k \in {"tier", "remove"} : <<k, only, v>> \in missed'
        BY <2>1, <2>2, <3>3 DEF Changes
      <4>3. QED
        BY <4>1, <4>2
    <3>4. CASE d.kind # "role" /\ hit[r]
      <4>1. member'[only][v] = NewRow(member[only][v], d) /\ tier'[v] = VaultTier(d)
        BY <2>1, <2>2, <3>1, <3>4
      <4>2. NewRow(member[only][v], d).assigned = VaultTier(d)
        BY <2>1, <3>4 DEF NewRow, AddedRow, RemovedRow, Row, VaultTier, Changes
      <4>3. NewRow(member[only][v], d).status # "absent"
        <5>1. d.kind = "tier" => member[only][v].status = "active"
          BY <1>7, <2>1, <3>4, FoundIsActive
        <5>2. QED
          BY <2>1, <3>4, <5>1 DEF NewRow, AddedRow, RemovedRow, Row, Changes
      <4>4. QED
        BY <4>1, <4>2, <4>3
    <3>5. QED
      BY <3>2, <3>3, <3>4
  <2>6. QED
    BY <2>3, <2>4, <2>5
<1>8. QED
  BY <1>3, <1>5, <1>6, <1>7, StepKinds DEF Next

\* Where there is one organisation and nobody uses set-tier, the assigned tier and the
\* vault tier of a member differ only after a commit that did not find the member's row.
THEOREM TiersAgree ==
  ASSUME NEW only, Orgs = {only}, "setTier" \notin Kinds
  PROVE  Spec => []AssignedTierIsVaultTier
<1>1. Init => RowsStay /\ TiersTogether
  <2>1. NoRow.status = "absent"
    BY DEF NoRow, Row
  <2>2. ASSUME Init, NEW o \in Orgs, NEW u \in Users
        PROVE  member[o][u] = NoRow /\ tier[u] = "none"
    <3>1. member = [p \in Orgs |-> [v \in Users |-> NoRow]] /\ tier = [v \in Users |-> "none"]
      BY <2>2 DEF Init
    <3>2. QED
      BY <3>1, Zenon
  <2>3. Init => \A r \in Requests : pc[r] = "new"
    BY DEF Init
  <2>4. QED
    BY <2>1, <2>2, <2>3 DEF RowsStay, TiersTogether, AssignedTierIsVaultTier
<1>2. TiersTogether => AssignedTierIsVaultTier
  BY DEF TiersTogether
<1>3. TypeOK /\ LocksOK /\ RowsStay /\ TiersTogether /\ [Next]_vars => TiersTogether'
  BY StepTiers
<1>4. QED
  BY <1>1, <1>2, <1>3, StepRowsStay, TypeCorrect, LocksAreExclusive, PTL DEF Spec

-----------------------------------------------------------------------------
(* The directory of MemberDirectory.                                       *)

\* How the vaults change but for a commit: one is opened, or set-tier sets its tier.
LEMMA VaultSteps ==
  ASSUME TypeOK, NEW r \in Requests, Act(r), ~Commit(r)
  PROVE  \/ tier' = tier
         \/ \E u \in Users : tier[u] = "none" /\ tier' = [tier EXCEPT ![u] = "free"]
         \/ \E u \in Users, t \in Tiers : tier[u] # "none" /\ tier' = [tier EXCEPT ![u] = t]
<1>1. tier \in [Users -> Tiers \cup {"none"}]
  BY DEF TypeOK
<1>2. ASSUME GiveUp(r) PROVE tier' = tier
  BY <1>2 DEF GiveUp, database
<1>3. CASE RequireOrgAdmin(r) \/ AskForOrganization(r)
  BY <1>3 DEF RequireOrgAdmin, AskForOrganization, database
<1>4. CASE SetTier(r)
  BY <1>4, InputsAssumption DEF SetTier
<1>5. CASE LoadTarget(r)
  BY <1>2, <1>5 DEF LoadTarget, database
<1>6. CASE EnsureVaultUser(r)
  <2>1. req[r].target \in Users
    BY <1>6, DemandTypes DEF EnsureVaultUser
  <2>2. CASE tier[req[r].target] = "none"
    BY <1>1, <1>6, <2>1, <2>2 DEF EnsureVaultUser
  <2>3. CASE tier[req[r].target] # "none"
    <3>1. tier' = tier
      BY <1>1, <1>6, <2>1, <2>3 DEF EnsureVaultUser
    <3>2. QED
      BY <3>1
  <2>4. QED
    BY <2>2, <2>3
<1>7. CASE InsertOrganization(r)
  BY <1>2, <1>7 DEF InsertOrganization
<1>8. CASE Begin(r) \/ ReadRole(r) \/ CountOwners(r) \/ FirstUpdate(r)
  BY <1>2, <1>8 DEF Begin, ReadRole, CountOwners, FirstUpdate, database
<1>9. QED
  BY <1>2, <1>3, <1>4, <1>5, <1>6, <1>7, <1>8 DEF Act, Step, Fail, DeadlockAbort

\* The vaults a commit leaves.
LEMMA CommitVault ==
  ASSUME TypeOK, NEW r \in Requests, Commit(r)
  PROVE  /\ req[r].kind = "role" => tier' = tier
         /\ req[r].kind # "role" => tier' = [tier EXCEPT ![req[r].target] = VaultTier(req[r])]
         /\ VaultTier(req[r]) \in Tiers
<1>1. pc[r] = "last"
  BY DEF Commit
<1>2. req[r].tier \in Tiers
  BY <1>1, DemandTypes
<1>3. QED
  BY <1>2 DEF Commit, VaultTier, Tiers

\* Nothing closes a vault: the code has no DELETE on vault_users.
LEMMA VaultsPersist ==
  ASSUME TypeOK, [Next]_vars, NEW u \in Users, tier[u] # "none"
  PROVE  tier'[u] # "none"
<1>1. tier \in [Users -> Tiers \cup {"none"}] /\ "none" \notin Tiers /\ "free" # "none"
  BY DEF TypeOK, Tiers
<1>2. ASSUME NEW r \in Requests, Act(r) PROVE tier'[u] # "none"
  <2>1. CASE Commit(r)
    BY <1>1, <2>1, CommitVault
  <2>2. CASE ~Commit(r)
    BY <1>1, <1>2, <2>2, VaultSteps
  <2>3. QED
    BY <2>1, <2>2
<1>3. QED
  BY <1>2 DEF Next, vars

\* An organisation stays.
LEMMA OrgsPersist ==
  ASSUME TypeOK, LocksOK, [Next]_vars, NEW o \in Orgs, OrgExists(o)
  PROVE  OrgExists(o)'
BY RowsPersist DEF OrgExists

\* A removal stays in the log.
LEMMA RemovalsPersist ==
  ASSUME TypeOK, [Next]_vars, NEW o \in Orgs, NEW u \in Users, Directory!WasRemoved(o, u)
  PROVE  Directory!WasRemoved(o, u)'
<1>1. audit[o][u] \subseteq audit'[o][u]
  <2>1. ASSUME NEW r \in Requests, Act(r) PROVE audit[o][u] \subseteq audit'[o][u]
    BY <2>1, LogGrows DEF Enters
  <2>2. QED
    BY <2>1 DEF Next, vars
<1>2. QED
  BY <1>1 DEF Directory!WasRemoved

\* The times of open transactions and of entries: no two open ones have one time, and no
\* entry has the time of an open one.
StampsFresh ==
    /\ \A r \in Requests : pc[r] \in InTransaction => began[r] <= clock
    /\ \A r, s \in Requests :
          pc[r] \in InTransaction /\ pc[s] \in InTransaction /\ r # s => began[r] # began[s]
    /\ \A o \in Orgs, u \in Users : \A e \in audit[o][u] :
          /\ e.at <= clock
          /\ \A r \in Requests : pc[r] \in InTransaction => e.at # began[r]

\* Every step keeps the times apart: a transaction's is later than any before it.
LEMMA StepStampsFresh == TypeOK /\ StampsFresh /\ [Next]_vars => StampsFresh'
<1> SUFFICES ASSUME TypeOK, StampsFresh, [Next]_vars PROVE StampsFresh'
  OBVIOUS
<1>1. /\ clock \in Nat /\ began \in [Requests -> Nat]
      /\ \A o \in Orgs, u \in Users : audit[o][u] \in SUBSET Entries
  BY DEF TypeOK, Entries
<1>2. CASE UNCHANGED vars
  BY <1>2 DEF vars, StampsFresh
<1>3. ASSUME NEW r \in Requests, Begin(r) PROVE StampsFresh'
  <2>1. /\ clock' = clock + 1 /\ audit' = audit /\ began'[r] = clock + 1
        /\ \A s \in Requests : s # r => began'[s] = began[s] /\ pc'[s] = pc[s]
    BY <1>1, <1>3 DEF Begin, database, Goto, TypeOK
  <2>2. \A s \in Requests : pc'[s] \in InTransaction => s = r \/ (began'[s] = began[s] /\ began[s] <= clock)
    BY <2>1 DEF StampsFresh
  <2>3. \A o \in Orgs, u \in Users : \A e \in audit[o][u] : e.at \in Nat /\ e.at <= clock
    BY <1>1 DEF StampsFresh, Entries
  <2>4. \A s \in Requests : pc'[s] \in InTransaction => began'[s] <= clock'
    BY <1>1, <2>1, <2>2
  <2>5. ASSUME NEW s \in Requests, NEW t \in Requests, s # t,
               pc'[s] \in InTransaction, pc'[t] \in InTransaction
        PROVE  began'[s] # began'[t]
    BY <1>1, <2>1, <2>2, <2>5 DEF StampsFresh
  <2>6. ASSUME NEW o \in Orgs, NEW u \in Users, NEW e \in audit'[o][u]
        PROVE  e.at <= clock' /\ \A s \in Requests : pc'[s] \in InTransaction => e.at # began'[s]
    BY <1>1, <2>1, <2>3, <2>6 DEF StampsFresh
  <2>7. QED
    BY <2>4, <2>5, <2>6 DEF StampsFresh
<1>4. ASSUME NEW r \in Requests, Act(r), ~Begin(r) PROVE StampsFresh'
  <2>1. clock' = clock
    BY <1>4, OnlyBeginStamps DEF KeepsClock
  <2>2. \A s \in Requests : pc'[s] \in InTransaction => pc[s] \in InTransaction /\ began'[s] = began[s]
    BY <1>1, <1>4, OthersStay, ToTransaction, OnlyBeginStamps DEF KeepsClock
  <2>3. ASSUME NEW o \in Orgs, NEW u \in Users, NEW e \in audit'[o][u]
        PROVE  \/ e \in audit[o][u]
               \/ e.at = began[r] /\ pc[r] \in InTransaction /\ pc'[r] = "done"
    <3>1. ASSUME Commit(r) \/ Founds(r) PROVE pc[r] \in InTransaction /\ pc'[r] = "done"
      BY <3>1 DEF Commit, Founds, Leave, Goto, InTransaction, TypeOK
    <3>2. QED
      BY <1>4, <2>3, <3>1, LogGrows DEF Enters
  <2>4. "done" \notin InTransaction
    BY DEF InTransaction
  <2>5. QED
    BY <2>1, <2>2, <2>3, <2>4 DEF StampsFresh
<1>5. QED
  BY <1>2, <1>3, <1>4 DEF Next

\* So the entry of a transaction is a new one.
LEMMA LogsOne ==
  ASSUME TypeOK, StampsFresh, NEW r \in Requests, pc[r] \in InTransaction,
         NEW action, InsertAudit(r, action)
  PROVE  Directory!Log(req[r].org, req[r].target, action)
<1> DEFINE o == req[r].org
           u == req[r].target
<1>1. o \in Orgs /\ u \in Users
  BY DemandTypes DEF InTransaction
<1>2. Entry(r, action) \notin audit[o][u] /\ Entry(r, action).action = action
  BY <1>1 DEF StampsFresh, Entry
<1>3. audit' = [audit EXCEPT ![o][u] = @ \cup {Entry(r, action)}]
  BY DEF InsertAudit, Entry
<1>4. Entry(r, action) \in audit'[o][u]
  BY <1>1, <1>3 DEF TypeOK
<1>5. QED
  BY <1>2, <1>3, <1>4 DEF Directory!Log

\* What the moment of an operation needs, on top of LocksOK and RowsStay: members have
\* vaults, and so have those about to become one; an addition is to an organisation that
\* has been founded; a transaction that found no row comes after a removal.
Ready(r) ==
    /\ pc[r] \in {"begin", "insert", "first", "last"} /\ req[r].kind \in {"create", "add"}
          => tier[req[r].target] # "none"
    /\ pc[r] \in {"ensure", "begin", "first", "last"} /\ req[r].kind = "add"
          => OrgExists(req[r].org)
    /\ pc[r] = "last" /\ ~hit[r] => Directory!WasRemoved(req[r].org, req[r].target)

DirectoryReady ==
    /\ \A o \in Orgs, u \in Users : member[o][u].status # "absent" => tier[u] # "none"
    /\ \A r \in Requests : Ready(r)

\* How a request comes to the statement that gives its user a vault.
LEMMA ToEnsure ==
  ASSUME TypeOK, NEW r \in Requests, Act(r), pc'[r] = "ensure", req'[r].kind = "add"
  PROVE  OrgExists(req'[r].org) /\ member' = member
<1>1. pc \in [Requests -> Labels] /\ req \in [Requests -> Demands]
  BY DEF TypeOK
<1>2. ~Leave(r)
  BY <1>1 DEF Leave, Goto
<1>3. RequireOrgAdmin(r) \/ AskForOrganization(r)
  BY <1>1, <1>2 DEF Act, Step, Fail, DeadlockAbort, GiveUp, SetTier, LoadTarget, Goto,
             EnsureVaultUser, Begin, InsertOrganization, ReadRole, CountOwners, FirstUpdate, Commit
<1>4. ~AskForOrganization(r)
  BY <1>1 DEF AskForOrganization
<1>5. PICK o \in Orgs, a, u \in Users, b \in Bodies :
        /\ IsOrgAdminRole(ActiveRole(o, a))
        /\ req' = [req EXCEPT ![r] = [kind |-> b.kind, org |-> o, target |-> u, role |-> b.role,
                                      tier |-> b.tier, actorRole |-> ActiveRole(o, a)]]
  BY <1>3, <1>4 DEF RequireOrgAdmin
<1>6. req'[r].org = o
  BY <1>1, <1>5
<1>7. OrgExists(o)
  BY <1>5 DEF IsOrgAdminRole, ActiveRole, OrgExists
<1>8. QED
  BY <1>3, <1>4, <1>6, <1>7 DEF RequireOrgAdmin, database

\* A creation or an addition is past the statement that gives its user a vault.
LEMMA PastEnsure ==
  ASSUME TypeOK, NEW r \in Requests, Act(r), pc'[r] \in {"begin", "insert", "first", "last"},
         req'[r].kind \in {"create", "add"}
  PROVE  /\ EnsureVaultUser(r) \/ Begin(r) \/ FirstUpdate(r)
         /\ UNCHANGED <<req, member>>
<1>1. /\ pc \in [Requests -> Labels] /\ req \in [Requests -> Demands]
      /\ pc[r] \in {"target", "read", "count"} => req[r].kind \in {"role", "tier", "remove"}
  BY DEF TypeOK, RequestOK
<1>2. ~Leave(r)
  BY <1>1 DEF Leave, Goto
<1>3. ~GiveUp(r) /\ ~Commit(r) /\ ~SetTier(r)
  BY <1>2 DEF GiveUp, Commit, SetTier
<1>4. ~RequireOrgAdmin(r) /\ ~AskForOrganization(r) /\ ~InsertOrganization(r)
  BY <1>1, <1>2, <1>3 DEF RequireOrgAdmin, AskForOrganization, InsertOrganization, Goto
<1>5. ~LoadTarget(r) /\ ~ReadRole(r) /\ ~CountOwners(r)
  BY <1>1, <1>3 DEF LoadTarget, ReadRole, CountOwners
<1>6. EnsureVaultUser(r) \/ Begin(r) \/ FirstUpdate(r)
  BY <1>3, <1>4, <1>5 DEF Act, Step, Fail, DeadlockAbort
<1>7. QED
  BY <1>6 DEF EnsureVaultUser, Begin, FirstUpdate, database

LEMMA StepReady ==
  TypeOK /\ LocksOK /\ RowsStay /\ LogTellsStatus /\ DirectoryReady /\ [Next]_vars => DirectoryReady'
<1> SUFFICES ASSUME TypeOK, LocksOK, RowsStay, LogTellsStatus, DirectoryReady, [Next]_vars
             PROVE  DirectoryReady'
  OBVIOUS
<1>1. ASSUME NEW o \in Orgs, NEW u \in Users, member'[o][u].status # "absent"
      PROVE  tier'[u] # "none"
  <2>1. CASE tier[u] # "none"
    BY <2>1, VaultsPersist
  <2>2. CASE tier[u] = "none"
    <3>1. member[o][u].status = "absent"
      BY <2>2 DEF DirectoryReady
    <3>2. ASSUME NEW r \in Requests, Founds(r) PROVE FALSE
      <4>1. o = req[r].org /\ u = req[r].target
        BY <1>1, <3>1, <3>2, FoundsWrites
      <4>2. QED
        BY <2>2, <3>2, <4>1 DEF Founds, DirectoryReady, Ready, TypeOK, RequestOK
    <3>3. ASSUME NEW r \in Requests, Commit(r) PROVE FALSE
      <4>1. o = req[r].org /\ u = req[r].target
        BY <1>1, <3>1, <3>3, CommitWrites
      <4>2. pc[r] = "last"
        BY <3>3 DEF Commit
      <4>3. req[r].kind = "add"
        BY <3>1, <4>1, <4>2 DEF RowsStay
      <4>4. QED
        BY <2>2, <4>1, <4>2, <4>3 DEF DirectoryReady, Ready
    <3>4. member' = member
      BY <3>2, <3>3, StepKinds DEF Next, Quiet, vars
    <3>5. QED
      BY <1>1, <3>1, <3>4
  <2>3. QED
    BY <2>1, <2>2
<1>2. ASSUME NEW s \in Requests, pc'[s] = pc[s], req'[s] = req[s], hit'[s] = hit[s]
      PROVE  Ready(s)'
  <2>1. pc[s] \notin {"new", "done"} => req[s].org \in Orgs /\ req[s].target \in Users
    BY DemandTypes
  <2>2. Ready(s)
    BY DEF DirectoryReady
  <2>3. pc[s] \in {"begin", "insert", "first", "last"} /\ req[s].kind \in {"create", "add"}
          => tier'[req[s].target] # "none"
    BY <2>1, <2>2, VaultsPersist DEF Ready
  <2>4. ASSUME pc[s] \in {"ensure", "begin", "first", "last"}, req[s].kind = "add"
        PROVE  OrgExists(req[s].org)'
    <3>1. PICK o \in Orgs : o = req[s].org
      BY <2>1, <2>4
    <3>2. OrgExists(o)'
      BY <2>2, <2>4, <3>1, OrgsPersist DEF Ready
    <3>3. o = req'[s].org
      BY <1>2, <3>1
    <3>4. QED
      BY <3>2, <3>3 DEF OrgExists
  <2>5. ASSUME pc[s] = "last", ~hit[s] PROVE Directory!WasRemoved(req[s].org, req[s].target)'
    <3>1. PICK o \in Orgs, u \in Users : o = req[s].org /\ u = req[s].target
      BY <2>1, <2>5
    <3>2. Directory!WasRemoved(o, u)'
      BY <2>2, <2>5, <3>1, RemovalsPersist DEF Ready
    <3>3. o = req'[s].org /\ u = req'[s].target
      BY <1>2, <3>1
    <3>4. QED
      BY <3>2, <3>3 DEF Directory!WasRemoved
  <2>6. QED
    BY <1>2, <2>3, <2>4, <2>5 DEF Ready
<1>3. ASSUME NEW s \in Requests, Act(s) PROVE Ready(s)'
  <2>1. Ready(s) /\ pc \in [Requests -> Labels]
    BY DEF DirectoryReady, TypeOK
  <2>2. pc[s] \notin {"new", "done"} => req[s].org \in Orgs /\ req[s].target \in Users
    BY DemandTypes
  <2>3. ASSUME pc'[s] \in {"begin", "insert", "first", "last"}, req'[s].kind \in {"create", "add"}
        PROVE  tier'[req'[s].target] # "none"
    <3>1. req' = req /\ (EnsureVaultUser(s) \/ Begin(s) \/ FirstUpdate(s))
      BY <1>3, <2>3, PastEnsure
    <3>2. CASE EnsureVaultUser(s)
      BY <2>2, <3>1, <3>2 DEF EnsureVaultUser, TypeOK
    <3>3. CASE Begin(s) \/ FirstUpdate(s)
      <4>1. tier' = tier /\ pc[s] \in {"begin", "first"}
        BY <3>3 DEF Begin, FirstUpdate, database
      <4>2. QED
        BY <2>1, <2>3, <3>1, <4>1 DEF Ready
    <3>4. QED
      BY <3>1, <3>2, <3>3
  <2>4. ASSUME pc'[s] \in {"ensure", "begin", "first", "last"}, req'[s].kind = "add"
        PROVE  OrgExists(req[s].org)'
    <3>1. OrgExists(req'[s].org) /\ member' = member
      <4>1. CASE pc'[s] = "ensure"
        BY <1>3, <2>4, <4>1, ToEnsure
      <4>2. CASE pc'[s] # "ensure"
        <5>1. /\ UNCHANGED <<req, member>>
              /\ EnsureVaultUser(s) \/ Begin(s) \/ FirstUpdate(s)
          BY <1>3, <2>4, <4>2, PastEnsure
        <5>2. pc[s] \in {"ensure", "begin", "first"}
          BY <5>1 DEF EnsureVaultUser, Begin, FirstUpdate
        <5>3. QED
          BY <2>1, <2>4, <5>1, <5>2 DEF Ready
      <4>3. QED
        BY <4>1, <4>2
    <3>2. QED
      BY <3>1 DEF OrgExists
  <2>5. ASSUME pc'[s] = "last", ~hit'[s] PROVE Directory!WasRemoved(req[s].org, req[s].target)'
    <3>1. FirstUpdate(s)
      BY <1>3, <2>1, <2>5, StepKinds DEF Quiet, Founds, Commit, Leave, Goto
    <3>2. pc[s] = "first" /\ req' = req /\ audit' = audit
      BY <3>1 DEF FirstUpdate, database
    <3>3. PICK o \in Orgs, u \in Users : o = req[s].org /\ u = req[s].target
      BY <2>2, <3>2
    <3>4. req[s].kind # "add" /\ member[o][u].status # "active"
      BY <2>5, <3>1, <3>3 DEF FirstUpdate, FirstRow, Matches, TypeOK
    <3>5. member[o][u].status = "removed"
      <4>1. member[o][u].status # "absent"
        BY <3>2, <3>3, <3>4 DEF RowsStay
      <4>2. member[o][u].status \in {"absent", "active", "removed"}
        BY DEF TypeOK, Rows
      <4>3. QED
        BY <3>4, <4>1, <4>2
    <3>6. Directory!WasRemoved(o, u)
      BY <3>5 DEF LogTellsStatus, Directory!WasRemoved
    <3>7. QED
      BY <3>2, <3>3, <3>6 DEF Directory!WasRemoved
  <2>6. QED
    BY <2>3, <2>4, <2>5 DEF Ready
<1>4. ASSUME NEW s \in Requests PROVE Ready(s)'
  <2>1. CASE UNCHANGED vars
    BY <1>2, <2>1 DEF vars
  <2>2. ASSUME NEW r \in Requests, Act(r) PROVE Ready(s)'
    <3>1. CASE r = s
      BY <1>3, <2>2, <3>1
    <3>2. CASE r # s
      BY <1>2, <2>2, <3>2, OthersStay
    <3>3. QED
      BY <3>1, <3>2
  <2>3. QED
    BY <2>1, <2>2 DEF Next
<1>5. QED
  BY <1>1, <1>4 DEF DirectoryReady

Rewrites(o, u, row) == member' = [member EXCEPT ![o][u] = row]

\* One entry of the table of members changes: so does what the directory shows.
LEMMA ShowsOne ==
  ASSUME TypeOK, NEW o \in Orgs, NEW u \in Users, NEW row, Rewrites(o, u, row)
  PROVE  Directory!Becomes(o, u, Shown(row))
<1>1. member \in [Orgs -> [Users -> Rows]]
  BY DEF TypeOK
<1>2. \A p \in Orgs, v \in Users :
         member'[p][v] = IF p = o /\ v = u THEN row ELSE member[p][v]
  BY <1>1 DEF Rewrites
<1>3. Shows' = [p \in Orgs |-> [v \in Users |->
                    IF p = o /\ v = u THEN Shown(row) ELSE Shown(member[p][v])]]
  BY <1>2 DEF Shows, Shown
<1> HIDE DEF Shown
<1>4. [Shows EXCEPT ![o][u] = Shown(row)]
        = [p \in Orgs |-> [v \in Users |->
             IF p = o /\ v = u THEN Shown(row) ELSE Shown(member[p][v])]]
  BY DEF Shows
<1>5. QED
  BY <1>3, <1>4 DEF Directory!Becomes

\* What the directory shows of rows.
LEMMA ShownRows ==
  ASSUME TypeOK, NEW o \in Orgs, NEW u \in Users
  PROVE  /\ Shows[o][u] = Shown(member[o][u])
         /\ Directory!IsMember(o, u) <=> member[o][u].status = "active"
         /\ member[o][u].status = "active"
              => /\ Shows[o][u].role = member[o][u].role
                 /\ Shows[o][u].tier = member[o][u].assigned
         /\ Shows[o][u] = Directory!Outsider <=> member[o][u].status = "absent"
<1>1. Shows[o][u] = Shown(member[o][u])
  BY DEF Shows
<1>2. QED
  BY <1>1 DEF Shown, Directory!IsMember, Directory!Outsider, Directory!Place

\* An organisation is founded when it has a row.
LEMMA FoundedIs == ASSUME TypeOK, NEW o \in Orgs PROVE Directory!Founded(o) <=> OrgExists(o)
BY ShownRows DEF Directory!Founded, OrgExists

\* What a member's row shows, and a removed one.
LEMMA ShownIs ==
  ASSUME NEW role, NEW t, NEW b
  PROVE  /\ Shown(Row(role, "active", t, b)) = Directory!Member(role, t)
         /\ Shown(Row(role, "removed", t, b)) = Directory!Former
BY DEF Shown, Row, Directory!Member, Directory!Former, Directory!Place

\* A creation is an operation on the directory.
LEMMA FoundsInDirectory ==
  ASSUME TypeOK, StampsFresh, DirectoryReady, NEW r \in Requests, Founds(r)
  PROVE  Directory!Next
<1> DEFINE o == req[r].org
           u == req[r].target
<1>1. pc[r] = "insert" /\ o \in Orgs /\ u \in Users /\ req[r].kind = "create"
  BY DemandTypes DEF Founds, TypeOK, RequestOK
<1> HIDE DEF o, u
<1>2. ~Directory!Founded(o)
  BY <1>1, FoundedIs DEF Founds, o
<1>3. tier[u] # "none" /\ tier' = tier
  BY <1>1 DEF Founds, DirectoryReady, Ready, u
<1>4. Directory!Becomes(o, u, Directory!Member("owner", "free"))
  <2>1. Rewrites(o, u, Row("owner", "active", "free", FALSE))
    BY DEF Founds, o, u, Rewrites
  <2>2. Directory!Becomes(o, u, Shown(Row("owner", "active", "free", FALSE)))
    BY <1>1, <2>1, ShowsOne
  <2>3. QED
    BY <2>2, ShownIs
<1>5. Directory!Log(o, u, "organisation.create")
  BY <1>1, LogsOne DEF Founds, o, u, InTransaction
<1>6. Directory!Found(o, u)
  BY <1>2, <1>3, <1>4, <1>5 DEF Directory!Found
<1>7. QED
  BY <1>1, <1>6 DEF Directory!Next, Directory!Operation

\* A commit is one operation on the directory.
LEMMA CommitInDirectory ==
  ASSUME TypeOK, LocksOK, RowsStay, StampsFresh, DirectoryReady, NEW r \in Requests, Commit(r)
  PROVE  Directory!Next
<1> DEFINE d == req[r]
           o == req[r].org
           u == req[r].target
<1>1. /\ pc[r] = "last" /\ o \in Orgs /\ u \in Users /\ d.kind \in Changes
      /\ d.role \in Roles /\ d.tier \in Tiers /\ (d.kind = "add" => hit[r])
  BY DemandTypes DEF Commit
<1>2. Ready(r)
  BY DEF DirectoryReady
<1>3. /\ d.kind = "role" => tier' = tier
      /\ d.kind # "role" => tier' = [tier EXCEPT ![u] = VaultTier(d)]
  BY CommitVault
<1>4. tier[u] # "none"
  <2>1. CASE d.kind = "add"
    BY <1>1, <1>2, <2>1 DEF Ready
  <2>2. CASE d.kind # "add"
    <3>1. member[o][u].status # "absent"
      BY <1>1, <2>2 DEF RowsStay
    <3>2. QED
      BY <1>1, <3>1 DEF DirectoryReady
  <2>3. QED
    BY <2>1, <2>2
<1>5. Directory!Log(o, u, AuditAction(d.kind))
  BY <1>1, LogsOne DEF Commit, InTransaction
<1>6. /\ hit[r] => Rewrites(o, u, NewRow(member[o][u], d))
      /\ ~hit[r] => member' = member
  BY <1>1 DEF Commit, Rewrites, TypeOK
<1>7. hit[r] /\ d.kind # "add" => member[o][u].status = "active"
  BY <1>1 DEF LocksOK, HoldsMember, FirstRow
<1>8. d.kind = "add" => OrgExists(o)
  BY <1>1, <1>2 DEF Ready
<1>9. \A t : Directory!SetVault(u, t) <=> tier' = [tier EXCEPT ![u] = t]
  BY <1>4 DEF Directory!SetVault
<1> HIDE DEF d, o, u
<1>10. CASE ~hit[r]
  <2>1. Directory!WasRemoved(o, u)
    BY <1>1, <1>2, <1>10 DEF Ready, o, u
  <2>2. UNCHANGED Shows
    BY <1>6, <1>10 DEF Shows, Shown
  <2>3. d.kind = "role" => Directory!Log(o, u, "member.role.update") /\ UNCHANGED tier
    BY <1>3, <1>5 DEF AuditAction
  <2>4. ASSUME d.kind = "tier"
        PROVE  Directory!Log(o, u, "member.tier.update") /\ Directory!SetVault(u, d.tier)
    BY <1>3, <1>5, <1>9, <2>4 DEF AuditAction, VaultTier
  <2>5. ASSUME d.kind = "remove"
        PROVE  Directory!Log(o, u, "member.remove") /\ Directory!SetVault(u, "free")
    BY <1>3, <1>5, <1>9, <2>5 DEF AuditAction, VaultTier
  <2>6. d.kind \in {"role", "tier", "remove"}
    BY <1>1, <1>10 DEF Changes
  <2>7. Directory!Late(o, u)
    BY <1>1, <2>1, <2>2, <2>3, <2>4, <2>5, <2>6 DEF Directory!Late
  <2>8. QED
    BY <1>1, <2>7 DEF Directory!Next, Directory!Operation
<1>11. CASE hit[r]
  <2>1. Directory!Becomes(o, u, Shown(NewRow(member[o][u], d)))
    BY <1>1, <1>6, <1>11, ShowsOne
  <2>2. d.kind # "add" => Directory!IsMember(o, u)
    BY <1>1, <1>7, <1>11, ShownRows
  <2>3. CASE d.kind = "add"
    <3>1. Directory!Becomes(o, u, Directory!Member(d.role, d.tier))
      BY <2>1, <2>3, ShownIs DEF NewRow, AddedRow
    <3>2. Directory!SetVault(u, d.tier) /\ Directory!Log(o, u, "member.add")
      BY <1>3, <1>5, <1>9, <2>3 DEF VaultTier, AuditAction
    <3>3. Directory!Add(o, u, d.role, d.tier)
      BY <1>1, <1>8, <2>3, <3>1, <3>2, FoundedIs DEF Directory!Add
    <3>4. QED
      BY <1>1, <3>3 DEF Directory!Next, Directory!Operation
  <2>4. CASE d.kind = "role"
    <3>1. NewRow(member[o][u], d) = Row(d.role, "active", member[o][u].assigned, member[o][u].removedAt)
      BY <1>7, <1>11, <2>4 DEF NewRow
    <3>2. Directory!Becomes(o, u, Directory!Member(d.role, Shows[o][u].tier))
      BY <1>1, <1>7, <1>11, <2>1, <2>4, <3>1, ShownIs, ShownRows
    <3>3. Directory!ChangeRole(o, u, d.role)
      BY <1>3, <1>5, <2>2, <2>4, <3>2 DEF Directory!ChangeRole, AuditAction
    <3>4. QED
      BY <1>1, <3>3 DEF Directory!Next, Directory!Operation
  <2>5. CASE d.kind = "tier"
    <3>1. NewRow(member[o][u], d) = Row(member[o][u].role, "active", d.tier, member[o][u].removedAt)
      BY <1>7, <1>11, <2>5 DEF NewRow
    <3>2. Directory!Becomes(o, u, Directory!Member(Shows[o][u].role, d.tier))
      BY <1>1, <1>7, <1>11, <2>1, <2>5, <3>1, ShownIs, ShownRows
    <3>3. Directory!SetVault(u, d.tier) /\ Directory!Log(o, u, "member.tier.update")
      BY <1>3, <1>5, <1>9, <2>5 DEF VaultTier, AuditAction
    <3>4. Directory!ChangeTier(o, u, d.tier)
      BY <2>2, <2>5, <3>2, <3>3 DEF Directory!ChangeTier
    <3>5. QED
      BY <1>1, <3>4 DEF Directory!Next, Directory!Operation
  <2>6. CASE d.kind = "remove"
    <3>1. Directory!Becomes(o, u, Directory!Former)
      BY <2>1, <2>6, ShownIs DEF NewRow, RemovedRow
    <3>2. Directory!SetVault(u, "free") /\ Directory!Log(o, u, "member.remove")
      BY <1>3, <1>5, <1>9, <2>6 DEF VaultTier, AuditAction
    <3>3. Directory!Remove(o, u)
      BY <2>2, <2>6, <3>1, <3>2 DEF Directory!Remove
    <3>4. QED
      BY <1>1, <3>3 DEF Directory!Next, Directory!Operation
  <2>7. QED
    BY <1>1, <2>3, <2>4, <2>5, <2>6 DEF Changes
<1>12. QED
  BY <1>10, <1>11

\* Every step is a step of the directory, or leaves it as it is.
LEMMA StepDirectory ==
  TypeOK /\ LocksOK /\ RowsStay /\ StampsFresh /\ DirectoryReady /\ [Next]_vars
    => [Directory!Next]_(Directory!directoryVars)
<1> SUFFICES ASSUME TypeOK, LocksOK, RowsStay, StampsFresh, DirectoryReady, [Next]_vars
             PROVE  [Directory!Next]_(Directory!directoryVars)
  OBVIOUS
<1>1. CASE UNCHANGED vars
  BY <1>1 DEF vars, Shows, Shown, Directory!directoryVars
<1>2. ASSUME NEW r \in Requests, Act(r), ~Commit(r), ~Founds(r)
      PROVE  [Directory!Next]_(Directory!directoryVars)
  <2>1. UNCHANGED <<Shows, audit>>
    BY <1>2, StepKinds DEF Quiet, Shows, Shown
  <2>2. CASE tier' = tier
    BY <2>1, <2>2 DEF Directory!directoryVars
  <2>3. ASSUME NEW u \in Users, tier[u] = "none", tier' = [tier EXCEPT ![u] = "free"]
        PROVE  Directory!Next
    BY <2>1, <2>3 DEF Directory!Open, Directory!Next
  <2>4. ASSUME NEW u \in Users, NEW t \in Tiers, tier[u] # "none", tier' = [tier EXCEPT ![u] = t]
        PROVE  Directory!Next
    BY <2>1, <2>4 DEF Directory!SetTier, Directory!SetVault, Directory!Next
  <2>5. QED
    BY <1>2, <2>2, <2>3, <2>4, VaultSteps
<1>3. QED
  BY <1>1, <1>2, FoundsInDirectory, CommitInDirectory DEF Next

\* What the server does to members, vaults and the log is what MemberDirectory allows:
\* from the empty database on, operation after operation, each at one moment.
THEOREM ImplementsDirectory == Spec => Directory!Spec /\ DirectorySteps
<1>1. Init => RowsStay /\ LogTellsStatus /\ StampsFresh /\ DirectoryReady /\ Directory!Init
  <2>1. ASSUME Init PROVE /\ member = [o \in Orgs |-> [u \in Users |-> NoRow]]
                          /\ tier = [u \in Users |-> "none"]
                          /\ audit = [o \in Orgs |-> [u \in Users |-> {}]]
                          /\ \A r \in Requests : pc[r] = "new"
    BY <2>1 DEF Init
  <2>2. NoRow.status = "absent" /\ Shown(NoRow) = Directory!Outsider
    BY DEF NoRow, Row, Shown, Directory!Outsider, Directory!Place
  <2>3. ASSUME Init, NEW o \in Orgs, NEW u \in Users
        PROVE  member[o][u] = NoRow /\ audit[o][u] = {}
    <3>1. /\ member = [p \in Orgs |-> [v \in Users |-> NoRow]]
          /\ audit = [p \in Orgs |-> [v \in Users |-> {}]]
      BY <2>1, <2>3
    <3>2. QED
      BY <3>1, Zenon
  <2>4. Init => RowsStay /\ LogTellsStatus /\ StampsFresh
    BY <2>1, <2>2, <2>3 DEF RowsStay, LogTellsStatus, StampsFresh, InTransaction
  <2>5. Init => DirectoryReady
    BY <2>1, <2>2, <2>3 DEF DirectoryReady, Ready
  <2>6. Init => Shows = [o \in Orgs |-> [u \in Users |-> Directory!Outsider]]
    BY <2>2, <2>3 DEF Shows
  <2>7. QED
    BY <2>1, <2>4, <2>5, <2>6 DEF Directory!Init
<1>2. QED
  BY <1>1, StepRowsStay, StepLog, StepStampsFresh, StepReady, StepDirectory, TypeCorrect, LocksAreExclusive, PTL
  DEF Spec, Directory!Spec, DirectorySteps
=============================================================================
