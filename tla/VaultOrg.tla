------------------------------ MODULE VaultOrg ------------------------------
(***************************************************************************)
(* Organisations and their members: the handlers of                        *)
(* vault-api/internal/api/organization.go and the transactions of          *)
(* vault-api/internal/db/organization.go that they run, many at a time,    *)
(* against one PostgreSQL database at its default isolation level, READ    *)
(* COMMITTED: every statement sees what is committed when it starts, an    *)
(* UPDATE waits for the transaction that holds the row and then evaluates  *)
(* its WHERE clause again, and a row once written stays locked until its   *)
(* transaction ends.                                                       *)
(*                                                                         *)
(* A request is used once: it arrives, advances one statement at a time    *)
(* and is done.  An uncommitted write is not visible to anyone, and the    *)
(* row under it cannot change, so the writes of a transaction are applied  *)
(* together in its last step: the last UPDATE (once its row is free), the  *)
(* audit entry and COMMIT, none of which waits for anything else.          *)
(***************************************************************************)
EXTENDS Naturals

CONSTANTS
    Users,       \* matrix user ids
    Orgs,        \* organisations, each standing for its UNIQUE slug
    Requests,    \* the requests the server may get, each used at most once
    Kinds,       \* the operations these requests may ask for
    RoleInputs,  \* the roles they may ask for
    TierInputs   \* the tiers they may ask for

Roles == {"owner", "admin", "member"}

Tiers == {"free", "plus"}

AllKinds == {"create", "add", "role", "tier", "remove", "setTier"}

ASSUME KindsAssumption == Kinds \subseteq AllKinds
ASSUME InputsAssumption == RoleInputs \subseteq Roles /\ TierInputs \subseteq Tiers

VARIABLES
    tier,     \* tier[u]: vault_users.tier, which quota_bytes follows; "none" without a row
    member,   \* member[o][u]: the row of organisation_members
    audit,    \* audit[o][u]: the entries organisation_audit_log holds on u, with no order but their times
    clock,    \* NOW(), which PostgreSQL fixes when a transaction begins: how many have begun
    pc,       \* pc[r]: the statement request r runs next
    req,      \* req[r]: what r asks for, and the actor's role its handler read
    began,    \* began[r]: the time r's transaction began, 0 outside one
    hit,      \* hit[r]: r's first UPDATE found its row, which r has locked since
    raced,    \* history: another request changed r's organisation since r's handler checked the target
    missed,   \* history: <<kind, org, user>> of the commits whose member UPDATE found no row
    overtaken \* history: <<org, user>> whose latest entry on membership is not the last by time

vars == <<tier, member, audit, clock, pc, req, began, hit, raced, missed, overtaken>>

-----------------------------------------------------------------------------
(* Rows and what the code reads from them.                                 *)

Rows == [role : Roles, status : {"absent", "active", "removed"},
         assigned : Tiers, removedAt : BOOLEAN]

Row(role, status, assigned, removedAt) ==
    [role |-> role, status |-> status, assigned |-> assigned, removedAt |-> removedAt]

NoRow == Row("member", "absent", "free", FALSE)

\* getMemberRoleTx and GetOrganizationRole: "" without an active row.
ActiveRole(o, u) == IF member[o][u].status = "active" THEN member[o][u].role ELSE ""

OrgExists(o) == \E u \in Users : member[o][u].status # "absent"

IsOrgAdminRole(role) == role \in {"owner", "admin"}

CanAssignOrgRole(actorRole, newRole) ==
    actorRole = "owner" \/ (actorRole = "admin" /\ newRole = "member")

MutCanManageOrgMember(actorRole, targetRole) == IsOrgAdminRole(actorRole)

CanManageOrgMember(actorRole, targetRole) ==
    actorRole = "owner" \/ (actorRole = "admin" /\ targetRole = "member")

MutAnotherOwner(o) == \E v \in Users : ActiveRole(o, v) = "owner"

\* ensureAnotherOwnerTx: COUNT(*) of the active owners is not <= 1.
AnotherOwner(o) ==
    \E v, w \in Users : v # w /\ ActiveRole(o, v) = "owner" /\ ActiveRole(o, w) = "owner"

\* What a request asks for.  A field the operation does not take has a fixed value.
Bodies ==
         [kind : {"add"}, role : RoleInputs, tier : TierInputs]
    \cup [kind : {"role"}, role : RoleInputs, tier : {"free"}]
    \cup [kind : {"tier"}, role : {"member"}, tier : TierInputs]
    \cup [kind : {"remove"}, role : {"member"}, tier : {"free"}]

NoDemand == [kind |-> "none"]

Demands == {NoDemand} \cup
    [kind : {"create", "add", "role", "tier", "remove"}, org : Orgs,
     target : Users, role : Roles, tier : Tiers, actorRole : Roles]

-----------------------------------------------------------------------------
(* Row locks.  Every transaction below locks one row with its first UPDATE *)
(* and, but for a change of role, wants a second one.                      *)

MutFirstRow(kind) == IF kind \in {"add", "remove"} THEN "user" ELSE "member"

\* The table whose row the first UPDATE of the transaction locks.
FirstRow(kind) == IF kind = "add" THEN "user" ELSE "member"

HoldsUser(r, u) ==
    pc[r] = "last" /\ req[r].target = u /\ FirstRow(req[r].kind) = "user"

HoldsMember(r, o, u) ==
    /\ pc[r] = "last" /\ req[r].org = o /\ req[r].target = u
    /\ FirstRow(req[r].kind) = "member" /\ hit[r]

MutMatches(r) == member[req[r].org][req[r].target].status # "absent"

\* WHERE org_id = $1 AND matrix_user_id = $2 AND status = 'active'
Matches(r) == member[req[r].org][req[r].target].status = "active"

WantsUser(r) ==
    \/ pc[r] = "ensure"
    \/ pc[r] = "first" /\ FirstRow(req[r].kind) = "user"
    \/ pc[r] = "last" /\ FirstRow(req[r].kind) = "member" /\ req[r].kind # "role"

WantsMember(r) ==
    \/ pc[r] = "first" /\ FirstRow(req[r].kind) = "member" /\ Matches(r)
    \/ pc[r] = "last" /\ FirstRow(req[r].kind) = "user"

WaitsFor(r, s) ==
    /\ r # s
    /\ \/ WantsUser(r) /\ HoldsUser(s, req[r].target)
       \/ WantsMember(r) /\ HoldsMember(s, req[r].org, req[r].target)

Blocked(r) == \E s \in Requests : WaitsFor(r, s)

-----------------------------------------------------------------------------
Init ==
    /\ tier = [u \in Users |-> "none"]
    /\ member = [o \in Orgs |-> [u \in Users |-> NoRow]]
    /\ audit = [o \in Orgs |-> [u \in Users |-> {}]]
    /\ clock = 0
    /\ pc = [r \in Requests |-> "new"]
    /\ req = [r \in Requests |-> NoDemand]
    /\ began = [r \in Requests |-> 0]
    /\ hit = [r \in Requests |-> FALSE]
    /\ raced = [r \in Requests |-> FALSE]
    /\ missed = {}
    /\ overtaken = {}

Goto(r, label) == pc' = [pc EXCEPT ![r] = label]

database == <<tier, member, audit, missed, overtaken>>

\* The request leaves the server, its transaction over and its locks released.
Leave(r) ==
    /\ Goto(r, "done")
    /\ req' = [req EXCEPT ![r] = NoDemand]
    /\ began' = [began EXCEPT ![r] = 0]
    /\ hit' = [hit EXCEPT ![r] = FALSE]
    /\ UNCHANGED clock

MutGiveUp(r) == UNCHANGED vars

\* An early return or an error: nothing is committed.
GiveUp(r) ==
    /\ Leave(r)
    /\ raced' = [raced EXCEPT ![r] = FALSE]
    /\ UNCHANGED database

\* Where a request is between its check of the target and the end of its transaction.
Checked == {"begin", "read", "count", "first", "last"}

\* r commits a change of organisation o: whoever has checked o's rows has raced with it.
MarkRaced(r, o) ==
    raced' = [s \in Requests |->
                /\ s # r
                /\ raced[s] \/ (pc[s] \in Checked /\ req[s].org = o)]

Membership == {"organisation.create", "member.add", "member.remove"}

\* insertAuditTx: created_at DEFAULT NOW() is when r's transaction began, so the entry of
\* a transaction that began first is the older one although it may be inserted last.
InsertAudit(r, action) ==
    LET o == req[r].org
        u == req[r].target
        older == \E f \in audit[o][u] : f.action \in Membership /\ f.at >= began[r]
    IN  /\ audit' = [audit EXCEPT ![o][u] = @ \cup {[action |-> action, at |-> began[r]]}]
        /\ overtaken' = IF action \notin Membership THEN overtaken
                         ELSE IF older THEN overtaken \cup {<<o, u>>} ELSE overtaken \ {<<o, u>>}

-----------------------------------------------------------------------------
(* The handlers up to the transaction.                                     *)

\* requireOrgAdmin, and the checks of the request body that follow it.  A request
\* refused here has changed nothing and is left out.
RequireOrgAdmin(r) ==
    /\ pc[r] = "new"
    /\ \E o \in Orgs, a, u \in Users, b \in Bodies :
          /\ b.kind \in Kinds
          /\ IsOrgAdminRole(ActiveRole(o, a))
          /\ b.kind = "add" => CanAssignOrgRole(ActiveRole(o, a), b.role)
          /\ req' = [req EXCEPT ![r] = [kind |-> b.kind, org |-> o, target |-> u, role |-> b.role,
                                        tier |-> b.tier, actorRole |-> ActiveRole(o, a)]]
          /\ Goto(r, IF b.kind = "add" THEN "ensure" ELSE "target")
    /\ UNCHANGED <<database, clock, began, hit, raced>>

\* GetOrganizationMember on the target, and the check of ranks, outside the transaction.
LoadTarget(r) ==
    LET d == req[r]
        targetRole == ActiveRole(d.org, d.target)
    IN  /\ pc[r] = "target"
        /\ IF /\ targetRole # ""
              /\ CanManageOrgMember(d.actorRole, targetRole)
              /\ d.kind = "role" => CanAssignOrgRole(d.actorRole, d.role)
           THEN Goto(r, "begin") /\ UNCHANGED <<database, clock, req, began, hit, raced>>
           ELSE GiveUp(r)

\* CreateOrganization: a request for a new organisation, founded by its caller.
AskForOrganization(r) ==
    /\ pc[r] = "new" /\ "create" \in Kinds
    /\ \E o \in Orgs, u \in Users :
          req' = [req EXCEPT ![r] = [kind |-> "create", org |-> o, target |-> u, role |-> "owner",
                                     tier |-> "free", actorRole |-> "owner"]]
    /\ Goto(r, "ensure")
    /\ UNCHANGED <<database, clock, began, hit, raced>>

\* GetOrCreateUser: the no-op UPDATE on conflict waits for the row, and commits at once.
EnsureVaultUser(r) ==
    LET u == req[r].target
    IN  /\ pc[r] = "ensure" /\ ~Blocked(r)
        /\ tier' = [tier EXCEPT ![u] = IF @ = "none" THEN "free" ELSE @]
        /\ Goto(r, "begin")
        /\ UNCHANGED <<member, audit, missed, overtaken, clock, req, began, hit, raced>>

-----------------------------------------------------------------------------
(* The transactions.                                                       *)

\* db.Begin().  What NOW() says in a transaction is settled here.
Begin(r) ==
    /\ pc[r] = "begin"
    /\ clock' = clock + 1
    /\ began' = [began EXCEPT ![r] = clock + 1]
    /\ Goto(r, IF req[r].kind = "create" THEN "insert"
               ELSE IF req[r].kind = "add" THEN "first" ELSE "read")
    /\ UNCHANGED <<database, req, hit, raced>>

MutSlugTaken(o) == FALSE

\* The UNIQUE constraint on organisations.slug refuses the INSERT.
SlugTaken(o) == OrgExists(o)

InsertOrganization(r) ==
    LET o == req[r].org
        u == req[r].target
    IN  /\ pc[r] = "insert"
        /\ \/ SlugTaken(o) /\ GiveUp(r)
           \/ /\ ~SlugTaken(o)
              /\ member' = [member EXCEPT ![o][u] = Row("owner", "active", "free", FALSE)]
              /\ InsertAudit(r, "organisation.create")
              /\ MarkRaced(r, o) /\ Leave(r)
              /\ UNCHANGED <<tier, missed>>

\* getMemberRoleTx: only a change that takes an owner away has the owners counted.
ReadRole(r) ==
    LET d == req[r]
        role == ActiveRole(d.org, d.target)
        takesOwner == role = "owner" /\ (d.kind = "remove" \/ (d.kind = "role" /\ d.role # "owner"))
    IN  /\ pc[r] = "read"
        /\ \/ role = "" /\ GiveUp(r)
           \/ /\ role # ""
              /\ Goto(r, IF takesOwner THEN "count" ELSE "first")
              /\ UNCHANGED <<database, clock, req, began, hit, raced>>

\* ensureAnotherOwnerTx: ErrLastOwner, or go on.
CountOwners(r) ==
    /\ pc[r] = "count"
    /\ \/ ~AnotherOwner(req[r].org) /\ GiveUp(r)
       \/ /\ AnotherOwner(req[r].org)
          /\ Goto(r, "first")
          /\ UNCHANGED <<database, clock, req, began, hit, raced>>

\* The first UPDATE: vault_users for an addition, organisation_members for the others,
\* where a row that is no longer active is neither found nor locked.
FirstUpdate(r) ==
    /\ pc[r] = "first" /\ ~Blocked(r)
    /\ hit' = [hit EXCEPT ![r] = FirstRow(req[r].kind) = "user" \/ Matches(r)]
    /\ Goto(r, "last")
    /\ UNCHANGED <<database, clock, req, began, raced>>

MutKeptTier(row, d) == Row(d.role, "active", row.assigned, FALSE)

MutAddedRow(row, d) == Row(d.role, row.status, d.tier, FALSE)

\* INSERT ... ON CONFLICT DO UPDATE of AddOrganizationMember.
AddedRow(row, d) == Row(d.role, "active", d.tier, FALSE)

MutRemovedRow(row) == Row(row.role, "removed", "none", TRUE)

\* SET status = 'removed', assigned_tier = 'free', removed_at = NOW(): the role stays.
RemovedRow(row) == Row(row.role, "removed", "free", TRUE)

NewRow(row, d) ==
    IF d.kind = "add" THEN AddedRow(row, d)
    ELSE IF d.kind = "remove" THEN RemovedRow(row)
    ELSE IF d.kind = "role" THEN Row(d.role, row.status, row.assigned, row.removedAt)
    ELSE Row(row.role, row.status, d.tier, row.removedAt)

\* The tier the transaction writes to vault_users: a removal downgrades to free.
VaultTier(d) == IF d.kind = "remove" THEN "free" ELSE d.tier

AuditAction(kind) ==
    IF kind = "add" THEN "member.add"
    ELSE IF kind = "remove" THEN "member.remove"
    ELSE IF kind = "role" THEN "member.role.update"
    ELSE "member.tier.update"

\* The second UPDATE where there is one, insertAuditTx and COMMIT.  The tier of the
\* vault and the audit entry are written whether or not the member's row was found.
Commit(r) ==
    LET d == req[r]
    IN  /\ pc[r] = "last" /\ ~Blocked(r)
        /\ member' = [member EXCEPT ![d.org][d.target] = IF hit[r] THEN NewRow(@, d) ELSE @]
        /\ tier' = IF d.kind = "role" THEN tier ELSE [tier EXCEPT ![d.target] = VaultTier(d)]
        /\ InsertAudit(r, AuditAction(d.kind))
        /\ missed' = IF hit[r] THEN missed ELSE missed \cup {<<d.kind, d.org, d.target>>}
        /\ MarkRaced(r, d.org) /\ Leave(r)

\* cmd/set-tier: UpdateUserTier, one UPDATE of a row that exists, waiting for its lock.
SetTier(r) ==
    /\ pc[r] = "new" /\ "setTier" \in Kinds
    /\ \E u \in Users, t \in TierInputs :
          /\ tier[u] # "none"
          /\ \A s \in Requests : ~HoldsUser(s, u)
          /\ tier' = [tier EXCEPT ![u] = t]
    /\ Leave(r)
    /\ UNCHANGED <<member, audit, missed, overtaken, raced>>

-----------------------------------------------------------------------------
(* What ends a request from outside.                                       *)

\* A statement fails, or the server stops: the transaction is rolled back.
Fail(r) == pc[r] \notin {"new", "done"} /\ GiveUp(r)

MutDeadlockAbort(r) ==
    /\ \E s \in Requests : WaitsFor(r, s) /\ WaitsFor(s, r)
    /\ UNCHANGED vars

\* PostgreSQL ends a transaction that waits for one that waits for it.
DeadlockAbort(r) ==
    /\ \E s \in Requests : WaitsFor(r, s) /\ WaitsFor(s, r)
    /\ GiveUp(r)

Step(r) ==
    \/ LoadTarget(r) \/ EnsureVaultUser(r) \/ Begin(r) \/ InsertOrganization(r)
    \/ ReadRole(r) \/ CountOwners(r) \/ FirstUpdate(r) \/ Commit(r)

Act(r) ==
    \/ RequireOrgAdmin(r) \/ AskForOrganization(r) \/ SetTier(r)
    \/ Step(r) \/ Fail(r) \/ DeadlockAbort(r)

Next == \E r \in Requests : Act(r)

Spec == Init /\ [][Next]_vars

\* The server runs what it has begun, and the database finds deadlocks after
\* deadlock_timeout.  Nothing makes a request arrive or a statement fail.
Fairness == \A r \in Requests : WF_vars(Step(r)) /\ WF_vars(DeadlockAbort(r))

FairSpec == Spec /\ Fairness
-----------------------------------------------------------------------------
(* Properties.                                                             *)

Actions == {"organisation.create", "member.add", "member.role.update",
            "member.tier.update", "member.remove"}

Labels == {"new", "target", "ensure", "begin", "insert", "read", "count", "first", "last", "done"}

\* A request about to run statement p, with demand d: the statement is one of the
\* operation's own, and an addition has always found the row of its user.
RequestOK(p, d, found) ==
    /\ p \in Labels /\ d \in Demands /\ found \in BOOLEAN
    /\ p \in {"new", "done"} <=> d = NoDemand
    /\ p = "begin" => d.kind \in {"create", "add", "role", "tier", "remove"}
    /\ p = "insert" => d.kind = "create"
    /\ p = "ensure" => d.kind \in {"create", "add"}
    /\ p \in {"target", "read", "count"} => d.kind \in {"role", "tier", "remove"}
    /\ p \in {"first", "last"} => d.kind \in {"add", "role", "tier", "remove"}
    /\ p = "last" /\ d.kind = "add" => found

\* Type invariant: the columns hold what their CHECK constraints allow, and each
\* request is at a statement of its own operation.
TypeOK ==
    /\ tier \in [Users -> Tiers \cup {"none"}]
    /\ member \in [Orgs -> [Users -> Rows]]
    /\ audit \in [Orgs -> [Users -> SUBSET [action : Actions, at : Nat]]]
    /\ missed \subseteq {"role", "tier", "remove"} \X Orgs \X Users
    /\ overtaken \subseteq Orgs \X Users
    /\ clock \in Nat
    /\ began \in [Requests -> Nat]
    /\ pc \in [Requests -> Labels]
    /\ req \in [Requests -> Demands]
    /\ hit \in [Requests -> BOOLEAN]
    /\ raced \in [Requests -> BOOLEAN]
    /\ \A r \in Requests : RequestOK(pc[r], req[r], hit[r])

\* A removed member's row says 'free' and carries its removal time, and no other row
\* does: a change of tier that was under way when the member was removed must not
\* write to the row any more (status = 'active' is evaluated again after the wait).
RemovedRowsAreFree ==
    \A o \in Orgs, u \in Users :
        /\ (member[o][u].status = "removed") <=> member[o][u].removedAt
        /\ member[o][u].status = "removed" => member[o][u].assigned = "free"

\* The latest entry of a log that is about membership is one of A.
LatestIn(log, A) ==
    \E e \in log : /\ e.action \in A
                   /\ \A f \in log : f.action \in Membership => f.at <= e.at

\* The audit log, read by the only order it has (created_at), tells a member's status:
\* active after a creation or an addition, removed after a removal.  It does not where
\* the commit that settled the status was that of a transaction which had begun before
\* one already entered, and a removal that found no active row to remove (its duplicate
\* came first) leaves an entry that changed nothing.
LogTellsStatus ==
    \A o \in Orgs, u \in Users :
        LET status == member[o][u].status
            log == audit[o][u]
        IN  /\ status = "absent" => \A e \in log : e.action \notin Membership
            /\ status = "removed" => \E e \in log : e.action = "member.remove"
            /\ status = "removed" /\ <<o, u>> \notin overtaken
                 => LatestIn(log, {"member.remove"})
            /\ status = "active" /\ <<o, u>> \notin overtaken /\ <<"remove", o, u>> \notin missed
                 => LatestIn(log, {"organisation.create", "member.add"})

\* With one organisation and no use of set-tier, the tier an organisation assigns a
\* member is the tier of the member's vault, whatever additions, changes and removals
\* overlap: the two rows are written in one transaction, in two different orders.  The
\* one exception is a commit whose member UPDATE found no row and wrote the vault all
\* the same.
AssignedTierIsVaultTier ==
    \A o \in Orgs, u \in Users :
        \/ member[o][u].status = "absent"
        \/ member[o][u].assigned = tier[u]
        \/ \E k \in {"tier", "remove"} : <<k, o, u>> \in missed

\* Requests that wait for each other in a circle always include an addition and a
\* change of tier or removal of the same member that wait for one another: the
\* transactions of one kind all lock their rows in one order, and looking at pairs
\* finds every deadlock.
WaitCyclesPairAddWithMember ==
    \A S \in SUBSET Requests :
        (S # {} /\ \A x \in S : \E y \in S : WaitsFor(x, y)) =>
            \E x, y \in S : /\ WaitsFor(x, y) /\ WaitsFor(y, x)
                            /\ req[x].kind = "add" /\ req[y].kind \in {"tier", "remove"}

\* An organisation is created once: of the requests that race for a slug one founds
\* it, and the log of the organisation holds the entry of one creation.
OneFounder ==
    \A o \in Orgs : \A u, v \in Users :
        \A e \in audit[o][u], f \in audit[o][v] :
            e.action = "organisation.create" /\ f.action = "organisation.create"
                => u = v /\ e = f

HasOwner(o) == \E u \in Users : ActiveRole(o, u) = "owner"

\* ErrLastOwner: "organisation must keep at least one owner".
KeepsAnOwner == \A o \in Orgs : OrgExists(o) => HasOwner(o)

\* The step that takes an organisation's last active owner is the commit of an addition
\* (which counts no owners), or of a request after whose check of the target another
\* request changed the same organisation: a demotion or removal that runs alone never does.
LastOwnerUnlessRaced ==
    [][\A o \in Orgs :
          HasOwner(o) /\ ~HasOwner(o)' =>
              \E r \in Requests :
                  /\ pc[r] = "last" /\ pc'[r] = "done" /\ req[r].org = o
                  /\ req[r].kind = "add" \/ raced[r]]_vars

\* A rank is respected: of an administrator's requests, only an addition (which does not
\* look at the row it replaces) changes the row of an owner or of another administrator,
\* or one whose organisation changed between the check of the ranks, made outside the
\* transaction, and the commit.
RankRespected ==
    [][\A r \in Requests :
          /\ pc[r] = "last" /\ pc'[r] = "done" /\ member' # member
          /\ req[r].actorRole = "admin"
          => \/ req[r].kind = "add" \/ raced[r]
             \/ ActiveRole(req[r].org, req[r].target) = "member"]_vars

\* What a row shows of a user: the columns of a removed row are not read.
Shown(row) ==
    LET active == row.status = "active"
    IN  [status |-> row.status, role |-> IF active THEN row.role ELSE "none",
         tier |-> IF active THEN row.assigned ELSE "none"]

Shows == [o \in Orgs |-> [u \in Users |-> Shown(member[o][u])]]

Directory == INSTANCE MemberDirectory WITH place <- Shows, vault <- tier, log <- audit

\* Whatever requests overlap, what they commit is one operation after another on the
\* directory of MemberDirectory: their statements, the locks and the second look an UPDATE
\* takes at its row make each of them happen at one moment.
DirectorySteps == [][Directory!Next]_(Directory!directoryVars)

\* The integration test's "removed member tier=%s quota=%d, want free/%d": a member
\* removed from the only organisation has a free vault.
RemovedMemberIsFree ==
    \A o \in Orgs, u \in Users : member[o][u].status = "removed" => tier[u] = "free"

\* Every request the server has begun is answered: no set of requests waits forever
\* for rows that the others hold.
RequestsFinish == \A r \in Requests : pc[r] \notin {"new", "done"} ~> pc[r] = "done"
=============================================================================
