# Formal models of the letsyak backend

TLA+ models of the parts of this repository that keep state and are used by many requests at a
time, the TLC configurations that check them on small instances, and theorems about them whose
proofs the TLA+ proof system checks for every value of the constants.

    tlc -config MCVaultOrg_races.cfg MCVaultOrg     # one run; PROJECT.json lists them all
    tlapm VaultOrgProofs.tla                        # one module of proofs

## 1. Inventory of the system

| Part | State | Operations | Hard behaviour |
|---|---|---|---|
| Organisations (`vault-api/internal/api/organization.go`, `internal/db/organization.go`) | `organisations`, `organisation_members`, `organisation_audit_log`, `vault_users.tier/quota_bytes` | create; add, re-role, re-tier, remove a member; list, usage | checks made outside and inside transactions at READ COMMITTED; two row locks taken in two orders; counts of rows nobody locks; a log whose times are those at which transactions began |
| `cmd/set-tier` | `vault_users.tier` | set the tier of a user | runs beside the organisations' own changes of tier |
| Share downloads (`api/handler.go`, `db/db.go`, `auth/auth.go`) | `vault_shares` | create, read, revoke, download with a token, download from the page, list | a row read once and used after a call to Synapse; counting at the end, its error ignored |
| Files (`api/handler.go`, `storage/storage.go`) | the owner's bucket in MinIO, `vault_shares.object_key/is_revoked`, `vault_users.used_bytes` | upload URL, folder, list, delete, move, quota | several calls to two systems that no transaction joins; each may fail |
| Provisioning and quota (`Provision`, `EnsureBucket`, `GetOrCreateUser`, `GetUploadURL`) | bucket, `vault_users` row, the upload URLs that are out | create both if missing; sign an upload URL | check then make; a row without a bucket; a quota checked when a URL is signed, not when it is used, in int64 arithmetic with a size the client declares |
| Authentication (`auth/auth.go`) | none (Synapse's) | who is this, is it in the room, which rooms | calls without a timeout |
| Share page (`PublicSharePage`, `templates/share.html`) | in each browser: a cached URL, a form, a button | fetch, preview, save, submit a password | fetching counts a download; a click, a fetch and Enter overlap; a cached URL outlives the share |
| Control plane (`control-plane/internal/workspace`, `cmd/server`) | a directory and a list of origins loaded at start | resolve by slug or by e-mail domain | normalisation decides what is a duplicate, what is found and who may read it |
| Deployment (`setup.sh`, `scripts`, compose files, `sygnal`, `postgres`, `well-known`) | configuration | run once by a person | none for a model checker |

How they interact: the handlers share no memory. Everything they share is in PostgreSQL, MinIO
and Synapse, so the grain of the models is one statement or one call; between two of them any
other request may run. Organisations and accounts meet in `vault_users` (tier and quota), files and
downloads in `vault_shares`; the share page meets the download handlers through requests, which may
be refused, lost or answered late.

What makes each correct:

* *Organisations*: an owner remains; ranks are respected; the member's row and the vault's tier say
  the same, and so does the audit log where transactions did not overtake each other; no set of
  requests waits for ever.
* *Downloads*: every URL is counted; the limit is passed by a known amount at most; what is
  closed stays closed.
* *Files*: a deletion or move that nothing disturbs is whole, in three places; a move never
  destroys the only copy; `used_bytes` is what was measured.
* *Provisioning and quota*: a user told "ok" has a row and a bucket; a vault grows by a known amount
  at most over what the last check admitted (which is within the quota when the declared size was
  the size of a file); what is stored is listed.
* *Share page*: nobody is refused before the downloads are used up; the closing of a share reaches
  the pages that are open; a page that has a share to itself gets its file; no page is left with a button that does nothing.
* *Control plane*: a query finds the enabled workspaces of the configuration and no other.

`PROJECT.json` lists the components with their status, and the hazards, each at its line, with
the properties that would catch it or the reason why none does. Many of these hazards do
happen: then a run shows it against a statement of the repository, or the property beside them names
the exception (`raced`, `missed`, `overtaken`, `Disturbed`), and the hazard says so.

## 2. Modules

| Module | Models | Instances for TLC | Theorems |
|---|---|---|---|
| `MemberDirectory` | what the organisations promise: the abstract specification | | |
| `VaultOrg` | organisations, members, set-tier; implements `MemberDirectory` | `MCVaultOrg` and 4 configurations | `VaultOrgProofs` |
| `ShareLifecycle` | what a share promises: the abstract specification | | |
| `VaultDownloads` | shares and their downloads; implements `ShareLifecycle` | `MCVaultDownloads` | `VaultDownloadsProofs` |
| `SharePage` | the share page; extends `VaultDownloads`, whose handlers its requests run | `MCSharePage` | `SharePageProofs` |
| `VaultFiles` | deletion, move and quota of one vault; extends `VaultPaths` | `MCVaultFiles` and 4 configurations | `VaultFilesProofs` |
| `VaultPaths` | paths, object keys, listings, LIKE: operators | through `VaultAccount` and `VaultFiles` | `VaultPathsProofs` |
| `VaultAccount` | one account: row, bucket, uploads, sizes, quota | `MCVaultAccount` | `VaultAccountProofs` |
| `WorkspaceDirectory` | the control plane | `MCWorkspaceDirectory` | `WorkspaceDirectoryProofs` |
| `TextFacts` | | | facts about sequences that the proofs about strings share |

Definitions whose names start with `Mut` are what a plausible bug would make of the definition
they precede; no specification uses them. For each property there is one that breaks it.

### VaultOrg

`tier[u]` is `vault_users.tier` (which determines `quota_bytes`: every statement writes both),
`member[o][u]` the row of `organisation_members`, `audit[o][u]` the entries logged on a member. A
request `r` is at statement `pc[r]` with demand `req[r]`; each is used once.

The entries of a log are a set, as those of the table are: an entry has its action and its time
(`organisation_audit_log.created_at`, by which the table's index reads it), and that is the only order
there is. The time is PostgreSQL's
`NOW()`, which is fixed when the transaction begins: `Begin` takes it from `clock` and keeps it in
`began[r]` until `InsertAudit`. A transaction that began first and waited for a row may commit last,
and its entry is then older than the one before it. Two transactions are taken to begin at different
times, and the wall clock not to go back.

| Action | Code |
|---|---|
| `RequireOrgAdmin` | `requireOrgAdmin` and the checks of the body; the actor's role it reads is kept in the request |
| `LoadTarget` | `GetOrganizationMember` and the rank checks of the role, tier and remove handlers, outside the transaction |
| `AskForOrganization`, `EnsureVaultUser`, `InsertOrganization` | the handler and transaction of a creation; `EnsureVaultUser` also comes first in an addition |
| `Begin` | `db.Begin()`, where the checks outside the transaction are over and `NOW()` is settled |
| `ReadRole`, `CountOwners` | `getMemberRoleTx`, `ensureAnotherOwnerTx` |
| `FirstUpdate` | the first UPDATE, which may have to wait for its row, evaluates WHERE again when it gets it, and locks what it found (`hit[r]`) |
| `Commit` | the second UPDATE (which may wait), the audit entry and COMMIT |
| `SetTier` | `cmd/set-tier` |
| `Fail`, `DeadlockAbort` | an error or a stop of the server; PostgreSQL ending one of two that wait for each other |

Row locks are not stored: who holds or wants a row follows from `pc`, `req` and `hit`
(`HoldsUser`, `HoldsMember`, `WantsUser`, `WantsMember`). A transaction's writes are applied when
it commits. That is what others see at READ COMMITTED, and the rows under them cannot change
meanwhile because they are locked; `LocksAreExclusive` proves that part.

`raced`, `missed` and `overtaken` are history variables, read by properties only: whether another
commit has changed a request's organisation since its handler checked the target, which commits found
no row of the member to change, and of which members the last commit on their membership was that
of a transaction begun before one already in the log. `LogTellsStatus` says that these two are the only
ways in which the log misleads. `MarkRaced` sets `raced` for requests about to run a statement of
their transaction, not for those that have yet to load their target.

`MemberDirectory` says the same without statements, locks and requests: a member is added, given a
role or a tier, or removed at one moment, and the member's vault and the audit log change with it.
The refinement mapping: `place` is what the row shows (`Shows`: nothing decides on the role or the
tier of a removed row), `vault` is `tier`, `log` is `audit`: an operation adds one entry, whose time
`MemberDirectory` leaves open. An operation happens at its commit (a
creation at its INSERT); everything before is a stutter, but for the vault that
`EnsureVaultUser` opens. What the run `org_removed_tier` shows is allowed there, and named: a `Late`
operation, on a member whose removal came first, is entered in the log and in the vault and leaves
the member alone. Nothing in `MemberDirectory` asks for the rank of who acts or for another
owner, because the code checks both before that moment (`RankRespected`, `LastOwnerUnlessRaced`).

### VaultDownloads

One variable per column of `vault_shares`, a clock, the viewers in the target room, and slots for
requests. `DownloadShare` and `PublicShareDownload` read the row and decide; a room share then
asks Synapse (`IsRoomMember`); `IncrementDownloadCount` adds one or fails, which the code
ignores; `Answer` sends the URL. `Fail` ends a request anywhere. `issued` and `uncounted` are
history. `max_downloads` is any integer, because the code stores what it is sent: with 0 or below
nobody is let in.

`ShareLifecycle` says the same without rows, clock and handlers: a share is made, closes once, and
requests are let in while it is open and end with a URL or without. The refinement mapping:
`phase` follows from the row and the clock (`Phase`: revoked, expired or used up is closed), `owed`
are the requests let in and not over (`Owed`), `issued` is itself. A tick may close any number of
shares in one step, a revocation or a counted download one; `IsRoomMember` that lets a viewer pass
is a stutter.

### SharePage

One share of `VaultDownloads` and the openings of its page. A viewer `p` is one opening: reloading
is opening another. `view[p]` is "plain" (no password), "form", or "unlocked" (the button that
replaces the form); `url[p]` is when the URL its button uses was signed, `sent` the fetches under
way, `by[r]` the fetch that request `r` answers.

| Action | Code |
|---|---|
| `OpenPage` | `PublicSharePage`, which does not look at the limit, and the start of the script: the eager fetch, or the form |
| `Click` | the listener of the button: `cachedUrl \|\| await fetchDownloadUrl(null)`, and of the button that replaces the form |
| `Submit` | `handlePasswordSubmit` up to its await; Enter calls it even while the button is disabled |
| `Arrive`, `SignAndCount`, `Deliver`, `Break` | the calls of `PublicShareDownload`; the answer runs what follows the await (`Got`, `Refused`) |
| `Refuse`, `Lose` | an error answer, for the state of the share or the password; a network error |
| `Publish`, `Elsewhere` | the owner creates the share as a link, revokes it; the clock |

`asked`, `handed`, `savedAt`, `quiet`, `failed` and `wasted` are history: `failed` the pages of
which a fetch was lost or broken, `wasted` how many downloads were counted and not answered, `quiet` the time from which the share is closed and the requests let in before are over.

### VaultAccount and VaultPaths

`tier` is the row ("none" without one), `bucket` whether the bucket exists, `object[k]` the size
stored under a key. A slot is a request at the server; a request that was answered with an upload
URL keeps its slot until the URL expires, because the URL can be used until then, any number of
times and for a file of any size (`Put`). `Provision`, `BucketExists`, `MakeBucket` and
`GetOrCreateUser` are the calls of provisioning, `GetUploadURL`, `CheckQuota` and
`PresignedPutURL` those of an upload; `EnsureVaultUser` and `SetTier` are what the organisations'
handlers and set-tier do to the row. `MoveFile` and `RemoveObject` are the two calls of a move.
`admitted` and `copied` are history: what the last check that passed lets be stored, and the moves
since.

`file_size` is any int64 (`Declared`), and nothing holds the file to it. `CheckQuota` adds it to the
size of the bucket as the code does, in int64 (`Wrap`): with a negative size there is room in a full
vault, and with one so large that the sum wraps there always is. `admitted` is therefore what is left
of the quota only if the declared size was that of a file within int64, and otherwise no more than
what was stored already: such a check admits whatever one URL can store.

`VaultPaths` has the keys: `BuildObjectKey`, `FolderKey`, `ListObjects` with what MinIO lists, and
`LikePrefix`, the pattern of `RevokeSharesByObjectPrefix`, with PostgreSQL's LIKE: a pattern matches
when its places take the characters of the string one after the other (`Takes`), a backslash nothing
and what follows it only itself.
A string is the sequence of its characters, because slashes at either end are what these functions
are about.

### WorkspaceDirectory

`Start` is `main` with `workspace.Load`: it serves with a normalised directory or stops. `Resolve`
answers a query inside `withCORS`. Slugs, domains, addresses and origins are sequences of
characters: case and blanks are what the properties are about. The properties say what is found in
terms of the file that was read (`config`), not of the directory made from it.

### VaultFiles

`bucket[k]` is the version stored under a key (0: none), `key` and `state` the shares, `used` the
owner's `used_bytes`. Each call of `DeleteFile`, `MoveFile` and `GetQuota` is an action;
`Put`, `CreateShare` and `RevokeShare` are the calls of the owner's other requests. `Name[k]` are
the characters of a key, `Path` those of the folder that may be deleted. `Folder` are
the keys that start with `Path`, `Liked` the keys that match the LIKE pattern made
from it: `DeletePrefix` uses the first, `RevokeSharesByObjectPrefix` the second. Neither set contains
the other for every path: `_` and `%` match more than themselves, and a backslash, LIKE's escape,
makes the pattern miss the folder itself. `DeletionIsWhole` therefore demands closed shares under
paths without a backslash only (`Unescaped`); under the others the code leaves them open. `before[r]` is
history: the vault when request `r` began, or `Disturbed` once anything else has changed it or
one of its calls has failed.

### What is abstracted

* A refused request that has changed nothing is left out, as are reads that only format an answer.
* In VaultOrg an addition with an unknown tier ends after `EnsureVaultUser`, like `Fail`.
* In VaultDownloads passwords: a wrong one changes nothing, a right one lets the request in
  (SharePage tells them apart). The clocks of the server, the database, MinIO and the browsers are
  one; so the listing of shared files, which alone compares an expiry with PostgreSQL's clock, is left
  out.
* In VaultFiles there is one vault (buckets and statements name their owner), all files have size
  1, a listing is taken at once (no property depends on it), and MinIO refuses to copy an object onto itself. Uploads happen at
  any time. VaultAccount has sizes, and leaves out the shares.
* In SharePage an opening of the page is never closed (its fetches may be lost), a fetch takes
  whichever slot is free, and all requests that the server has are for this share: a download with
  a token is like one of another opening.
* In VaultAccount a deletion of a folder is its removals one by one, and a listing or measure is
  taken at once. An upload through a URL needs the bucket and nothing else.
* In WorkspaceDirectory the fields that are only checked are one Boolean; status is compared as
  written in small letters; the order of workspaces found is that of the file.

## 3. Runs

Passing runs, with TLC's distinct states:

| Run | States | Question |
|---|---|---|
| `org_races` | 809 000 | do rows, tiers, log and owners stay together under three overlapping requests? are these one operation after another on `MemberDirectory`? |
| `org_ranks` | 110 000 | are ranks respected, is an organisation founded once, are creations and set-tier steps of `MemberDirectory`, and does every request end, when all kinds overlap and take locks in two orders? |
| `downloads` | 345 000 | is every URL counted, the overshoot bounded, closing final? is it the life cycle of a share? |
| `files` | 700 000 | is an undisturbed deletion or move whole, after any history? |
| `files_together` | 649 000 | what holds of handlers that overlap: used_bytes, and no file lost by a move? |
| `account` | 969 000 | how far does a vault grow over what a check has admitted? does a row have its bucket? is what is stored listed? |
| `share_page` | 1 468 000 | is a page refused only when the downloads are used up? does closing reach the pages? does a lone page get its file? does its button come back? |
| `directory` | 33 000 | which files are refused, what is found, and who may read it? |

The bounds, and why they are enough for the cases the properties are about:

* `org_races`: three requests make the longest conflict the code has: an addition, a tier change
  and a removal of one member, in every order and overlap, and transactions that commit in another order than they began. Two users, both owners, are what a
  write skew needs. It starts with the organisation already founded, as `Seeded` says;
  `org_ranks` has the founding.
* `org_ranks`: three users, one of each rank, and two requests: a check and a commit in between, and
  the two of a deadlock; circles of more contain such a pair, as `WaitCycles` proves. No symmetry,
  because one property is about liveness.
* `downloads`: `MaxNow` = 1 gives a share expiring before, at and after the clock's only step, and
  one that never does; limit 1 with three slots is passed by two, the most there can
  be, limits -1 and 0 let nobody in; `MaxCount` = 4 is never in the way of that, `MaxFailed` = 1 makes one counting fail.
  Symmetry is on the slots, which no property tells apart.
* `files`: a file outside the folder and two in it, so that a folder deletion can be in the middle
  of its work, two shares, three uploads, and one request at a time, between whose calls clients
  upload, share and revoke. `files_together` has two requests over two keys: everything that one
  handler does to another it does through one key, one share or `used_bytes`. Both at once are out
  of reach of a run of minutes; the proofs are for any number of each. Symmetry is on the slots and
  on the keys of the folder.
* `account`: two slots, so that two provisionings, two URLs, or a URL and a move overlap; files of
  size 0 and 1 and quotas 1 and 5 reach the quota and pass it; the sizes declared are a negative one,
  and 4, for which there is room or not, and with which the sum passes `MaxInt` = 6 and wraps when three
  files are stored; the targets are the paths a client may write for the root and for a folder.
  `MaxCopied` = 1: a further move adds what the first adds; the proof is for any number.
* `share_page`: two openings and two requests, limits 1 and 2 (with 2 both pages are served unless one
  takes both), a page lifetime of three ticks with
  `TTL` = 1, so that a URL is used before, at and after its expiry and after the share's closing.
  `MaxCount` = 3 leaves room for the two fetches of both pages. `MaxFailed` = 0: uncounted
  downloads are in `downloads`, and in the proofs. Symmetry is on the openings and on the slots.
* `directory`: two workspaces are what a duplicate needs; slugs, domains, addresses and origins come
  in forms that are the same, differ, or differ in case and blanks.

Deadlock is checked but in the runs of `VaultOrg`, where a request is used once and a system whose
requests are all done stops (there `RequestsFinish` says that no request is stuck), and in
`directory`, where the process stops when its file is refused.

Runs that end in a counterexample, each a statement of the repository that the code does not keep:

| Run | Statement | What happens |
|---|---|---|
| `org_lastowner_skew` | "organisation must keep at least one owner" (`db/organization.go:20`) | two owners are taken away at a time; each transaction counts the other's, unlocked |
| `org_removed_tier` | "removed member ... want free" (`db/db_integration_test.go:317`) | a tier change waits for a removal, finds no active row, and writes the vault's tier all the same |
| `files_overlap` | "copies an object to a new key and deletes the original" (`storage/storage.go:199`) | an upload between copy and removal is removed, never copied |
| `files_pattern` | revokes the shares "under a folder" (`db/db.go:339`) | `_` in the folder's name matches other characters, and a share outside is revoked |

The passing properties say what does hold in their place: `LastOwnerUnlessRaced` that the last owner
is lost only by such a race or by an addition (adding the only owner again as a member demotes it,
because the upsert counts no owners), `AssignedTierIsVaultTier` that the second is the only way the
tiers part, `RemovalKeepsCopy` that without another change a move is safe.

## 4. Fairness

Only `org_ranks` needs it, for `RequestsFinish`: `WF_vars(Step(r))`, because the server runs the handler it has
begun and PostgreSQL the statement it has been sent, and `WF_vars(DeadlockAbort(r))`, because
PostgreSQL looks for cycles after `deadlock_timeout`. Weak fairness is enough: a request that
waits for a row gets it once it stays free, and locks are held by requests that move themselves.
Nothing is assumed to arrive, to fail or to be retried. Without `DeadlockAbort` the property is
false, which one of its mutants shows.

## 5. Proofs

For any users, organisations, shares, keys and number of requests, with the assumptions the
modules name (`KindsAssumption`, `InputsAssumption`, `RequestsAssumption`, ...):

**VaultOrgProofs.** `TypeCorrect` is inductive. `LocksAreExclusive` (`LocksOK`) adds that a row is
held by one transaction and that a held member is active until the commit: it is what makes
"find, then change at the commit" the same as one statement, and every later proof uses it.
`RemovedRows`, `OneCreation` and `LogIsTrue` are inductive with it; the log also needs `RowsStay`
(rows a transaction has read are never deleted) and `NotOvertaken`: an entry whose
transaction began after those of all entries before it is the latest of its log. `WaitCycles` needs no induction over the cycle:
whoever is waited for holds a row; if it is a member's row, its holder waits for the row of the
user, which an addition holds; that addition waits for the member's row, whose holder waits for it.

The action properties rest on what a check has found and no marked race has undone:
`OwnersCounted` (an unraced request that takes an owner still has another owner beside it) for
`LastOwner`, `RankChecked` for `Ranks`. `TiersAgree` assumes one organisation and no set-tier,
because the code lets the last writer win otherwise; `TiersTogether` strengthens it with the tier
of users without a row of membership.

`ImplementsDirectory` is the refinement of `MemberDirectory`. `DirectoryReady` is what the moment of
an operation needs beside `LocksOK` and `RowsStay`: members have vaults, and so have those about to
become one; an addition is to an organisation that exists; a transaction whose UPDATE found no row
comes after a removal that is in the log (`LogTellsStatus` gives it when the UPDATE is made, and
`RemovalsPersist` keeps it). `CommitInDirectory` then names the operation for each kind of commit,
with and without its row, `FoundsInDirectory` for a creation, `VaultSteps` for what opens a vault or
sets its tier, and every other step is a stutter.

**VaultDownloadsProofs.** All steps are one of four: requests enter, count, answer, or do nothing
to the counts (lemma `Traffic`); `UrlsAreCounted` and `Overshoot` (through `NothingEarly` and
`LetInBounded`, the number let in plus the count against the limit) follow from the cardinalities
each kind changes. `ClosedForGood` needs the type invariant and `NothingEarly` only. `ImplementsLifecycle` is the refinement of `ShareLifecycle`: lemma `StepLifecycle` gives for
each action the abstract one it is, and uses `StepFinal` (what is closed stays so) for every step
that changes the row or the clock.

**SharePageProofs.** `ServerSpec` shows that the server under the pages behaves as `VaultDownloads`,
which brings every theorem about it along: `PagesKeepLifecycle` is `ImplementsLifecycle`, and `ClosingReaches` uses `ClosedForGood` for the
share, and for the pages `Past` and `ClosedThen` (no time is to come; once the share is over no URL
and no save is later than that, and its lifetime). `PageTypeOK` includes the two relations that make
it inductive: `FetchesFit` between the views and the fetches, `RequestsAnswer` between the fetches
and the requests.

`RefusedOnlyWhenSpent` and `OnePageSuffices` rest on one invariant, `Own`, of four parts: `Owned`
(who has asked: fetches, handed URLs and requests let in are theirs, and a page with a URL shows no
form), `AllServed` (no page is forgotten: it has been handed a URL, was let down, waits for a fetch with
the right password, or the share is closed), `Conserved` (what is counted, or failed to be, has been
answered, is being answered, or is wasted) and `CountedForSome` (what is counted was for some page).
A page that goes without while the share lasts has met the limit (`LeftOut`); `Conserved` says what
has used it up, and for a page alone `CountedForSome` and `Owned` leave nobody who could have.

**TextFacts and VaultPathsProofs.** What is true of strings is proved from their elements, without
induction over them: a set of natural numbers has a least element and a bounded one a greatest
(`LeastExists`, `GreatestExists`), so a property of all places of a string follows from the first
place where it fails. `FileListed` and `FolderListed` say what a listing shows of a key that is the
listed prefix, a flat name and, for a folder, a slash; `UploadedUnder` and `FolderUnder` that
`BuildObjectKey` and `FolderKey` make such keys. `PrefixIsLiked`: a path without a backslash matches,
as a pattern, what begins with it; `LikedIsPrefix`: a path without any of LIKE's special characters
matches nothing else.

**VaultAccountProofs.** `Usable` adds to the two provisioning properties what each call has found
(`row` is reached with a bucket, `measure` with a row). `OvershootBounded` is not inductive: a use of
a URL enlarges the bucket. `ReachBounded` is: it bounds what is stored together with all that the
signed URLs may still store (`Reach`, a set of units of size), which no use of a URL enlarges; a
check that passes starts it anew (`CheckReach`, the one place where the sum may have wrapped) and a
move adds one file to it. `StoredIsListed` brings the lemmas of
`VaultPathsProofs` to the keys of an account, for any characters and any paths.

**WorkspaceDirectoryProofs.** `LoadedAlways`: the directory is the file that was read, normalised
and accepted, and the answer is what `Found` and `AllowOrigin` give. `OneForASlug` and
`ListedOriginsMayRead` follow, for any alphabet, files and lists of origins. `TypeCorrect` adds that
the directory holds what `Valid` accepts. `AllForAnAddress` needs `DomainIsAfter`: what the code takes
for the domain of an address, after it has trimmed, lowered and split it, is what follows the first
"@" as written, but for case and blanks; `AtAssumption` says that lowering makes an "@" of nothing
else.

**VaultFilesProofs.** `InPhase` says, for every label a request can be at, what an undisturbed
request has done so far to the vault it found (`before[r]`): a deletion at `revoke` has removed
its files and nothing else, a move at `source` has its copy in place, and so on. One lemma per
handler shows that its steps go from phase to phase, one that a step of another either leaves the
vault alone or marks the request as disturbed. The properties are the last phases. `DeletionsAreWhole`
uses `FolderIsLiked` for paths without a backslash; `LiteralFoldersClose` says of which folders the
comment that `files_pattern` refutes is true: those without `_`, `%` and backslash.

Checked by TLC only: `RequestsFinish`, which is liveness under fairness and out of the proof
system's reach, and the four runs that end in a counterexample.

## 6. Not modelled, and the plan

What is left to do, in this order:

1. `Vault`: files and downloads composed over one `vault_shares`, so that moves and deletions close
   shares while they are downloaded; both would implement `ShareLifecycle`.
2. `MemberDirectory` with the check of an operation as a step of its own, so that what a race can and
   cannot do to ranks and owners follows from the abstract specification too.

Not modelled, and why:

* Liveness of downloads, pages and uploads: the code retries nothing and sets no timeout, so what
  must happen depends on clients and services alone. That a page is not left waiting for nothing is
  stated as safety (`ButtonComesBack`).
* The listing of files shared with a user: it only reads, and whether what it lists can be downloaded
  depends on two clocks (PostgreSQL's `NOW()` in `db.go:438`, the server's in the handlers) that
  nothing in the code brings together.
* `WhoAmI` and `AuthMiddleware`: they decide on what Synapse says at that moment and keep nothing.
* The vault-api server's `main`, the helpers for sizes, emoji, MIME types, slugs and JSON, and the
  page's markup and previews: no state, wording and layout.
* Deployment scripts and configuration, run once by a person.
* The services themselves (PostgreSQL, MinIO, Synapse, coturn, Redis, sygnal), modelled only as the
  code uses them.
