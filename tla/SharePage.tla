------------------------------ MODULE SharePage ------------------------------
(***************************************************************************)
(* The page of a share link, at work with the handlers that serve it:      *)
(* PublicSharePage of vault-api/internal/api/handler.go and the script of  *)
(* templates/share.html over VaultDownloads.                               *)
(*                                                                         *)
(* A page without a password fetches a URL as soon as it is opened, and a  *)
(* click uses that URL for ever; a click that comes before it fetches one  *)
(* of its own.  A page with a password fetches one for each submission,    *)
(* and Enter submits even while the button is disabled.                    *)
(*                                                                         *)
(* A viewer stands for one opening of the page: to reload it is to open    *)
(* another.                                                                *)
(***************************************************************************)
EXTENDS VaultDownloads

CONSTANTS
    share,      \* the share whose pages these are
    TTL         \* how long a URL works: 15 minutes

ASSUME ShareAssumption == share \in Shares
ASSUME TTLAssumption == TTL \in Nat

VARIABLES
    locked,     \* the share has a password
    view,       \* view[p]: what page p shows
    url,        \* url[p]: when the URL its button uses was signed, or None
    busy,       \* busy[p]: its button is disabled
    sent,       \* the fetches <<p, c>> under way
    by,         \* by[r]: the fetch of its page that request r answers
    signed,     \* signed[r]: when r signed its URL
    asked,      \* history: the pages that sent a fetch the server should answer
    handed,     \* history: the pages that were handed a URL
    savedAt,    \* history: savedAt[p]: when p last saved the file, or None
    quiet,      \* history: since when the share is closed, the requests let in over
    failed,     \* history: the pages of which such a fetch was lost or failed at the server
    wasted      \* history: how many downloads were counted and never answered

script == <<locked, view, url, busy, sent, by, signed, asked, handed, savedAt>>
losses == <<failed, wasted>>
pageVars == <<vars, script, quiet, losses>>

None == -1

\* What a page fetches for: its preview, a click, or a submitted password.
Submissions == {"right", "again", "wrong"}

Calls == {"init", "click"} \cup Submissions

PageInit ==
    /\ Init
    /\ locked = FALSE /\ view = [p \in Viewers |-> "away"]
    /\ url = [p \in Viewers |-> None] /\ busy = [p \in Viewers |-> FALSE]
    /\ sent = {} /\ by = [r \in Requests |-> "none"] /\ signed = [r \in Requests |-> None]
    /\ asked = {} /\ handed = {} /\ savedAt = [p \in Viewers |-> None]
    /\ quiet = None /\ failed = {} /\ wasted = 0

\* Nobody can get a URL any more.
Over == Closed(share) /\ LetIn(share) \cup Answering(share) = {}

\* The history every step keeps.
Observe == quiet' = IF quiet # None \/ ~Over' THEN quiet ELSE now'

-----------------------------------------------------------------------------
(* The page.                                                               *)

\* fetchDownloadUrl.  The bound of the counted downloads is kept here, so that the
\* handlers can answer what they have begun.
Send(p, c) ==
    /\ count[share] + Cardinality(sent) < MaxCount
    /\ <<p, c>> \notin sent /\ sent' = sent \cup {<<p, c>>}

\* PublicSharePage looks at the revocation and the expiry, not at the limit.
OpenPage(p) ==
    /\ view[p] = "away" /\ share \in made /\ ~revoked[share] /\ ~Expired(share)
    /\ \/ /\ locked /\ view' = [view EXCEPT ![p] = "form"]
          /\ UNCHANGED <<sent, asked>>
       \/ /\ ~locked /\ view' = [view EXCEPT ![p] = "plain"]
          /\ Send(p, "init")
          /\ asked' = asked \cup {p}
    /\ UNCHANGED <<vars, locked, url, busy, by, signed, handed, savedAt, losses>>

\* triggerDownload: MinIO refuses a URL that has expired.
Save(p, t) == savedAt' = IF now <= t + TTL THEN [savedAt EXCEPT ![p] = now] ELSE savedAt

\* cachedUrl || await fetchDownloadUrl(null)
Click(p) ==
    /\ view[p] \in {"plain", "unlocked"} /\ ~busy[p]
    /\ \/ url[p] # None /\ Save(p, url[p]) /\ UNCHANGED <<sent, busy>>
       \/ url[p] = None /\ Send(p, "click") /\ UNCHANGED savedAt
          /\ busy' = [busy EXCEPT ![p] = TRUE]
    /\ UNCHANGED <<vars, locked, view, url, by, signed, asked, handed, losses>>

\* handlePasswordSubmit, which Enter calls whether or not the button is disabled.
Submit(p, c) ==
    /\ view[p] = "form" /\ Send(p, c)
    /\ busy' = [busy EXCEPT ![p] = TRUE]
    /\ asked' = IF c = "wrong" THEN asked ELSE asked \cup {p}
    /\ UNCHANGED <<vars, locked, view, url, by, signed, handed, savedAt, losses>>

\* The fetch is over with a URL.  That of a click is used and not kept; that of a
\* submission replaces the form, and does nothing once the form has been replaced.
Got(p, c, t) ==
    /\ sent' = sent \ {<<p, c>>} /\ handed' = handed \cup {p}
    /\ busy' = IF c = "init" THEN busy ELSE [busy EXCEPT ![p] = FALSE]
    /\ IF view[p] = "form"
       THEN view' = [view EXCEPT ![p] = "unlocked"] /\ Save(p, t)
       ELSE UNCHANGED view /\ IF c = "click" THEN Save(p, t) ELSE UNCHANGED savedAt
    /\ url' = IF c = "init" \/ view[p] = "form" THEN [url EXCEPT ![p] = t] ELSE url

MutRefused(p, c) ==
    /\ sent' = sent \ {<<p, c>>}
    /\ UNCHANGED <<view, url, busy, handed, savedAt>>

\* The fetch is over with an error: the button is enabled again.
Refused(p, c) ==
    /\ sent' = sent \ {<<p, c>>}
    /\ busy' = IF c = "init" THEN busy ELSE [busy EXCEPT ![p] = FALSE]
    /\ UNCHANGED <<view, url, handed, savedAt>>

-----------------------------------------------------------------------------
(* The server.                                                             *)

MutArrived(p, c) == \E r \in Requests : pc[r] = "count" /\ job[r].viewer = p /\ by[r] = c

Arrived(p, c) == \E r \in Requests : pc[r] # "idle" /\ job[r].viewer = p /\ by[r] = c

\* A fetch is let in, whichever slot is free ...
Arrive(p, c) ==
    /\ <<p, c>> \in sent /\ ~Arrived(p, c) /\ c # "wrong"
    /\ \E r \in Requests : PublicShareDownload(r, share, p) /\ by' = [by EXCEPT ![r] = c]
    /\ UNCHANGED <<locked, view, url, busy, sent, signed, asked, handed, savedAt, losses>>

\* ... or refused, for the state of the share or for the password ...
Refuse(p, c) ==
    /\ <<p, c>> \in sent /\ ~Arrived(p, c) /\ (c = "wrong" \/ ~Open(share))
    /\ Refused(p, c)
    /\ UNCHANGED <<vars, locked, by, signed, asked, losses>>

\* ... or it never gets there.
Lose(p, c) ==
    /\ <<p, c>> \in sent /\ ~Arrived(p, c) /\ Refused(p, c)
    /\ failed' = IF c = "wrong" THEN failed ELSE failed \cup {p}
    /\ UNCHANGED <<vars, locked, by, signed, asked, wasted>>

\* The URL is signed before the download is counted.
SignAndCount(r) ==
    /\ IncrementDownloadCount(r) /\ signed' = [signed EXCEPT ![r] = now]
    /\ UNCHANGED <<locked, view, url, busy, sent, by, asked, handed, savedAt, losses>>

Forget(r) ==
    /\ by' = [by EXCEPT ![r] = "none"] /\ signed' = [signed EXCEPT ![r] = None]
    /\ UNCHANGED <<locked, asked>>

Deliver(r) ==
    /\ Answer(r) /\ Got(job[r].viewer, by[r], signed[r])
    /\ Forget(r) /\ UNCHANGED losses

Break(r) ==
    /\ Fail(r) /\ Refused(job[r].viewer, by[r])
    /\ Forget(r) /\ failed' = failed \cup {job[r].viewer}
    /\ wasted' = IF pc[r] = "answer" THEN wasted + 1 ELSE wasted

\* Only links have a page with a script.
Publish ==
    /\ CreateShare(share) /\ type'[share] = "link" /\ locked' \in BOOLEAN
    /\ UNCHANGED <<view, url, busy, sent, by, signed, asked, handed, savedAt, losses>>

Elsewhere == (RevokeShare(share) \/ Tick) /\ UNCHANGED <<script, losses>>

PageNext ==
    /\ \/ Publish \/ Elsewhere
       \/ \E p \in Viewers :
             \/ OpenPage(p) \/ Click(p)
             \/ \E c \in Submissions : Submit(p, c)
             \/ \E c \in Calls : Arrive(p, c) \/ Refuse(p, c) \/ Lose(p, c)
       \/ \E r \in Requests : SignAndCount(r) \/ Deliver(r) \/ Break(r)
    /\ Observe

PageSpec == PageInit /\ [][PageNext]_pageVars

-----------------------------------------------------------------------------
(* Properties.                                                             *)

\* A page fetches what it shows, and shows a button in place of the form with a URL ...
FetchesFit ==
    /\ \A f \in sent :
          view[f[1]] \in IF f[2] \in Submissions THEN {"form", "unlocked"} ELSE {"plain"}
    /\ \A p \in Viewers : view[p] = "unlocked" => url[p] # None

\* ... and every request at the server answers a fetch of its own.
RequestsAnswer ==
    /\ \A r \in Requests : pc[r] # "idle" =>
          /\ job[r].share = share /\ <<job[r].viewer, by[r]>> \in sent
          /\ pc[r] = "answer" => signed[r] # None
    /\ \A r, s \in Requests :
          pc[r] # "idle" /\ pc[s] # "idle" /\ job[r].viewer = job[s].viewer /\ by[r] = by[s]
             => r = s

\* Type invariant.
PageTypeOK ==
    /\ locked \in BOOLEAN /\ view \in [Viewers -> {"away", "plain", "form", "unlocked"}]
    /\ url \in [Viewers -> None..MaxNow] /\ busy \in [Viewers -> BOOLEAN]
    /\ sent \subseteq Viewers \X Calls
    /\ by \in [Requests -> Calls \cup {"none"}] /\ signed \in [Requests -> None..MaxNow]
    /\ asked \subseteq Viewers /\ handed \subseteq Viewers
    /\ savedAt \in [Viewers -> None..MaxNow]
    /\ quiet \in None..MaxNow /\ failed \subseteq Viewers /\ wasted \in Nat
    /\ FetchesFit /\ RequestsAnswer

\* Why a page can be refused a URL while the share lasts: only because as many downloads
\* as the limit were answered, are being answered, or were counted and never answered, so
\* a page that goes without has lost it to another, or to a reload, a second click or a
\* broken answer.  However the fetches of the pages overlap, nobody is refused before that.
RefusedWhenSpent ==
    \A p \in asked :
        /\ p \notin handed \cup failed /\ {f \in sent : f[1] = p} = {}
        /\ ~revoked[share] /\ ~Expired(share)
        => /\ limit[share] # NoLimit
           /\ limit[share] <= issued[share] + Cardinality(Answering(share)) + wasted

\* Closing a share reaches the pages that are open already: when the requests let in
\* before are over, the URLs they were handed work for their 15 minutes, and no page
\* saves the file after that.
ClosingReachesPages ==
    quiet # None => \A p \in Viewers : savedAt[p] <= quiet + TTL

\* The eager fetch and a click, or a password submitted twice, compete for the last
\* download, and one of them loses; but a page that had the share to itself comes by a
\* URL, if nothing was lost on the way, and keeps it when the other is refused later.
OnePageIsEnough ==
    \A p \in asked :
        /\ asked = {p} /\ p \notin failed /\ {f \in sent : f[1] = p} = {}
        /\ limit[share] = NoLimit \/ limit[share] > 0
        /\ ~revoked[share] /\ ~Expired(share)
        => p \in handed /\ view[p] # "form"

\* A disabled button waits for a fetch that is under way, whose end, whatever it is,
\* enables the button again: no error and no submission on top of another leaves a page
\* that can do nothing.
ButtonComesBack ==
    \A p \in Viewers : busy[p] => \E c \in Calls : c # "init" /\ <<p, c>> \in sent
=============================================================================
