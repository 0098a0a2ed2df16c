------------------------- MODULE WorkspaceDirectory -------------------------
(***************************************************************************)
(* The control plane: the directory of workspaces it loads when it starts  *)
(* and answers from (control-plane/internal/workspace/, cmd/server/        *)
(* main.go).                                                               *)
(*                                                                         *)
(* Everything depends on how strings are normalised: slugs and domains of  *)
(* the configuration, slugs and addresses that are asked for, and the      *)
(* origins of CORS_ALLOWED_ORIGINS.  A string is the sequence of its       *)
(* characters.                                                             *)
(***************************************************************************)
EXTENDS Integers, Sequences, FiniteSets

CONSTANTS
    Blanks,     \* the characters unicode.IsSpace accepts
    Lower,      \* unicode.ToLower, a function on the characters
    Configs,    \* the sequences of workspaces a tenants file may hold
    OriginLists,    \* the values of CORS_ALLOWED_ORIGINS, split at the commas
    Slugs, Emails, Origins  \* what clients send; <<>> when they send none

\* What parts an address, and the status of a workspace that is given none.
At == "@"
Unset == ""

Strings == Seq(DOMAIN Lower)

Workspaces == [slug : Strings, domains : SUBSET Strings,
               status : {Unset, "active", "disabled", "other"}, sound : BOOLEAN]

ASSUME LowerAssumption == Lower \in [DOMAIN Lower -> DOMAIN Lower]
\* No other character becomes "@" in lower case, and it is no blank.
ASSUME AtAssumption ==
    At \notin Blanks /\ \A c \in DOMAIN Lower : Lower[c] = At <=> c = At
ASSUME ConfigsAssumption == Configs \subseteq Seq(Workspaces) /\ OriginLists \subseteq Seq(Strings)
ASSUME RequestsAssumption ==
    Slugs \subseteq Strings /\ Emails \subseteq Strings /\ Origins \subseteq Strings

VARIABLES
    phase,      \* the process: "starting", "serving", or "stopped" by log.Fatalf
    config,     \* the file it has read
    allowed,    \* the origins it has read
    store,      \* Store.workspaces
    request,    \* the latest request
    answer      \* its answer: status, workspaces found, Access-Control-Allow-Origin

vars == <<phase, config, allowed, store, request, answer>>

-----------------------------------------------------------------------------
(* Strings.                                                                *)

TrimSpace(s) ==
    LET solid == {i \in DOMAIN s : s[i] \notin Blanks}
    IN  IF solid = {} THEN <<>>
        ELSE SubSeq(s, CHOOSE i \in solid : \A j \in solid : i <= j,
                       CHOOSE i \in solid : \A j \in solid : i >= j)

ToLower(s) == [i \in DOMAIN s |-> Lower[s[i]]]

Normal(s) == ToLower(TrimSpace(s))

CharsOf(s) == {s[i] : i \in DOMAIN s}

\* strings.Split at "@" into two parts, neither of them empty; <<>> otherwise.
DomainFromEmail(email) ==
    LET e == Normal(email)
        ats == {i \in DOMAIN e : e[i] = At}
    IN  IF \E i \in ats : ats = {i} /\ i > 1
        THEN SubSeq(e, (CHOOSE i \in ats : TRUE) + 1, Len(e))
        ELSE <<>>

-----------------------------------------------------------------------------
(* Loading.                                                                *)

\* normalizeWorkspace.  The fields that are only checked are one: sound.
NormalizeWorkspace(w) ==
    [w EXCEPT !.slug = Normal(w.slug),
              !.domains = {Normal(d) : d \in w.domains},
              !.status = IF w.status = Unset THEN "active" ELSE w.status]

MutValid(w) == w.slug # <<>> /\ w.sound

\* The checks of normalizeWorkspace.
Valid(w) ==
    /\ w.slug # <<>> /\ CharsOf(w.slug) \cap {" ", At, ":", "/"} = {}
    /\ w.status \in {"active", "disabled"} /\ w.sound

MutDuplicated(c, i, j) == c[i].slug = c[j].slug

\* seenSlugs[workspace.Slug]
Duplicated(c, i, j) == NormalizeWorkspace(c[i]).slug = NormalizeWorkspace(c[j]).slug

\* NewStore returns a store.
Accepted(c) ==
    /\ c # <<>>
    /\ \A i \in DOMAIN c : Valid(NormalizeWorkspace(c[i]))
    /\ \A i, j \in DOMAIN c : i # j => ~Duplicated(c, i, j)

Init ==
    /\ phase = "starting" /\ config = <<>> /\ allowed = <<>> /\ store = <<>>
    /\ request = [slug |-> <<>>, email |-> <<>>, origin |-> <<>>]
    /\ answer = [status |-> 0, found |-> {}, allow |-> <<>>]

\* main: workspace.Load, and the server if it returns a store.
Start(c, o) ==
    /\ phase = "starting"
    /\ config' = c /\ allowed' = o
    /\ IF Accepted(c)
       THEN phase' = "serving" /\ store' = [i \in DOMAIN c |-> NormalizeWorkspace(c[i])]
       ELSE phase' = "stopped" /\ UNCHANGED store
    /\ UNCHANGED <<request, answer>>

-----------------------------------------------------------------------------
(* Answering.  The workspaces found are places in the store, in whose      *)
(* order they are listed.                                                  *)

\* resolveBySlug returns the first.
ResolveBySlug(slug) ==
    LET hits == {i \in DOMAIN store : store[i].status = "active" /\ store[i].slug = slug}
    IN  {i \in hits : \A j \in hits : i <= j}

MutResolveByEmailDomain(domain) == {i \in DOMAIN store : domain \in store[i].domains}

ResolveByEmailDomain(domain) ==
    {i \in DOMAIN store : store[i].status = "active" /\ domain \in store[i].domains}

\* A slug, unless it is blank, comes before an address.
Found(q) ==
    IF Normal(q.slug) # <<>> THEN ResolveBySlug(Normal(q.slug))
    ELSE IF DomainFromEmail(q.email) # <<>> THEN ResolveByEmailDomain(DomainFromEmail(q.email))
    ELSE {}

\* ErrMissingResolveInput
Missing(q) == Normal(q.slug) = <<>> /\ DomainFromEmail(q.email) = <<>>

Star == <<"*">>

MutOriginAllowed(origin) == \E i \in DOMAIN allowed : allowed[i] \in {Star, origin}

OriginAllowed(origin) ==
    \E i \in DOMAIN allowed : TrimSpace(allowed[i]) \in {Star, origin}

\* withCORS: the header Access-Control-Allow-Origin, <<>> if it is not sent.
AllowOrigin(origin) ==
    IF origin # <<>> /\ OriginAllowed(origin) THEN origin
    ELSE IF OriginAllowed(Star) THEN Star ELSE <<>>

\* Resolve, inside withCORS.
Resolve(q) ==
    /\ phase = "serving"
    /\ request' = q
    /\ answer' = [status |-> IF Missing(q) THEN 400 ELSE 200, found |-> Found(q),
                  allow |-> AllowOrigin(q.origin)]
    /\ UNCHANGED <<phase, config, allowed, store>>

Next ==
    \/ \E c \in Configs, o \in OriginLists : Start(c, o)
    \/ \E q \in [slug : Slugs, email : Emails, origin : Origins] : Resolve(q)

Spec == Init /\ [][Next]_vars

-----------------------------------------------------------------------------
(* Properties.                                                             *)

\* Type invariant: what is found is in the directory, which holds valid workspaces only.
TypeOK ==
    /\ phase \in {"starting", "serving", "stopped"}
    /\ config \in Seq(Workspaces) /\ store \in Seq(Workspaces)
    /\ \A i \in DOMAIN store : store[i].status \in {"active", "disabled"} /\ store[i].sound
    /\ allowed \in Seq(Strings)
    /\ answer.status \in {0, 200, 400} /\ answer.found \subseteq DOMAIN store

Active(w) == w.status \in {Unset, "active"}

\* Alike but for case and blanks around.
Same(s, t) == Normal(s) = Normal(t)

\* A slug that is asked for belongs to one workspace of the file at the most, whatever
\* its case and blanks there and here, and that workspace is the answer just when it is
\* active: stopping at the first that matches loses nothing.
SlugFindsOne ==
    answer.status = 200 /\ Normal(request.slug) # <<>> =>
        LET named == {i \in DOMAIN config : Same(config[i].slug, request.slug)}
        IN  /\ \A i, j \in named : i = j
            /\ answer.found = {i \in named : Active(config[i])}

\* What follows the "@".
After(e) == SubSeq(e, (CHOOSE i \in DOMAIN e : e[i] = At) + 1, Len(e))

\* An address finds every active workspace one of whose domains is the address's but for
\* case and blanks around, and no other, unless the address has blanks within.
DomainFindsAll ==
    answer.status = 200 /\ Normal(request.slug) = <<>>
    /\ CharsOf(TrimSpace(request.email)) \cap Blanks = {} =>
        answer.found = {i \in DOMAIN config :
                           /\ Active(config[i])
                           /\ \E d \in config[i].domains : Same(d, After(request.email))}

\* A page may read the answer just when its origin is in CORS_ALLOWED_ORIGINS, or "*" is,
\* whatever blanks surround the commas; and no page is named that has not asked.
ListedOriginsRead ==
    answer.status # 0 /\ request.origin # <<>> =>
        /\ answer.allow \in {request.origin, Star}
              <=> \E i \in DOMAIN allowed : \E a \in {request.origin, Star} :
                      TrimSpace(allowed[i]) = a
        /\ answer.allow \in {request.origin, Star, <<>>}
=============================================================================
