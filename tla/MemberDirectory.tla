--------------------------- MODULE MemberDirectory ---------------------------
(***************************************************************************)
(* What the organisations of a vault server promise: a directory of        *)
(* members in which every operation happens at one moment, to the member,  *)
(* the member's vault and the audit log together, and only to those it is  *)
(* meant for.  What requests read before that moment, the order in which   *)
(* their statements lock rows, and how they end, does not show.  Entries   *)
(* of the log carry times that do not give the order of the operations.    *)
(* VaultOrg implements it.                                                 *)
(***************************************************************************)
CONSTANTS Users, Orgs, Roles, Tiers

VARIABLES
    place,      \* place[o][u]: what user u is in organisation o
    vault,      \* vault[u]: the tier of the vault of u, "none" before there is one
    log         \* log[o][u]: the entries on what has been done to u in o

directoryVars == <<place, vault, log>>

Place(status, role, assigned) == [status |-> status, role |-> role, tier |-> assigned]

Outsider == Place("absent", "none", "none")

Former == Place("removed", "none", "none")

Member(role, assigned) == Place("active", role, assigned)

IsMember(o, u) == place[o][u].status = "active"

Founded(o) == \E u \in Users : place[o][u] # Outsider

WasRemoved(o, u) == \E e \in log[o][u] : e.action = "member.remove"

Init ==
    /\ place = [o \in Orgs |-> [u \in Users |-> Outsider]]
    /\ vault = [u \in Users |-> "none"]
    /\ log = [o \in Orgs |-> [u \in Users |-> {}]]

Becomes(o, u, p) == place' = [place EXCEPT ![o][u] = p]

\* Nobody is given a tier who has no vault.
SetVault(u, t) == vault[u] # "none" /\ vault' = [vault EXCEPT ![u] = t]

\* One new entry, which says what was done.
Log(o, u, action) ==
    \E e \in log'[o][u] \ log[o][u] :
        e.action = action /\ log' = [log EXCEPT ![o][u] = @ \cup {e}]

Open(u) ==
    /\ vault[u] = "none" /\ vault' = [vault EXCEPT ![u] = "free"]
    /\ UNCHANGED <<place, log>>

SetTier(u, t) == SetVault(u, t) /\ UNCHANGED <<place, log>>

\* An organisation is founded once, by one user with a vault.
Found(o, u) ==
    /\ ~Founded(o) /\ vault[u] # "none"
    /\ Becomes(o, u, Member("owner", "free")) /\ Log(o, u, "organisation.create")
    /\ UNCHANGED vault

Add(o, u, role, t) ==
    /\ Founded(o)
    /\ Becomes(o, u, Member(role, t)) /\ SetVault(u, t) /\ Log(o, u, "member.add")

ChangeRole(o, u, role) ==
    /\ IsMember(o, u)
    /\ Becomes(o, u, Member(role, place[o][u].tier)) /\ Log(o, u, "member.role.update")
    /\ UNCHANGED vault

ChangeTier(o, u, t) ==
    /\ IsMember(o, u)
    /\ Becomes(o, u, Member(place[o][u].role, t)) /\ SetVault(u, t)
    /\ Log(o, u, "member.tier.update")

Remove(o, u) ==
    /\ IsMember(o, u)
    /\ Becomes(o, u, Former) /\ SetVault(u, "free") /\ Log(o, u, "member.remove")

\* An operation on someone a removal came first for: it leaves the member alone, and
\* is entered in the log, and its tier in the vault, all the same.
Late(o, u) ==
    /\ WasRemoved(o, u) /\ UNCHANGED place
    /\ \/ Log(o, u, "member.role.update") /\ UNCHANGED vault
       \/ Log(o, u, "member.tier.update") /\ \E t \in Tiers : SetVault(u, t)
       \/ Log(o, u, "member.remove") /\ SetVault(u, "free")

Operation(o, u) ==
    \/ Found(o, u) \/ Remove(o, u) \/ Late(o, u)
    \/ \E role \in Roles : ChangeRole(o, u, role)
    \/ \E t \in Tiers : ChangeTier(o, u, t)
    \/ \E role \in Roles, t \in Tiers : Add(o, u, role, t)

Next ==
    \/ \E u \in Users : Open(u) \/ \E t \in Tiers : SetTier(u, t)
    \/ \E o \in Orgs, u \in Users : Operation(o, u)

Spec == Init /\ [][Next]_directoryVars
=============================================================================
