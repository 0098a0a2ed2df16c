----------------------------- MODULE MCVaultOrg -----------------------------
(***************************************************************************)
(* Instances of VaultOrg for TLC.  The seeds are states the server reaches *)
(* from an empty database by requests that ran one after the other.        *)
(***************************************************************************)
EXTENDS VaultOrg, TLC

CONSTANTS u1, u2, u3, o1

AnyOrder == Permutations(Requests)

Entry(role, t) == Row(role, "active", t, FALSE)

\* u1 created o1; each user of f was then added with the row f gives.
Seeded(f) ==
    /\ tier = [u \in Users |-> IF u = u1 THEN "free"
                               ELSE IF u \in DOMAIN f THEN f[u].assigned ELSE "none"]
    /\ member = [o \in Orgs |-> [u \in Users |->
                    IF o # o1 THEN NoRow
                    ELSE IF u = u1 THEN Entry("owner", "free")
                    ELSE IF u \in DOMAIN f THEN f[u] ELSE NoRow]]
    /\ audit = [o \in Orgs |-> [u \in Users |->
                    IF o # o1 THEN {}
                    ELSE IF u = u1 THEN {[action |-> "organisation.create", at |-> 0]}
                    ELSE IF u \in DOMAIN f THEN {[action |-> "member.add", at |-> 0]} ELSE {}]]
    /\ clock = 0
    /\ pc = [r \in Requests |-> "new"]
    /\ req = [r \in Requests |-> NoDemand]
    /\ began = [r \in Requests |-> 0]
    /\ hit = [r \in Requests |-> FALSE]
    /\ raced = [r \in Requests |-> FALSE]
    /\ missed = {}
    /\ overtaken = {}

\* Two owners, the second on the plus tier.
TwoOwners == Seeded(u2 :> Entry("owner", "plus")) /\ [][Next]_vars

\* An owner and a plain member on the plus tier.
OwnerAndMember == Seeded(u2 :> Entry("member", "plus")) /\ [][Next]_vars

\* An owner, an administrator and a plain member.
ThreeRanks ==
    Seeded((u2 :> Entry("admin", "free")) @@ (u3 :> Entry("member", "plus"))) /\ [][Next]_vars

FairThreeRanks == ThreeRanks /\ Fairness
=============================================================================
