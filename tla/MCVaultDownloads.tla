-------------------------- MODULE MCVaultDownloads --------------------------
(* One share and three slots: the limit is passed by two at most.           *)
EXTENDS VaultDownloads, TLC

SomeLimits == {-1, 0, 1}

AnyOrder == Permutations(Requests)
=============================================================================
