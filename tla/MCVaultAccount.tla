--------------------------- MODULE MCVaultAccount ---------------------------
(***************************************************************************)
(* Two slots: two uploads, provisionings or moves overlap.  A file "a" in  *)
(* the root and one in the folder "d", reached by the paths a client may   *)
(* write; the folder, and one within it.                                   *)
(***************************************************************************)
EXTENDS VaultAccount, TLC

AnyOrder == Permutations(Slots)

SomeTargets == {<<<<>>, <<"a">>>>, <<<<"d">>, <<"a">>>>,
                <<<<"d", "/">>, <<"a">>>>, <<<<"/", "d">>, <<"a">>>>}

SomeFolders == {<<"d">>, <<"d", "/", "d">>}

\* A size that the plus quota has room for or has not, and with which the sum wraps once
\* three files are stored; and no size.
SomeSizes == {4, -1}
=============================================================================
