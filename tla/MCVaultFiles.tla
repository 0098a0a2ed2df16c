---------------------------- MODULE MCVaultFiles ----------------------------
(***************************************************************************)
(* One file outside the folder, and one or two in it.  No property tells   *)
(* the keys of the folder apart.                                           *)
(***************************************************************************)
EXTENDS VaultFiles, TLC

CONSTANTS a, f1, f2

AnyOrder == Permutations(Requests) \cup Permutations(Folder)

\* The folder "f", and a file next to it.
SomeNames == (a :> <<"a", "/", "x">>) @@ (f1 :> <<"f", "/", "x">>) @@ (f2 :> <<"f", "/", "y">>)

TwoNames == (a :> <<"a", "/", "x">>) @@ (f1 :> <<"f", "/", "x">>)

FolderF == <<"f", "/">>

\* The folder "_": its pattern matches the folder "a", too.
NamesOfPattern == (a :> <<"a", "/", "x">>) @@ (f1 :> <<"_", "/", "x">>)

FolderUnderscore == <<"_", "/">>
=============================================================================
