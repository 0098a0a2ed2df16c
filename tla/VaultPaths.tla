----------------------------- MODULE VaultPaths -----------------------------
(***************************************************************************)
(* Paths, object keys and listings of a vault: buildObjectKey of           *)
(* vault-api/internal/api/handler.go, CreateFolder and ListObjects of      *)
(* internal/storage/storage.go, and the pattern of                         *)
(* RevokeSharesByObjectPrefix in internal/db/db.go.  A string is the       *)
(* sequence of its characters.                                             *)
(***************************************************************************)
EXTENDS Naturals, Sequences

Slash == "/"

HasPrefix(s, p) == Len(p) <= Len(s) /\ SubSeq(s, 1, Len(p)) = p

EndsInSlash(s) == s # <<>> /\ s[Len(s)] = Slash

WithSlash(s) == IF EndsInSlash(s) THEN s ELSE Append(s, Slash)

MutBuildObjectKey(path, name) == path \o name

\* A leading slash of the path is dropped, one at its end is added.
BuildObjectKey(path, name) ==
    IF path \in {<<>>, <<Slash>>} THEN name
    ELSE WithSlash(IF Head(path) = Slash THEN Tail(path) ELSE path) \o name

\* The key of the empty object that stands for a folder.
FolderKey(path) == WithSlash(path)

\* The prefix ListObjects asks for: a slash is added to the path, and a slash alone
\* stands for the whole bucket.  A leading slash stays.
ListingPrefix(path) ==
    LET prefix == IF path = <<>> THEN path ELSE WithSlash(path)
    IN  IF prefix = <<Slash>> THEN <<>> ELSE prefix

\* What MinIO lists under a prefix when it does not descend: the keys cut off after the
\* first slash that follows the prefix.
KeysListed(keys, prefix) ==
    {LET slashes == {i \in (Len(prefix) + 1)..Len(k) : k[i] = Slash}
     IN  IF slashes = {} THEN k
         ELSE SubSeq(k, 1, CHOOSE i \in slashes : \A j \in slashes : i <= j) :
     k \in {key \in keys : HasPrefix(key, prefix)}}

\* The entry shown for each listed key: its prefix and the slash of a folder taken off,
\* and the object of the listed folder itself left out.
Entries(listed, prefix) ==
    {LET name == SubSeq(k, Len(prefix) + 1, Len(k))
     IN  [name |-> IF EndsInSlash(name) THEN SubSeq(name, 1, Len(name) - 1) ELSE name,
          folder |-> EndsInSlash(name)] :
     k \in {key \in listed : key # prefix}}

ListObjects(keys, path) ==
    Entries(KeysListed(keys, ListingPrefix(path)), ListingPrefix(path))

Percent == "%"
Underscore == "_"
Escape == "\\"

\* Place i of a pattern, of whose places esc are escapes, takes the characters of s after
\* the first m up to the n-th: what follows an escape stands for itself.
Takes(s, pattern, esc, i, m, n) ==
    LET plain == i - 1 \in esc \/ pattern[i] \notin {Percent, Underscore}
    IN  IF i \in esc THEN n = m
        ELSE IF plain THEN n = m + 1 /\ s[n] = pattern[i]
        ELSE IF pattern[i] = Percent THEN m <= n ELSE n = m + 1

\* PostgreSQL's LIKE: the places of the pattern take all of s, one after the other.
Like(s, pattern) ==
    \E esc \in SUBSET DOMAIN pattern, cut \in [0..Len(pattern) -> 0..Len(s)] :
        /\ cut[0] = 0 /\ cut[Len(pattern)] = Len(s)
        /\ \A i \in DOMAIN pattern :
              /\ i \in esc <=> pattern[i] = Escape /\ i - 1 \notin esc
              /\ Takes(s, pattern, esc, i, cut[i - 1], cut[i])

\* object_key LIKE $2 || '%'
LikePrefix(key, path) == Like(key, Append(path, Percent))

\* The paths the interface uses: not beginning with a slash, but for the root.
Plain(path) == path \in {<<>>, <<Slash>>} \/ Head(path) # Slash

\* A name of one file or folder.
Flat(name) == \A i \in DOMAIN name : name[i] # Slash

\* Paths without escapes, and those that are no patterns at all.
Unescaped(path) == \A i \in DOMAIN path : path[i] # Escape

Literal(path) == \A i \in DOMAIN path : path[i] \notin {Percent, Underscore, Escape}
=============================================================================
