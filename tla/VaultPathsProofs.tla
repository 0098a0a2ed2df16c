-------------------------- MODULE VaultPathsProofs --------------------------
(***************************************************************************)
(* What a listing shows of the keys of a bucket, for any keys and paths:   *)
(* the lemmas about VaultPaths.  C is the set of characters.               *)
(***************************************************************************)
EXTENDS Integers, VaultPaths, TextFacts

-----------------------------------------------------------------------------
(* Strings that begin with a string.                                       *)

LEMMA PrefixIs ==
  ASSUME NEW C, NEW k \in Seq(C), NEW p \in Seq(C)
  PROVE  HasPrefix(k, p) <=> Len(p) <= Len(k) /\ \A i \in 1..Len(p) : k[i] = p[i]
<1>1. Len(k) \in Nat /\ Len(p) \in Nat
  BY LenProperties
<1>2. ASSUME Len(p) <= Len(k)
      PROVE  SubSeq(k, 1, Len(p)) = p <=> \A i \in 1..Len(p) : k[i] = p[i]
  <2> DEFINE s == SubSeq(k, 1, Len(p))
  <2>1. 1 \in 1..(Len(k) + 1) /\ Len(p) \in (1 - 1)..Len(k)
    BY <1>1, <1>2
  <2>2. /\ s \in Seq(C) /\ Len(s) = Len(p) - 1 + 1
        /\ \A i \in 1..(Len(p) - 1 + 1) : s[i] = k[1 + i - 1]
    BY <2>1, Piece
  <2>3. Len(p) - 1 + 1 = Len(p) /\ \A i \in 1..Len(p) : 1 + i - 1 = i
    BY <1>1
  <2>4. Len(s) = Len(p) /\ \A i \in 1..Len(p) : s[i] = k[i]
    BY <2>2, <2>3
  <2> HIDE DEF s
  <2>5. (\A i \in 1..Len(p) : k[i] = p[i]) => s = p
    BY <2>2, <2>4, SeqEqual
  <2>6. QED
    BY <2>4, <2>5 DEF s
<1>3. QED
  BY <1>2 DEF HasPrefix

\* What follows the prefix of a key.
After(k, p) == SubSeq(k, Len(p) + 1, Len(k))

LEMMA AfterIs ==
  ASSUME NEW C, NEW k \in Seq(C), NEW p \in Seq(C), Len(p) <= Len(k)
  PROVE  /\ After(k, p) \in Seq(C) /\ Len(After(k, p)) = Len(k) - Len(p)
         /\ \A i \in 1..(Len(k) - Len(p)) : After(k, p)[i] = k[Len(p) + i]
<1>1. Len(k) \in Nat /\ Len(p) \in Nat
  BY LenProperties
<1>2. Len(p) + 1 \in 1..(Len(k) + 1) /\ Len(k) \in ((Len(p) + 1) - 1)..Len(k)
  BY <1>1
<1>3. /\ After(k, p) \in Seq(C) /\ Len(After(k, p)) = Len(k) - (Len(p) + 1) + 1
      /\ \A i \in 1..(Len(k) - (Len(p) + 1) + 1) : After(k, p)[i] = k[(Len(p) + 1) + i - 1]
  BY <1>2, Piece DEF After
<1>4. Len(k) - (Len(p) + 1) + 1 = Len(k) - Len(p)
      /\ \A i \in 1..(Len(k) - Len(p)) : (Len(p) + 1) + i - 1 = Len(p) + i
  BY <1>1
<1>5. QED
  BY <1>3, <1>4

-----------------------------------------------------------------------------
(* What is listed.                                                         *)

\* The key that is listed for a key, and the entry shown for it.
Cut(k, p) ==
    LET slashes == {i \in (Len(p) + 1)..Len(k) : k[i] = Slash}
    IN  IF slashes = {} THEN k
        ELSE SubSeq(k, 1, CHOOSE i \in slashes : \A j \in slashes : i <= j)

Shown(k, p) ==
    [name |-> IF EndsInSlash(After(k, p)) THEN SubSeq(After(k, p), 1, Len(After(k, p)) - 1)
              ELSE After(k, p),
     folder |-> EndsInSlash(After(k, p))]

LEMMA ListedIs ==
  ASSUME NEW keys, NEW p, NEW e
  PROVE  e \in Entries(KeysListed(keys, p), p)
            <=> \E k \in keys : HasPrefix(k, p) /\ Cut(k, p) # p /\ e = Shown(Cut(k, p), p)
<1>1. KeysListed(keys, p) = {Cut(k, p) : k \in {key \in keys : HasPrefix(key, p)}}
  BY DEF KeysListed, Cut
<1>2. Entries(KeysListed(keys, p), p)
         = {Shown(k, p) : k \in {key \in KeysListed(keys, p) : key # p}}
  BY DEF Entries, Shown, After
<1>3. QED
  BY <1>1, <1>2

\* A key is listed as it is, or cut off after the first slash that follows the prefix.
LEMMA CutIs ==
  ASSUME NEW C, NEW k \in Seq(C), NEW p \in Seq(C), Len(p) <= Len(k)
  PROVE  \/ Cut(k, p) = k /\ \A i \in (Len(p) + 1)..Len(k) : k[i] # Slash
         \/ \E m \in (Len(p) + 1)..Len(k) :
               /\ k[m] = Slash /\ \A i \in (Len(p) + 1)..(m - 1) : k[i] # Slash
               /\ Cut(k, p) = SubSeq(k, 1, m)
<1> DEFINE slashes == {i \in (Len(p) + 1)..Len(k) : k[i] = Slash}
           first == CHOOSE i \in slashes : \A j \in slashes : i <= j
<1>1. Len(k) \in Nat /\ Len(p) \in Nat
  BY LenProperties
<1>2. CASE slashes = {}
  BY <1>2 DEF Cut
<1>3. CASE slashes # {}
  <2>1. slashes \subseteq Nat
    BY <1>1
  <2>2. first \in slashes /\ \A j \in slashes : first <= j
    BY <1>3, <2>1, LeastExists
  <2>3. Cut(k, p) = SubSeq(k, 1, first)
    BY <1>3 DEF Cut
  <2> HIDE DEF first
  <2>4. ASSUME NEW i \in (Len(p) + 1)..(first - 1) PROVE k[i] # Slash
    <3>1. i \in (Len(p) + 1)..Len(k) /\ ~ (first <= i)
      BY <1>1, <2>2
    <3>2. QED
      BY <2>2, <3>1
  <2>5. QED
    BY <2>2, <2>3, <2>4
<1>4. QED
  BY <1>2, <1>3

\* A key that is cut off after a slash is the prefix and the name of a folder.
LEMMA FolderIs ==
  ASSUME NEW C, NEW k \in Seq(C), NEW p \in Seq(C), NEW m \in (Len(p) + 1)..Len(k),
         k[m] = Slash
  PROVE  LET c == SubSeq(k, 1, m)
         IN  /\ c \in Seq(C) /\ Len(c) = m /\ \A i \in 1..m : c[i] = k[i]
             /\ After(c, p) \in Seq(C) /\ Len(After(c, p)) = m - Len(p)
             /\ \A i \in 1..(m - Len(p)) : After(c, p)[i] = k[Len(p) + i]
             /\ EndsInSlash(After(c, p))
<1> DEFINE c == SubSeq(k, 1, m)
<1>1. Len(k) \in Nat /\ Len(p) \in Nat /\ m \in Nat /\ Len(p) < m /\ m <= Len(k)
  BY LenProperties
<1>2. c \in Seq(C) /\ Len(c) = m /\ \A i \in 1..m : c[i] = k[i]
  <2>1. 1 \in 1..(Len(k) + 1) /\ m \in (1 - 1)..Len(k)
    BY <1>1
  <2>2. c \in Seq(C) /\ Len(c) = m - 1 + 1 /\ \A i \in 1..(m - 1 + 1) : c[i] = k[1 + i - 1]
    BY <2>1, Piece
  <2>3. m - 1 + 1 = m /\ \A i \in 1..m : 1 + i - 1 = i
    BY <1>1
  <2>4. QED
    BY <2>2, <2>3
<1> HIDE DEF c
<1>3. /\ After(c, p) \in Seq(C) /\ Len(After(c, p)) = m - Len(p)
      /\ \A i \in 1..(m - Len(p)) : After(c, p)[i] = k[Len(p) + i]
  <2> Len(p) <= Len(c)
    BY <1>1, <1>2
  <2>1. /\ After(c, p) \in Seq(C) /\ Len(After(c, p)) = Len(c) - Len(p)
        /\ \A i \in 1..(Len(c) - Len(p)) : After(c, p)[i] = c[Len(p) + i]
    BY <1>2, AfterIs
  <2>2. \A i \in 1..(m - Len(p)) : Len(p) + i \in 1..m
    BY <1>1
  <2>3. QED
    BY <1>2, <2>1, <2>2
<1>4. EndsInSlash(After(c, p))
  <2>1. m - Len(p) \in 1..(m - Len(p)) /\ Len(p) + (m - Len(p)) = m /\ m - Len(p) > 0
    BY <1>1
  <2>2. After(c, p)[m - Len(p)] = Slash
    BY <1>3, <2>1
  <2>3. Len(After(c, p)) # 0
    BY <1>3, <2>1
  <2>4. After(c, p) # <<>>
    BY <2>3, EmptySeq
  <2>5. QED
    BY <1>3, <2>2, <2>4 DEF EndsInSlash
<1>5. QED
  BY <1>2, <1>3, <1>4 DEF c

LEMMA KeyType ==
  ASSUME NEW C, NEW p \in Seq(C), NEW name \in Seq(C)
  PROVE  /\ p \o name \in Seq(C) /\ Len(p \o name) = Len(p) + Len(name)
         /\ \A i \in 1..Len(p) : (p \o name)[i] = p[i]
         /\ \A i \in 1..Len(name) : (p \o name)[Len(p) + i] = name[i]
<1>1. Len(p) \in Nat /\ Len(name) \in Nat
  BY LenProperties
<1>2. /\ p \o name \in Seq(C) /\ Len(p \o name) = Len(p) + Len(name)
      /\ \A i \in 1..(Len(p) + Len(name)) :
            (p \o name)[i] = IF i <= Len(p) THEN p[i] ELSE name[i - Len(p)]
  BY ConcatProperties
<1>3. ASSUME NEW i \in 1..Len(name) PROVE (p \o name)[Len(p) + i] = name[i]
  <2>1. Len(p) + i \in 1..(Len(p) + Len(name)) /\ ~ (Len(p) + i <= Len(p))
        /\ (Len(p) + i) - Len(p) = i
    BY <1>1
  <2>2. QED
    BY <1>2, <2>1
<1>4. ASSUME NEW i \in 1..Len(p) PROVE (p \o name)[i] = p[i]
  <2>1. i \in 1..(Len(p) + Len(name)) /\ i <= Len(p)
    BY <1>1
  <2>2. QED
    BY <1>2, <2>1
<1>5. QED
  BY <1>2, <1>3, <1>4

\* A file is listed under a prefix just when its key is the prefix and its name.
LEMMA FileListed ==
  ASSUME NEW C, NEW keys \in SUBSET Seq(C), NEW p \in Seq(C),
         NEW name \in Seq(C), name # <<>>, Flat(name)
  PROVE  [name |-> name, folder |-> FALSE] \in Entries(KeysListed(keys, p), p)
            <=> p \o name \in keys
<1> DEFINE e == [name |-> name, folder |-> FALSE]
<1>1. /\ Len(p) \in Nat /\ Len(name) \in Nat /\ DOMAIN name = 1..Len(name)
      /\ Len(name) > 0 /\ \A i \in 1..Len(name) : name[i] # Slash
  BY LenProperties, EmptySeq DEF Flat
<1>2. ASSUME p \o name \in keys PROVE e \in Entries(KeysListed(keys, p), p)
  <2> DEFINE k == p \o name
  <2>1. /\ k \in Seq(C) /\ Len(k) = Len(p) + Len(name)
        /\ \A i \in 1..Len(p) : k[i] = p[i]
        /\ \A i \in 1..Len(name) : k[Len(p) + i] = name[i]
    BY KeyType
  <2> HIDE DEF k
  <2>2. Len(p) <= Len(k) /\ HasPrefix(k, p) /\ k # p
    BY <1>1, <2>1, PrefixIs
  <2>3. \A m \in (Len(p) + 1)..Len(k) : k[m] # Slash
    <3>1. ASSUME NEW m \in (Len(p) + 1)..Len(k) PROVE k[m] # Slash
      <4>1. m - Len(p) \in 1..Len(name) /\ Len(p) + (m - Len(p)) = m
        BY <1>1, <2>1
      <4>2. QED
        BY <1>1, <2>1, <4>1
    <3>2. QED
      BY <3>1
  <2>4. Cut(k, p) = k
    BY <2>1, <2>2, <2>3, CutIs
  <2>5. After(k, p) = name
    <3>1. /\ After(k, p) \in Seq(C) /\ Len(After(k, p)) = Len(k) - Len(p)
          /\ \A i \in 1..(Len(k) - Len(p)) : After(k, p)[i] = k[Len(p) + i]
      BY <2>1, <2>2, AfterIs
    <3>2. Len(k) - Len(p) = Len(name)
      BY <1>1, <2>1
    <3>3. QED
      BY <2>1, <3>1, <3>2, SeqEqual
  <2>6. EndsInSlash(name) = FALSE
    BY <1>1 DEF EndsInSlash
  <2>7. e = Shown(k, p)
    BY <2>5, <2>6 DEF Shown
  <2>8. QED
    BY <1>2, <2>2, <2>4, <2>7, ListedIs DEF k
<1>3. ASSUME e \in Entries(KeysListed(keys, p), p) PROVE p \o name \in keys
  <2>1. PICK k \in keys : HasPrefix(k, p) /\ e = Shown(Cut(k, p), p)
    BY <1>3, ListedIs
  <2>2. k \in Seq(C) /\ Len(k) \in Nat /\ Len(p) <= Len(k) /\ \A i \in 1..Len(p) : k[i] = p[i]
    BY <2>1, PrefixIs, LenProperties
  <2>3. ~EndsInSlash(After(Cut(k, p), p)) /\ name = After(Cut(k, p), p)
    BY <2>1 DEF Shown
  <2>4. ASSUME NEW m \in (Len(p) + 1)..Len(k), k[m] = Slash, Cut(k, p) = SubSeq(k, 1, m)
        PROVE  FALSE
    BY <2>2, <2>3, <2>4, FolderIs
  <2>5. Cut(k, p) = k
    BY <2>2, <2>4, CutIs
  <2>6. name = After(k, p)
    BY <2>3, <2>5
  <2>7. /\ Len(name) = Len(k) - Len(p)
        /\ \A i \in 1..(Len(k) - Len(p)) : name[i] = k[Len(p) + i]
    BY <2>2, <2>6, AfterIs
  <2>8. /\ p \o name \in Seq(C) /\ Len(p \o name) = Len(p) + Len(name)
        /\ \A i \in 1..Len(p) : (p \o name)[i] = p[i]
        /\ \A i \in 1..Len(name) : (p \o name)[Len(p) + i] = name[i]
    BY KeyType
  <2>9. Len(p \o name) = Len(k)
    BY <1>1, <2>2, <2>7, <2>8
  <2>10. ASSUME NEW i \in 1..Len(k) PROVE (p \o name)[i] = k[i]
    <3>1. CASE i <= Len(p)
      <4>1. i \in 1..Len(p)
        BY <1>1, <2>2, <3>1
      <4>2. QED
        BY <2>2, <2>8, <4>1
    <3>2. CASE ~ (i <= Len(p))
      <4>1. i - Len(p) \in 1..(Len(k) - Len(p)) /\ Len(p) + (i - Len(p)) = i
        BY <1>1, <2>2, <3>2
      <4>2. QED
        BY <2>7, <2>8, <4>1
    <3>3. QED
      BY <3>1, <3>2
  <2>11. p \o name = k
    BY <2>2, <2>8, <2>9, <2>10, SeqEqual
  <2>12. QED
    BY <2>11
<1>4. QED
  BY <1>2, <1>3

\* A folder is listed under a prefix just when some key lies in it.
LEMMA FolderListed ==
  ASSUME NEW C, NEW keys \in SUBSET Seq(C), NEW p \in Seq(C),
         NEW name \in Seq(C), Flat(name), Slash \in C
  PROVE  [name |-> name, folder |-> TRUE] \in Entries(KeysListed(keys, p), p)
            <=> \E k \in keys : HasPrefix(k, Append(p \o name, Slash))
<1> DEFINE e == [name |-> name, folder |-> TRUE]
           q == Append(p \o name, Slash)
           n == Len(p) + Len(name)
<1>1. /\ Len(p) \in Nat /\ Len(name) \in Nat /\ DOMAIN name = 1..Len(name)
      /\ \A i \in 1..Len(name) : name[i] # Slash
  BY LenProperties DEF Flat
<1>2. /\ q \in Seq(C) /\ Len(q) = n + 1 /\ q[n + 1] = Slash
      /\ \A i \in 1..Len(p) : q[i] = p[i]
      /\ \A i \in 1..Len(name) : q[Len(p) + i] = name[i]
  <2>1. /\ p \o name \in Seq(C) /\ Len(p \o name) = n
        /\ \A i \in 1..Len(p) : (p \o name)[i] = p[i]
        /\ \A i \in 1..Len(name) : (p \o name)[Len(p) + i] = name[i]
    BY KeyType
  <2>2. /\ q \in Seq(C) /\ Len(q) = n + 1 /\ q[n + 1] = Slash
        /\ \A i \in 1..n : q[i] = (p \o name)[i]
    BY <2>1, AppendProperties
  <2>3. (\A i \in 1..Len(p) : i \in 1..n) /\ (\A i \in 1..Len(name) : Len(p) + i \in 1..n)
    BY <1>1
  <2> HIDE DEF q
  <2>4. QED
    BY <2>1, <2>2, <2>3
<1> HIDE DEF q
<1>3. ASSUME NEW k \in keys, HasPrefix(k, q) PROVE e \in Entries(KeysListed(keys, p), p)
  <2> DEFINE m == n + 1
             c == SubSeq(k, 1, m)
  <2>1. /\ k \in Seq(C) /\ Len(k) \in Nat /\ m <= Len(k) /\ Len(p) <= Len(k)
        /\ m \in (Len(p) + 1)..Len(k) /\ \A i \in 1..m : k[i] = q[i]
    <3>1. k \in Seq(C) /\ Len(k) \in Nat /\ m <= Len(k) /\ \A i \in 1..m : k[i] = q[i]
      BY <1>2, <1>3, PrefixIs, LenProperties
    <3>2. QED
      BY <1>1, <3>1
  <2>2. k[m] = Slash
    BY <1>1, <1>2, <2>1
  <2>3. \A i \in 1..Len(name) : k[Len(p) + i] = name[i]
    <3>1. \A i \in 1..Len(name) : Len(p) + i \in 1..m
      BY <1>1
    <3>2. QED
      BY <1>2, <2>1, <3>1
  <2>4. HasPrefix(k, p)
    <3>1. \A i \in 1..Len(p) : i \in 1..m
      BY <1>1
    <3>2. QED
      BY <1>2, <2>1, <3>1, PrefixIs
  <2>5. Cut(k, p) = c
    <3>1. PICK l \in (Len(p) + 1)..Len(k) :
             /\ k[l] = Slash /\ \A i \in (Len(p) + 1)..(l - 1) : k[i] # Slash
             /\ Cut(k, p) = SubSeq(k, 1, l)
      BY <2>1, <2>2, CutIs
    <3>2. l <= m
      <4>1. m < l => m \in (Len(p) + 1)..(l - 1)
        BY <1>1, <2>1
      <4>2. ~ (m < l)
        BY <2>2, <3>1, <4>1
      <4>3. QED
        BY <1>1, <4>2
    <3>3. ASSUME l # m PROVE FALSE
      <4>1. l - Len(p) \in 1..Len(name) /\ Len(p) + (l - Len(p)) = l
        BY <1>1, <3>2, <3>3
      <4>2. QED
        BY <1>1, <2>3, <3>1, <4>1
    <3>4. QED
      BY <3>1, <3>3
  <2> HIDE DEF m
  <2>6. /\ Len(c) = m /\ After(c, p) \in Seq(C) /\ Len(After(c, p)) = m - Len(p)
        /\ \A i \in 1..(m - Len(p)) : After(c, p)[i] = k[Len(p) + i]
        /\ EndsInSlash(After(c, p))
    BY <2>1, <2>2, FolderIs
  <2> HIDE DEF c
  <2> USE DEF m
  <2>7. c # p
    BY <1>1, <2>6
  <2> DEFINE a == After(c, p)
             s == SubSeq(a, 1, Len(a) - 1)
  <2>8. s = name
    <3>1. Len(a) = Len(name) + 1 /\ Len(a) - 1 = Len(name)
      BY <1>1, <2>6
    <3> HIDE DEF a
    <3>2. 1 \in 1..(Len(a) + 1) /\ Len(a) - 1 \in (1 - 1)..Len(a)
      BY <1>1, <3>1
    <3>3. /\ s \in Seq(C) /\ Len(s) = Len(a) - 1 - 1 + 1
          /\ \A i \in 1..(Len(a) - 1 - 1 + 1) : s[i] = a[1 + i - 1]
      BY <2>6, <3>2, Piece DEF a
    <3>4. Len(s) = Len(name) /\ \A i \in 1..Len(name) : s[i] = a[i]
      <4>1. Len(a) - 1 - 1 + 1 = Len(name) /\ \A i \in 1..Len(name) : 1 + i - 1 = i
        BY <1>1, <3>1
      <4>2. QED
        BY <3>3, <4>1
    <3>5. \A i \in 1..Len(name) : a[i] = name[i]
      <4>1. \A i \in 1..Len(name) : i \in 1..(m - Len(p))
        BY <1>1
      <4>2. QED
        BY <2>3, <2>6, <4>1 DEF a
    <3> HIDE DEF s
    <3>6. QED
      BY <3>3, <3>4, <3>5, SeqEqual
  <2>9. EndsInSlash(a) = TRUE
    BY <2>6 DEF EndsInSlash
  <2>10. e = Shown(c, p)
    BY <2>8, <2>9 DEF Shown
  <2>11. QED
    BY <2>4, <2>5, <2>7, <2>10, ListedIs
<1>4. ASSUME e \in Entries(KeysListed(keys, p), p) PROVE \E k \in keys : HasPrefix(k, q)
  <2>1. PICK k \in keys : HasPrefix(k, p) /\ e = Shown(Cut(k, p), p)
    BY <1>4, ListedIs
  <2>2. k \in Seq(C) /\ Len(k) \in Nat /\ Len(p) <= Len(k) /\ \A i \in 1..Len(p) : k[i] = p[i]
    BY <2>1, PrefixIs, LenProperties
  <2>3. /\ EndsInSlash(After(Cut(k, p), p))
        /\ name = SubSeq(After(Cut(k, p), p), 1, Len(After(Cut(k, p), p)) - 1)
    BY <2>1 DEF Shown
  <2>4. PICK m \in (Len(p) + 1)..Len(k) : k[m] = Slash /\ Cut(k, p) = SubSeq(k, 1, m)
    <3>1. ASSUME Cut(k, p) = k, \A i \in (Len(p) + 1)..Len(k) : k[i] # Slash PROVE FALSE
      <4>1. /\ After(k, p) \in Seq(C) /\ Len(After(k, p)) = Len(k) - Len(p)
            /\ \A i \in 1..(Len(k) - Len(p)) : After(k, p)[i] = k[Len(p) + i]
        BY <2>2, AfterIs
      <4>2. After(k, p) # <<>> /\ After(k, p)[Len(k) - Len(p)] = Slash
        BY <2>3, <3>1, <4>1 DEF EndsInSlash
      <4>3. Len(k) - Len(p) \in 1..(Len(k) - Len(p)) /\ Len(p) + (Len(k) - Len(p)) = Len(k)
            /\ Len(k) \in (Len(p) + 1)..Len(k)
        <5>1. Len(After(k, p)) \in Nat \ {0}
          BY <4>1, <4>2, EmptySeq
        <5>2. QED
          BY <1>1, <2>2, <4>1, <5>1
      <4>4. QED
        BY <3>1, <4>1, <4>2, <4>3
    <3>2. QED
      BY <2>2, <3>1, CutIs
  <2> DEFINE c == SubSeq(k, 1, m)
             a == After(c, p)
  <2>5. /\ a \in Seq(C) /\ Len(a) = m - Len(p)
        /\ \A i \in 1..(m - Len(p)) : a[i] = k[Len(p) + i]
    BY <2>2, <2>4, FolderIs
  <2>6. name = SubSeq(a, 1, Len(a) - 1)
    BY <2>3, <2>4
  <2> HIDE DEF a
  <2>7. m = n + 1 /\ \A i \in 1..Len(name) : name[i] = k[Len(p) + i]
    <3>1. 1 \in 1..(Len(a) + 1) /\ Len(a) - 1 \in (1 - 1)..Len(a)
      BY <1>1, <2>2, <2>5
    <3>2. /\ Len(name) = Len(a) - 1 - 1 + 1
          /\ \A i \in 1..(Len(a) - 1 - 1 + 1) : name[i] = a[1 + i - 1]
      BY <2>5, <2>6, <3>1, Piece
    <3>3. m = n + 1
      BY <1>1, <2>2, <2>5, <3>2
    <3>4. ASSUME NEW i \in 1..Len(name) PROVE name[i] = k[Len(p) + i]
      <4>1. i \in 1..(m - Len(p)) /\ 1 + i - 1 = i
        BY <1>1, <3>3
      <4>2. QED
        BY <2>5, <3>2, <4>1
    <3>5. QED
      BY <3>3, <3>4
  <2>8. Len(q) <= Len(k)
    BY <1>2, <2>2, <2>7
  <2>9. ASSUME NEW i \in 1..Len(q) PROVE k[i] = q[i]
    <3>1. CASE i <= Len(p)
      <4>1. i \in 1..Len(p)
        BY <1>1, <1>2, <3>1
      <4>2. QED
        BY <1>2, <2>2, <4>1
    <3>2. CASE i = n + 1
      BY <1>2, <2>4, <2>7, <3>2
    <3>3. CASE ~ (i <= Len(p)) /\ i # n + 1
      <4>1. i \in 1..(n + 1)
        BY <1>2
      <4>2. i - Len(p) \in 1..Len(name) /\ Len(p) + (i - Len(p)) = i
        BY <1>1, <3>3, <4>1
      <4>3. QED
        BY <1>2, <2>7, <4>2
    <3>4. QED
      BY <3>1, <3>2, <3>3
  <2>10. HasPrefix(k, q)
    BY <1>2, <2>2, <2>8, <2>9, PrefixIs
  <2>11. QED
    BY <2>10
<1>5. QED
  BY <1>3, <1>4 DEF q

-----------------------------------------------------------------------------
(* Paths.                                                                  *)

LEMMA WithSlashType ==
  ASSUME NEW C, Slash \in C, NEW s \in Seq(C)
  PROVE  WithSlash(s) \in Seq(C) /\ (s # <<>> => WithSlash(s)[1] = s[1])
<1>1. Append(s, Slash) \in Seq(C) /\ \A i \in 1..Len(s) : Append(s, Slash)[i] = s[i]
  BY AppendProperties
<1>2. s # <<>> => 1 \in 1..Len(s)
  BY EmptySeq
<1>3. QED
  BY <1>1, <1>2 DEF WithSlash

\* An upload and a listing complete a path alike.
LEMMA UploadedUnder ==
  ASSUME NEW C, Slash \in C, NEW path \in Seq(C), Plain(path), NEW name \in Seq(C)
  PROVE  /\ ListingPrefix(path) \in Seq(C)
         /\ BuildObjectKey(path, name) = ListingPrefix(path) \o name
<1>1. <<>> \in Seq(C) /\ <<>> \o name = name
  BY EmptySeq, ConcatEmptySeq
<1>2. CASE path = <<>>
  BY <1>1, <1>2 DEF ListingPrefix, BuildObjectKey
<1>3. CASE path = <<Slash>>
  <2>1. path # <<>> /\ EndsInSlash(path)
    BY <1>3 DEF EndsInSlash
  <2>2. WithSlash(path) = path
    BY <2>1 DEF WithSlash
  <2>3. QED
    BY <1>1, <1>3, <2>1, <2>2 DEF ListingPrefix, BuildObjectKey
<1>4. CASE path \notin {<<>>, <<Slash>>}
  <2>1. path # <<>> /\ path[1] # Slash /\ Head(path) # Slash
    BY <1>4 DEF Plain
  <2>2. WithSlash(path) \in Seq(C) /\ WithSlash(path)[1] = path[1]
    BY <2>1, WithSlashType
  <2>3. WithSlash(path) # <<Slash>>
    BY <2>1, <2>2
  <2>4. ListingPrefix(path) = WithSlash(path)
    BY <2>1, <2>3 DEF ListingPrefix
  <2>5. BuildObjectKey(path, name) = WithSlash(path) \o name
    BY <1>4, <2>1 DEF BuildObjectKey
  <2>6. QED
    BY <2>2, <2>4, <2>5
<1>5. QED
  BY <1>2, <1>3, <1>4

\* A folder's key is made of the prefix its parent is listed under and of its name.
LEMMA FolderUnder ==
  ASSUME NEW C, Slash \in C, NEW f \in Seq(C), Plain(f), NEW n \in 0..(Len(f) - 1),
         n > 0 => f[n] = Slash, Flat(SubSeq(f, n + 1, Len(f)))
  PROVE  LET parent == SubSeq(f, 1, n)
             name == SubSeq(f, n + 1, Len(f))
         IN  /\ name \in Seq(C) /\ ListingPrefix(parent) = parent /\ parent \in Seq(C)
             /\ FolderKey(f) = Append(parent \o name, Slash)
<1> DEFINE parent == SubSeq(f, 1, n)
           name == SubSeq(f, n + 1, Len(f))
<1>1. Len(f) \in Nat /\ n \in Nat /\ n < Len(f)
  BY LenProperties
<1>2. /\ parent \in Seq(C) /\ Len(parent) = n /\ \A i \in 1..n : parent[i] = f[i]
  <2>1. 1 \in 1..(Len(f) + 1) /\ n \in (1 - 1)..Len(f)
    BY <1>1
  <2>2. /\ parent \in Seq(C) /\ Len(parent) = n - 1 + 1
        /\ \A i \in 1..(n - 1 + 1) : parent[i] = f[1 + i - 1]
    BY <2>1, Piece
  <2>3. n - 1 + 1 = n /\ \A i \in 1..n : 1 + i - 1 = i
    BY <1>1
  <2>4. QED
    BY <2>2, <2>3
<1>3. /\ name \in Seq(C) /\ Len(name) = Len(f) - n
      /\ \A i \in 1..(Len(f) - n) : name[i] = f[n + i]
  <2>1. n + 1 \in 1..(Len(f) + 1) /\ Len(f) \in ((n + 1) - 1)..Len(f)
    BY <1>1
  <2>2. /\ name \in Seq(C) /\ Len(name) = Len(f) - (n + 1) + 1
        /\ \A i \in 1..(Len(f) - (n + 1) + 1) : name[i] = f[(n + 1) + i - 1]
    BY <2>1, Piece
  <2>3. Len(f) - (n + 1) + 1 = Len(f) - n /\ \A i \in 1..(Len(f) - n) : (n + 1) + i - 1 = n + i
    BY <1>1
  <2>4. QED
    BY <2>2, <2>3
<1>4. parent \o name = f
  <2>1. 1 \in 1..(Len(f) + 1) /\ n \in (1 - 1)..Len(f) /\ Len(f) \in n..Len(f)
    BY <1>1
  <2>2. parent \o name = SubSeq(f, 1, Len(f))
    BY <2>1, ConcatAdjacentSubSeq
  <2>3. QED
    BY <2>2, SubSeqFull
<1>5. f[Len(f)] # Slash
  <2>1. Len(f) - n \in 1..(Len(f) - n) /\ n + (Len(f) - n) = Len(f)
    BY <1>1
  <2>2. DOMAIN name = 1..(Len(f) - n)
    BY <1>3, LenProperties
  <2>3. name[Len(f) - n] # Slash
    BY <2>1, <2>2 DEF Flat
  <2>4. QED
    BY <1>3, <2>1, <2>3
<1>6. ListingPrefix(parent) = parent
  <2>1. CASE n = 0
    <3>1. parent = <<>>
      BY <1>2, <2>1, EmptySeq
    <3>2. QED
      BY <3>1 DEF ListingPrefix
  <2>2. CASE n # 0
    <3>1. n \in 1..n /\ 1 \in 1..n /\ n > 0
      BY <1>1, <2>2
    <3>2. parent # <<>> /\ parent[n] = Slash
      BY <1>2, <3>1, EmptySeq
    <3>3. WithSlash(parent) = parent
      BY <1>2, <3>2 DEF WithSlash, EndsInSlash
    <3>4. f # <<>> /\ f # <<Slash>>
      BY <1>1, <1>5, EmptySeq
    <3>5. parent[1] # Slash
      BY <1>2, <3>1, <3>4 DEF Plain
    <3>6. parent # <<Slash>>
      BY <3>5, SMTT(30)
    <3> HIDE DEF parent
    <3>7. QED
      BY <3>2, <3>3, <3>6 DEF ListingPrefix
  <2>3. QED
    BY <2>1, <2>2
<1>7. FolderKey(f) = Append(f, Slash)
  BY <1>5 DEF FolderKey, WithSlash, EndsInSlash
<1>8. QED
  BY <1>2, <1>3, <1>4, <1>6, <1>7

-----------------------------------------------------------------------------
(* Patterns.                                                               *)

LEMMA PatternIs ==
  ASSUME NEW C, NEW path \in Seq(C)
  PROVE  LET pattern == Append(path, Percent)
         IN  /\ Len(pattern) = Len(path) + 1 /\ DOMAIN pattern = 1..(Len(path) + 1)
             /\ \A i \in 1..Len(path) : pattern[i] = path[i]
             /\ pattern[Len(path) + 1] = Percent
<1> DEFINE D == C \cup {Percent}
<1>1. path \in Seq(D) /\ Percent \in D
  BY SeqMonotonic
<1> HIDE DEF D
<1>2. QED
  BY <1>1, AppendProperties, LenProperties

LEMMA NoEscape == Percent # Escape
BY DEF Percent, Escape

\* A pattern made of a path without escapes matches what begins with the path: each of its
\* places takes the character it stands at, and the "%" takes the rest.
LEMMA PrefixIsLiked ==
  ASSUME NEW C, NEW key \in Seq(C), NEW path \in Seq(C), Unescaped(path), HasPrefix(key, path)
  PROVE  LikePrefix(key, path)
<1> DEFINE n == Len(path)
           pattern == Append(path, Percent)
           cut == [i \in 0..(n + 1) |-> IF i <= n THEN i ELSE Len(key)]
<1>1. /\ n \in Nat /\ Len(key) \in Nat /\ DOMAIN path = 1..n /\ n <= Len(key)
      /\ \A i \in 1..n : key[i] = path[i]
  BY LenProperties, PrefixIs
<1>2. /\ Len(pattern) = n + 1 /\ DOMAIN pattern = 1..(n + 1) /\ pattern[n + 1] = Percent
      /\ \A i \in 1..n : pattern[i] = path[i]
  BY PatternIs
<1> HIDE DEF pattern
<1>3. /\ cut \in [0..(n + 1) -> 0..Len(key)] /\ cut[0] = 0 /\ cut[n + 1] = Len(key)
      /\ \A i \in 0..n : cut[i] = i
  BY <1>1
<1> HIDE DEF cut
<1>4. ASSUME NEW i \in 1..(n + 1)
      PROVE  pattern[i] # Escape /\ Takes(key, pattern, {}, i, cut[i - 1], cut[i])
  <2>1. CASE i = n + 1
    <3>1. cut[i - 1] = n /\ cut[i] = Len(key)
      <4>1. i - 1 = n /\ n \in 0..n
        BY <1>1, <2>1
      <4>2. cut[n] = n
        BY <1>3, <4>1
      <4>3. QED
        BY <1>3, <2>1, <4>1, <4>2
    <3>2. pattern[i] = Percent /\ ~ (i - 1 \in {} \/ pattern[i] \notin {Percent, Underscore})
      BY <1>2, <2>1
    <3>3. Takes(key, pattern, {}, i, cut[i - 1], cut[i])
      BY <1>1, <3>1, <3>2 DEF Takes
    <3>4. QED
      BY <3>2, <3>3, NoEscape
  <2>2. CASE i # n + 1
    <3>1. i \in 1..n /\ i - 1 \in 0..n /\ i \in 0..n /\ i = (i - 1) + 1 /\ i - 1 <= i
      BY <1>1, <2>2
    <3>2. cut[i - 1] = i - 1 /\ cut[i] = i
      BY <1>3, <3>1
    <3>3. pattern[i] = path[i] /\ key[i] = path[i] /\ path[i] # Escape
      BY <1>1, <1>2, <3>1 DEF Unescaped
    <3>4. QED
      BY <3>1, <3>2, <3>3 DEF Takes
  <2>3. QED
    BY <2>1, <2>2
<1>5. /\ {} \in SUBSET DOMAIN pattern /\ cut \in [0..Len(pattern) -> 0..Len(key)]
      /\ cut[0] = 0 /\ cut[Len(pattern)] = Len(key)
      /\ \A i \in DOMAIN pattern :
            /\ i \in {} <=> pattern[i] = Escape /\ i - 1 \notin {}
            /\ Takes(key, pattern, {}, i, cut[i - 1], cut[i])
  BY <1>2, <1>3, <1>4
<1>6. Like(key, pattern)
  BY <1>5 DEF Like
<1>7. QED
  BY <1>6 DEF LikePrefix, pattern

\* A pattern made of a path without wildcards and escapes matches nothing else.
LEMMA LikedIsPrefix ==
  ASSUME NEW C, NEW key \in Seq(C), NEW path \in Seq(C), Literal(path), LikePrefix(key, path)
  PROVE  HasPrefix(key, path)
<1> DEFINE n == Len(path)
           pattern == Append(path, Percent)
<1>1. n \in Nat /\ Len(key) \in Nat /\ DOMAIN path = 1..n
  BY LenProperties
<1>2. /\ Len(pattern) = n + 1 /\ DOMAIN pattern = 1..(n + 1)
      /\ \A i \in 1..n : pattern[i] = path[i]
  BY PatternIs
<1> HIDE DEF pattern
<1>3. PICK esc \in SUBSET DOMAIN pattern, cut \in [0..Len(pattern) -> 0..Len(key)] :
         /\ cut[0] = 0
         /\ \A i \in DOMAIN pattern :
               /\ i \in esc <=> pattern[i] = Escape /\ i - 1 \notin esc
               /\ Takes(key, pattern, esc, i, cut[i - 1], cut[i])
  BY DEF LikePrefix, Like, pattern
<1>4. ASSUME NEW i \in 1..n PROVE cut[i] = cut[i - 1] + 1 /\ key[cut[i]] = path[i]
  <2>1. i \in DOMAIN pattern /\ pattern[i] = path[i]
    BY <1>1, <1>2
  <2>2. path[i] \notin {Percent, Underscore, Escape}
    BY <1>1 DEF Literal
  <2>3. i \notin esc /\ Takes(key, pattern, esc, i, cut[i - 1], cut[i])
    BY <1>3, <2>1, <2>2
  <2>4. QED
    BY <2>1, <2>2, <2>3 DEF Takes
<1>5. \A i \in 0..n : cut[i] = i
  <2> DEFINE bad == {i \in 0..n : cut[i] # i}
  <2>1. ASSUME bad # {} PROVE FALSE
    <3>1. bad \subseteq Nat
      OBVIOUS
    <3>2. PICK m \in bad : \A i \in bad : m <= i
      BY <2>1, <3>1, LeastExists
    <3>3. m \in 1..n /\ m - 1 \in 0..n /\ ~ (m <= m - 1)
      BY <1>1, <1>3, <3>2
    <3>4. m - 1 \notin bad
      BY <3>2, <3>3
    <3>5. cut[m - 1] = m - 1
      BY <3>3, <3>4
    <3>6. cut[m] = (m - 1) + 1
      BY <1>4, <3>3, <3>5
    <3>7. QED
      BY <3>2, <3>3, <3>6
  <2>2. QED
    BY <2>1
<1>6. n <= Len(key) /\ \A i \in 1..n : key[i] = path[i]
  <2>1. n \in 0..Len(pattern) /\ n \in 0..n /\ \A i \in 1..n : i \in 0..n
    BY <1>1, <1>2
  <2>2. cut[n] \in 0..Len(key) /\ cut[n] = n
    BY <1>3, <1>5, <2>1
  <2>3. \A i \in 1..n : key[i] = path[i]
    BY <1>4, <1>5, <2>1
  <2>4. QED
    BY <1>1, <2>2, <2>3
<1>7. QED
  BY <1>6, PrefixIs
=============================================================================
