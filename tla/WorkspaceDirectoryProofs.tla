---------------------- MODULE WorkspaceDirectoryProofs ----------------------
(***************************************************************************)
(* Theorems about WorkspaceDirectory, for any files, origins and requests  *)
(* and any idea of blanks and of lower case.                               *)
(***************************************************************************)
EXTENDS WorkspaceDirectory, TextFacts

-----------------------------------------------------------------------------
(* Strings.                                                                *)

\* The characters of a string that are no blanks lie between two of them, and what lies
\* between is the trimmed string.
LEMMA TrimIs ==
  ASSUME NEW s \in Strings, NEW a \in DOMAIN s, NEW b \in DOMAIN s,
         s[a] \notin Blanks, s[b] \notin Blanks,
         \A i \in DOMAIN s : s[i] \notin Blanks => a <= i /\ i <= b
  PROVE  TrimSpace(s) = SubSeq(s, a, b)
<1> DEFINE solid == {i \in DOMAIN s : s[i] \notin Blanks}
           first == CHOOSE i \in solid : \A j \in solid : i <= j
           last == CHOOSE i \in solid : \A j \in solid : i >= j
<1>1. solid \subseteq Int
  BY LenProperties DEF Strings
<1>2. a \in solid /\ b \in solid /\ \A i \in solid : a <= i /\ i <= b
  OBVIOUS
<1> HIDE DEF solid
<1>3. first \in solid /\ \A j \in solid : first <= j
  BY <1>2
<1>4. last \in solid /\ \A j \in solid : last >= j
  BY <1>2
<1> HIDE DEF first, last
<1>5. first \in Int /\ last \in Int /\ a \in Int /\ b \in Int
  BY <1>1, <1>2, <1>3, <1>4
<1>6. first <= a /\ a <= first /\ last <= b /\ b <= last
  BY <1>2, <1>3, <1>4
<1>7. first = a /\ last = b
  BY <1>5, <1>6
<1>8. solid # {}
  BY <1>2
<1>9. TrimSpace(s) = SubSeq(s, first, last)
  BY <1>8 DEF TrimSpace, solid, first, last
<1>10. QED
  BY <1>7, <1>9

LEMMA TrimSplits ==
  ASSUME NEW s \in Strings
  PROVE  \/ TrimSpace(s) = <<>> /\ \A i \in DOMAIN s : s[i] \in Blanks
         \/ \E a, b \in DOMAIN s :
               /\ a <= b /\ s[a] \notin Blanks /\ s[b] \notin Blanks
               /\ \A i \in DOMAIN s : s[i] \notin Blanks => a <= i /\ i <= b
               /\ TrimSpace(s) = SubSeq(s, a, b)
<1> DEFINE solid == {i \in DOMAIN s : s[i] \notin Blanks}
<1>1. Len(s) \in Nat /\ DOMAIN s = 1..Len(s)
  BY LenProperties DEF Strings
<1>2. CASE solid = {}
  BY <1>2 DEF TrimSpace
<1>3. CASE solid # {}
  <2>1. solid \subseteq Nat /\ \A i \in solid : i <= Len(s)
    BY <1>1
  <2>2. solid \subseteq Int /\ Len(s) \in Int
    BY <1>1, <2>1
  <2>3. PICK a \in solid : \A i \in solid : a <= i
    BY <1>3, <2>1, LeastExists
  <2>4. PICK b \in solid : \A i \in solid : b >= i
    BY <1>3, <2>1, <2>2, GreatestExists
  <2>5. /\ a \in DOMAIN s /\ b \in DOMAIN s /\ a <= b
        /\ s[a] \notin Blanks /\ s[b] \notin Blanks
    BY <2>3, <2>4
  <2>6. \A i \in DOMAIN s : s[i] \notin Blanks => a <= i /\ i <= b
    BY <1>1, <2>3, <2>4
  <2>7. TrimSpace(s) = SubSeq(s, a, b)
    BY <2>5, <2>6, TrimIs
  <2>8. QED
    BY <2>5, <2>6, <2>7
<1>4. QED
  BY <1>2, <1>3

LEMMA NormalType ==
  ASSUME NEW s \in Strings
  PROVE  TrimSpace(s) \in Strings /\ Normal(s) \in Strings
<1>1. TrimSpace(s) \in Strings
  <2>1. CASE TrimSpace(s) = <<>>
    BY <2>1 DEF Strings
  <2>2. ASSUME NEW a \in DOMAIN s, NEW b \in DOMAIN s, a <= b, TrimSpace(s) = SubSeq(s, a, b)
        PROVE  TrimSpace(s) \in Strings
    <3>1. Len(s) \in Nat /\ DOMAIN s = 1..Len(s)
      BY LenProperties DEF Strings
    <3>2. a \in 1..(Len(s) + 1) /\ b \in (a - 1)..Len(s)
      BY <2>2, <3>1
    <3>3. QED
      BY <2>2, <3>2, Piece DEF Strings
  <2>3. QED
    BY <2>1, <2>2, TrimSplits
<1>2. QED
  BY <1>1, Mapped, LowerAssumption DEF Normal, ToLower, Strings

\* The domain of an address without blanks within is what follows its "@", normalised: the
\* address is trimmed and put in lower case before it is parted, and that changes neither
\* where the "@" is nor what follows it but for case and blanks around.
LEMMA DomainIsAfter ==
  ASSUME NEW email \in Strings, DomainFromEmail(email) # <<>>,
         CharsOf(TrimSpace(email)) \cap Blanks = {}
  PROVE  Normal(After(email)) = DomainFromEmail(email)
<1> DEFINE t == TrimSpace(email)
           e == Normal(email)
           ats == {i \in DOMAIN e : e[i] = At}
<1>1. /\ Len(email) \in Nat /\ DOMAIN email = 1..Len(email)
      /\ t \in Strings /\ Len(t) \in Nat /\ DOMAIN t = 1..Len(t)
  BY NormalType, LenProperties DEF Strings
<1>2. /\ e \in Strings /\ Len(e) = Len(t) /\ DOMAIN e = DOMAIN t
      /\ \A i \in DOMAIN t : e[i] = Lower[t[i]]
  BY <1>1, Mapped, LowerAssumption DEF Normal, ToLower, Strings
<1>3. PICK k \in ats : ats = {k} /\ k > 1 /\ DomainFromEmail(email) = SubSeq(e, k + 1, Len(e))
  <2>1. PICK i \in ats : ats = {i} /\ i > 1
    BY DEF DomainFromEmail
  <2>2. (CHOOSE j \in ats : TRUE) = i
    BY <2>1
  <2>3. DomainFromEmail(email) = SubSeq(e, (CHOOSE j \in ats : TRUE) + 1, Len(e))
    BY <2>1 DEF DomainFromEmail
  <2>4. QED
    BY <2>1, <2>2, <2>3
<1> HIDE DEF e, t
<1>4. k \in 1..Len(t) /\ e[k] = At
  BY <1>1, <1>2, <1>3
<1>5. k < Len(t)
  <2>1. k \in Int /\ k + 1 \in Int /\ Len(t) \in Int /\ (Len(t) < k + 1 => SubSeq(e, k + 1, Len(t)) = <<>>)
    BY <1>1, <1>4, SubSeqEmpty
  <2>2. ~ (Len(t) < k + 1)
    BY <1>2, <1>3, <2>1
  <2>3. QED
    BY <2>1, <2>2
<1>6. PICK a \in DOMAIN email, b \in DOMAIN email :
         /\ a <= b
         /\ \A i \in DOMAIN email : email[i] \notin Blanks => a <= i /\ i <= b
         /\ t = SubSeq(email, a, b)
  <2>1. t # <<>>
    BY <1>4
  <2>2. QED
    BY <2>1, TrimSplits DEF t
<1>7. /\ Len(t) = b - a + 1 /\ a \in Nat /\ b \in Nat
      /\ \A i \in 1..Len(t) : t[i] = email[a + i - 1]
  <2>1. a \in 1..(Len(email) + 1) /\ b \in (a - 1)..Len(email)
    BY <1>1, <1>6
  <2>2. QED
    BY <1>1, <1>6, <2>1, Piece, SMTT(30) DEF Strings
<1>8. \A i \in 1..Len(t) : t[i] \notin Blanks /\ t[i] \in DOMAIN Lower
  <2>1. CharsOf(t) \cap Blanks = {}
    BY DEF t
  <2>2. \A i \in 1..Len(t) : t[i] \in CharsOf(t)
    BY <1>1 DEF CharsOf
  <2>3. QED
    BY <1>1, <2>1, <2>2, ElementOfSeq DEF Strings
<1> DEFINE n == a + k - 1
           r == SubSeq(email, n + 1, Len(email))
<1>9. /\ n \in Nat /\ a <= n /\ n < b /\ n \in DOMAIN email /\ b <= Len(email)
      /\ b - n = Len(t) - k
  BY <1>1, <1>4, <1>5, <1>6, <1>7
<1>10. \A i \in DOMAIN email : email[i] = At <=> i = n
  <2>1. ASSUME NEW i \in 1..Len(t) PROVE t[i] = At <=> i = k
    <3>1. t[i] = At <=> e[i] = At
      BY <1>1, <1>2, <1>8, AtAssumption
    <3>2. e[i] = At <=> i \in ats
      BY <1>1, <1>2
    <3>3. QED
      BY <1>3, <3>1, <3>2
  <2>2. email[n] = At
    BY <1>4, <1>7, <2>1
  <2>3. ASSUME NEW i \in DOMAIN email, email[i] = At PROVE i = n
    <3>1. a <= i /\ i <= b
      BY <1>6, <2>3, AtAssumption
    <3>2. i - a + 1 \in 1..Len(t) /\ t[i - a + 1] = email[a + (i - a + 1) - 1] /\ i \in Int
      BY <1>1, <1>7, <3>1
    <3>3. i = a + (i - a + 1) - 1
      BY <1>7, <3>2
    <3>4. i - a + 1 = k
      BY <2>1, <2>3, <3>2, <3>3
    <3>5. k \in Int /\ a \in Int
      BY <1>4, <1>7
    <3>6. QED
      BY <3>2, <3>4, <3>5
  <2>4. QED
    BY <2>2, <2>3
<1>11. After(email) = r
  <2>1. (CHOOSE i \in DOMAIN email : email[i] = At) = n
    BY <1>9, <1>10
  <2>2. QED
    BY <2>1 DEF After
<1>12. /\ r \in Strings /\ Len(r) = Len(email) - n /\ DOMAIN r = 1..(Len(email) - n)
       /\ \A i \in 1..(Len(email) - n) : r[i] = email[n + i]
  <2>1. n + 1 \in 1..(Len(email) + 1) /\ Len(email) \in ((n + 1) - 1)..Len(email)
    BY <1>1, <1>9
  <2>2. /\ r \in Strings /\ Len(r) = Len(email) - (n + 1) + 1
        /\ \A i \in 1..(Len(email) - (n + 1) + 1) : r[i] = email[(n + 1) + i - 1]
    BY <2>1, Piece DEF Strings
  <2>3. Len(email) - (n + 1) + 1 = Len(email) - n
        /\ \A i \in 1..(Len(email) - n) : (n + 1) + i - 1 = n + i
    BY <1>1, <1>9
  <2>4. DOMAIN r = 1..Len(r)
    BY <2>2, LenProperties DEF Strings
  <2>5. QED
    BY <2>2, <2>3, <2>4
<1> HIDE DEF r
<1>13. \A i \in 1..(b - n) : r[i] = t[k + i] /\ r[i] \notin Blanks
  <2>1. ASSUME NEW i \in 1..(b - n) PROVE r[i] = t[k + i] /\ r[i] \notin Blanks
    <3>1. i \in 1..(Len(email) - n) /\ k + i \in 1..Len(t)
      BY <1>1, <1>4, <1>7, <1>9, SMTT(30)
    <3> n + i = a + (k + i) - 1
      BY <1>4, <1>7
    <3>2. r[i] = email[n + i]
      BY <1>12, <3>1
    <3>3. t[k + i] = email[n + i] /\ t[k + i] \notin Blanks
      BY <1>7, <1>8, <3>1
    <3>4. QED
      BY <3>2, <3>3
  <2>2. QED
    BY <2>1
<1>14. TrimSpace(r) = SubSeq(r, 1, b - n)
  <2>1. 1 \in 1..(b - n) /\ b - n \in 1..(b - n) /\ 1 \in DOMAIN r /\ b - n \in DOMAIN r
    BY <1>1, <1>9, <1>12
  <2>2. ASSUME NEW i \in DOMAIN r, r[i] \notin Blanks PROVE 1 <= i /\ i <= b - n
    <3>1. r[i] = email[n + i] /\ i \in Nat /\ i >= 1 /\ n + i \in DOMAIN email
      BY <1>1, <1>9, <1>12
    <3>2. n + i <= b
      BY <1>6, <2>2, <3>1
    <3>3. QED
      BY <1>7, <1>9, <3>1, <3>2
  <2>3. QED
    BY <1>12, <1>13, <2>1, <2>2, TrimIs
<1> DEFINE u == SubSeq(r, 1, b - n)
           v == SubSeq(e, k + 1, Len(e))
<1>15. /\ u \in Strings /\ Len(u) = b - n /\ \A i \in 1..(b - n) : u[i] = r[i]
  <2>1. 1 \in 1..(Len(r) + 1) /\ b - n \in (1 - 1)..Len(r)
    BY <1>1, <1>9, <1>12
  <2>2. /\ u \in Strings /\ Len(u) = b - n - 1 + 1
        /\ \A i \in 1..(b - n - 1 + 1) : u[i] = r[1 + i - 1]
    BY <1>12, <2>1, Piece DEF Strings
  <2>3. b - n - 1 + 1 = b - n /\ \A i \in 1..(b - n) : 1 + i - 1 = i
    BY <1>7, <1>9
  <2>4. QED
    BY <2>2, <2>3
<1>16. /\ v \in Strings /\ Len(v) = b - n /\ \A i \in 1..(b - n) : v[i] = e[k + i]
  <2>1. k + 1 \in 1..(Len(e) + 1) /\ Len(e) \in ((k + 1) - 1)..Len(e)
    BY <1>1, <1>2, <1>4, <1>5
  <2>2. /\ v \in Strings /\ Len(v) = Len(e) - (k + 1) + 1
        /\ \A i \in 1..(Len(e) - (k + 1) + 1) : v[i] = e[(k + 1) + i - 1]
    BY <1>2, <2>1, Piece, SMTT(30) DEF Strings
  <2>3. Len(e) - (k + 1) + 1 = b - n /\ \A i \in 1..(b - n) : (k + 1) + i - 1 = k + i
    BY <1>1, <1>2, <1>4, <1>9
  <2>4. QED
    BY <2>2, <2>3
<1> HIDE DEF u, v
<1>17. /\ ToLower(u) \in Strings /\ Len(ToLower(u)) = b - n
       /\ \A i \in 1..(b - n) : ToLower(u)[i] = Lower[u[i]]
  <2>1. DOMAIN u = 1..(b - n)
    BY <1>15, LenProperties DEF Strings
  <2>2. QED
    BY <1>15, <2>1, Mapped, LowerAssumption, SMTT(30) DEF ToLower, Strings
<1>18. \A i \in 1..(b - n) : ToLower(u)[i] = v[i]
  <2>1. ASSUME NEW i \in 1..(b - n) PROVE k + i \in DOMAIN t
    BY <1>1, <1>4, <1>9
  <2>2. QED
    BY <1>2, <1>13, <1>15, <1>16, <1>17, <2>1
<1>19. ToLower(u) = v
  BY <1>16, <1>17, <1>18, SeqEqual DEF Strings
<1>20. QED
  BY <1>3, <1>11, <1>14, <1>19 DEF Normal, u, v

-----------------------------------------------------------------------------
(* Types.                                                                  *)

LEMMA NormalizedType ==
  ASSUME NEW w \in Workspaces
  PROVE  NormalizeWorkspace(w) \in Workspaces
<1> DEFINE Statuses == {Unset, "active", "disabled", "other"}
           Lists == SUBSET Strings
           slug == Normal(w.slug)
           domains == {Normal(d) : d \in w.domains}
           status == IF w.status = Unset THEN "active" ELSE w.status
<1>1. w.slug \in Strings /\ w.domains \subseteq Strings /\ w.status \in Statuses
  BY DEF Workspaces
<1>2. slug \in Strings /\ domains \in Lists
  BY <1>1, NormalType
<1>3. status \in Statuses
  <2>1. CASE w.status = Unset
    BY <2>1
  <2>2. CASE w.status # Unset
    BY <1>1, <2>2
  <2>3. QED
    BY <2>1, <2>2
<1>4. NormalizeWorkspace(w) = [w EXCEPT !.slug = slug, !.domains = domains, !.status = status]
  BY DEF NormalizeWorkspace
<1>5. Workspaces = [slug : Strings, domains : Lists, status : Statuses, sound : BOOLEAN]
  BY DEF Workspaces
<1> HIDE DEF Statuses, Lists, slug, domains, status
<1>6. QED
  BY <1>2, <1>3, <1>4, <1>5

LEMMA StoreType ==
  ASSUME NEW c \in Seq(Workspaces), NEW s, s = [i \in DOMAIN c |-> NormalizeWorkspace(c[i])],
         \A i \in DOMAIN c : Valid(NormalizeWorkspace(c[i]))
  PROVE  /\ s \in Seq(Workspaces)
         /\ \A i \in DOMAIN s : s[i].status \in {"active", "disabled"} /\ s[i].sound
<1>1. Len(c) \in Nat /\ DOMAIN c = 1..Len(c) /\ \A i \in 1..Len(c) : c[i] \in Workspaces
  BY LenProperties, ElementOfSeq
<1>2. s \in [1..Len(c) -> Workspaces]
  BY <1>1, NormalizedType
<1>3. s \in Seq(Workspaces)
  BY <1>1, <1>2, SeqDef
<1>4. QED
  BY <1>3 DEF Valid

\* Only workspaces of the directory are found.
LEMMA FoundInStore == \A q : Found(q) \subseteq DOMAIN store
BY DEF Found, ResolveBySlug, ResolveByEmailDomain

\* The directory holds valid workspaces only, and what is found is among them.  Before the
\* directory is loaded nothing has been found.
THEOREM TypeCorrect == Spec => []TypeOK
<1> DEFINE IInv == TypeOK /\ (phase = "starting" => answer.found = {})
<1>1. Init => IInv
  BY DEF Init, TypeOK
<1>2. ASSUME IInv, [Next]_vars PROVE IInv'
  <2>1. ASSUME NEW c \in Configs, NEW o \in OriginLists, Start(c, o) PROVE IInv'
    <3>1. c \in Seq(Workspaces) /\ o \in Seq(Strings)
      BY ConfigsAssumption
    <3>2. config' = c /\ allowed' = o /\ UNCHANGED answer /\ answer.found = {}
      BY <1>2, <2>1 DEF Start
    <3>3. CASE Accepted(c)
      <4>1. phase' = "serving" /\ store' = [i \in DOMAIN c |-> NormalizeWorkspace(c[i])]
        BY <2>1, <3>3 DEF Start
      <4>2. \A i \in DOMAIN c : Valid(NormalizeWorkspace(c[i]))
        BY <3>3 DEF Accepted
      <4> HIDE DEF IInv
      <4>3. /\ store' \in Seq(Workspaces)
            /\ \A i \in DOMAIN store' : store'[i].status \in {"active", "disabled"}
                                        /\ store'[i].sound
        BY <3>1, <4>1, <4>2, StoreType
      <4>4. QED
        BY <1>2, <3>1, <3>2, <4>1, <4>3 DEF IInv, TypeOK
    <3>4. CASE ~Accepted(c)
      BY <1>2, <2>1, <3>1, <3>2, <3>4 DEF Start, TypeOK
    <3>5. QED
      BY <3>3, <3>4
  <2>2. ASSUME NEW q, Resolve(q) PROVE IInv'
    BY <1>2, <2>2, FoundInStore DEF Resolve, TypeOK
  <2>3. CASE UNCHANGED vars
    BY <1>2, <2>3 DEF vars, TypeOK
  <2>4. QED
    BY <1>2, <2>1, <2>2, <2>3 DEF Next
<1>3. QED
  BY <1>1, <1>2, PTL DEF Spec

-----------------------------------------------------------------------------
(* What is loaded and what is answered.                                    *)

\* What a server that answers has loaded, and what it has answered.
Loaded ==
    /\ config \in Seq(Workspaces)
    /\ phase = "serving" =>
          Accepted(config) /\ store = [i \in DOMAIN config |-> NormalizeWorkspace(config[i])]

Answered ==
    answer.status # 0 =>
        /\ phase = "serving"
        /\ answer = [status |-> IF Missing(request) THEN 400 ELSE 200,
                     found |-> Found(request), allow |-> AllowOrigin(request.origin)]

\* Nothing changes what has been loaded.
LEMMA LoadedAlways == Spec => [](Loaded /\ Answered)
<1>1. Init => Loaded /\ Answered
  BY DEF Init, Loaded, Answered
<1>2. ASSUME Loaded, Answered, [Next]_vars PROVE (Loaded /\ Answered)'
  <2>1. ASSUME NEW c \in Configs, NEW o \in OriginLists, Start(c, o)
        PROVE  (Loaded /\ Answered)'
    <3>1. c \in Seq(Workspaces)
      BY ConfigsAssumption
    <3>2. config' = c
          /\ (phase' = "serving" =>
                Accepted(c) /\ store' = [i \in DOMAIN c |-> NormalizeWorkspace(c[i])])
      BY <2>1 DEF Start
    <3>3. Loaded'
      BY <3>1, <3>2 DEF Loaded
    <3>4. phase = "starting" /\ UNCHANGED answer
      BY <2>1 DEF Start
    <3>5. QED
      BY <1>2, <3>3, <3>4 DEF Answered
  <2>2. ASSUME NEW q, Resolve(q) PROVE (Loaded /\ Answered)'
    <3>1. Loaded' /\ phase' = "serving" /\ request' = q
      BY <1>2, <2>2 DEF Resolve, Loaded
    <3>2. Found(request)' = Found(q) /\ AllowOrigin(request.origin)' = AllowOrigin(q.origin)
          /\ Missing(request)' = Missing(q)
      BY <2>2 DEF Resolve, Found, AllowOrigin, Missing, ResolveBySlug, ResolveByEmailDomain,
                  OriginAllowed
    <3>3. answer' = [status |-> IF Missing(q) THEN 400 ELSE 200, found |-> Found(q),
                     allow |-> AllowOrigin(q.origin)]
      BY <2>2 DEF Resolve
    <3>4. QED
      BY <3>1, <3>2, <3>3 DEF Answered
  <2>3. ASSUME UNCHANGED vars PROVE (Loaded /\ Answered)'
    BY <1>2, <2>3 DEF vars, Loaded, Answered, Found, AllowOrigin, Missing, ResolveBySlug,
                      ResolveByEmailDomain, OriginAllowed
  <2>4. QED
    BY <1>2, <2>1, <2>2, <2>3 DEF Next
<1>3. QED
  BY <1>1, <1>2, PTL DEF Spec

\* What normalizeWorkspace makes of the slug and the status.
LEMMA Normalized ==
  ASSUME NEW w \in Workspaces
  PROVE  /\ NormalizeWorkspace(w).slug = Normal(w.slug)
         /\ NormalizeWorkspace(w).status = "active" <=> Active(w)
BY DEF NormalizeWorkspace, Workspaces, Active

\* A slug names one workspace at the most, and the first that matches is that one.
THEOREM OneForASlug == Spec => []SlugFindsOne
<1>1. ASSUME Loaded, Answered PROVE SlugFindsOne
  <2> DEFINE slug == Normal(request.slug)
             named == {i \in DOMAIN config : Same(config[i].slug, request.slug)}
             hits == {i \in DOMAIN store : store[i].status = "active" /\ store[i].slug = slug}
  <2>1. SUFFICES ASSUME answer.status = 200, slug # <<>>
                 PROVE  /\ \A i, j \in named : i = j
                        /\ answer.found = {i \in named : Active(config[i])}
    BY DEF SlugFindsOne
  <2>2. phase = "serving" /\ answer.found = Found(request)
    BY <1>1, <2>1 DEF Answered
  <2>3. Accepted(config) /\ store = [i \in DOMAIN config |-> NormalizeWorkspace(config[i])]
    BY <1>1, <2>2 DEF Loaded
  <2>4. \A i \in DOMAIN config : i \in Int /\ config[i] \in Workspaces
    BY <1>1 DEF Loaded
  <2>5. \A i \in DOMAIN config :
           NormalizeWorkspace(config[i]).slug = Normal(config[i].slug)
           /\ (NormalizeWorkspace(config[i]).status = "active" <=> Active(config[i]))
    BY <2>4, Normalized
  <2>6. ASSUME NEW i \in named, NEW j \in named PROVE i = j
    BY <2>3, <2>5 DEF Accepted, Duplicated, Same
  <2>7. hits = {i \in named : Active(config[i])}
    <3>1. DOMAIN store = DOMAIN config
          /\ \A i \in DOMAIN config : store[i] = NormalizeWorkspace(config[i])
      BY <2>3
    <3>2. ASSUME NEW i PROVE i \in hits <=> i \in named /\ Active(config[i])
      BY <2>5, <3>1 DEF Same
    <3> HIDE DEF hits, named
    <3>3. QED
      BY <3>2
  <2>8. answer.found = {i \in hits : \A j \in hits : i <= j}
    BY <2>1, <2>2 DEF Found, ResolveBySlug
  <2>9. \A i \in hits : \A j \in hits : i = j /\ i <= j
    BY <2>4, <2>6, <2>7
  <2>10. answer.found = hits
    <3> HIDE DEF hits
    <3> QED
      BY <2>8, <2>9
  <2>11. QED
    BY <2>6, <2>7, <2>10
<1>2. QED
  BY <1>1, LoadedAlways, PTL

\* Requests are strings.
Asked == request \in [slug : Strings, email : Strings, origin : Strings]

LEMMA AskedAlways == Spec => []Asked
<1>1. Init => Asked
  BY DEF Init, Asked, Strings
<1>2. ASSUME Asked, [Next]_vars PROVE Asked'
  <2>1. ASSUME NEW q \in [slug : Slugs, email : Emails, origin : Origins], Resolve(q)
        PROVE  Asked'
    BY <2>1, RequestsAssumption DEF Resolve, Asked
  <2>2. ASSUME NEW c \in Configs, NEW o \in OriginLists, Start(c, o) PROVE Asked'
    BY <1>2, <2>2 DEF Start, Asked
  <2>3. CASE UNCHANGED vars
    BY <1>2, <2>3 DEF vars, Asked
  <2>4. QED
    BY <1>2, <2>1, <2>2, <2>3 DEF Next
<1>3. QED
  BY <1>1, <1>2, PTL DEF Spec

\* An address finds the active workspaces of its domain, all of them and no other: the file's
\* domains and the address are normalised alike, though the address before it is parted.
THEOREM AllForAnAddress == Spec => []DomainFindsAll
<1>1. ASSUME Loaded, Answered, Asked PROVE DomainFindsAll
  <2> DEFINE domain == DomainFromEmail(request.email)
             wanted == {i \in DOMAIN config :
                           /\ Active(config[i])
                           /\ \E d \in config[i].domains : Same(d, After(request.email))}
  <2>1. SUFFICES ASSUME answer.status = 200, Normal(request.slug) = <<>>,
                        CharsOf(TrimSpace(request.email)) \cap Blanks = {}
                 PROVE  answer.found = wanted
    BY DEF DomainFindsAll
  <2>2. phase = "serving" /\ answer.found = Found(request) /\ ~Missing(request)
    BY <1>1, <2>1 DEF Answered
  <2>3. domain # <<>>
    BY <2>1, <2>2 DEF Missing
  <2>4. Normal(After(request.email)) = domain
    BY <1>1, <2>1, <2>3, DomainIsAfter DEF Asked
  <2>5. store = [i \in DOMAIN config |-> NormalizeWorkspace(config[i])]
    BY <1>1, <2>2 DEF Loaded
  <2>6. ASSUME NEW i \in DOMAIN config
        PROVE  i \in ResolveByEmailDomain(domain) <=> i \in wanted
    <3>1. config[i] \in Workspaces
      BY <1>1, LenProperties, ElementOfSeq DEF Loaded
    <3>2. /\ NormalizeWorkspace(config[i]).status = "active" <=> Active(config[i])
          /\ NormalizeWorkspace(config[i]).domains = {Normal(d) : d \in config[i].domains}
      BY <3>1, Normalized DEF NormalizeWorkspace, Workspaces
    <3>3. domain \in {Normal(d) : d \in config[i].domains}
             <=> \E d \in config[i].domains : Same(d, After(request.email))
      BY <2>4 DEF Same
    <3> HIDE DEF domain
    <3>4. QED
      BY <2>5, <3>2, <3>3 DEF ResolveByEmailDomain
  <2>7. ResolveByEmailDomain(domain) = wanted
    BY <2>5, <2>6 DEF ResolveByEmailDomain
  <2>8. QED
    BY <2>1, <2>2, <2>3, <2>7 DEF Found
<1>2. QED
  BY <1>1, LoadedAlways, AskedAlways, PTL

\* A page may read the answer just when its origin, or every origin, is configured.
THEOREM ListedOriginsMayRead == Spec => []ListedOriginsRead
<1>1. ASSUME Answered PROVE ListedOriginsRead
  <2>1. SUFFICES ASSUME answer.status # 0, request.origin # <<>>
                 PROVE  /\ answer.allow \in {request.origin, Star}
                              <=> \E i \in DOMAIN allowed : \E a \in {request.origin, Star} :
                                      TrimSpace(allowed[i]) = a
                        /\ answer.allow \in {request.origin, Star, <<>>}
    BY DEF ListedOriginsRead
  <2>2. answer.allow = AllowOrigin(request.origin)
    BY <1>1, <2>1 DEF Answered
  <2>3. Star # <<>>
    BY DEF Star
  <2>4. OriginAllowed(Star) => OriginAllowed(request.origin)
    BY DEF OriginAllowed
  <2>5. OriginAllowed(request.origin)
           <=> \E i \in DOMAIN allowed : \E a \in {request.origin, Star} :
                   TrimSpace(allowed[i]) = a
    BY DEF OriginAllowed
  <2>6. answer.allow = IF OriginAllowed(request.origin) THEN request.origin ELSE <<>>
    BY <2>1, <2>2, <2>4 DEF AllowOrigin
  <2>7. QED
    BY <2>1, <2>3, <2>5, <2>6
<1>2. QED
  BY <1>1, LoadedAlways, PTL
=============================================================================
