--------------------------- MODULE SharePageProofs ---------------------------
(***************************************************************************)
(* Theorems about SharePage, for any number of pages and requests.  What   *)
(* is proved of VaultDownloads holds of the server under the pages.        *)
(***************************************************************************)
EXTENDS SharePage, VaultDownloadsProofs

\* The server does under the pages what VaultDownloads lets it do.
LEMMA ServerSteps == PageNext => [Next]_vars
<1> USE ShareAssumption
<1>1. ASSUME NEW p \in Viewers, NEW c \in Calls, Arrive(p, c) PROVE [Next]_vars
  <2>1. PICK r \in Requests : PublicShareDownload(r, share, p)
    BY <1>1 DEF Arrive
  <2>2. QED
    BY <2>1 DEF Next
<1>2. ASSUME NEW p \in Viewers, NEW c \in Calls, Refuse(p, c) \/ Lose(p, c) PROVE UNCHANGED vars
  BY <1>2 DEF Refuse, Lose
<1>3. ASSUME NEW p \in Viewers, OpenPage(p) \/ Click(p) \/ \E c \in Submissions : Submit(p, c)
      PROVE  UNCHANGED vars
  BY <1>3 DEF OpenPage, Click, Submit
<1>4. ASSUME NEW r \in Requests, SignAndCount(r) \/ Deliver(r) \/ Break(r) PROVE [Next]_vars
  BY <1>4 DEF SignAndCount, Deliver, Break, Next
<1>5. ASSUME Publish \/ Elsewhere PROVE [Next]_vars
  BY <1>5 DEF Publish, Elsewhere, Next
<1>6. QED
  BY <1>1, <1>2, <1>3, <1>4, <1>5 DEF PageNext

LEMMA ServerSpec == PageSpec => Spec
<1>1. PageInit => Init
  BY DEF PageInit
<1>2. [PageNext]_pageVars => [Next]_vars
  BY ServerSteps DEF pageVars
<1>3. QED
  BY <1>1, <1>2, PTL DEF PageSpec, Spec

-----------------------------------------------------------------------------
(* Types.                                                                  *)

\* The variables' own types, of which the two other parts of the invariant speak.
Typed ==
    /\ locked \in BOOLEAN /\ view \in [Viewers -> {"away", "plain", "form", "unlocked"}]
    /\ url \in [Viewers -> None..MaxNow] /\ busy \in [Viewers -> BOOLEAN]
    /\ sent \subseteq Viewers \X Calls
    /\ by \in [Requests -> Calls \cup {"none"}] /\ signed \in [Requests -> None..MaxNow]
    /\ asked \subseteq Viewers /\ handed \subseteq Viewers
    /\ savedAt \in [Viewers -> None..MaxNow]
    /\ failed \subseteq Viewers /\ wasted \in Nat

LEMMA Times == TypeOK => now \in None..MaxNow /\ now # None /\ now \in Nat /\ None \in None..MaxNow
BY BoundsAssumption DEF TypeOK, None

LEMMA SaveTyped ==
  ASSUME TypeOK, Typed, NEW p \in Viewers, NEW t, Save(p, t)
  PROVE  savedAt' \in [Viewers -> None..MaxNow]
BY Times DEF Typed, Save

LEMMA GotTyped ==
  ASSUME TypeOK, Typed, NEW p \in Viewers, NEW c, NEW t \in None..MaxNow, Got(p, c, t)
  PROVE  /\ view' \in [Viewers -> {"away", "plain", "form", "unlocked"}]
         /\ url' \in [Viewers -> None..MaxNow] /\ busy' \in [Viewers -> BOOLEAN]
         /\ sent' \subseteq Viewers \X Calls /\ handed' \subseteq Viewers
         /\ savedAt' \in [Viewers -> None..MaxNow]
<1>1. savedAt' \in [Viewers -> None..MaxNow]
  BY SaveTyped DEF Got, Typed
<1>2. view' \in [Viewers -> {"away", "plain", "form", "unlocked"}]
  BY DEF Got, Typed
<1>3. url' \in [Viewers -> None..MaxNow]
  BY DEF Got, Typed
<1>4. busy' \in [Viewers -> BOOLEAN]
  BY Zenon DEF Got, Typed
<1>5. QED
  BY <1>1, <1>2, <1>3, <1>4 DEF Got, Typed

LEMMA RefusedTyped ==
  ASSUME Typed, NEW p \in Viewers, NEW c, Refused(p, c)
  PROVE  /\ view' \in [Viewers -> {"away", "plain", "form", "unlocked"}]
         /\ url' \in [Viewers -> None..MaxNow] /\ busy' \in [Viewers -> BOOLEAN]
         /\ sent' \subseteq Viewers \X Calls /\ handed' \subseteq Viewers
         /\ savedAt' \in [Viewers -> None..MaxNow]
<1>1. busy' \in [Viewers -> BOOLEAN]
  BY Zenon DEF Refused, Typed
<1>2. QED
  BY <1>1 DEF Refused, Typed

LEMMA ServingJob ==
  ASSUME TypeOK, NEW r \in Requests, pc[r] # "idle"
  PROVE  job[r].viewer \in Viewers
BY DEF TypeOK, Jobs

LEMMA StepTyped == TypeOK /\ Typed /\ PageNext => Typed'
<1> SUFFICES ASSUME TypeOK, Typed, PageNext PROVE Typed'
  OBVIOUS
<1>1. ASSUME Publish \/ Elsewhere PROVE Typed'
  BY <1>1 DEF Publish, Elsewhere, script, losses, Typed
<1>2. ASSUME NEW p \in Viewers, OpenPage(p) PROVE Typed'
  BY <1>2 DEF OpenPage, Send, Calls, losses, Typed
<1>3. ASSUME NEW p \in Viewers, Click(p) PROVE Typed'
  <2>1. savedAt' \in [Viewers -> None..MaxNow]
    BY <1>3, SaveTyped DEF Click, Typed
  <2>2. busy' \in [Viewers -> BOOLEAN]
    BY <1>3, Zenon DEF Click, Typed
  <2>3. sent' \subseteq Viewers \X Calls
    BY <1>3 DEF Click, Send, Calls, Typed
  <2>4. UNCHANGED <<locked, view, url, by, signed, asked, handed, losses>>
    BY <1>3 DEF Click
  <2>5. QED
    BY <2>1, <2>2, <2>3, <2>4 DEF losses, Typed
<1>4. ASSUME NEW p \in Viewers, NEW c \in Submissions, Submit(p, c) PROVE Typed'
  <2>1. busy' \in [Viewers -> BOOLEAN]
    BY <1>4, Zenon DEF Submit, Typed
  <2>2. sent' \subseteq Viewers \X Calls /\ asked' \subseteq Viewers
    BY <1>4 DEF Submit, Send, Calls, Typed
  <2>3. UNCHANGED <<locked, view, url, by, signed, handed, savedAt, losses>>
    BY <1>4 DEF Submit
  <2>4. QED
    BY <2>1, <2>2, <2>3 DEF losses, Typed
<1>5. ASSUME NEW p \in Viewers, NEW c \in Calls, Arrive(p, c) PROVE Typed'
  BY <1>5 DEF Arrive, losses, Typed
<1>6. ASSUME NEW p \in Viewers, NEW c \in Calls, Refuse(p, c) \/ Lose(p, c) PROVE Typed'
  <2>1. Refused(p, c) /\ UNCHANGED <<locked, by, signed, asked, wasted>>
        /\ failed' \subseteq Viewers
    BY <1>6 DEF Refuse, Lose, losses, Typed
  <2>2. QED
    BY <2>1, RefusedTyped DEF Typed
<1>7. ASSUME NEW r \in Requests, SignAndCount(r) PROVE Typed'
  BY <1>7, Times DEF SignAndCount, losses, Typed
<1>8. ASSUME NEW r \in Requests, Forget(r)
      PROVE  /\ by' \in [Requests -> Calls \cup {"none"}] /\ signed' \in [Requests -> None..MaxNow]
             /\ UNCHANGED <<locked, asked>>
  BY <1>8, Times DEF Forget, Typed
<1>9. ASSUME NEW r \in Requests, Deliver(r) PROVE Typed'
  <2>1. job[r].viewer \in Viewers /\ signed[r] \in None..MaxNow
    BY <1>9, ServingJob DEF Deliver, Answer, Typed
  <2>2. Got(job[r].viewer, by[r], signed[r]) /\ Forget(r) /\ UNCHANGED losses
    BY <1>9 DEF Deliver
  <2>3. QED
    BY <1>8, <2>1, <2>2, GotTyped DEF losses, Typed
<1>10. ASSUME NEW r \in Requests, Break(r) PROVE Typed'
  <2>1. job[r].viewer \in Viewers
    BY <1>10, ServingJob DEF Break, Fail
  <2>2. Refused(job[r].viewer, by[r]) /\ Forget(r)
        /\ failed' \subseteq Viewers /\ wasted' \in Nat
    BY <1>10, <2>1 DEF Break, Typed
  <2>3. QED
    BY <1>8, <2>1, <2>2, RefusedTyped DEF Typed
<1>11. QED
  BY <1>1, <1>2, <1>3, <1>4, <1>5, <1>6, <1>7, <1>9, <1>10 DEF PageNext
LEMMA StepFits == TypeOK /\ Typed /\ FetchesFit /\ RequestsAnswer /\ PageNext => FetchesFit'
<1> SUFFICES ASSUME TypeOK, Typed, FetchesFit, RequestsAnswer, PageNext PROVE FetchesFit'
  OBVIOUS
<1>1. ASSUME sent' \subseteq sent, UNCHANGED <<view, url>> PROVE FetchesFit'
  BY <1>1 DEF FetchesFit
<1>2. ASSUME NEW p \in Viewers, OpenPage(p) PROVE FetchesFit'
  <2>1. \A f \in sent : f[1] # p
    BY <1>2 DEF OpenPage, FetchesFit
  <2>2. \A f \in sent : f[1] \in Viewers /\ view'[f[1]] = view[f[1]]
    BY <1>2, <2>1 DEF OpenPage, Typed
  <2>3. sent' = sent \/ (sent' = sent \cup {<<p, "init">>} /\ view'[p] = "plain")
    BY <1>2 DEF OpenPage, Send, Typed
  <2>4. \A q \in Viewers : view'[q] = "unlocked" => view[q] = "unlocked"
    BY <1>2 DEF OpenPage, Typed
  <2>5. UNCHANGED url
    BY <1>2 DEF OpenPage
  <2>6. QED
    BY <2>2, <2>3, <2>4, <2>5 DEF FetchesFit, Submissions
<1>3. ASSUME NEW p \in Viewers, Click(p) PROVE FetchesFit'
  <2>1. sent' = sent \/ (sent' = sent \cup {<<p, "click">>} /\ view[p] = "plain")
    BY <1>3 DEF Click, Send, FetchesFit
  <2>2. QED
    BY <1>3, <2>1 DEF Click, FetchesFit, Submissions
<1>4. ASSUME NEW p \in Viewers, NEW c \in Submissions, Submit(p, c) PROVE FetchesFit'
  BY <1>4 DEF Submit, Send, FetchesFit
<1>5. ASSUME NEW p \in Viewers, NEW c \in Calls, Arrive(p, c) \/ Refuse(p, c) \/ Lose(p, c)
      PROVE  FetchesFit'
  BY <1>1, <1>5 DEF Arrive, Refuse, Lose, Refused
<1>6. ASSUME NEW r \in Requests, SignAndCount(r) \/ Break(r) PROVE FetchesFit'
  BY <1>1, <1>6 DEF SignAndCount, Break, Refused
<1>7. ASSUME NEW r \in Requests, Deliver(r) PROVE FetchesFit'
  <2> DEFINE p == job[r].viewer
             c == by[r]
             t == signed[r]
  <2>1. Got(p, c, t) /\ pc[r] = "answer"
    BY <1>7 DEF Deliver, Answer
  <2>2. p \in Viewers /\ t # None /\ <<p, c>> \in sent
    BY <2>1, ServingJob DEF RequestsAnswer
  <2> HIDE DEF p, c, t
  <2>3. CASE view[p] = "form"
    <3>1. view' = [view EXCEPT ![p] = "unlocked"] /\ url' = [url EXCEPT ![p] = t]
          /\ sent' \subseteq sent
      BY <2>1, <2>3 DEF Got
    <3>2. QED
      BY <2>2, <2>3, <3>1 DEF FetchesFit, Typed
  <2>4. CASE view[p] # "form"
    <3>1. UNCHANGED view /\ sent' \subseteq sent
          /\ (url' = url \/ url' = [url EXCEPT ![p] = t])
      BY <2>1, <2>4 DEF Got
    <3>2. QED
      BY <2>2, <3>1 DEF FetchesFit, Typed
  <2>5. QED
    BY <2>3, <2>4
<1>8. ASSUME Publish \/ Elsewhere PROVE FetchesFit'
  BY <1>1, <1>8 DEF Publish, Elsewhere, script
<1>9. QED
  BY <1>2, <1>3, <1>4, <1>5, <1>6, <1>7, <1>8 DEF PageNext

\* A request that ends takes its own fetch along and no other's.
LEMMA EndAnswers ==
  ASSUME TypeOK, Typed, RequestsAnswer, NEW r \in Requests, pc[r] # "idle", Free(r), Forget(r),
         sent' = sent \ {<<job[r].viewer, by[r]>>}
  PROVE  RequestsAnswer'
<1>1. \A s \in Requests : pc'[s] # "idle" => s # r /\ pc'[s] = pc[s] /\ job'[s] = job[s]
                                             /\ by'[s] = by[s] /\ signed'[s] = signed[s]
  BY DEF Free, Forget, TypeOK, Typed
<1>2. \A s \in Requests : pc'[s] # "idle" => <<job[s].viewer, by[s]>> # <<job[r].viewer, by[r]>>
  BY <1>1 DEF RequestsAnswer
<1>3. QED
  BY <1>1, <1>2 DEF RequestsAnswer

LEMMA StepAnswers == TypeOK /\ Typed /\ RequestsAnswer /\ PageNext => RequestsAnswer'
<1> SUFFICES ASSUME TypeOK, Typed, RequestsAnswer, PageNext PROVE RequestsAnswer'
  OBVIOUS
<1>1. ASSUME sent \subseteq sent', UNCHANGED <<pc, job, by, signed>> PROVE RequestsAnswer'
  BY <1>1 DEF RequestsAnswer
<1>2. ASSUME NEW p \in Viewers, OpenPage(p) \/ Click(p) \/ \E c \in Submissions : Submit(p, c)
      PROVE  RequestsAnswer'
  <2>1. sent \subseteq sent'
    BY <1>2 DEF OpenPage, Click, Submit, Send
  <2>2. UNCHANGED <<pc, job, by, signed>>
    BY <1>2 DEF OpenPage, Click, Submit, vars
  <2>3. QED
    BY <1>1, <2>1, <2>2
<1>3. ASSUME Publish \/ Elsewhere PROVE RequestsAnswer'
  BY <1>1, <1>3 DEF Publish, Elsewhere, CreateShare, RevokeShare, Tick, script
<1>4. ASSUME NEW p \in Viewers, NEW c \in Calls, Arrive(p, c) PROVE RequestsAnswer'
  <2>1. PICK r \in Requests : PublicShareDownload(r, share, p) /\ by' = [by EXCEPT ![r] = c]
    BY <1>4 DEF Arrive
  <2>2. <<p, c>> \in sent /\ ~Arrived(p, c) /\ UNCHANGED <<sent, signed>>
    BY <1>4 DEF Arrive
  <2>3. /\ pc' = [pc EXCEPT ![r] = "count"]
        /\ job' = [job EXCEPT ![r] = [share |-> share, viewer |-> p, seen |-> count[share]]]
    BY <2>1 DEF PublicShareDownload, Begin
  <2>4. pc'[r] = "count" /\ job'[r].share = share /\ job'[r].viewer = p /\ by'[r] = c
    BY <2>1, <2>3 DEF TypeOK, Typed
  <2>5. \A s \in Requests : s # r => pc'[s] = pc[s] /\ job'[s] = job[s] /\ by'[s] = by[s]
    BY <2>1, <2>3 DEF TypeOK, Typed
  <2>6. \A s \in Requests :
           s # r /\ pc'[s] # "idle" => ~(job'[s].viewer = p /\ by'[s] = c)
    BY <2>2, <2>5 DEF Arrived
  <2>7. \A s \in Requests : pc'[s] # "idle" =>
           /\ job'[s].share = share /\ <<job'[s].viewer, by'[s]>> \in sent'
           /\ pc'[s] = "answer" => signed'[s] # None
    BY <2>2, <2>4, <2>5 DEF RequestsAnswer
  <2>8. ASSUME NEW s \in Requests, NEW t \in Requests, pc'[s] # "idle", pc'[t] # "idle",
               job'[s].viewer = job'[t].viewer, by'[s] = by'[t]
        PROVE  s = t
    BY <2>1, <2>4, <2>5, <2>6, <2>8 DEF RequestsAnswer
  <2>9. QED
    BY <2>7, <2>8 DEF RequestsAnswer
<1>5. ASSUME NEW p \in Viewers, NEW c \in Calls, Refuse(p, c) \/ Lose(p, c)
      PROVE  RequestsAnswer'
  <2>1. ~Arrived(p, c) /\ sent' = sent \ {<<p, c>>} /\ UNCHANGED <<pc, job, by, signed>>
    BY <1>5 DEF Refuse, Lose, Refused, vars
  <2>2. \A r \in Requests : pc[r] # "idle" => <<job[r].viewer, by[r]>> # <<p, c>>
    BY <2>1 DEF Arrived
  <2>3. QED
    BY <2>1, <2>2 DEF RequestsAnswer
<1>6. ASSUME NEW r \in Requests, SignAndCount(r) PROVE RequestsAnswer'
  <2>1. pc[r] = "count" /\ pc' = [pc EXCEPT ![r] = "answer"] /\ UNCHANGED job
        /\ UNCHANGED <<sent, by>> /\ signed' = [signed EXCEPT ![r] = now]
    BY <1>6 DEF SignAndCount, IncrementDownloadCount
  <2>2. \A s \in Requests : pc'[s] # "idle" => pc[s] # "idle"
    BY <2>1 DEF TypeOK
  <2>3. \A s \in Requests : pc'[s] = "answer" => signed'[s] # None
    BY <2>1, Times DEF TypeOK, Typed, RequestsAnswer
  <2>4. QED
    BY <2>1, <2>2, <2>3 DEF RequestsAnswer
<1>7. ASSUME NEW r \in Requests, Deliver(r) PROVE RequestsAnswer'
  BY <1>7, EndAnswers DEF Deliver, Answer, Got
<1>8. ASSUME NEW r \in Requests, Break(r) PROVE RequestsAnswer'
  BY <1>8, EndAnswers DEF Break, Fail, Refused
<1>9. QED
  BY <1>2, <1>3, <1>4, <1>5, <1>6, <1>7, <1>8 DEF PageNext

\* The pages, their fetches and the requests that answer them fit together.
THEOREM PageTypeCorrect == PageSpec => []PageTypeOK
<1> DEFINE All == Typed /\ FetchesFit /\ RequestsAnswer /\ quiet \in None..MaxNow
<1>1. PageInit => All
  <2> SUFFICES ASSUME PageInit PROVE All
    OBVIOUS
  <2>1. None \in None..MaxNow
    BY BoundsAssumption DEF None
  <2>2. busy \in [Viewers -> BOOLEAN] /\ locked \in BOOLEAN /\ failed \subseteq Viewers /\ wasted \in Nat
    BY Zenon DEF PageInit
  <2>3. Typed
    BY <2>1, <2>2 DEF PageInit, Typed
  <2>4. FetchesFit /\ RequestsAnswer
    BY DEF PageInit, Init, FetchesFit, RequestsAnswer
  <2>5. QED
    BY <2>1, <2>3, <2>4 DEF PageInit
<1>2. TypeOK /\ TypeOK' /\ All /\ [PageNext]_pageVars => All'
  <2> SUFFICES ASSUME TypeOK, TypeOK', All, [PageNext]_pageVars PROVE All'
    OBVIOUS
  <2>1. CASE PageNext
    <3>1. quiet' = quiet \/ quiet' = now'
      BY <2>1 DEF PageNext, Observe
    <3>2. quiet' \in None..MaxNow
      BY <3>1, BoundsAssumption DEF TypeOK, None
    <3>3. QED
      BY <2>1, <3>2, StepTyped, StepFits, StepAnswers
  <2>2. CASE UNCHANGED pageVars
    BY <2>2 DEF pageVars, vars, script, losses, Typed, FetchesFit, RequestsAnswer
  <2>3. QED
    BY <2>1, <2>2
<1>3. PageSpec => [](TypeOK /\ All)
  BY <1>1, <1>2, ServerSpec, TypeCorrect, PTL DEF PageSpec
<1>4. All => PageTypeOK
  BY DEF Typed, PageTypeOK
<1>5. QED
  BY <1>3, <1>4, PTL
-----------------------------------------------------------------------------
(* The button.                                                             *)

LEMMA EndsWait ==
  ASSUME Typed, ButtonComesBack, NEW p \in Viewers, NEW c, sent' = sent \ {<<p, c>>},
         busy' = IF c = "init" THEN busy ELSE [busy EXCEPT ![p] = FALSE]
  PROVE  ButtonComesBack'
<1> SUFFICES ASSUME NEW q \in Viewers, busy'[q]
             PROVE  \E d \in Calls : d # "init" /\ <<q, d>> \in sent'
  BY DEF ButtonComesBack
<1>1. busy[q] /\ (q = p => c = "init")
  BY DEF Typed
<1>2. PICK d \in Calls : d # "init" /\ <<q, d>> \in sent
  BY <1>1 DEF ButtonComesBack
<1>3. <<q, d>> \in sent'
  BY <1>1, <1>2
<1>4. QED
  BY <1>2, <1>3

LEMMA BeginsWait ==
  ASSUME Typed, ButtonComesBack, NEW p \in Viewers, NEW c \in Calls, c # "init",
         sent' = sent \cup {<<p, c>>}, busy' = [busy EXCEPT ![p] = TRUE]
  PROVE  ButtonComesBack'
<1> SUFFICES ASSUME NEW q \in Viewers, busy'[q]
             PROVE  \E d \in Calls : d # "init" /\ <<q, d>> \in sent'
  BY DEF ButtonComesBack
<1>1. CASE q = p
  BY <1>1
<1>2. CASE q # p
  BY <1>2 DEF ButtonComesBack, Typed
<1>3. QED
  BY <1>1, <1>2

\* A disabled button always waits for a fetch that is under way.
THEOREM ButtonsComeBack == PageSpec => []ButtonComesBack
<1>1. PageInit => ButtonComesBack
  BY DEF PageInit, ButtonComesBack
<1>2. TypeOK /\ Typed /\ ButtonComesBack /\ [PageNext]_pageVars => ButtonComesBack'
  <2> SUFFICES ASSUME TypeOK, Typed, ButtonComesBack, [PageNext]_pageVars PROVE ButtonComesBack'
    OBVIOUS
  <2>1. ASSUME sent \subseteq sent', UNCHANGED busy PROVE ButtonComesBack'
    BY <2>1 DEF ButtonComesBack
  <2>2. ASSUME NEW p \in Viewers, OpenPage(p) PROVE ButtonComesBack'
    BY <2>1, <2>2 DEF OpenPage, Send
  <2>3. ASSUME NEW p \in Viewers, Click(p) PROVE ButtonComesBack'
    <3>1. \/ UNCHANGED <<sent, busy>>
          \/ sent' = sent \cup {<<p, "click">>} /\ busy' = [busy EXCEPT ![p] = TRUE]
      BY <2>3 DEF Click, Send
    <3>2. "click" \in Calls /\ "click" # "init"
      BY DEF Calls
    <3>3. QED
      BY <2>1, <3>1, <3>2, BeginsWait
  <2>4. ASSUME NEW p \in Viewers, NEW c \in Submissions, Submit(p, c) PROVE ButtonComesBack'
    BY <2>4, BeginsWait DEF Submit, Send, Calls, Submissions
  <2>5. ASSUME NEW p \in Viewers, NEW c \in Calls, Arrive(p, c) PROVE ButtonComesBack'
    BY <2>1, <2>5 DEF Arrive
  <2>6. ASSUME NEW p \in Viewers, NEW c, Refused(p, c) PROVE ButtonComesBack'
    BY <2>6, EndsWait DEF Refused
  <2>7. ASSUME NEW p \in Viewers, NEW c \in Calls, Refuse(p, c) \/ Lose(p, c)
        PROVE  ButtonComesBack'
    BY <2>6, <2>7 DEF Refuse, Lose
  <2>8. ASSUME NEW r \in Requests, SignAndCount(r) PROVE ButtonComesBack'
    BY <2>1, <2>8 DEF SignAndCount
  <2>9. ASSUME NEW r \in Requests, Deliver(r) PROVE ButtonComesBack'
    <3>1. job[r].viewer \in Viewers
      BY <2>9, ServingJob DEF Deliver, Answer
    <3>2. QED
      BY <2>9, <3>1, EndsWait DEF Deliver, Got
  <2>10. ASSUME NEW r \in Requests, Break(r) PROVE ButtonComesBack'
    <3>1. job[r].viewer \in Viewers
      BY <2>10, ServingJob DEF Break, Fail
    <3>2. QED
      BY <2>6, <2>10, <3>1 DEF Break
  <2>11. ASSUME Publish \/ Elsewhere PROVE ButtonComesBack'
    BY <2>1, <2>11 DEF Publish, Elsewhere, script
  <2>12. CASE UNCHANGED pageVars
    BY <2>1, <2>12 DEF pageVars, script
  <2>13. QED
    BY <2>2, <2>3, <2>4, <2>5, <2>7, <2>8, <2>9, <2>10, <2>11, <2>12 DEF PageNext
<1>3. PageTypeOK => Typed
  BY DEF PageTypeOK, Typed
<1>4. QED
  BY <1>1, <1>2, <1>3, PageTypeCorrect, ServerSpec, TypeCorrect, PTL DEF PageSpec
-----------------------------------------------------------------------------
(* The limit.                                                              *)

\* What is counted, or failed to be, has been answered, is about to be, or is lost.
Conserved ==
    count[share] + uncounted[share] = issued[share] + Cardinality(Answering(share)) + wasted

LEMMA StepConserved ==
  TypeOK /\ Typed /\ RequestsAnswer /\ Conserved /\ PageNext => Conserved'
<1> SUFFICES ASSUME TypeOK, Typed, RequestsAnswer, Conserved, PageNext PROVE Conserved'
  OBVIOUS
<1> DEFINE A == Answering(share)
<1>1. /\ count[share] \in Nat /\ uncounted[share] \in Nat /\ issued[share] \in Nat
      /\ wasted \in Nat
  BY ShareAssumption DEF TypeOK, Typed
<1>2. IsFiniteSet(A) /\ Cardinality(A) \in Nat
  <2>1. A \subseteq Requests
    BY DEF Answering
  <2>2. QED
    BY <2>1, Sizes
<1>3. ASSUME UNCHANGED <<count, uncounted, issued, wasted>>, A' = A PROVE Conserved'
  BY <1>3 DEF Conserved
<1>4. ASSUME UNCHANGED <<pc, job>> PROVE A' = A
  BY <1>4 DEF Answering
<1>5. ASSUME NEW r \in Requests, pc[r] # "idle"
      PROVE  job[r].share = share /\ job[r].share \in Shares
  BY <1>5, ShareAssumption DEF RequestsAnswer
<1>6. ASSUME NEW p \in Viewers,
             \/ OpenPage(p) \/ Click(p) \/ \E c \in Submissions : Submit(p, c)
             \/ \E c \in Calls : Refuse(p, c) \/ Lose(p, c)
      PROVE  Conserved'
  <2>1. UNCHANGED <<vars, wasted>>
    BY <1>6 DEF OpenPage, Click, Submit, Refuse, Lose, losses
  <2>2. QED
    BY <1>3, <1>4, <2>1 DEF vars
<1>7. ASSUME NEW p \in Viewers, NEW c \in Calls, Arrive(p, c) PROVE Conserved'
  <2>1. PICK r \in Requests : PublicShareDownload(r, share, p) /\ UNCHANGED wasted
    BY <1>7 DEF Arrive, losses
  <2>2. /\ pc[r] = "idle" /\ pc' = [pc EXCEPT ![r] = "count"]
        /\ \A q \in Requests : q # r => job'[q] = job[q]
        /\ UNCHANGED <<count, uncounted, issued>>
    BY <2>1 DEF PublicShareDownload, Begin, TypeOK
  <2>3. A' = A
    BY <2>1, <2>2 DEF Answering, TypeOK
  <2>4. QED
    BY <1>3, <2>1, <2>2, <2>3
<1>8. ASSUME NEW r \in Requests, SignAndCount(r) PROVE Conserved'
  <2>1. /\ pc[r] = "count" /\ pc' = [pc EXCEPT ![r] = "answer"]
        /\ UNCHANGED <<job, issued, wasted>>
    BY <1>8 DEF SignAndCount, IncrementDownloadCount, losses
  <2>2. count'[share] + uncounted'[share] = count[share] + uncounted[share] + 1
    <3>1. \/ count'[share] = count[share] + 1 /\ uncounted'[share] = uncounted[share]
          \/ count'[share] = count[share] /\ uncounted'[share] = uncounted[share] + 1
      BY <1>5, <1>8, <2>1 DEF SignAndCount, IncrementDownloadCount, NewCount, TypeOK
    <3>2. QED
      BY <1>1, <3>1
  <2>3. r \notin A /\ A' = A \cup {r}
    BY <1>5, <2>1 DEF Answering, TypeOK
  <2>4. Cardinality(A') = Cardinality(A) + 1
    BY <1>2, <2>3, FS_AddElement, ZenonT(60)
  <2>5. QED
    <3> HIDE DEF A
    <3>1. issued'[share] + Cardinality(A') + wasted' = issued[share] + Cardinality(A) + wasted + 1
      BY <1>1, <1>2, <2>1, <2>4
    <3>2. QED
      BY <2>2, <3>1 DEF Conserved, A
<1>9. ASSUME NEW r \in Requests, pc[r] # "idle", Free(r)
      PROVE  A' = A \ {r}
  <2>1. pc'[r] = "idle" /\ \A q \in Requests : q # r => pc'[q] = pc[q] /\ job'[q] = job[q]
    BY <1>9 DEF Free, TypeOK
  <2>2. QED
    BY <2>1 DEF Answering
<1>10. ASSUME NEW r \in Requests, pc[r] = "answer", Free(r)
       PROVE  Cardinality(A') = Cardinality(A) - 1
  <2>1. r \in A /\ A' = A \ {r}
    BY <1>5, <1>9, <1>10 DEF Answering
  <2>2. QED
    BY <1>2, <2>1, FS_RemoveElement
<1>11. ASSUME NEW r \in Requests, Deliver(r) PROVE Conserved'
  <2>1. pc[r] = "answer" /\ Free(r) /\ UNCHANGED <<count, uncounted, wasted>>
    BY <1>11 DEF Deliver, Answer, losses
  <2>2. issued'[share] = issued[share] + 1
    BY <1>5, <1>11, <2>1 DEF Deliver, Answer, TypeOK
  <2>3. Cardinality(A') = Cardinality(A) - 1
    BY <1>10, <2>1
  <2>4. QED
    <3> HIDE DEF A
    <3>1. issued'[share] + Cardinality(A') + wasted' = issued[share] + Cardinality(A) + wasted
      BY <1>1, <1>2, <2>1, <2>2, <2>3
    <3>2. QED
      BY <2>1, <3>1 DEF Conserved, A
<1>12. ASSUME NEW r \in Requests, Break(r) PROVE Conserved'
  <2>1. /\ pc[r] # "idle" /\ Free(r) /\ UNCHANGED <<count, uncounted, issued>>
        /\ wasted' = IF pc[r] = "answer" THEN wasted + 1 ELSE wasted
    BY <1>12 DEF Break, Fail
  <2>2. CASE pc[r] = "answer"
    <3>1. Cardinality(A') = Cardinality(A) - 1
      BY <1>10, <2>1, <2>2
    <3> HIDE DEF A
    <3>2. issued'[share] + Cardinality(A') + wasted' = issued[share] + Cardinality(A) + wasted
      BY <1>1, <1>2, <2>1, <2>2, <3>1
    <3>3. QED
      BY <2>1, <3>2 DEF Conserved, A
  <2>3. CASE pc[r] # "answer"
    <3>1. A' = A
      BY <1>9, <2>1, <2>3 DEF Answering
    <3>2. QED
      BY <1>3, <2>1, <2>3, <3>1
  <2>4. QED
    BY <2>2, <2>3
<1>13. ASSUME Publish \/ Elsewhere PROVE Conserved'
  <2>1. UNCHANGED <<count, uncounted, issued, wasted, pc, job>>
    BY <1>13 DEF Publish, Elsewhere, CreateShare, RevokeShare, Tick, losses
  <2>2. QED
    BY <1>3, <1>4, <2>1
<1>14. QED
  BY <1>6, <1>7, <1>8, <1>11, <1>12, <1>13 DEF PageNext

-----------------------------------------------------------------------------
(* Closing.                                                                *)

\* Times that are noted are not to come, and once the share is over, none is later.
Past ==
    /\ \A p \in Viewers : url[p] <= now /\ savedAt[p] <= now
    /\ \A r \in Requests : signed[r] <= now

ClosedThen == quiet # None =>
    /\ Over
    /\ \A p \in Viewers : url[p] <= quiet /\ savedAt[p] <= quiet + TTL

\* What ClosedIsFinal lets a step do to a share that is over.
StaysOver == Over => Over'

\* What a step does to a page, as far as times go: at most one URL is handed out, by a
\* request that was let in, and a save is one of now, by a URL that still works.
TimesStep ==
    /\ now \in Nat /\ now' \in Nat /\ now <= now'
    /\ \A r \in Requests : signed'[r] \in {signed[r], now, None}
    /\ \A p \in Viewers :
          /\ \/ url'[p] = url[p]
             \/ ~Over /\ \E r \in Requests : url'[p] = signed[r]
          /\ \/ savedAt'[p] = savedAt[p]
             \/ savedAt'[p] = now /\ (now <= url[p] + TTL \/ ~Over)

LEMMA SavesNow ==
  ASSUME Typed, NEW p \in Viewers, NEW t, Save(p, t), NEW q \in Viewers
  PROVE  savedAt'[q] = savedAt[q] \/ (q = p /\ savedAt'[q] = now /\ now <= t + TTL)
BY DEF Typed, Save

LEMMA ClockRuns ==
  TypeOK /\ TypeOK' /\ [Next]_vars => now \in Nat /\ now' \in Nat /\ now <= now'
<1> SUFFICES ASSUME TypeOK, TypeOK', [Next]_vars
             PROVE  now \in Nat /\ now' \in Nat /\ now <= now'
  OBVIOUS
<1>1. now \in Nat /\ now' \in Nat
  BY BoundsAssumption DEF TypeOK
<1>2. now <= now'
  BY ShareAssumption, ColumnsStay
<1>3. QED
  BY <1>1, <1>2

LEMMA StepTimes ==
  TypeOK /\ TypeOK' /\ Typed /\ RequestsAnswer /\ [PageNext]_pageVars => TimesStep
<1> SUFFICES ASSUME TypeOK, TypeOK', Typed, RequestsAnswer, [PageNext]_pageVars
             PROVE  TimesStep
  OBVIOUS
<1>1. now \in Nat /\ now' \in Nat /\ now <= now'
  BY ClockRuns, ServerSteps DEF pageVars
<1>2. ASSUME UNCHANGED <<url, savedAt>>,
             \A r \in Requests : signed'[r] \in {signed[r], now, None}
      PROVE  TimesStep
  BY <1>1, <1>2 DEF TimesStep
<1>3. ASSUME NEW p \in Viewers, OpenPage(p) \/ \E c \in Submissions : Submit(p, c)
      PROVE  TimesStep
  BY <1>2, <1>3 DEF OpenPage, Submit
<1>4. ASSUME NEW p \in Viewers, Click(p) PROVE TimesStep
  <2>1. UNCHANGED <<url, signed>> /\ (Save(p, url[p]) \/ UNCHANGED savedAt)
    BY <1>4 DEF Click
  <2>2. \A q \in Viewers : \/ savedAt'[q] = savedAt[q]
                           \/ savedAt'[q] = now /\ now <= url[q] + TTL
    BY <2>1, SavesNow
  <2>3. QED
    BY <1>1, <2>1, <2>2 DEF TimesStep
<1>5. ASSUME NEW p \in Viewers, NEW c \in Calls, Arrive(p, c) \/ Refuse(p, c) \/ Lose(p, c)
      PROVE  TimesStep
  BY <1>2, <1>5 DEF Arrive, Refuse, Lose, Refused
<1>6. ASSUME NEW r \in Requests, SignAndCount(r) PROVE TimesStep
  BY <1>2, <1>6 DEF SignAndCount, Typed
<1>7. ASSUME NEW r \in Requests, Forget(r)
      PROVE  \A q \in Requests : signed'[q] \in {signed[q], now, None}
  BY <1>7 DEF Forget, Typed
<1>8. ASSUME NEW r \in Requests, Break(r) PROVE TimesStep
  BY <1>2, <1>7, <1>8 DEF Break, Refused
<1>9. ASSUME NEW r \in Requests, Deliver(r) PROVE TimesStep
  <2> DEFINE p == job[r].viewer
             c == by[r]
             t == signed[r]
  <2>1. Got(p, c, t) /\ pc[r] = "answer" /\ Forget(r)
    BY <1>9 DEF Deliver, Answer
  <2>2. p \in Viewers
    BY <2>1, ServingJob
  <2>3. ~Over
    <3>1. job[r].share = share
      BY <2>1 DEF RequestsAnswer
    <3>2. r \in Answering(share)
      BY <2>1, <3>1 DEF Answering
    <3>3. QED
      BY <3>2 DEF Over
  <2>4. url' = url \/ url' = [url EXCEPT ![p] = t]
    BY <2>1 DEF Got
  <2>5. Save(p, t) \/ UNCHANGED savedAt
    BY <2>1 DEF Got
  <2> HIDE DEF p, c
  <2>6. \A q \in Viewers : savedAt'[q] = savedAt[q] \/ savedAt'[q] = now
    BY <2>2, <2>5, SavesNow
  <2>7. \A q \in Viewers : url'[q] = url[q] \/ url'[q] = t
    BY <2>4 DEF Typed
  <2>8. QED
    BY <1>1, <1>7, <2>1, <2>3, <2>6, <2>7 DEF TimesStep
<1>10. ASSUME Publish \/ Elsewhere PROVE TimesStep
  BY <1>2, <1>10 DEF Publish, Elsewhere, script
<1>11. CASE UNCHANGED pageVars
  BY <1>2, <1>11 DEF pageVars, script
<1>12. QED
  BY <1>3, <1>4, <1>5, <1>6, <1>8, <1>9, <1>10, <1>11 DEF PageNext

LEMMA StepPast == Typed /\ Typed' /\ Past /\ TimesStep => Past'
<1> SUFFICES ASSUME Typed, Typed', Past, TimesStep PROVE Past'
  OBVIOUS
<1>1. now \in Nat /\ now' \in Nat /\ now <= now' /\ None <= now
  BY DEF TimesStep, None
<1>2. ASSUME NEW r \in Requests PROVE signed'[r] <= now'
  <2>1. signed[r] \in Int /\ signed[r] <= now /\ signed'[r] \in {signed[r], now, None}
    BY DEF Typed, Past, TimesStep
  <2>2. QED
    BY <1>1, <2>1 DEF None
<1>3. ASSUME NEW p \in Viewers PROVE url'[p] <= now' /\ savedAt'[p] <= now'
  <2>1. url[p] \in Int /\ savedAt[p] \in Int /\ url[p] <= now /\ savedAt[p] <= now
    BY DEF Typed, Past
  <2>2. \A r \in Requests : signed[r] \in Int /\ signed[r] <= now
    BY DEF Typed, Past
  <2>3. url'[p] = url[p] \/ \E r \in Requests : url'[p] = signed[r]
    BY DEF TimesStep
  <2>4. savedAt'[p] = savedAt[p] \/ savedAt'[p] = now
    BY DEF TimesStep
  <2>5. url'[p] <= now'
    BY <1>1, <2>1, <2>2, <2>3
  <2>6. QED
    BY <1>1, <2>1, <2>4, <2>5
<1>4. QED
  BY <1>2, <1>3 DEF Past

LEMMA StepClosed ==
  ASSUME Typed, Typed', quiet \in Int, Past, Past', ClosedThen, TimesStep, StaysOver,
         Observe \/ (UNCHANGED quiet /\ UNCHANGED pageVars)
  PROVE  ClosedThen'
<1>1. now' \in Nat /\ TTL \in Nat
  BY TTLAssumption DEF TimesStep
<1>2. CASE quiet # None
  <2>1. quiet' = quiet /\ Over /\ Over'
    BY <1>2 DEF Observe, ClosedThen, StaysOver
  <2>2. ASSUME NEW p \in Viewers PROVE url'[p] <= quiet /\ savedAt'[p] <= quiet + TTL
    <3>1. url[p] <= quiet /\ savedAt[p] <= quiet + TTL
      BY <1>2 DEF ClosedThen
    <3>2. url'[p] = url[p]
      BY <2>1 DEF TimesStep
    <3>3. savedAt'[p] = savedAt[p] \/ (savedAt'[p] = now /\ now <= url[p] + TTL)
      BY <2>1 DEF TimesStep
    <3>4. url[p] \in Int /\ now \in Nat
      BY DEF Typed, TimesStep
    <3>5. savedAt'[p] <= quiet + TTL
      BY <1>1, <3>1, <3>3, <3>4
    <3>6. QED
      BY <3>1, <3>2, <3>5
  <2>3. QED
    BY <2>1, <2>2 DEF ClosedThen
<1>3. CASE quiet = None
  <2>1. SUFFICES ASSUME quiet' # None PROVE ClosedThen'
    BY DEF ClosedThen
  <2>2. quiet' = now' /\ Over'
    BY <1>3, <2>1 DEF Observe
  <2>3. ASSUME NEW p \in Viewers PROVE url'[p] <= quiet' /\ savedAt'[p] <= quiet' + TTL
    <3>1. url'[p] <= now' /\ savedAt'[p] <= now' /\ savedAt'[p] \in Int
      BY DEF Past, Typed
    <3>2. QED
      BY <1>1, <2>2, <3>1
  <2>4. QED
    BY <2>2, <2>3 DEF ClosedThen
<1>4. QED
  BY <1>2, <1>3

\* A closed share's file is saved from open pages for as long as a URL works, and never
\* after that.
THEOREM ClosingReaches == PageSpec => []ClosingReachesPages
<1> DEFINE Closes == \A s \in Shares : Final(s)
<1>1. PageInit => Past /\ ClosedThen
  BY DEF PageInit, Init, Past, ClosedThen, None
<1>2. PageTypeOK => Typed /\ RequestsAnswer /\ quiet \in Int
  BY DEF PageTypeOK, Typed, None
<1>3. [Closes]_vars => StaysOver
  BY ShareAssumption DEF StaysOver, Over, Final, vars, Closed, LetIn, Answering, Expired, LimitReached
<1>4. /\ TypeOK /\ TypeOK' /\ PageTypeOK /\ PageTypeOK' /\ Past /\ ClosedThen
      /\ [PageNext]_pageVars /\ [Closes]_vars
      => (Past /\ ClosedThen)'
  <2> SUFFICES ASSUME TypeOK, TypeOK', PageTypeOK, PageTypeOK', Past, ClosedThen,
                      [PageNext]_pageVars, [Closes]_vars
               PROVE  (Past /\ ClosedThen)'
    OBVIOUS
  <2> HIDE DEF Closes
  <2>1. Typed /\ Typed' /\ RequestsAnswer /\ quiet \in Int
    BY DEF PageTypeOK, Typed, None
  <2>2. TimesStep
    BY <2>1, StepTimes
  <2>3. Past'
    BY <2>1, <2>2, StepPast
  <2>4. Observe \/ (UNCHANGED quiet /\ UNCHANGED pageVars)
    BY DEF PageNext, pageVars
  <2>5. ClosedThen'
    BY <1>3, <2>1, <2>2, <2>3, <2>4, StepClosed
  <2>6. QED
    BY <2>3, <2>5
<1>5. PageSpec => [][Closes]_vars
  BY ServerSpec, ClosedForGood, PTL DEF ClosedIsFinal, Final
<1>6. ClosedThen => ClosingReachesPages
  BY DEF ClosedThen, ClosingReachesPages
<1>7. QED
  <2> HIDE DEF Closes
  <2> QED
    BY <1>1, <1>4, <1>5, <1>6, PageTypeCorrect, ServerSpec, TypeCorrect, PTL DEF PageSpec

-----------------------------------------------------------------------------
(* A page alone.                                                           *)

\* Whose the fetches, the requests and the URLs are: but for a wrong password, of pages
\* that asked, for a share that exists; and a page that was handed a URL shows a button.
Owned ==
    /\ asked # {} \/ (\E p \in Viewers : view[p] # "away") => share \in made
    /\ \A f \in sent : f[2] # "wrong" => f[1] \in asked
    /\ \A p \in Viewers : view[p] = "plain" => p \in asked
    /\ \A r \in Requests : pc[r] # "idle" => by[r] # "wrong"
    /\ handed \subseteq asked
    /\ \A p \in handed : view[p] \in {"plain", "unlocked"}

\* A download that was counted has been handed out or is about to be, if no page was let down.
CountedForSome ==
    count[share] > 0 => handed # {} \/ failed # {} \/ \E r \in Requests : pc[r] = "answer"

\* A page that asked has a URL, was let down, waits for an answer, or comes too late.
Waiting(p) == \E c \in Calls : c # "wrong" /\ <<p, c>> \in sent

Served(p) == p \in handed \cup failed \/ Waiting(p) \/ Closed(share)

AllServed == failed \subseteq asked /\ \A p \in asked : Served(p)

LEMMA StepOwned ==
  TypeOK /\ Typed /\ FetchesFit /\ RequestsAnswer /\ Owned /\ PageNext => Owned'
<1> SUFFICES ASSUME TypeOK, Typed, FetchesFit, RequestsAnswer, Owned, PageNext PROVE Owned'
  OBVIOUS
<1>1. share \in made => share \in made'
  BY ServerSteps, ColumnsStay, ShareAssumption
<1>2. ASSUME UNCHANGED <<view, asked, handed>>, sent' \subseteq sent,
             \A r \in Requests : pc'[r] # "idle" => by'[r] # "wrong"
      PROVE  Owned'
  BY <1>1, <1>2 DEF Owned
<1>3. ASSUME UNCHANGED <<pc, by>> PROVE \A r \in Requests : pc'[r] # "idle" => by'[r] # "wrong"
  BY <1>3 DEF Owned
<1>4. ASSUME NEW p \in Viewers, OpenPage(p) PROVE Owned'
  <2>1. view[p] = "away" /\ share \in made /\ UNCHANGED <<handed, pc, by, made>>
    BY <1>4 DEF OpenPage, vars
  <2>2. p \notin handed
    BY <2>1 DEF Owned
  <2>3. \A q \in Viewers : q # p => view'[q] = view[q]
    BY <1>4 DEF OpenPage, Typed
  <2>4. \A q \in handed' : view'[q] \in {"plain", "unlocked"}
    BY <2>1, <2>2, <2>3 DEF Owned, Typed
  <2>5. CASE UNCHANGED <<sent, asked>> /\ view' = [view EXCEPT ![p] = "form"]
    <3>1. \A q \in Viewers : view'[q] = "plain" => q \in asked'
      BY <2>5 DEF Owned, Typed
    <3>2. QED
      BY <1>3, <2>1, <2>4, <2>5, <3>1 DEF Owned
  <2>6. CASE asked' = asked \cup {p} /\ sent' = sent \cup {<<p, "init">>}
    <3>1. \A q \in Viewers : view'[q] = "plain" => q \in asked'
      BY <2>3, <2>6 DEF Owned
    <3>2. \A f \in sent' : f[2] # "wrong" => f[1] \in asked'
      BY <2>6 DEF Owned
    <3>3. QED
      BY <1>3, <2>1, <2>4, <2>6, <3>1, <3>2 DEF Owned
  <2>7. QED
    BY <1>4, <2>5, <2>6 DEF OpenPage, Send
<1>5. ASSUME NEW p \in Viewers, Click(p) PROVE Owned'
  <2>1. sent' = sent \/ (sent' = sent \cup {<<p, "click">>} /\ view[p] = "plain")
    BY <1>5 DEF Click, Send, FetchesFit
  <2>2. UNCHANGED <<view, asked, handed, pc, by, made>>
    BY <1>5 DEF Click, vars
  <2>3. \A f \in sent' : f[2] # "wrong" => f[1] \in asked'
    BY <2>1, <2>2 DEF Owned
  <2>4. QED
    BY <1>3, <2>2, <2>3 DEF Owned
<1>6. ASSUME NEW p \in Viewers, NEW c \in Submissions, Submit(p, c) PROVE Owned'
  <2>1. /\ view[p] = "form" /\ sent' = sent \cup {<<p, c>>}
        /\ asked' = IF c = "wrong" THEN asked ELSE asked \cup {p}
        /\ UNCHANGED <<view, handed, pc, by, made>>
    BY <1>6 DEF Submit, Send, vars
  <2>2. share \in made
    BY <2>1 DEF Owned
  <2>3. \A f \in sent' : f[2] # "wrong" => f[1] \in asked'
    BY <2>1 DEF Owned
  <2>4. QED
    BY <1>3, <2>1, <2>2, <2>3 DEF Owned
<1>7. ASSUME NEW p \in Viewers, NEW c \in Calls, Arrive(p, c) PROVE Owned'
  <2>1. c # "wrong" /\ UNCHANGED <<view, asked, handed, sent>>
    BY <1>7 DEF Arrive
  <2>2. PICK r \in Requests : PublicShareDownload(r, share, p) /\ by' = [by EXCEPT ![r] = c]
    BY <1>7 DEF Arrive
  <2>3. pc' = [pc EXCEPT ![r] = "count"]
    BY <2>2 DEF PublicShareDownload, Begin
  <2>4. \A q \in Requests : pc'[q] # "idle" => by'[q] # "wrong"
    BY <2>1, <2>2, <2>3 DEF Owned, TypeOK, Typed
  <2>5. QED
    BY <1>2, <2>1, <2>4
<1>8. ASSUME NEW p \in Viewers, NEW c \in Calls, Refuse(p, c) \/ Lose(p, c) PROVE Owned'
  BY <1>2, <1>3, <1>8 DEF Refuse, Lose, Refused, vars
<1>9. ASSUME NEW r \in Requests, SignAndCount(r) PROVE Owned'
  <2>1. /\ UNCHANGED <<view, asked, handed, sent, by>>
        /\ pc[r] = "count" /\ pc' = [pc EXCEPT ![r] = "answer"]
    BY <1>9 DEF SignAndCount, IncrementDownloadCount
  <2>2. \A q \in Requests : pc'[q] # "idle" => by'[q] # "wrong"
    BY <2>1 DEF Owned, TypeOK
  <2>3. QED
    BY <1>2, <2>1, <2>2
<1>10. ASSUME NEW r \in Requests, Free(r), Forget(r)
       PROVE  \A q \in Requests : pc'[q] # "idle" => by'[q] # "wrong"
  BY <1>10 DEF Free, Forget, Owned, TypeOK, Typed
<1>11. ASSUME NEW r \in Requests, Break(r) PROVE Owned'
  BY <1>2, <1>10, <1>11 DEF Break, Fail, Refused, Forget
<1>12. ASSUME NEW r \in Requests, Deliver(r) PROVE Owned'
  <2> DEFINE p == job[r].viewer
             c == by[r]
  <2>1. /\ pc[r] = "answer" /\ Free(r) /\ Forget(r) /\ Got(p, c, signed[r])
    BY <1>12 DEF Deliver, Answer
  <2>2. p \in Viewers /\ <<p, c>> \in sent /\ c # "wrong"
    BY <2>1, ServingJob DEF RequestsAnswer, Owned
  <2>3. p \in asked /\ view[p] # "away"
    BY <2>2 DEF Owned, FetchesFit
  <2> HIDE DEF p, c
  <2>4. sent' \subseteq sent /\ handed' = handed \cup {p} /\ UNCHANGED asked
    BY <2>1 DEF Got, Forget
  <2>5. /\ \A q \in Viewers : view'[q] = view[q] \/ (q = p /\ view'[q] = "unlocked")
        /\ view'[p] \in {"plain", "unlocked"}
    <3>1. CASE view[p] = "form"
      BY <2>1, <2>2, <3>1 DEF Got, Typed
    <3>2. CASE view[p] # "form"
      BY <2>1, <2>2, <2>3, <3>2 DEF Got, Typed
    <3>3. QED
      BY <3>1, <3>2
  <2>6. share \in made'
    BY <1>1, <2>2, <2>3 DEF Owned
  <2>7. /\ \A q \in Viewers : view'[q] = "plain" => q \in asked'
        /\ \A q \in handed' : view'[q] \in {"plain", "unlocked"}
    BY <2>4, <2>5 DEF Owned, Typed
  <2>8. QED
    BY <1>10, <2>1, <2>3, <2>4, <2>6, <2>7 DEF Owned
<1>13. ASSUME Publish \/ Elsewhere PROVE Owned'
  <2>1. UNCHANGED <<view, asked, handed, sent, pc, by>>
    BY <1>13 DEF Publish, Elsewhere, CreateShare, RevokeShare, Tick, script
  <2>2. QED
    BY <1>2, <1>3, <2>1
<1>14. QED
  BY <1>4, <1>5, <1>6, <1>7, <1>8, <1>9, <1>11, <1>12, <1>13 DEF PageNext

LEMMA StepCountedForSome ==
  TypeOK /\ Typed /\ RequestsAnswer /\ CountedForSome /\ PageNext => CountedForSome'
<1> SUFFICES ASSUME TypeOK, Typed, RequestsAnswer, CountedForSome, PageNext
             PROVE  CountedForSome'
  OBVIOUS
<1>1. ASSUME UNCHANGED <<count, handed>>, failed \subseteq failed',
             \A r \in Requests : pc[r] = "answer" => pc'[r] = "answer"
      PROVE  CountedForSome'
  BY <1>1 DEF CountedForSome
<1>2. ASSUME NEW p \in Viewers,
             \/ OpenPage(p) \/ Click(p) \/ \E c \in Submissions : Submit(p, c)
             \/ \E c \in Calls : Refuse(p, c) \/ Lose(p, c)
      PROVE  CountedForSome'
  BY <1>1, <1>2 DEF OpenPage, Click, Submit, Refuse, Lose, Refused, vars, losses
<1>3. ASSUME NEW p \in Viewers, NEW c \in Calls, Arrive(p, c) PROVE CountedForSome'
  <2>1. PICK r \in Requests : UNCHANGED <<handed, failed>> /\ PublicShareDownload(r, share, p)
    BY <1>3 DEF Arrive, losses
  <2>2. UNCHANGED count /\ pc[r] = "idle" /\ pc' = [pc EXCEPT ![r] = "count"]
    BY <2>1 DEF PublicShareDownload, Begin
  <2>3. QED
    BY <1>1, <2>1, <2>2 DEF TypeOK
<1>4. ASSUME NEW r \in Requests, Break(r) PROVE CountedForSome'
  <2>1. failed' # {}
    BY <1>4 DEF Break
  <2>2. QED
    BY <2>1 DEF CountedForSome
<1>5. ASSUME NEW r \in Requests, SignAndCount(r) PROVE CountedForSome'
  <2>1. pc' = [pc EXCEPT ![r] = "answer"]
    BY <1>5 DEF SignAndCount, IncrementDownloadCount
  <2>2. pc'[r] = "answer"
    BY <2>1 DEF TypeOK
  <2>3. QED
    BY <2>2 DEF CountedForSome
<1>6. ASSUME NEW r \in Requests, Deliver(r) PROVE CountedForSome'
  <2>1. handed' # {}
    BY <1>6 DEF Deliver, Got
  <2>2. QED
    BY <2>1 DEF CountedForSome
<1>7. ASSUME Publish \/ Elsewhere PROVE CountedForSome'
  BY <1>1, <1>7 DEF Publish, Elsewhere, CreateShare, RevokeShare, Tick, script, losses
<1>8. QED
  BY <1>2, <1>3, <1>4, <1>5, <1>6, <1>7 DEF PageNext

\* No page is forgotten: its fetch goes on until it is answered, broken, or refused
\* because the share is closed, and a closed share stays closed.
LEMMA StepServed ==
  /\ TypeOK /\ NothingEarly /\ Typed /\ RequestsAnswer /\ Owned /\ AllServed /\ PageNext
  => AllServed'
<1> SUFFICES ASSUME TypeOK, NothingEarly, Typed, RequestsAnswer, Owned, AllServed, PageNext
             PROVE  AllServed'
  OBVIOUS
<1>1. Closed(share) => Closed(share)'
  BY ServerSteps, StepFinal, ShareAssumption DEF Final
<1>2. ASSUME NEW p \in asked, handed \subseteq handed', failed \subseteq failed',
             \A c \in Calls : c # "wrong" /\ <<p, c>> \in sent => <<p, c>> \in sent'
      PROVE  Served(p)'
  BY <1>1, <1>2 DEF AllServed, Served, Waiting
<1>3. ASSUME UNCHANGED <<asked, handed, failed>>, sent \subseteq sent' PROVE AllServed'
  BY <1>2, <1>3 DEF AllServed
<1>4. ASSUME NEW q \in Viewers, NEW c \in Calls, c # "wrong",
             UNCHANGED losses, UNCHANGED handed, asked' = asked \cup {q}, sent' = sent \cup {<<q, c>>}
      PROVE  AllServed'
  <2>1. Served(q)'
    BY <1>4 DEF Served, Waiting
  <2>2. QED
    BY <1>2, <1>4, <2>1 DEF AllServed, losses
<1>5. ASSUME NEW q \in Viewers, OpenPage(q) PROVE AllServed'
  <2>1. UNCHANGED <<handed, losses>>
    BY <1>5 DEF OpenPage
  <2>2. CASE UNCHANGED <<sent, asked>>
    BY <1>3, <2>1, <2>2 DEF losses
  <2>3. CASE asked' = asked \cup {q} /\ sent' = sent \cup {<<q, "init">>}
    BY <1>4, <2>1, <2>3 DEF Calls
  <2>4. QED
    BY <1>5, <2>2, <2>3 DEF OpenPage, Send
<1>6. ASSUME NEW q \in Viewers, Click(q) PROVE AllServed'
  <2>1. UNCHANGED <<handed, failed, asked>> /\ sent \subseteq sent'
    BY <1>6 DEF Click, Send, losses
  <2>2. QED
    BY <1>3, <2>1
<1>7. ASSUME NEW q \in Viewers, NEW c \in Submissions, Submit(q, c) PROVE AllServed'
  <2>1. UNCHANGED <<handed, losses>> /\ sent' = sent \cup {<<q, c>>}
    BY <1>7 DEF Submit, Send
  <2>2. CASE c = "wrong"
    BY <1>3, <1>7, <2>1, <2>2 DEF Submit, losses
  <2>3. CASE c # "wrong"
    BY <1>4, <1>7, <2>1, <2>3 DEF Submit, Calls
  <2>4. QED
    BY <2>2, <2>3
<1>8. ASSUME NEW q \in Viewers, NEW c \in Calls, Arrive(q, c) PROVE AllServed'
  BY <1>3, <1>8 DEF Arrive, losses
\* A fetch ends that was to be answered: its page is served by what ends it.
<1>9. ASSUME NEW q \in asked, NEW c, sent' = sent \ {<<q, c>>}, UNCHANGED asked,
             handed \subseteq handed', failed \subseteq failed', failed' \subseteq failed \cup {q},
             c # "wrong" => Served(q)'
      PROVE  AllServed'
  <2>1. ASSUME NEW p \in asked PROVE Served(p)'
    <3>1. CASE p # q \/ c = "wrong"
      BY <1>2, <1>9, <3>1
    <3>2. CASE p = q /\ c # "wrong"
      BY <1>9, <3>2
    <3>3. QED
      BY <3>1, <3>2
  <2>2. QED
    BY <1>9, <2>1 DEF AllServed
<1>10. ASSUME NEW q \in Viewers, NEW c \in Calls, Refuse(q, c) \/ Lose(q, c) PROVE AllServed'
  <2>1. /\ <<q, c>> \in sent /\ sent' = sent \ {<<q, c>>} /\ UNCHANGED <<asked, handed, vars>>
        /\ failed' = failed \/ (c # "wrong" /\ failed' = failed \cup {q})
    BY <1>10 DEF Refuse, Lose, Refused, losses
  <2>2. CASE c = "wrong"
    <3>1. \A p \in asked : Served(p)'
      BY <1>2, <2>1, <2>2
    <3>2. QED
      BY <2>1, <2>2, <3>1 DEF AllServed
  <2>3. CASE c # "wrong"
    <3>1. q \in asked /\ share \in made
      BY <2>1, <2>3 DEF Owned
    <3>2. CASE Refuse(q, c)
      <4>1. Closed(share)
        BY <2>3, <3>1, <3>2 DEF Refuse, Open, Closed
      <4>2. Served(q)'
        BY <1>1, <4>1 DEF Served
      <4>3. QED
        BY <1>9, <2>1, <3>1, <4>2
    <3>3. CASE Lose(q, c)
      <4>1. q \in failed'
        BY <2>3, <3>3 DEF Lose
      <4>2. Served(q)'
        BY <4>1 DEF Served
      <4>3. QED
        BY <1>9, <2>1, <3>1, <4>2
    <3>4. QED
      BY <1>10, <3>2, <3>3
  <2>4. QED
    BY <2>2, <2>3
<1>11. ASSUME NEW r \in Requests, SignAndCount(r) PROVE AllServed'
  BY <1>3, <1>11 DEF SignAndCount, losses
<1>12. ASSUME NEW r \in Requests, pc[r] # "idle" PROVE job[r].viewer \in asked
  <2>1. <<job[r].viewer, by[r]>> \in sent /\ by[r] # "wrong"
    BY <1>12 DEF RequestsAnswer, Owned
  <2>2. QED
    BY <2>1 DEF Owned
<1>13. ASSUME NEW r \in Requests, Deliver(r) PROVE AllServed'
  <2>1. /\ handed' = handed \cup {job[r].viewer} /\ UNCHANGED <<asked, failed>>
        /\ sent' = sent \ {<<job[r].viewer, by[r]>>}
    BY <1>13 DEF Deliver, Got, Forget, losses
  <2>2. job[r].viewer \in asked
    BY <1>12, <1>13 DEF Deliver, Answer
  <2>3. \A q : q \in handed' => (q \in handed \cup failed)'
    OBVIOUS
  <2>4. QED
    BY <1>9, <2>1, <2>2, <2>3 DEF Served
<1>14. ASSUME NEW r \in Requests, Break(r) PROVE AllServed'
  <2>1. /\ failed' = failed \cup {job[r].viewer} /\ UNCHANGED <<asked, handed>>
        /\ sent' = sent \ {<<job[r].viewer, by[r]>>}
    BY <1>14 DEF Break, Refused, Forget
  <2>2. job[r].viewer \in asked
    BY <1>12, <1>14 DEF Break, Fail
  <2>3. \A q : q \in failed' => (q \in handed \cup failed)'
    OBVIOUS
  <2>4. QED
    BY <1>9, <2>1, <2>2, <2>3 DEF Served
<1>15. ASSUME Publish \/ Elsewhere PROVE AllServed'
  BY <1>3, <1>15 DEF Publish, Elsewhere, script, losses
<1>16. QED
  BY <1>5, <1>6, <1>7, <1>8, <1>10, <1>11, <1>13, <1>14, <1>15 DEF PageNext

\* What is known of the pages: whose the fetches are, for whom the downloads were
\* counted, that no page is forgotten and no download lost sight of.
Own == Owned /\ CountedForSome /\ AllServed /\ Conserved

LEMMA PagesOwn == PageSpec => []Own
<1>1. PageInit => Own
  <2> SUFFICES ASSUME PageInit PROVE Own
    OBVIOUS
  <2>1. Owned /\ CountedForSome /\ AllServed
    BY ShareAssumption DEF PageInit, Init, Owned, CountedForSome, AllServed
  <2>2. Answering(share) = {}
    BY DEF PageInit, Init, Answering
  <2>3. Cardinality(Answering(share)) = 0
    BY <2>2, FS_EmptySet
  <2>4. count[share] = 0 /\ uncounted[share] = 0 /\ issued[share] = 0 /\ wasted = 0
    BY ShareAssumption DEF PageInit, Init
  <2>5. QED
    BY <2>1, <2>3, <2>4 DEF Own, Conserved
<1>2. TypeOK /\ NothingEarly /\ PageTypeOK /\ Own /\ [PageNext]_pageVars => Own'
  <2> SUFFICES ASSUME TypeOK, NothingEarly, PageTypeOK, Own, [PageNext]_pageVars PROVE Own'
    OBVIOUS
  <2>1. Typed /\ FetchesFit /\ RequestsAnswer
    BY DEF PageTypeOK, Typed
  <2>2. CASE PageNext
    BY <2>1, <2>2, StepOwned, StepCountedForSome, StepServed, StepConserved DEF Own
  <2>3. CASE UNCHANGED pageVars
    <3>1. UNCHANGED <<vars, script, failed, wasted>>
      BY <2>3 DEF pageVars, losses
    <3>2. UNCHANGED <<made, limit, expiry, count, revoked, now, pc, job, issued, uncounted>>
      BY <3>1 DEF vars, columns
    <3>3. Owned' /\ CountedForSome'
      BY <3>1, <3>2 DEF script, Own, Owned, CountedForSome
    <3>4. AllServed'
      BY <3>1, <3>2 DEF script, Own, AllServed, Served, Waiting, Closed, Expired, LimitReached
    <3>5. Conserved'
      BY <3>1, <3>2 DEF Own, Conserved, Answering
    <3>6. QED
      BY <3>3, <3>4, <3>5 DEF Own
  <2>4. QED
    BY <2>2, <2>3
<1>3. QED
  BY <1>1, <1>2, PageTypeCorrect, ServerSpec, TypeCorrect, NothingIsEarly, PTL DEF PageSpec

\* A page that goes without while the share lasts has met the limit.
LEMMA LeftOut ==
  ASSUME TypeOK, Own, NEW p \in asked, p \notin handed \cup failed,
         {f \in sent : f[1] = p} = {}, ~revoked[share], ~Expired(share)
  PROVE  LimitReached(share)
<1>1. ~Waiting(p)
  <2>1. SUFFICES ASSUME NEW c \in Calls, <<p, c>> \in sent PROVE FALSE
    BY DEF Waiting
  <2>2. <<p, c>> \in {f \in sent : f[1] = p}
    BY <2>1
  <2>3. QED
    BY <2>2
<1>2. QED
  BY <1>1 DEF Own, AllServed, Served, Closed

\* However the fetches overlap, a page is refused only when as many downloads as the
\* limit have been answered, are being answered or were wasted.
THEOREM RefusedOnlyWhenSpent == PageSpec => []RefusedWhenSpent
<1>1. TypeOK /\ Own => RefusedWhenSpent
  <2> SUFFICES ASSUME TypeOK, Own, NEW p \in asked, p \notin handed \cup failed,
                      {f \in sent : f[1] = p} = {}, ~revoked[share], ~Expired(share)
               PROVE  /\ limit[share] # NoLimit
                      /\ limit[share] <= issued[share] + Cardinality(Answering(share)) + wasted
    BY DEF RefusedWhenSpent
  <2>1. limit[share] # NoLimit /\ count[share] >= limit[share]
    BY LeftOut DEF LimitReached
  <2>2. limit[share] \in Int /\ count[share] \in Nat /\ uncounted[share] \in Nat
    BY <2>1, ShareAssumption, LimitsAssumption DEF TypeOK
  <2>3. count[share] + uncounted[share] = issued[share] + Cardinality(Answering(share)) + wasted
    BY DEF Own, Conserved
  <2>4. QED
    BY <2>1, <2>2, <2>3
<1>2. QED
  BY <1>1, PagesOwn, ServerSpec, TypeCorrect, PTL

\* A page that had the share to itself, and lost nothing, comes by a URL and keeps it.
THEOREM OnePageSuffices == PageSpec => []OnePageIsEnough
<1>1. TypeOK /\ PageTypeOK /\ Own => OnePageIsEnough
  <2> SUFFICES ASSUME TypeOK, PageTypeOK, Own, NEW p \in asked, asked = {p}, p \notin failed,
                      {f \in sent : f[1] = p} = {},
                      limit[share] = NoLimit \/ limit[share] > 0,
                      ~revoked[share], ~Expired(share)
               PROVE  p \in handed /\ view[p] # "form"
    BY DEF OnePageIsEnough
  <2>1. p \in handed
    <3> SUFFICES ASSUME p \notin handed PROVE FALSE
      OBVIOUS
    <3>1. limit[share] # NoLimit /\ count[share] >= limit[share]
      BY LeftOut DEF LimitReached
    <3>2. count[share] > 0
      <4>1. limit[share] \in Int /\ limit[share] > 0 /\ count[share] \in Nat
        BY <3>1, ShareAssumption, LimitsAssumption DEF TypeOK
      <4>2. QED
        BY <3>1, <4>1
    <3>3. handed = {} /\ failed = {}
      BY DEF Own, Owned, AllServed
    <3>4. PICK r \in Requests : pc[r] = "answer"
      BY <3>2, <3>3 DEF Own, CountedForSome
    <3>5. <<job[r].viewer, by[r]>> \in sent /\ by[r] # "wrong"
      BY <3>4 DEF PageTypeOK, RequestsAnswer, Own, Owned
    <3>6. job[r].viewer = p
      BY <3>5 DEF Own, Owned
    <3>7. <<job[r].viewer, by[r]>> \in {f \in sent : f[1] = p}
      BY <3>5, <3>6
    <3>8. QED
      BY <3>7
  <2>2. p \in Viewers
    BY DEF PageTypeOK
  <2>3. QED
    BY <2>1, <2>2 DEF Own, Owned
<1>2. QED
  BY <1>1, PagesOwn, PageTypeCorrect, ServerSpec, TypeCorrect, PTL

\* The pages and the two handlers together keep the promise of the share: what the
\* server does under them is a behaviour of its life cycle.
THEOREM PagesKeepLifecycle == PageSpec => KeepsLifecycle
BY ServerSpec, ImplementsLifecycle, PTL
=============================================================================
