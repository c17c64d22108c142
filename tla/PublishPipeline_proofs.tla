------------------------ MODULE PublishPipeline_proofs ------------------------
(***************************************************************************)
(* Proofs about PublishPipeline for any number of rows and retries and any *)
(* set of faults.                                                          *)
(***************************************************************************)
EXTENDS PublishPipeline, TLAPS

LEMMA CurrentPostType ==
  ASSUME TypeOK, NEW c \in Call
  PROVE  CurrentPost(c) \in Post /\ c[1] \in Row
BY DEF TypeOK, CurrentPost, Call, Post

LEMMA CurrentCallType ==
  ASSUME TypeOK, NEW r \in Row
  PROVE  CurrentCall(r) \in Call
BY DEF TypeOK, CurrentCall, Call

LEMMA BecomesType ==
  ASSUME TypeOK, NEW z \in Post, NEW s \in ZernioState, Becomes(z, s)
  PROVE  /\ zstate' \in [Post -> ZernioState]
         /\ event' \in [Event -> EventState]
BY DEF TypeOK, Becomes, EventState

LEMMA DeleteType ==
  ASSUME TypeOK, NEW q \in Row, DeleteUpstream(q)
  PROVE  /\ zstate' \in [Post -> ZernioState]
         /\ event' \in [Event -> EventState]
BY BecomesType DEF TypeOK, DeleteUpstream, Deletable, ZernioState

LEMMA NextTryType ==
  ASSUME TypeOK, NEW c \in Call, NextTry(c)
  PROVE  /\ bpc' \in [Call -> BackendState]
         /\ try' \in [Call -> 0 .. ApiRetries]
<1>1. CASE try[c] < ApiRetries
  <2>1. try[c] + 1 \in 0 .. ApiRetries
    BY <1>1, ConstantsAssumption DEF TypeOK
  <2> QED
    BY <1>1, <2>1 DEF TypeOK, NextTry, Answer, BackendState
<1>2. CASE ~(try[c] < ApiRetries)
  BY <1>2 DEF TypeOK, NextTry, Answer, BackendState
<1> QED
  BY <1>1, <1>2

\* Every variable keeps its type.
LEMMA TypeStep == TypeOK /\ [Next]_vars => TypeOK'
<1> SUFFICES ASSUME TypeOK, [Next]_vars PROVE TypeOK'
  OBVIOUS
<1> USE DEF TypeOK
<1>1. ASSUME NEW r \in Row,
             Validate(r) \/ CreateRow(r) \/ Resolve(r)
      PROVE  TypeOK'
  BY <1>1 DEF Validate, CreateRow, Resolve, Goto, ActiveRows,
     PipelineState, RowStatus, backendVars, zernioVars, userVars
<1>2. ASSUME NEW r \in Row, SupersedeUpstream(r) PROVE TypeOK'
  BY <1>2, DeleteType DEF SupersedeUpstream, backendVars, userVars
<1>3. ASSUME NEW r \in Row,
             Claim(r) \/ Schedule(r) \/ Submit(r) \/ Fail(r) \/ Dies(r)
      PROVE  TypeOK'
  <2> USE DEF Goto, PipelineState, RowStatus, backendVars, zernioVars, userVars
  <2>1. CASE Claim(r)
    BY <2>1 DEF Claim
  <2>2. CASE Schedule(r)
    BY <2>2 DEF Schedule
  <2>3. CASE Submit(r)
    BY <2>3, CurrentCallType DEF Submit, BackendState
  <2>4. CASE Fail(r)
    BY <2>4 DEF Fail
  <2>5. CASE Dies(r)
    BY <2>5 DEF Dies
  <2> QED
    BY <1>3, <2>1, <2>2, <2>3, <2>4, <2>5
<1>4. ASSUME NEW r \in Row,
             ReceiveError(r) \/ Timeout(r) \/ ReceiveOk(r)
      PROVE  TypeOK'
  BY <1>4, CurrentCallType, ConstantsAssumption
  DEF ReceiveError, Timeout, ReceiveOk, NextAttempt, Goto,
      PipelineState, backendVars, zernioVars, userVars
<1>5. ASSUME NEW c \in Call,
             ReadRow(c) \/ Post_Refused(c) \/ Post_Unavailable(c)
               \/ MarkPublished(c) \/ CallDies(c)
      PROVE  TypeOK'
  <2> USE CurrentPostType
      DEF Answer, BackendState, pipelineVars, zernioVars, userVars
  <2>1. CASE ReadRow(c)
    BY <2>1 DEF ReadRow, NeedsPost
  <2>2. CASE Post_Refused(c)
    BY <2>2 DEF Post_Refused
  <2>3. CASE Post_Unavailable(c)
    BY <2>3, NextTryType DEF Post_Unavailable
  <2>4. CASE MarkPublished(c)
    <3>1. bpc' \in [Call -> BackendState] /\ try' \in [Call -> 0 .. ApiRetries]
      BY <2>4, NextTryType DEF MarkPublished
    <3>2. status' \in [Row -> RowStatus] /\ ambiguous' \in SUBSET Row
      BY <2>4 DEF MarkPublished, RowStatus
    <3> QED
      BY <2>4, <3>1, <3>2 DEF MarkPublished
  <2>5. CASE CallDies(c)
    BY <2>5 DEF CallDies
  <2> QED
    BY <1>5, <2>1, <2>2, <2>3, <2>4, <2>5
<1>6. ASSUME NEW c \in Call, Post_Accepted(c) PROVE TypeOK'
  <2>1. PICK s \in Accepted(c) : Becomes(CurrentPost(c), s)
    BY <1>6 DEF Post_Accepted
  <2>2. s \in ZernioState
    BY DEF Accepted, ZernioState
  <2>3. zstate' \in [Post -> ZernioState] /\ event' \in [Event -> EventState]
    BY <2>1, <2>2, CurrentPostType, BecomesType
  <2>4. bpc' \in [Call -> BackendState] /\ try' \in [Call -> 0 .. ApiRetries]
    BY <1>6, NextTryType DEF Post_Accepted, Answer, BackendState
  <2>5. got' \in [Call -> Post \cup {NoPost}] /\ ambiguous' \in SUBSET Row
    BY <1>6, CurrentPostType DEF Post_Accepted
  <2> QED
    BY <1>6, <2>3, <2>4, <2>5 DEF Post_Accepted, pipelineVars, userVars
<1>7. ASSUME NEW z \in Post, ZernioFinishes(z) PROVE TypeOK'
  BY <1>7, BecomesType
  DEF ZernioFinishes, ZernioState, pipelineVars, backendVars
<1>8. ASSUME NEW e \in Event, WebhookStep(e) \/ HandlerDies(e) PROVE TypeOK'
  <2> USE DEF EventState, pipelineVars, backendVars, userVars
  <2>1. CASE Deliver(e) \/ HandlerDies(e)
    BY <2>1 DEF Deliver, HandlerDies
  <2>2. CASE FindRow(e)
    BY <2>2 DEF FindRow
  <2>3. CASE ApplyEvent(e)
    <3>1. StatusOf(e[2]) \in RowStatus
      BY DEF Event, EventKind, StatusOf, RowStatus
    <3> QED
      BY <2>3, <3>1 DEF ApplyEvent
  <2> QED
    BY <1>8, <2>1, <2>2, <2>3 DEF WebhookStep
<1>9. ASSUME NEW s \in ContentStatus, Review(s) PROVE TypeOK'
  BY <1>9 DEF Review, pipelineVars, backendVars, zernioVars
<1>10. ASSUME NEW r \in Row, CancelRead(r) \/ ResetRead(r) PROVE TypeOK'
  BY <1>10
  DEF CancelRead, ResetRead, Handler, pipelineVars, backendVars, zernioVars
<1>11. CASE CancelUpstream \/ ResetUpstream
  BY <1>11, DeleteType
  DEF CancelUpstream, ResetUpstream, Handler, Idle, pipelineVars, backendVars
<1>12. CASE CancelWrite \/ CancelDies \/ ResetWrite \/ ResetDies
  BY <1>12
  DEF CancelWrite, CancelDies, ResetWrite, ResetDies, Handler,
      RowStatus, pipelineVars, backendVars, zernioVars
<1>13. CASE UNCHANGED vars
  BY <1>13 DEF vars
<1> QED
  BY <1>1, <1>2, <1>3, <1>4, <1>5, <1>6, <1>7, <1>8, <1>9, <1>10, <1>11,
     <1>12, <1>13
  DEF Next, PipelineStep, BackendStep

LEMMA TypeInit == Init => TypeOK
BY ConstantsAssumption
DEF Init, TypeOK, ContentStatus, RowStatus, PipelineState, BackendState,
    ZernioState, EventState, Handler, Idle

\* Every variable has its type in every reachable state.
THEOREM TypeCorrect == Spec => []TypeOK
BY TypeInit, TypeStep, PTL DEF Spec

-----------------------------------------------------------------------------
(* What an action at Zernio can do to the posts that exist: no post is made  *)
(* or unmade, a published one stays, and the news of it is true.             *)

Quiet ==
  /\ \A z \in Post : zstate'[z] = "none" <=> zstate[z] = "none"
  /\ \A z \in Post : zstate[z] = "published" => zstate'[z] = "published"
  /\ \A z \in Post : event'[<<z, "published">>] # "unsent" =>
       event[<<z, "published">>] # "unsent" \/ zstate'[z] = "published"

LEMMA WaitingQuiet ==
  ASSUME TypeOK, NEW z \in Post, zstate[z] \in Waiting,
         NEW s \in {"published", "failed", "cancelled"}, Becomes(z, s)
  PROVE  Quiet
<1>1. /\ zstate'[z] = s
      /\ \A y \in Post \ {z} : zstate'[y] = zstate[y]
  BY DEF TypeOK, Becomes
<1>2. \A e \in Event : e # <<z, s>> => event'[e] = event[e]
  BY DEF TypeOK, Becomes
<1>3. \A y \in Post : <<y, "published">> \in Event
  BY DEF Event, EventKind
<1>4. ASSUME NEW y \in Post, event'[<<y, "published">>] # "unsent"
      PROVE  event[<<y, "published">>] # "unsent" \/ zstate'[y] = "published"
  <2>1. CASE y = z /\ s = "published"
    BY <1>1, <2>1
  <2>2. CASE ~(y = z /\ s = "published")
    BY <1>2, <1>3, <1>4, <2>2
  <2> QED
    BY <2>1, <2>2
<1> QED
  BY <1>1, <1>4 DEF Quiet, Waiting

LEMMA DeleteQuiet ==
  ASSUME TypeOK, NEW q \in Row, DeleteUpstream(q)
  PROVE  Quiet
<1>1. CASE Deletable(q) /\ Becomes(providerId[q], "cancelled")
  BY <1>1, WaitingQuiet DEF Deletable, TypeOK
<1>2. CASE UNCHANGED <<zstate, event>>
  BY <1>2 DEF Quiet
<1> QED
  BY <1>1, <1>2 DEF DeleteUpstream

-----------------------------------------------------------------------------
(* The conjuncts of IInv, one lemma each: every step preserves it.         *)

\* The actions that touch neither the pipelines' progress nor the calls.
Aside ==
  \/ \E z \in Post : ZernioFinishes(z)
  \/ \E e \in Event : WebhookStep(e) \/ HandlerDies(e)
  \/ \E s \in ContentStatus : Review(s)
  \/ \E r \in Row : CancelRead(r) \/ ResetRead(r)
  \/ CancelUpstream \/ CancelWrite \/ CancelDies
  \/ ResetUpstream \/ ResetWrite \/ ResetDies

LEMMA AsideFrame ==
  ASSUME Aside
  PROVE  UNCHANGED <<pc, attempt, bpc, try, got, ambiguous>>
BY DEF Aside, ZernioFinishes, WebhookStep, Deliver, FindRow, ApplyEvent,
       HandlerDies, Review, CancelRead, ResetRead, CancelUpstream, CancelWrite,
       CancelDies, ResetUpstream, ResetWrite, ResetDies, pipelineVars,
       backendVars

LEMMA AsideQuiet ==
  ASSUME TypeOK, Aside
  PROVE  Quiet
<1>1. ASSUME NEW z \in Post, ZernioFinishes(z) PROVE Quiet
  BY <1>1, WaitingQuiet DEF ZernioFinishes
<1>2. ASSUME NEW e \in Event, WebhookStep(e) \/ HandlerDies(e) PROVE Quiet
  <2>1. /\ UNCHANGED zstate
        /\ event[e] # "unsent"
        /\ \E s \in EventState : event' = [event EXCEPT ![e] = s]
    BY <1>2 DEF WebhookStep, Deliver, Unhandled, FindRow, ApplyEvent,
                HandlerDies, EventState
  <2> QED
    BY <2>1 DEF Quiet, TypeOK
<1>3. CASE CancelUpstream \/ ResetUpstream
  BY <1>3, DeleteQuiet
  DEF CancelUpstream, ResetUpstream, TypeOK, Handler, Idle
<1>4. CASE \/ \E s \in ContentStatus : Review(s)
           \/ \E r \in Row : CancelRead(r) \/ ResetRead(r)
           \/ CancelWrite \/ CancelDies \/ ResetWrite \/ ResetDies
  <2>1. UNCHANGED <<zstate, event>>
    BY <1>4 DEF Review, CancelRead, ResetRead, CancelWrite, CancelDies,
                ResetWrite, ResetDies, zernioVars
  <2> QED
    BY <2>1 DEF Quiet
<1> QED
  BY <1>1, <1>2, <1>3, <1>4 DEF Aside

\* The actions of the pipeline of r that send no request and get no answer.
Local(r) ==
  \/ Validate(r) \/ CreateRow(r) \/ Resolve(r) \/ SupersedeUpstream(r)
  \/ Claim(r) \/ Schedule(r) \/ Fail(r) \/ Dies(r)

LEMMA LocalFrame ==
  ASSUME TypeOK, NEW r \in Row, Local(r)
  PROVE  /\ UNCHANGED <<attempt, bpc, try, got, ambiguous, match>>
         /\ \A q \in Row : pc'[q] \in BeforeSubmit => pc[q] \in BeforeSubmit
         /\ Quiet
<1>1. CASE SupersedeUpstream(r)
  <2>1. Quiet
    BY <1>1, DeleteQuiet DEF SupersedeUpstream, TypeOK
  <2> QED
    BY <1>1, <2>1 DEF SupersedeUpstream, backendVars
<1>2. CASE ~SupersedeUpstream(r)
  <2>1. UNCHANGED <<attempt, bpc, try, got, ambiguous, match, zstate, event>>
    BY <1>2 DEF Local, Validate, CreateRow, Resolve, Claim, Schedule, Fail,
                Dies, backendVars, zernioVars
  <2>2. \A q \in Row : pc'[q] \in BeforeSubmit => pc[q] \in BeforeSubmit
    BY <1>2 DEF Local, Validate, CreateRow, Resolve, Claim, Schedule, Fail,
                Dies, Goto, TypeOK, BeforeSubmit
  <2> QED
    BY <2>1, <2>2 DEF Quiet
<1> QED
  BY <1>1, <1>2

\* Which steps there are.
LEMMA Steps ==
  ASSUME Next
  PROVE  \/ Aside
         \/ \E r \in Row : Local(r) \/ Submit(r) \/ ReceiveError(r)
                             \/ Timeout(r) \/ ReceiveOk(r)
         \/ \E c \in Call : \/ ReadRow(c) \/ Post_Accepted(c)
                            \/ Post_Refused(c) \/ Post_Unavailable(c)
                            \/ MarkPublished(c) \/ CallDies(c)
BY DEF Next, Aside, Local, PipelineStep, BackendStep

LEMMA NextAttemptFacts ==
  ASSUME TypeOK, NEW r \in Row, pc[r] = "await", NextAttempt(r)
  PROVE  /\ \A q \in Row \ {r} : attempt'[q] = attempt[q] /\ pc'[q] = pc[q]
         /\ \/ attempt'[r] = attempt[r] /\ pc'[r] \notin BeforeSubmit
            \/ attempt'[r] = attempt[r] + 1
BY DEF TypeOK, NextAttempt, Goto, BeforeSubmit

LEMMA CallsInOrderStep ==
  ASSUME IInv, Next
  PROVE  CallsInOrder'
<1> USE DEF IInv, CallsInOrder
<1>1. ASSUME Aside PROVE CallsInOrder'
  BY <1>1, AsideFrame
<1>2. ASSUME NEW r \in Row, Local(r) PROVE CallsInOrder'
  BY <1>2, LocalFrame
<1>3. ASSUME NEW r \in Row, Submit(r) PROVE CallsInOrder'
  BY <1>3, CurrentCallType
  DEF Submit, CurrentCall, Goto, TypeOK, Call, BeforeSubmit
<1>4. ASSUME NEW r \in Row, Timeout(r) PROVE CallsInOrder'
  BY <1>4, NextAttemptFacts DEF Timeout, TypeOK, backendVars
<1>5. ASSUME NEW r \in Row, ReceiveError(r) \/ ReceiveOk(r)
      PROVE  CallsInOrder'
  <2>1. UNCHANGED bpc
    BY <1>5 DEF ReceiveError, ReceiveOk, backendVars
  <2>2. \/ NextAttempt(r) /\ pc[r] = "await"
        \/ /\ UNCHANGED attempt
           /\ \A q \in Row : pc'[q] \in BeforeSubmit => pc[q] \in BeforeSubmit
    BY <1>5 DEF ReceiveError, ReceiveOk, Goto, TypeOK, BeforeSubmit
  <2> QED
    BY <2>1, <2>2, NextAttemptFacts DEF TypeOK
<1>6. ASSUME NEW c \in Call,
             \/ ReadRow(c) \/ Post_Accepted(c) \/ Post_Refused(c)
             \/ Post_Unavailable(c) \/ MarkPublished(c) \/ CallDies(c)
      PROVE  CallsInOrder'
  <2>1. UNCHANGED <<pc, attempt>>
    BY <1>6 DEF ReadRow, Post_Accepted, Post_Refused, Post_Unavailable,
                MarkPublished, CallDies, pipelineVars
  <2>2. bpc[c] # "none" /\ \A d \in Call : bpc[d] = "none" => bpc'[d] = "none"
    BY <1>6 DEF ReadRow, Post_Accepted, Post_Refused, Post_Unavailable,
                MarkPublished, CallDies, NextTry, Answer, TypeOK
  <2>3. \A r \in Row, a \in 0 .. MaxRetries : <<r, a>> \in Call
    BY DEF Call
  <2> QED
    BY <2>1, <2>2, <2>3
<1> QED
  BY <1>1, <1>2, <1>3, <1>4, <1>5, <1>6, Steps

LEMMA NextTryFacts ==
  ASSUME TypeOK, NEW c \in Call, NextTry(c)
  PROVE  /\ \A d \in Call \ {c} : bpc'[d] = bpc[d] /\ try'[d] = try[d]
         /\ \/ try'[c] = try[c] + 1 /\ bpc'[c] = "posting"
            \/ try'[c] = try[c] /\ bpc'[c] = "http5xx"
BY DEF TypeOK, NextTry, Answer

\* What a call's answer, error or retry does to the two counters of calls.
LEMMA CallFacts ==
  ASSUME TypeOK, NEW c \in Call,
         \/ ReadRow(c) \/ Post_Refused(c) \/ Post_Unavailable(c)
         \/ MarkPublished(c) \/ CallDies(c)
  PROVE  /\ UNCHANGED <<zstate, event>>
         /\ \A d \in Call \ {c} : bpc'[d] = bpc[d] /\ try'[d] = try[d]
         /\ bpc'[c] # "marking"
         /\ \/ try'[c] = try[c] + 1
            \/ /\ try'[c] = try[c]
               /\ bpc'[c] \in {"none", "read", "posting"}
                    => bpc[c] \in {"none", "read", "posting"}
<1>1. CASE NextTry(c) /\ UNCHANGED <<zstate, event>>
  BY <1>1, NextTryFacts
<1>2. CASE UNCHANGED <<try, zstate, event>>
  BY <1>2 DEF ReadRow, Post_Refused, Post_Unavailable, MarkPublished, CallDies,
              NextTry, Answer, TypeOK
<1> QED
  BY <1>1, <1>2 DEF ReadRow, Post_Refused, Post_Unavailable, MarkPublished,
                    CallDies, zernioVars

\* An accepted POST creates the post that is current, and no other.
LEMMA AcceptedFacts ==
  ASSUME TypeOK, NEW c \in Call, Post_Accepted(c)
  PROVE  /\ bpc[c] = "posting"
         /\ UNCHANGED <<status, providerId, match, pipelineVars>>
         /\ \A d \in Call \ {c} : bpc'[d] = bpc[d] /\ try'[d] = try[d]
         /\ \/ /\ try'[c] = try[c] + 1 /\ bpc'[c] = "posting"
               /\ c[1] \in ambiguous'
            \/ /\ try'[c] = try[c] /\ bpc'[c] = "http5xx"
               /\ c[1] \in ambiguous'
            \/ /\ UNCHANGED <<try, ambiguous>>
               /\ got' = [got EXCEPT ![c] = CurrentPost(c)]
               /\ \/ bpc'[c] = "ok"
                  \/ /\ bpc'[c] = "marking"
                     /\ zstate'[CurrentPost(c)] = "published"
         /\ zstate'[CurrentPost(c)] # "none"
         /\ \A z \in Post \ {CurrentPost(c)} : zstate'[z] = zstate[z]
         /\ \A z \in Post : event'[<<z, "published">>] # "unsent" =>
              event[<<z, "published">>] # "unsent" \/ zstate'[z] = "published"
         /\ \A e \in Event : event'[e] = "matched" => event[e] = "matched"
<1>1. PICK s \in Accepted(c) :
        /\ Becomes(CurrentPost(c), s)
        /\ \/ /\ got' = [got EXCEPT ![c] = CurrentPost(c)]
              /\ Answer(c, IF s = "published" THEN "marking" ELSE "ok")
              /\ UNCHANGED <<try, ambiguous>>
           \/ /\ NextTry(c)
              /\ ambiguous' = ambiguous \cup {c[1]}
  BY DEF Post_Accepted
<1>2. s \in {"scheduled", "processing", "published"}
  BY DEF Accepted
<1>3. /\ zstate'[CurrentPost(c)] = s
      /\ \A z \in Post \ {CurrentPost(c)} : zstate'[z] = zstate[z]
  BY <1>1, CurrentPostType DEF Becomes, TypeOK
<1>4. \A e \in Event :
        \/ event'[e] = event[e]
        \/ event'[e] = "sent" /\ e = <<CurrentPost(c), s>>
  <2>1. \/ event' = event
        \/ event' = [event EXCEPT ![<<CurrentPost(c), s>>] = "sent"]
    BY <1>1 DEF Becomes
  <2> QED
    BY <2>1 DEF TypeOK
<1>5. \A d \in Call \ {c} : bpc'[d] = bpc[d] /\ try'[d] = try[d]
  BY <1>1, NextTryFacts DEF Answer, TypeOK
<1>6. \/ /\ try'[c] = try[c] + 1 /\ bpc'[c] = "posting" /\ c[1] \in ambiguous'
      \/ /\ try'[c] = try[c] /\ bpc'[c] = "http5xx" /\ c[1] \in ambiguous'
      \/ /\ UNCHANGED <<try, ambiguous>>
         /\ got' = [got EXCEPT ![c] = CurrentPost(c)]
         /\ \/ bpc'[c] = "ok"
            \/ /\ bpc'[c] = "marking"
               /\ zstate'[CurrentPost(c)] = "published"
  <2>1. CASE NextTry(c) /\ ambiguous' = ambiguous \cup {c[1]}
    BY <2>1, NextTryFacts
  <2>2. CASE /\ got' = [got EXCEPT ![c] = CurrentPost(c)]
             /\ Answer(c, IF s = "published" THEN "marking" ELSE "ok")
             /\ UNCHANGED <<try, ambiguous>>
    BY <1>3, <2>2 DEF Answer, TypeOK
  <2> QED
    BY <1>1, <2>1, <2>2
<1>7. ASSUME NEW z \in Post, event'[<<z, "published">>] # "unsent"
      PROVE  event[<<z, "published">>] # "unsent" \/ zstate'[z] = "published"
  BY <1>3, <1>4, <1>7 DEF Event, EventKind
<1>8. /\ bpc[c] = "posting"
      /\ UNCHANGED <<status, providerId, match, pipelineVars>>
  BY DEF Post_Accepted
<1> QED
  BY <1>2, <1>3, <1>4, <1>5, <1>6, <1>7, <1>8

LEMMA TriesAreFreshStep ==
  ASSUME IInv, Next
  PROVE  TriesAreFresh'
<1> USE DEF IInv, TriesAreFresh
<1>0. \A c \in Call, t \in 0 .. ApiRetries : <<c[1], c[2], t>> \in Post
  BY DEF Call, Post
<1>1. ASSUME UNCHANGED <<bpc, try>>, Quiet PROVE TriesAreFresh'
  BY <1>0, <1>1 DEF Quiet
<1>2. ASSUME NEW r \in Row, Submit(r) PROVE TriesAreFresh'
  BY <1>2, CurrentCallType DEF Submit, TypeOK, CallsInOrder, zernioVars,
     CurrentCall, BeforeSubmit
<1>3. ASSUME NEW r \in Row, ReceiveError(r) \/ Timeout(r) \/ ReceiveOk(r)
      PROVE  TriesAreFresh'
  BY <1>3 DEF ReceiveError, Timeout, ReceiveOk, backendVars, zernioVars
<1>4. ASSUME NEW c \in Call,
             \/ ReadRow(c) \/ Post_Refused(c) \/ Post_Unavailable(c)
             \/ MarkPublished(c) \/ CallDies(c)
      PROVE  TriesAreFresh'
  <2>1. \A d \in Call \ {c} : bpc'[d] = bpc[d] /\ try'[d] = try[d]
    BY <1>4, CallFacts
  <2>2. UNCHANGED zstate
    BY <1>4, CallFacts
  <2>3. \/ try'[c] = try[c] + 1
        \/ /\ try'[c] = try[c]
           /\ bpc'[c] \in {"none", "read", "posting"}
                => bpc[c] \in {"none", "read", "posting"}
    BY <1>4, CallFacts
  <2> QED
    BY <2>1, <2>2, <2>3 DEF TypeOK
<1>5. ASSUME NEW c \in Call, Post_Accepted(c) PROVE TriesAreFresh'
  <2>1. ASSUME NEW d \in Call, NEW t \in 0 .. ApiRetries,
               \/ t > try'[d]
               \/ t = try'[d] /\ bpc'[d] \in {"none", "read", "posting"}
        PROVE  zstate'[<<d[1], d[2], t>>] = "none"
    <3>1. CASE d = c
      <4>1. t > try[c]
        BY <1>5, <2>1, <3>1, AcceptedFacts DEF TypeOK
      <4>2. <<c[1], c[2], t>> # CurrentPost(c)
        BY <4>1 DEF CurrentPost, TypeOK
      <4> QED
        BY <1>0, <1>5, <3>1, <4>1, <4>2, AcceptedFacts
    <3>2. CASE d # c
      <4>1. <<d[1], d[2], t>> # CurrentPost(c)
        BY <3>2 DEF CurrentPost, Call
      <4> QED
        BY <1>0, <1>5, <2>1, <3>2, <4>1, AcceptedFacts
    <3> QED
      BY <3>1, <3>2
  <2> QED
    BY <2>1
<1> QED
  BY <1>1, <1>2, <1>3, <1>4, <1>5, Steps, AsideFrame, AsideQuiet, LocalFrame

\* A call that is not answered belongs to the current attempt or to a row
\* whose outcome is in doubt.
LEMMA BusyCallIsCurrent ==
  ASSUME IInv, NEW c \in Call, c[1] \notin ambiguous,
         bpc[c] \in {"read", "posting", "marking", "ok"}
  PROVE  c = CurrentCall(c[1])
<1>1. PICK r \in Row, a \in 0 .. MaxRetries : c = <<r, a>>
  BY DEF Call
<1>2. attempt[r] \in 0 .. MaxRetries
  BY DEF IInv, TypeOK
<1>3. ~(a > attempt[r]) /\ ~(a < attempt[r])
  BY <1>1 DEF IInv, CallsInOrder, EarlierCallsFailed
<1>4. a = attempt[r]
  BY <1>2, <1>3, ConstantsAssumption
<1> QED
  BY <1>1, <1>4 DEF CurrentCall

LEMMA EarlierCallsFailedStep ==
  ASSUME IInv, Next
  PROVE  EarlierCallsFailed'
<1> USE DEF IInv, EarlierCallsFailed
<1>1. ASSUME UNCHANGED <<attempt, bpc, ambiguous>> PROVE EarlierCallsFailed'
  BY <1>1
<1>2. ASSUME NEW r \in Row, Submit(r) PROVE EarlierCallsFailed'
  BY <1>2 DEF Submit, TypeOK, CurrentCall, Call, pipelineVars
<1>3. ASSUME NEW r \in Row, ReceiveError(r) PROVE EarlierCallsFailed'
  <2>1. UNCHANGED <<bpc, ambiguous>> /\ pc[r] = "await"
    BY <1>3 DEF ReceiveError, backendVars
  <2>2. CASE UNCHANGED attempt
    BY <2>1, <2>2
  <2>3. CASE NextAttempt(r) /\ ~Final(bpc[CurrentCall(r)])
    <3>1. bpc[<<r, attempt[r]>>] \in {"http5xx", "refused"}
      BY <1>3, <2>3 DEF ReceiveError, Final, Answered, CurrentCall
    <3>2. attempt[r] \in Nat /\ attempt'[r] \in {attempt[r], attempt[r] + 1}
      BY <2>1, <2>3, NextAttemptFacts DEF TypeOK
    <3>3. \A a \in 0 .. MaxRetries :
            a < attempt'[r] => a < attempt[r] \/ a = attempt[r]
      BY <3>2, ConstantsAssumption
    <3> QED
      BY <2>1, <2>3, <3>1, <3>3, NextAttemptFacts
  <2> QED
    BY <1>3, <2>2, <2>3 DEF ReceiveError
<1>4. ASSUME NEW r \in Row, Timeout(r) \/ ReceiveOk(r)
      PROVE  EarlierCallsFailed'
  <2>1. CASE UNCHANGED <<attempt, ambiguous>>
    BY <1>4, <2>1 DEF Timeout, ReceiveOk, backendVars
  <2>2. CASE pc[r] = "await" /\ NextAttempt(r) /\ ambiguous' = ambiguous \cup {r}
    BY <1>4, <2>2, NextAttemptFacts DEF Timeout, ReceiveOk, backendVars
  <2> QED
    BY <1>4, <2>1, <2>2 DEF Timeout, ReceiveOk
<1>5. ASSUME NEW c \in Call,
             \/ ReadRow(c) \/ Post_Accepted(c) \/ Post_Refused(c)
             \/ Post_Unavailable(c) \/ MarkPublished(c) \/ CallDies(c)
      PROVE  EarlierCallsFailed'
  <2>1. /\ UNCHANGED attempt
        /\ ambiguous \subseteq ambiguous'
        /\ bpc[c] \in {"read", "posting", "marking"}
    BY <1>5 DEF ReadRow, Post_Accepted, Post_Refused, Post_Unavailable,
                MarkPublished, CallDies, pipelineVars
  <2>2. \A d \in Call \ {c} : bpc'[d] = bpc[d]
    BY <1>5, CallFacts, AcceptedFacts
  <2>3. c[1] \notin ambiguous => c = <<c[1], attempt[c[1]]>>
    BY <2>1, BusyCallIsCurrent DEF CurrentCall
  <2>4. ASSUME NEW r \in Row \ ambiguous', NEW a \in 0 .. MaxRetries,
               a < attempt'[r]
        PROVE  bpc'[<<r, a>>] \in {"http5xx", "refused"}
    <3>1. <<r, a>> \in Call /\ attempt[r] \in 0 .. MaxRetries
      BY DEF Call, TypeOK
    <3>2. <<r, a>> # c
      BY <2>1, <2>3, <2>4, <3>1, ConstantsAssumption
    <3> QED
      BY <2>1, <2>2, <2>4, <3>1, <3>2
  <2> QED
    BY <2>4
<1> QED
  BY <1>1, <1>2, <1>3, <1>4, <1>5, Steps, AsideFrame, LocalFrame

\* An undoubted row has no post before its current call can report one.
LEMMA NoPostYet ==
  ASSUME IInv, NEW r \in Row \ ambiguous,
         bpc[CurrentCall(r)] \notin {"marking", "ok"}
  PROVE  PostsOf(r) = {}
BY DEF IInv, OnlyPostIsCurrent

LEMMA OnlyPostIsCurrentStep ==
  ASSUME IInv, Next
  PROVE  OnlyPostIsCurrent'
<1> USE DEF IInv, OnlyPostIsCurrent, PostsOf, Created, CurrentCall
<1>1. ASSUME UNCHANGED <<attempt, bpc, try, ambiguous>>, Quiet
      PROVE  OnlyPostIsCurrent'
  BY <1>1 DEF Quiet, CurrentPost
<1>2. ASSUME NEW r \in Row, Submit(r) PROVE OnlyPostIsCurrent'
  <2>1. /\ UNCHANGED <<attempt, try, zstate, ambiguous>>
        /\ \A d \in Call \ {CurrentCall(r)} : bpc'[d] = bpc[d]
    BY <1>2 DEF Submit, TypeOK, zernioVars
  <2>2. bpc[CurrentCall(r)] = "none"
    BY <1>2 DEF Submit, TypeOK, CallsInOrder, BeforeSubmit
  <2>3. r \notin ambiguous => PostsOf(r) = {}
    BY <2>2, NoPostYet
  <2>4. \A q \in Row : CurrentCall(q) \in Call
    BY CurrentCallType
  <2> QED
    BY <2>1, <2>3, <2>4 DEF CurrentPost
<1>3. ASSUME NEW r \in Row, ReceiveError(r) PROVE OnlyPostIsCurrent'
  <2>1. UNCHANGED <<bpc, try, zstate, ambiguous>>
    BY <1>3 DEF ReceiveError, backendVars, zernioVars
  <2>2. r \notin ambiguous => PostsOf(r) = {}
    BY <1>3, NoPostYet DEF ReceiveError, Answered
  <2>3. \A q \in Row \ {r} : attempt'[q] = attempt[q]
    BY <1>3, NextAttemptFacts DEF ReceiveError
  <2> QED
    BY <2>1, <2>2, <2>3 DEF CurrentPost
<1>4. ASSUME NEW r \in Row, Timeout(r) \/ ReceiveOk(r)
      PROVE  OnlyPostIsCurrent'
  <2>1. UNCHANGED <<bpc, try, zstate>> /\ ambiguous \subseteq ambiguous'
    BY <1>4 DEF Timeout, ReceiveOk, backendVars, zernioVars
  <2>2. \A q \in Row \ ambiguous' : attempt'[q] = attempt[q]
    BY <1>4, NextAttemptFacts DEF Timeout, ReceiveOk
  <2> QED
    BY <2>1, <2>2 DEF CurrentPost
<1>5. ASSUME NEW c \in Call,
             \/ ReadRow(c) \/ Post_Refused(c) \/ Post_Unavailable(c)
             \/ MarkPublished(c) \/ CallDies(c)
      PROVE  OnlyPostIsCurrent'
  <2>1. /\ UNCHANGED <<attempt, zstate>>
        /\ ambiguous \subseteq ambiguous'
        /\ \A d \in Call \ {c} : bpc'[d] = bpc[d] /\ try'[d] = try[d]
    BY <1>5, CallFacts DEF ReadRow, Post_Refused, Post_Unavailable,
       MarkPublished, CallDies, pipelineVars
  <2>2. CASE bpc[c] \in {"read", "posting"}
    <3>1. ASSUME NEW r \in Row \ ambiguous', CurrentCall(r) = c
          PROVE  PostsOf(r) = {}
      BY <2>1, <2>2, <3>1, NoPostYet
    <3>2. ASSUME NEW r \in Row \ ambiguous', NEW z \in Post, z[1] = r,
                 zstate'[z] # "none"
          PROVE  /\ z = CurrentPost(CurrentCall(r))'
                 /\ bpc'[CurrentCall(r)'] \in {"marking", "ok"}
      <4>1. CurrentCall(r) # c /\ CurrentCall(r)' = CurrentCall(r)
        BY <2>1, <3>1, <3>2
      <4>2. CurrentCall(r) \in Call
        BY CurrentCallType
      <4> QED
        BY <2>1, <3>2, <4>1, <4>2 DEF CurrentPost
    <3> QED
      BY <3>2
  <2>3. CASE bpc[c] = "marking"
    <3>1. c[1] \in ambiguous' \/ (bpc'[c] = "ok" /\ UNCHANGED try)
      BY <1>5, <2>3 DEF ReadRow, Post_Refused, Post_Unavailable,
         MarkPublished, CallDies, Answer, TypeOK
    <3>2. ASSUME NEW r \in Row \ ambiguous', NEW z \in Post, z[1] = r,
                 zstate'[z] # "none"
          PROVE  /\ z = CurrentPost(CurrentCall(r))'
                 /\ bpc'[CurrentCall(r)'] \in {"marking", "ok"}
      <4>1. /\ CurrentCall(r)' = CurrentCall(r)
            /\ CurrentCall(r) \in Call
            /\ CurrentCall(r)[1] = r
        BY <2>1, CurrentCallType
      <4>2. /\ z = CurrentPost(CurrentCall(r))
            /\ bpc[CurrentCall(r)] \in {"marking", "ok"}
        BY <2>1, <3>2
      <4>3. CASE CurrentCall(r) = c
        BY <3>1, <4>1, <4>2, <4>3 DEF CurrentPost
      <4>4. CASE CurrentCall(r) # c
        BY <2>1, <4>1, <4>2, <4>4 DEF CurrentPost
      <4> QED
        BY <4>3, <4>4
    <3> QED
      BY <3>2
  <2> QED
    BY <1>5, <2>2, <2>3 DEF ReadRow, Post_Refused, Post_Unavailable,
       MarkPublished, CallDies
<1>6. ASSUME NEW c \in Call, Post_Accepted(c) PROVE OnlyPostIsCurrent'
  <2>1. /\ UNCHANGED attempt
        /\ ambiguous \subseteq ambiguous'
        /\ c[1] \in Row /\ CurrentPost(c) \in Post /\ CurrentPost(c)[1] = c[1]
    BY <1>6, AcceptedFacts, CurrentPostType
    DEF Post_Accepted, pipelineVars, CurrentPost
  <2>2. ASSUME NEW r \in Row \ ambiguous', NEW z \in Post, z[1] = r,
               zstate'[z] # "none"
        PROVE  /\ z = CurrentPost(CurrentCall(r))'
               /\ bpc'[CurrentCall(r)'] \in {"marking", "ok"}
    <3>1. /\ CurrentCall(r)' = CurrentCall(r)
          /\ CurrentCall(r) \in Call
          /\ CurrentCall(r)[1] = r
      BY <2>1, CurrentCallType
    <3>2. CASE c[1] = r
      <4>1. c = CurrentCall(r) /\ PostsOf(r) = {}
        BY <1>6, <2>1, <3>2, AcceptedFacts, BusyCallIsCurrent, NoPostYet
      <4>2. z = CurrentPost(c)
        BY <1>6, <2>2, <4>1, AcceptedFacts
      <4>3. UNCHANGED try /\ bpc'[c] \in {"marking", "ok"}
        BY <1>6, <2>2, <3>2, AcceptedFacts
      <4> QED
        BY <3>1, <4>1, <4>2, <4>3 DEF CurrentPost
    <3>3. CASE c[1] # r
      <4>1. z # CurrentPost(c) /\ c # CurrentCall(r)
        BY <2>1, <2>2, <3>1, <3>3
      <4>2. zstate[z] # "none"
        BY <1>6, <2>2, <4>1, AcceptedFacts
      <4>3. /\ z = CurrentPost(CurrentCall(r))
            /\ bpc[CurrentCall(r)] \in {"marking", "ok"}
        BY <2>1, <2>2, <4>2
      <4>4. /\ bpc'[CurrentCall(r)] = bpc[CurrentCall(r)]
            /\ try'[CurrentCall(r)] = try[CurrentCall(r)]
        BY <1>6, <3>1, <4>1, AcceptedFacts
      <4> QED
        BY <3>1, <4>3, <4>4 DEF CurrentPost
    <3> QED
      BY <3>2, <3>3
  <2> QED
    BY <2>2
<1> QED
  BY <1>1, <1>2, <1>3, <1>4, <1>5, <1>6, Steps, AsideFrame, AsideQuiet,
     LocalFrame

\* Nobody but ReceiveOk and ResetWrite writes a provider id.
LEMMA ProviderIds ==
  ASSUME IInv, Next
  PROVE  \A r \in Row : \/ providerId'[r] = providerId[r]
                        \/ providerId'[r] = NoPost /\ status'[r] = "pending"
                        \/ /\ \E c \in Call : c[1] = r /\ bpc[c] = "ok"
                                                /\ providerId'[r] = got[c]
                           /\ status'[r] = status[r]
<1> SUFFICES ASSUME ~ UNCHANGED providerId
    PROVE  \E r \in Row :
             /\ \A q \in Row \ {r} : providerId'[q] = providerId[q]
             /\ \/ providerId'[r] = NoPost /\ status'[r] = "pending"
                \/ /\ \E c \in Call : c[1] = r /\ bpc[c] = "ok"
                                        /\ providerId'[r] = got[c]
                   /\ status'[r] = status[r]
  OBVIOUS
<1>1. CASE Aside
  <2>1. ResetWrite
    BY <1>1 DEF Aside, ZernioFinishes, WebhookStep, Deliver, FindRow,
       ApplyEvent, HandlerDies, Review, CancelRead, ResetRead, CancelUpstream,
       CancelWrite, CancelDies, ResetUpstream, ResetDies
  <2>2. resetting.row \in Row
    BY <2>1 DEF ResetWrite, IInv, TypeOK, Handler, Idle
  <2> QED
    BY <2>1, <2>2 DEF ResetWrite, IInv, TypeOK
<1>2. ASSUME NEW r \in Row, ReceiveOk(r)
      PROVE  /\ \A q \in Row \ {r} : providerId'[q] = providerId[q]
             /\ \E c \in Call : c[1] = r /\ bpc[c] = "ok"
                                  /\ providerId'[r] = got[c]
             /\ status'[r] = status[r]
  <2>1. providerId' = [providerId EXCEPT ![r] = got[CurrentCall(r)]]
    BY <1>2 DEF ReceiveOk
  <2>2. CurrentCall(r) \in Call /\ CurrentCall(r)[1] = r
    BY CurrentCallType DEF CurrentCall, IInv
  <2> QED
    BY <1>2, <2>1, <2>2 DEF ReceiveOk, IInv, TypeOK
<1>3. ASSUME NEW r \in Row,
             Local(r) \/ Submit(r) \/ ReceiveError(r) \/ Timeout(r)
      PROVE  FALSE
  BY <1>3 DEF Local, Validate, CreateRow, Resolve, SupersedeUpstream, Claim,
     Schedule, Fail, Dies, Submit, ReceiveError, Timeout
<1>4. ASSUME NEW c \in Call,
             \/ ReadRow(c) \/ Post_Accepted(c) \/ Post_Refused(c)
             \/ Post_Unavailable(c) \/ MarkPublished(c) \/ CallDies(c)
      PROVE  FALSE
  BY <1>4 DEF ReadRow, Post_Accepted, Post_Refused, Post_Unavailable,
     MarkPublished, CallDies
<1> QED
  BY <1>1, <1>2, <1>3, <1>4, Steps

LEMMA NotMatched ==
  ASSUME TypeOK, NEW z \in Post, NEW s \in ZernioState, Becomes(z, s)
  PROVE  \A e \in Event : event'[e] = "matched" => event[e] = "matched"
BY DEF Becomes, TypeOK

LEMMA IdsAreOwnStep ==
  ASSUME IInv, Next
  PROVE  IdsAreOwn'
<1> DEFINE GotIsOwn == \A c \in Call : got[c] # NoPost => got[c][1] = c[1]
           OkHasGot == \A c \in Call :
                         bpc[c] \in {"marking", "ok"} => got[c] # NoPost
           RowsOwn == \A r \in Row : providerId[r] # NoPost => providerId[r][1] = r
           MatchOwn == \A e \in Event : event[e] = "matched" => match[e] = e[1][1]
<1>0. TypeOK /\ GotIsOwn /\ OkHasGot /\ RowsOwn /\ MatchOwn
  BY DEF IInv, IdsAreOwn
<1>1. GotIsOwn' /\ OkHasGot'
  <2>1. CASE UNCHANGED <<bpc, got>>
    BY <1>0, <2>1
  <2>2. ASSUME NEW r \in Row, Submit(r) PROVE GotIsOwn' /\ OkHasGot'
    BY <1>0, <2>2 DEF Submit, TypeOK
  <2>3. ASSUME NEW r \in Row, ReceiveError(r) \/ Timeout(r) \/ ReceiveOk(r)
        PROVE  UNCHANGED <<bpc, got>>
    BY <2>3 DEF ReceiveError, Timeout, ReceiveOk, backendVars
  <2>4. ASSUME NEW c \in Call, ReadRow(c) PROVE GotIsOwn' /\ OkHasGot'
    <3>1. \A d \in Call \ {c} : got'[d] = got[d] /\ bpc'[d] = bpc[d]
      BY <1>0, <2>4 DEF ReadRow, Answer, TypeOK
    <3>2. CASE got' = got /\ bpc'[c] \notin {"marking", "ok"}
      BY <1>0, <3>1, <3>2
    <3>3. CASE ~NeedsPost(c[1]) /\ got' = [got EXCEPT ![c] = providerId[c[1]]]
      BY <1>0, <3>1, <3>3, CurrentPostType DEF NeedsPost, TypeOK
    <3> QED
      BY <1>0, <2>4, <3>2, <3>3 DEF ReadRow, Answer, TypeOK
  <2>5. ASSUME NEW c \in Call, Post_Accepted(c) PROVE GotIsOwn' /\ OkHasGot'
    <3>1. CurrentPost(c) # NoPost /\ CurrentPost(c)[1] = c[1]
      BY <1>0, CurrentPostType, ConstantsAssumption DEF CurrentPost, Post
    <3>2. CASE got' = [got EXCEPT ![c] = CurrentPost(c)]
      BY <1>0, <2>5, <3>1, <3>2, AcceptedFacts DEF TypeOK
    <3>3. CASE UNCHANGED got /\ NextTry(c)
      BY <1>0, <3>3, NextTryFacts
    <3> QED
      BY <2>5, <3>2, <3>3 DEF Post_Accepted
  <2>6. ASSUME NEW c \in Call,
               \/ Post_Refused(c) \/ Post_Unavailable(c) \/ CallDies(c)
               \/ MarkPublished(c)
        PROVE  GotIsOwn' /\ OkHasGot'
    <3>1. UNCHANGED got /\ \A d \in Call \ {c} : bpc'[d] = bpc[d]
      BY <1>0, <2>6, CallFacts
      DEF Post_Refused, Post_Unavailable, CallDies, MarkPublished
    <3>2. bpc'[c] \in {"marking", "ok"} => bpc[c] = "marking"
      BY <1>0, <2>6, NextTryFacts
      DEF Post_Refused, Post_Unavailable, CallDies, MarkPublished, Answer,
          TypeOK
    <3> QED
      BY <1>0, <3>1, <3>2
  <2> QED
    BY <2>1, <2>2, <2>3, <2>4, <2>5, <2>6, <1>0, Steps, AsideFrame, LocalFrame
<1>2. RowsOwn'
  BY <1>0, ProviderIds
<1>3. MatchOwn'
  <2>1. ASSUME NEW e \in Event, FindRow(e) PROVE MatchOwn'
    <3>1. \A f \in Event \ {e} : event'[f] = event[f] /\ match'[f] = match[f]
      BY <1>0, <2>1 DEF FindRow, TypeOK
    <3>2. event'[e] = "matched" => match'[e] = e[1][1]
      <4>1. e[1] # NoPost
        BY ConstantsAssumption DEF Event, Post
      <4>2. ASSUME NEW r \in Row, Matches(r, e) PROVE r = e[1][1]
        BY <1>0, <4>1, <4>2 DEF Matches
      <4> QED
        BY <1>0, <2>1, <4>2 DEF FindRow, TypeOK
    <3> QED
      BY <1>0, <3>1, <3>2
  <2>2. ASSUME NEW e \in Event, Deliver(e) \/ ApplyEvent(e) \/ HandlerDies(e)
        PROVE  MatchOwn'
    BY <1>0, <2>2 DEF Deliver, ApplyEvent, HandlerDies, TypeOK
  <2>3. CASE /\ UNCHANGED match
             /\ \A e \in Event : event'[e] = "matched" => event[e] = "matched"
    BY <1>0, <2>3
  <2>4. ASSUME NEW z \in Post, ZernioFinishes(z) PROVE MatchOwn'
    BY <1>0, <2>3, <2>4, NotMatched DEF ZernioFinishes, ZernioState
  <2>5. ASSUME NEW q \in Row, DeleteUpstream(q), UNCHANGED match
        PROVE MatchOwn'
    BY <1>0, <2>3, <2>5, NotMatched DEF DeleteUpstream, Deletable, ZernioState,
       TypeOK
  <2>6. ASSUME NEW r \in Row, Local(r) PROVE MatchOwn'
    BY <1>0, <2>3, <2>5, <2>6 DEF Local, Validate, CreateRow, Resolve,
       SupersedeUpstream, Claim, Schedule, Fail, Dies, zernioVars, TypeOK
  <2>7. ASSUME NEW r \in Row,
               Submit(r) \/ ReceiveError(r) \/ Timeout(r) \/ ReceiveOk(r)
        PROVE  MatchOwn'
    BY <2>3, <2>7 DEF Submit, ReceiveError, Timeout, ReceiveOk, zernioVars
  <2>8. ASSUME NEW c \in Call,
               \/ ReadRow(c) \/ Post_Accepted(c) \/ Post_Refused(c)
               \/ Post_Unavailable(c) \/ MarkPublished(c) \/ CallDies(c)
        PROVE  MatchOwn'
    BY <1>0, <2>3, <2>8, AcceptedFacts DEF ReadRow, Post_Refused,
       Post_Unavailable, MarkPublished, CallDies, zernioVars
  <2>9. CASE CancelUpstream \/ ResetUpstream
    BY <1>0, <2>5, <2>9 DEF CancelUpstream, ResetUpstream, TypeOK, Handler, Idle
  <2>10. CASE \/ \E s \in ContentStatus : Review(s)
              \/ \E r \in Row : CancelRead(r) \/ ResetRead(r)
              \/ CancelWrite \/ CancelDies \/ ResetWrite \/ ResetDies
    BY <2>3, <2>10 DEF Review, CancelRead, ResetRead, CancelWrite, CancelDies,
       ResetWrite, ResetDies, zernioVars
  <2> QED
    BY <2>1, <2>2, <2>4, <2>6, <2>7, <2>8, <2>9, <2>10, Steps
    DEF Aside, WebhookStep
<1> QED
  BY <1>1, <1>2, <1>3 DEF IdsAreOwn

LEMMA NewsIsTrueStep ==
  ASSUME IInv, Next
  PROVE  NewsIsTrue'
<1> USE DEF IInv, NewsIsTrue
<1>0. \A c \in Call : CurrentPost(c) \in Post
  BY CurrentPostType
<1>1. ASSUME UNCHANGED <<bpc, try>>, Quiet PROVE NewsIsTrue'
  BY <1>0, <1>1 DEF Quiet, CurrentPost
<1>2. ASSUME NEW r \in Row, Submit(r) PROVE NewsIsTrue'
  BY <1>2 DEF Submit, TypeOK, zernioVars, CurrentPost
<1>3. ASSUME NEW r \in Row, ReceiveError(r) \/ Timeout(r) \/ ReceiveOk(r)
      PROVE  NewsIsTrue'
  BY <1>3 DEF ReceiveError, Timeout, ReceiveOk, backendVars, zernioVars,
              CurrentPost
<1>4. ASSUME NEW c \in Call,
             \/ ReadRow(c) \/ Post_Refused(c) \/ Post_Unavailable(c)
             \/ MarkPublished(c) \/ CallDies(c)
      PROVE  NewsIsTrue'
  BY <1>4, CallFacts DEF CurrentPost
<1>5. ASSUME NEW c \in Call, Post_Accepted(c) PROVE NewsIsTrue'
  <2>1. zstate[CurrentPost(c)] = "none"
    BY <1>5, AcceptedFacts DEF TypeOK, TriesAreFresh, CurrentPost
  <2>2. \A z \in Post : zstate[z] = "published" => zstate'[z] = "published"
    BY <1>5, <2>1, AcceptedFacts
  <2>3. ASSUME NEW d \in Call, bpc'[d] = "marking"
        PROVE  zstate'[CurrentPost(d)'] = "published"
    <3>1. CASE d = c
      <4>1. UNCHANGED try /\ zstate'[CurrentPost(c)] = "published"
        BY <1>5, <2>3, <3>1, AcceptedFacts
      <4> QED
        BY <3>1, <4>1 DEF CurrentPost
    <3>2. CASE d # c
      <4>1. bpc[d] = "marking" /\ try'[d] = try[d]
        BY <1>5, <2>3, <3>2, AcceptedFacts
      <4>2. CurrentPost(d)' = CurrentPost(d)
        BY <4>1 DEF CurrentPost
      <4> QED
        BY <1>0, <2>2, <4>1, <4>2
    <3> QED
      BY <3>1, <3>2
  <2> QED
    BY <1>5, <2>2, <2>3, AcceptedFacts
<1> QED
  BY <1>1, <1>2, <1>3, <1>4, <1>5, Steps, AsideFrame, AsideQuiet, LocalFrame

\* No step takes back what was published.
LEMMA PublishedStays ==
  ASSUME IInv, Next, NEW z \in Post, zstate[z] = "published"
  PROVE  zstate'[z] = "published"
<1>1. ASSUME NEW c \in Call, Post_Accepted(c) PROVE zstate'[z] = "published"
  <2>1. zstate[CurrentPost(c)] = "none"
    BY <1>1, AcceptedFacts DEF IInv, TypeOK, TriesAreFresh, CurrentPost
  <2> QED
    BY <1>1, <2>1, AcceptedFacts DEF IInv
<1>2. ASSUME NEW r \in Row,
             Submit(r) \/ ReceiveError(r) \/ Timeout(r) \/ ReceiveOk(r)
      PROVE  UNCHANGED zstate
  BY <1>2 DEF Submit, ReceiveError, Timeout, ReceiveOk, zernioVars
<1>3. ASSUME NEW c \in Call,
             \/ ReadRow(c) \/ Post_Refused(c) \/ Post_Unavailable(c)
             \/ MarkPublished(c) \/ CallDies(c)
      PROVE  UNCHANGED zstate
  BY <1>3, CallFacts DEF IInv
<1>4. ASSUME Quiet PROVE zstate'[z] = "published"
  BY <1>4 DEF Quiet
<1> QED
  BY <1>1, <1>2, <1>3, <1>4, Steps, AsideQuiet, LocalFrame DEF IInv

\* Only an applied event and the shortcut of publishPost say "published".
LEMMA MarkedPublished ==
  ASSUME IInv, Next, NEW r \in Row, status'[r] = "published"
  PROVE  \/ status[r] = "published"
         \/ \E z \in PostsOf(r) : zstate[z] = "published"
<1> USE DEF IInv
<1>1. ASSUME NEW c \in Call, MarkPublished(c), c[1] = r
      PROVE  \E z \in PostsOf(r) : zstate[z] = "published"
  <2>1. zstate[CurrentPost(c)] = "published" /\ CurrentPost(c)[1] = r
    BY <1>1 DEF NewsIsTrue, MarkPublished, CurrentPost
  <2> QED
    BY <2>1, CurrentPostType DEF PostsOf, Created
<1>2. ASSUME NEW e \in Event, ApplyEvent(e), match[e] = r
      PROVE  \/ status[r] = "published"
             \/ \E z \in PostsOf(r) : zstate[z] = "published"
  <2>1. PICK z \in Post, k \in EventKind : e = <<z, k>>
    BY DEF Event
  <2>2. status'[r] = StatusOf(k) /\ event[e] = "matched"
    BY <1>2, <2>1 DEF ApplyEvent, TypeOK
  <2>3. k = "published"
    BY <2>2 DEF StatusOf, EventKind
  <2>4. zstate[z] = "published" /\ z[1] = r
    BY <1>2, <2>1, <2>2, <2>3 DEF NewsIsTrue, IdsAreOwn
  <2> QED
    BY <2>4 DEF PostsOf, Created
<1>3. ASSUME NEW c \in Call, MarkPublished(c), c[1] # r
      PROVE  status[r] = "published"
  BY <1>3 DEF MarkPublished, TypeOK
<1>4. ASSUME NEW e \in Event, ApplyEvent(e), match[e] # r
      PROVE  status[r] = "published"
  BY <1>4 DEF ApplyEvent, TypeOK
<1>5. ASSUME NEW c \in Call,
             \/ ReadRow(c) \/ Post_Accepted(c) \/ Post_Refused(c)
             \/ Post_Unavailable(c) \/ CallDies(c)
      PROVE  UNCHANGED status
  BY <1>5 DEF ReadRow, Post_Accepted, Post_Refused, Post_Unavailable, CallDies
<1>6. ASSUME NEW q \in Row,
             \/ Local(q) \/ Submit(q) \/ ReceiveError(q) \/ Timeout(q)
             \/ ReceiveOk(q)
      PROVE  status[r] = "published"
  BY <1>6 DEF Local, Validate, CreateRow, Resolve, SupersedeUpstream, Claim,
     Schedule, Fail, Dies, Submit, ReceiveError, Timeout, ReceiveOk, TypeOK
<1>7. ASSUME Aside, \A e \in Event : ~ApplyEvent(e)
      PROVE  status[r] = "published"
  BY <1>7 DEF Aside, ZernioFinishes, WebhookStep, Deliver, FindRow,
     HandlerDies, Review, CancelRead, ResetRead, CancelUpstream, CancelWrite,
     CancelDies, ResetUpstream, ResetWrite, ResetDies, TypeOK
<1> QED
  BY <1>1, <1>2, <1>3, <1>4, <1>5, <1>6, <1>7, Steps

LEMMA PublishedIsRealStep ==
  ASSUME IInv, Next
  PROVE  PublishedIsReal'
<1>1. ASSUME NEW r \in Row, status'[r] = "published"
      PROVE  \E z \in PostsOf(r)' : zstate'[z] = "published"
  <2>1. PICK z \in PostsOf(r) : zstate[z] = "published"
    BY <1>1, MarkedPublished DEF IInv, PublishedIsReal
  <2>2. zstate'[z] = "published"
    BY <2>1, PublishedStays DEF PostsOf
  <2> QED
    BY <2>1, <2>2 DEF PostsOf, Created
<1> QED
  BY <1>1 DEF PublishedIsReal

LEMMA ProcessingIsExplainedStep ==
  ASSUME IInv, Next
  PROVE  ProcessingIsExplained'
<1> USE DEF IInv, ProcessingIsExplained, Running
<1>1. ASSUME UNCHANGED pc,
             \A r \in Row : status'[r] = "processing" => status[r] = "processing"
      PROVE  ProcessingIsExplained'
  <2>1. ASSUME NEW r \in Row, status'[r] = "processing",
               providerId[r] # NoPost, providerId'[r] = NoPost
        PROVE  FALSE
    <3>1. \E c \in Call : bpc[c] = "ok" /\ got[c] = NoPost
      BY <2>1, ProviderIds
    <3> QED
      BY <3>1 DEF IdsAreOwn
  <2> QED
    BY <1>1, <2>1
<1>2. ASSUME NEW q \in Row, Local(q) PROVE ProcessingIsExplained'
  <2>1. UNCHANGED providerId
    BY <1>2 DEF Local, Validate, CreateRow, Resolve, SupersedeUpstream, Claim,
       Schedule, Fail, Dies
  <2>2. \A p \in Row \ {q} :
          /\ pc'[p] = pc[p]
          /\ status'[p] = "processing" => status[p] = "processing"
    BY <1>2 DEF Local, Validate, CreateRow, Resolve, SupersedeUpstream, Claim,
       Schedule, Fail, Dies, Goto, TypeOK
  <2>3. \/ pc'[q] \notin {"idle", "done"}
        \/ status'[q] = "failed"
    BY <1>2 DEF Local, Validate, CreateRow, Resolve, SupersedeUpstream, Claim,
       Schedule, Fail, Dies, Goto, TypeOK
  <2> QED
    BY <2>1, <2>2, <2>3
<1>3. ASSUME NEW q \in Row,
             Submit(q) \/ ReceiveError(q) \/ Timeout(q) \/ ReceiveOk(q)
      PROVE  ProcessingIsExplained'
  <2>1. UNCHANGED status /\ \A p \in Row \ {q} : pc'[p] = pc[p]
    BY <1>3 DEF Submit, ReceiveError, Timeout, ReceiveOk, NextAttempt, Goto,
       TypeOK
  <2>2. \/ pc'[q] \in {"submit", "await", "fail"}
        \/ providerId'[q] = got[CurrentCall(q)] /\ bpc[CurrentCall(q)] = "ok"
    BY <1>3 DEF Submit, ReceiveError, Timeout, ReceiveOk, NextAttempt, Goto,
       TypeOK
  <2>3. bpc[CurrentCall(q)] = "ok" => got[CurrentCall(q)] # NoPost
    BY CurrentCallType DEF IdsAreOwn
  <2>4. \A p \in Row \ {q} : providerId'[p] = providerId[p]
    BY <1>3 DEF Submit, ReceiveError, Timeout, ReceiveOk, TypeOK
  <2> QED
    BY <2>1, <2>2, <2>3, <2>4
<1>4. ASSUME NEW c \in Call,
             \/ ReadRow(c) \/ Post_Accepted(c) \/ Post_Refused(c)
             \/ Post_Unavailable(c) \/ MarkPublished(c) \/ CallDies(c)
      PROVE  ProcessingIsExplained'
  <2>1. UNCHANGED pc
    BY <1>4 DEF ReadRow, Post_Accepted, Post_Refused, Post_Unavailable,
                MarkPublished, CallDies, pipelineVars
  <2>2. \A r \in Row : status'[r] = "processing" => status[r] = "processing"
    BY <1>4 DEF ReadRow, Post_Accepted, Post_Refused, Post_Unavailable,
                MarkPublished, CallDies, TypeOK
  <2> QED
    BY <1>1, <2>1, <2>2
<1>5. ASSUME Aside PROVE ProcessingIsExplained'
  <2>1. \A e \in Event : StatusOf(e[2]) # "processing"
    BY DEF Event, EventKind, StatusOf
  <2>2. \A r \in Row : status'[r] = "processing" => status[r] = "processing"
    BY <1>5, <2>1 DEF Aside, ZernioFinishes, WebhookStep, Deliver, FindRow,
       ApplyEvent, HandlerDies, Review, CancelRead, ResetRead, CancelUpstream,
       CancelWrite, CancelDies, ResetUpstream, ResetWrite, ResetDies, TypeOK
  <2> QED
    BY <1>1, <1>5, <2>2, AsideFrame
<1> QED
  BY <1>2, <1>3, <1>4, <1>5, Steps

-----------------------------------------------------------------------------
(* The theorems.                                                           *)

LEMMA InvInit == Init => IInv
<1> SUFFICES ASSUME Init PROVE IInv
  OBVIOUS
<1>1. TypeOK
  BY TypeInit
<1>2. \A z \in Post : zstate[z] = "none"
  BY DEF Init
<1>3. \A c \in Call, t \in 0 .. ApiRetries : <<c[1], c[2], t>> \in Post
  BY DEF Call, Post
<1>4. CallsInOrder /\ EarlierCallsFailed
  BY ConstantsAssumption DEF Init, CallsInOrder, EarlierCallsFailed, Call
<1>5. TriesAreFresh /\ OnlyPostIsCurrent
  BY <1>2, <1>3 DEF TriesAreFresh, OnlyPostIsCurrent, PostsOf, Created
<1>6. IdsAreOwn /\ NewsIsTrue
  BY DEF Init, IdsAreOwn, NewsIsTrue, Event, EventKind
<1>7. PublishedIsReal /\ ProcessingIsExplained
  BY DEF Init, PublishedIsReal, ProcessingIsExplained
<1> QED
  BY <1>1, <1>4, <1>5, <1>6, <1>7 DEF IInv

LEMMA InvStep == IInv /\ [Next]_vars => IInv'
<1> SUFFICES ASSUME IInv, [Next]_vars PROVE IInv'
  OBVIOUS
<1>1. TypeOK'
  BY TypeStep DEF IInv
<1>2. CASE Next
  BY <1>1, <1>2, CallsInOrderStep, TriesAreFreshStep, EarlierCallsFailedStep,
     OnlyPostIsCurrentStep, IdsAreOwnStep, NewsIsTrueStep,
     PublishedIsRealStep, ProcessingIsExplainedStep
  DEF IInv
<1>3. CASE UNCHANGED vars
  BY <1>3 DEF vars, IInv, TypeOK, CallsInOrder, TriesAreFresh,
     EarlierCallsFailed, OnlyPostIsCurrent, IdsAreOwn, NewsIsTrue,
     PublishedIsReal, ProcessingIsExplained, Running, PostsOf, Created,
     CurrentPost, CurrentCall
<1> QED
  BY <1>2, <1>3

\* The inductive invariant: no state of the publishing system violates it.
THEOREM Invariance == Spec => []IInv
BY InvInit, InvStep, PTL DEF Spec

\* A row that shows "published" has a post that was published, whatever the
\* faults and however many publishes of the content overlap.
THEOREM PublishedRowsAreReal == Spec => []PublishedIsReal
<1>1. IInv => PublishedIsReal
  BY DEF IInv
<1> QED
  BY Invariance, <1>1, PTL

\* The two retry loops submit an undoubted row at most once, for every number
\* of retries.
THEOREM NoDuplicateWithoutDoubt == Spec => []DuplicateNeedsDoubt
<1>1. IInv => DuplicateNeedsDoubt
  BY DEF IInv, OnlyPostIsCurrent, DuplicateNeedsDoubt
<1> QED
  BY Invariance, <1>1, PTL

\* The backend's own 4xx ends the pipeline of an undoubted row.
THEOREM RefusalsAreFinal == Spec => []RefusalIsFinal
<1>1. ASSUME IInv, NEW r \in Row \ ambiguous, NEW a \in 0 .. MaxRetries,
             bpc[<<r, a>>] = "http4xx"
      PROVE  a = attempt[r]
  <2>1. ~(a > attempt[r]) /\ ~(a < attempt[r])
    BY <1>1 DEF IInv, CallsInOrder, EarlierCallsFailed
  <2>2. attempt[r] \in 0 .. MaxRetries
    BY <1>1 DEF IInv, TypeOK
  <2> QED
    BY <2>1, <2>2, ConstantsAssumption
<1>2. IInv => RefusalIsFinal
  BY <1>1 DEF RefusalIsFinal
<1> QED
  BY Invariance, <1>2, PTL

\* A row that shows "processing" is worked on, or confirmable, or its pipeline
\* died.
THEOREM ProcessingHasAReason == Spec => []ProcessingIsExplained
<1>1. IInv => ProcessingIsExplained
  BY DEF IInv
<1> QED
  BY Invariance, <1>1, PTL
-----------------------------------------------------------------------------
(* The refinement: every step is a step of the ledger, or leaves it alone.   *)

\* Zernio finishes, or deletes, a post that waits.
Settles ==
  \E z \in Post, s \in {"published", "failed", "cancelled"} :
    /\ zstate[z] \in Waiting
    /\ zstate' = [zstate EXCEPT ![z] = s]

LEMMA SettlingFinishes ==
  ASSUME TypeOK, Settles, UNCHANGED <<status, ambiguous>>
  PROVE  \E z \in Post : Ledger!Finish(z)
<1>1. PICK z \in Post, s \in {"published", "failed", "cancelled"} :
        /\ zstate[z] \in Waiting
        /\ zstate' = [zstate EXCEPT ![z] = s]
  BY DEF Settles
<1>2. zstate'[z] = s /\ \A y \in Post \ {z} : zstate'[y] = zstate[y]
  BY <1>1 DEF TypeOK
<1>3. z \in InState(ZernioState \ {"none"})
  BY <1>1 DEF InState, Waiting, ZernioState
<1>4. z \notin InState({"published"}) \cup InState({"failed", "cancelled"})
  BY <1>1 DEF InState, Waiting
<1>5. InState(ZernioState \ {"none"})' = InState(ZernioState \ {"none"})
  BY <1>1, <1>2 DEF InState, Waiting, ZernioState
<1>6. CASE s = "published"
  <2>1. /\ InState({"published"})' = InState({"published"}) \cup {z}
        /\ InState({"failed", "cancelled"})' = InState({"failed", "cancelled"})
    BY <1>1, <1>2, <1>6 DEF InState, Waiting
  <2> QED
    BY <1>3, <1>4, <1>5, <2>1 DEF Ledger!Finish
<1>7. CASE s # "published"
  <2>1. /\ InState({"failed", "cancelled"})'
             = InState({"failed", "cancelled"}) \cup {z}
        /\ InState({"published"})' = InState({"published"})
    BY <1>1, <1>2, <1>7 DEF InState, Waiting
  <2> QED
    BY <1>3, <1>4, <1>5, <2>1 DEF Ledger!Finish
<1> QED
  BY <1>6, <1>7

\* The upstream delete settles a post or leaves Zernio alone.
LEMMA DeleteSettles ==
  ASSUME TypeOK, NEW q \in Row, DeleteUpstream(q)
  PROVE  Settles \/ UNCHANGED zstate
BY DEF TypeOK, DeleteUpstream, Deletable, Becomes, Settles

\* The row of a new post is without one, or in doubt.
LEMMA AcceptingAccepts ==
  ASSUME IInv, NEW c \in Call, Post_Accepted(c), ambiguous' \in SUBSET Row
  PROVE  \E z \in Post : Ledger!Accept(z)
<1> DEFINE z == CurrentPost(c)
<1> USE DEF IInv
<1>1. z \in Post /\ z[1] = c[1] /\ c[1] \in Row
  BY CurrentPostType DEF CurrentPost
<1>2. zstate[z] = "none" /\ zstate'[z] # "none"
  BY AcceptedFacts DEF TypeOK, TriesAreFresh, CurrentPost
<1>3. PICK s \in Accepted(c) : zstate' = [zstate EXCEPT ![z] = s]
  BY DEF Post_Accepted, Becomes
<1>4. s \in {"scheduled", "processing", "published"}
  BY DEF Accepted
<1>5. zstate'[z] = s /\ \A y \in Post \ {z} : zstate'[y] = zstate[y]
  BY <1>1, <1>3 DEF TypeOK
<1>6. z \notin InState(ZernioState \ {"none"})
  BY <1>2 DEF InState
<1>7. c[1] \in ambiguous
        \/ \A y \in InState(ZernioState \ {"none"}) : y[1] # c[1]
  <2>1. SUFFICES ASSUME c[1] \notin ambiguous
                 PROVE  \A y \in InState(ZernioState \ {"none"}) : y[1] # c[1]
    OBVIOUS
  <2>2. bpc[c] = "posting"
    BY AcceptedFacts
  <2>3. c = CurrentCall(c[1])
    BY <2>1, <2>2, BusyCallIsCurrent
  <2>4. PostsOf(c[1]) = {}
    BY <1>1, <2>1, <2>2, <2>3, NoPostYet
  <2> QED
    BY <2>4 DEF PostsOf, Created, InState
<1>8. InState(ZernioState \ {"none"})' = InState(ZernioState \ {"none"}) \cup {z}
  BY <1>1, <1>4, <1>5 DEF InState, ZernioState
<1>9. InState({"published"})'
        \in {InState({"published"}), InState({"published"}) \cup {z}}
  <2>1. CASE s = "published"
    BY <1>1, <1>5, <2>1 DEF InState
  <2>2. CASE s # "published"
    BY <1>2, <1>5, <2>2 DEF InState
  <2> QED
    BY <2>1, <2>2
<1>10. InState({"failed", "cancelled"})' = InState({"failed", "cancelled"})
  BY <1>2, <1>4, <1>5 DEF InState
<1>11. ambiguous \subseteq ambiguous' /\ UNCHANGED status
  BY DEF Post_Accepted
<1> QED
  BY <1>1, <1>6, <1>7, <1>8, <1>9, <1>10, <1>11 DEF Ledger!Accept

\* What else happens leaves Zernio alone; it touches the history or the doubts.
LEMMA RewritingRecords ==
  ASSUME IInv, Next, UNCHANGED <<zstate, ambiguous>>
  PROVE  Ledger!Record
<1>1. ASSUME NEW r \in Row, status'[r] = "published", status[r] # "published"
      PROVE  \E z \in InState({"published"}) : z[1] = r
  BY <1>1, MarkedPublished DEF PostsOf, InState
<1> QED
  BY <1>1 DEF Ledger!Record, InState

LEMMA DoubtingDoubts ==
  ASSUME UNCHANGED <<zstate, status>>, ambiguous \subseteq ambiguous',
         ambiguous' \in SUBSET Row
  PROVE  Ledger!Doubt
BY DEF Ledger!Doubt, InState

LEMMA LedgerStep ==
  ASSUME IInv, Next
  PROVE  Ledger!Next
<1> USE DEF IInv
<1>0. ambiguous' \in SUBSET Row
  BY TypeStep DEF TypeOK
<1>1. ASSUME Settles, UNCHANGED <<status, ambiguous>> PROVE Ledger!Next
  BY <1>1, SettlingFinishes DEF Ledger!Next
<1>2. ASSUME UNCHANGED <<zstate, ambiguous>> PROVE Ledger!Next
  BY <1>2, RewritingRecords DEF Ledger!Next
<1>3. ASSUME UNCHANGED <<zstate, status>>, ambiguous \subseteq ambiguous'
      PROVE  Ledger!Next
  BY <1>0, <1>3, DoubtingDoubts DEF Ledger!Next
<1>4. ASSUME NEW r \in Row, Local(r) PROVE Ledger!Next
  <2>1. CASE SupersedeUpstream(r)
    BY <1>1, <1>2, <2>1, DeleteSettles DEF SupersedeUpstream, TypeOK
  <2>2. CASE ~SupersedeUpstream(r)
    BY <1>2, <1>4, <2>2 DEF Local, Validate, CreateRow, Resolve, Claim,
       Schedule, Fail, Dies, zernioVars
  <2> QED
    BY <2>1, <2>2
<1>5. ASSUME NEW r \in Row,
             Submit(r) \/ ReceiveError(r) \/ Timeout(r) \/ ReceiveOk(r)
      PROVE  Ledger!Next
  BY <1>3, <1>5 DEF Submit, ReceiveError, Timeout, ReceiveOk, zernioVars
<1>6. ASSUME NEW c \in Call, Post_Accepted(c) PROVE Ledger!Next
  BY <1>0, <1>6, AcceptingAccepts DEF Ledger!Next
<1>7. ASSUME NEW c \in Call,
             \/ ReadRow(c) \/ Post_Refused(c) \/ Post_Unavailable(c)
             \/ MarkPublished(c) \/ CallDies(c)
      PROVE  Ledger!Next
  BY <1>2, <1>3, <1>7 DEF ReadRow, Post_Refused, Post_Unavailable,
     MarkPublished, CallDies, zernioVars
<1>8. ASSUME Aside PROVE Ledger!Next
  <2>1. ASSUME NEW z \in Post, ZernioFinishes(z) PROVE Ledger!Next
    BY <1>1, <2>1 DEF ZernioFinishes, Becomes, Settles
  <2>2. CASE CancelUpstream \/ ResetUpstream
    BY <1>1, <1>2, <2>2, DeleteSettles
    DEF CancelUpstream, ResetUpstream, TypeOK, Handler, Idle
  <2>3. ASSUME NEW e \in Event, WebhookStep(e) \/ HandlerDies(e)
        PROVE  Ledger!Next
    BY <1>2, <2>3 DEF WebhookStep, Deliver, FindRow, ApplyEvent, HandlerDies
  <2>4. CASE \/ \E s \in ContentStatus : Review(s)
             \/ \E r \in Row : CancelRead(r) \/ ResetRead(r)
             \/ CancelWrite \/ CancelDies \/ ResetWrite \/ ResetDies
    BY <1>2, <2>4 DEF Review, CancelRead, ResetRead, CancelWrite, CancelDies,
       ResetWrite, ResetDies, zernioVars
  <2> QED
    BY <1>8, <2>1, <2>2, <2>3, <2>4 DEF Aside
<1> QED
  BY <1>4, <1>5, <1>6, <1>7, <1>8, Steps

LEMMA LedgerInit == Init => Ledger!Init
<1>1. Init => \A z \in Post : zstate[z] = "none"
  BY DEF Init
<1>2. Init => InState(ZernioState \ {"none"}) = {} /\ InState({"published"}) = {}
                /\ InState({"failed", "cancelled"}) = {}
  BY <1>1 DEF InState
<1> QED
  BY <1>2 DEF Init, Ledger!Init

\* Publishing implements the ledger for any rows, retry limits and faults: a
\* second submission of a row follows a doubt, every success a publication.
THEOREM LedgerIsKept == Spec => ImplementsLedger
<1>1. IInv /\ [Next]_vars => [Ledger!Next]_(Ledger!vars)
  <2>1. CASE UNCHANGED vars
    BY <2>1 DEF vars, Ledger!vars, InState
  <2> QED
    BY <2>1, LedgerStep
<1> QED
  BY <1>1, LedgerInit, Invariance, PTL DEF Spec, ImplementsLedger, Ledger!Spec

-----------------------------------------------------------------------------
(* One publish at a time, with an undisturbed network: one lemma for each    *)
(* conjunct of SerialInv.                                                    *)

\* What can still happen.
LEMMA SerialSteps ==
  ASSUME Undisturbed, InTurn, Next
  PROVE  \/ \E r \in Row :
              \/ Local(r) /\ ~Dies(r)
              \/ Submit(r) \/ ReceiveError(r) \/ ReceiveOk(r)
         \/ \E c \in Call : \/ ReadRow(c) \/ Post_Accepted(c)
                            \/ Post_Refused(c) \/ MarkPublished(c)
         \/ \E z \in Post : ZernioFinishes(z)
         \/ \E e \in Event : WebhookStep(e)
         \/ \E s \in ContentStatus : Review(s)
<1>1. \A f \in FaultKind \ {"refuse"} : f \notin Faults
  BY DEF Undisturbed
<1>2. /\ \A r \in Row : ~Timeout(r) /\ ~Dies(r) /\ ~CancelRead(r) /\ ~ResetRead(r)
      /\ \A c \in Call : ~Post_Unavailable(c) /\ ~CallDies(c)
      /\ \A e \in Event : ~HandlerDies(e)
      /\ ~CancelDies /\ ~ResetDies
  BY <1>1 DEF FaultKind, Timeout, Dies, CancelRead, ResetRead,
     Post_Unavailable, CallDies, HandlerDies, CancelDies, ResetDies
<1>3. ~CancelUpstream /\ ~CancelWrite /\ ~ResetUpstream /\ ~ResetWrite
  BY DEF InTurn, Idle, CancelUpstream, CancelWrite, ResetUpstream, ResetWrite
<1> QED
  BY <1>2, <1>3 DEF Next, PipelineStep, BackendStep, Local

\* Where a pipeline that sends and gets nothing goes.
LEMMA LocalPath ==
  ASSUME Undisturbed, TypeOK, NEW r \in Row, Local(r), ~Dies(r)
  PROVE  /\ \A q \in Row \ {r} : pc'[q] = pc[q]
         /\ \/ pc[r] = "idle" /\ pc'[r] = "validated" /\ Validate(r)
            \/ pc[r] = "validated" /\ pc'[r] = "resolve" /\ CreateRow(r)
            \/ pc[r] = "resolve" /\ pc'[r] \in {"raised", "supersede"} /\ Resolve(r)
            \/ /\ pc[r] = "supersede" /\ pc'[r] = "supersede"
               /\ SupersedeUpstream(r)
            \/ pc[r] = "supersede" /\ pc'[r] \in {"raised", "schedule"} /\ Claim(r)
            \/ pc[r] = "schedule" /\ pc'[r] = "submit" /\ Schedule(r)
            \/ pc[r] = "fail" /\ pc'[r] = "done" /\ Fail(r)
         /\ UNCHANGED <<providerId, cancelling, resetting>>
BY DEF Local, Validate, CreateRow, Resolve, SupersedeUpstream, Claim, Schedule,
   Fail, Goto, TypeOK, userVars

\* Where it goes when a call is sent or answered.
LEMMA CallPath ==
  ASSUME Undisturbed, TypeOK, NEW r \in Row,
         Submit(r) \/ ReceiveError(r) \/ ReceiveOk(r)
  PROVE  /\ \A q \in Row \ {r} :
              /\ pc'[q] = pc[q] /\ attempt'[q] = attempt[q]
              /\ providerId'[q] = providerId[q]
         /\ \/ /\ Submit(r) /\ pc[r] = "submit" /\ pc'[r] = "await"
               /\ UNCHANGED <<attempt, providerId>>
               /\ bpc' = [bpc EXCEPT ![CurrentCall(r)] = "read"]
            \/ /\ ReceiveError(r) /\ pc[r] = "await"
               /\ bpc[CurrentCall(r)] \in Answered \ {"ok"}
               /\ \/ pc'[r] = "submit"
                  \/ pc'[r] = "fail" /\ UNCHANGED attempt
               /\ UNCHANGED <<bpc, providerId>>
            \/ /\ ReceiveOk(r) /\ pc[r] = "await" /\ pc'[r] = "done"
               /\ bpc[CurrentCall(r)] = "ok"
               /\ providerId'[r] = got[CurrentCall(r)]
               /\ UNCHANGED <<attempt, bpc>>
         /\ UNCHANGED <<status, got, try, zstate, event, match, todo, ambiguous,
                        cancelling, resetting>>
<1>1. "dberror" \notin Faults
  BY DEF Undisturbed
<1>2. CASE Submit(r)
  BY <1>2 DEF Submit, Goto, TypeOK, zernioVars, userVars
<1>3. CASE ReceiveError(r)
  <2>1. \/ pc'[r] = "submit"
        \/ pc'[r] = "fail" /\ UNCHANGED attempt
    BY <1>3 DEF ReceiveError, NextAttempt, Goto, TypeOK
  <2>2. \A q \in Row \ {r} : pc'[q] = pc[q] /\ attempt'[q] = attempt[q]
    BY <1>3 DEF ReceiveError, NextAttempt, Goto, TypeOK
  <2> QED
    BY <1>3, <2>1, <2>2 DEF ReceiveError, backendVars, zernioVars, userVars
<1>4. CASE ReceiveOk(r)
  BY <1>1, <1>4 DEF ReceiveOk, Goto, TypeOK, backendVars, zernioVars, userVars
<1> QED
  BY <1>2, <1>3, <1>4

\* What a step of the backend leaves alone.
LEMMA BackendFrame ==
  ASSUME Undisturbed, TypeOK, NEW c \in Call,
         \/ ReadRow(c) \/ Post_Accepted(c) \/ Post_Refused(c)
         \/ MarkPublished(c)
  PROVE  /\ UNCHANGED <<pipelineVars, providerId, match, try, ambiguous,
                        cancelling, resetting>>
         /\ bpc[c] \in {"read", "posting", "marking"}
         /\ \A d \in Call \ {c} : bpc'[d] = bpc[d] /\ got'[d] = got[d]
         /\ \/ /\ ReadRow(c) \/ Post_Refused(c)
               /\ UNCHANGED <<status, zstate, event>>
               /\ bpc[c] \in {"read", "posting"}
               /\ UNCHANGED got \/ providerId[c[1]] # NoPost
            \/ /\ MarkPublished(c)
               /\ UNCHANGED <<zstate, event, got>>
               /\ bpc[c] = "marking" /\ bpc'[c] = "ok"
               /\ status' = [status EXCEPT ![c[1]] = "published"]
            \/ /\ Post_Accepted(c)
               /\ bpc[c] = "posting"
               /\ UNCHANGED status
<1>1. "lost" \notin Faults /\ "dberror" \notin Faults
  BY DEF Undisturbed
<1>2. CASE ReadRow(c)
  BY <1>2 DEF ReadRow, Answer, NeedsPost, TypeOK, zernioVars, userVars
<1>3. CASE Post_Accepted(c)
  BY <1>1, <1>3 DEF Post_Accepted, Answer, TypeOK, userVars
<1>4. CASE Post_Refused(c)
  BY <1>4 DEF Post_Refused, Answer, TypeOK, zernioVars, userVars
<1>5. CASE MarkPublished(c)
  BY <1>1, <1>5 DEF MarkPublished, Answer, TypeOK, zernioVars, userVars
<1> QED
  BY <1>2, <1>3, <1>4, <1>5

\* What Zernio, its webhooks and the reviewer leave alone.
LEMMA OutsideFrame ==
  ASSUME \/ \E z \in Post : ZernioFinishes(z)
         \/ \E e \in Event : WebhookStep(e)
         \/ \E s \in ContentStatus : Review(s)
  PROVE  /\ UNCHANGED <<pipelineVars, backendVars, providerId, ambiguous,
                        cancelling, resetting>>
         /\ (\A e \in Event : ~ApplyEvent(e)) => UNCHANGED status
BY DEF ZernioFinishes, WebhookStep, Deliver, FindRow, ApplyEvent, Review,
       userVars

LEMMA InTurnStep ==
  ASSUME Undisturbed, IInv, SerialInv, Next
  PROVE  InTurn'
<1> USE DEF IInv, SerialInv, InTurn, Running
<1>1. ASSUME NEW r \in Row, Local(r), ~Dies(r) PROVE InTurn'
  <2>1. UNCHANGED <<ambiguous, cancelling, resetting>>
    BY <1>1, LocalFrame, LocalPath
  <2>2. CASE Validate(r)
    <3>1. \A q \in Row : ~Running(q)
      BY <2>2 DEF Validate, Undisturbed
    <3> QED
      BY <1>1, <2>1, <3>1, LocalPath
  <2>3. CASE ~Validate(r)
    <3>1. Running(r) /\ \A q \in Row \ {r} : pc'[q] = pc[q]
      BY <1>1, <2>3, LocalPath
    <3> QED
      BY <2>1, <3>1
  <2> QED
    BY <2>2, <2>3
<1>2. ASSUME NEW r \in Row, Submit(r) \/ ReceiveError(r) \/ ReceiveOk(r)
      PROVE  InTurn'
  <2>1. Running(r) /\ \A q \in Row \ {r} : pc'[q] = pc[q]
    BY <1>2, CallPath
  <2>2. UNCHANGED <<ambiguous, cancelling, resetting>>
    BY <1>2, CallPath
  <2> QED
    BY <2>1, <2>2
<1>3. CASE UNCHANGED <<pc, ambiguous, cancelling, resetting>>
  BY <1>3
<1> QED
  BY <1>1, <1>2, <1>3, SerialSteps, BackendFrame, OutsideFrame
  DEF pipelineVars

\* Where the pipeline of a row with a post is, and that the row's call knows
\* the post.
LEMMA PostRow ==
  ASSUME IInv, InTurn, CallsAreAwaited, PostsAreKnown,
         NEW r \in Row, NEW z \in PostsOf(r)
  PROVE  /\ z = CurrentPost(CurrentCall(r))
         /\ bpc[CurrentCall(r)] \in {"marking", "ok"}
         /\ \/ pc[r] = "await"
            \/ pc[r] = "done" /\ providerId[r] = z
<1>1. /\ z = CurrentPost(CurrentCall(r))
      /\ bpc[CurrentCall(r)] \in {"marking", "ok"}
  BY DEF IInv, InTurn, OnlyPostIsCurrent
<1>2. pc[r] \notin BeforeSubmit
  BY <1>1 DEF IInv, CallsInOrder, CurrentCall, TypeOK
<1>3. pc[r] \notin {"fail", "raised"}
  BY <1>1 DEF CallsAreAwaited
<1>4. pc[r] \in {"await", "done"}
  BY <1>2, <1>3 DEF IInv, TypeOK, PipelineState, BeforeSubmit
<1> QED
  BY <1>1, <1>4 DEF PostsAreKnown

\* The call that is being worked on is the one its pipeline waits for.
LEMMA WorkedOn ==
  ASSUME IInv, SerialInv, NEW c \in Call,
         bpc[c] \in {"read", "posting", "marking"}
  PROVE  /\ c[1] \in Row /\ c = CurrentCall(c[1])
         /\ pc[c[1]] = "await" /\ providerId[c[1]] = NoPost
<1>1. c[1] \in Row
  BY DEF Call
<1>2. c = CurrentCall(c[1])
  BY BusyCallIsCurrent DEF SerialInv, InTurn
<1>3. pc[c[1]] = "await"
  BY DEF SerialInv, CallsAreAwaited
<1> QED
  BY <1>1, <1>2, <1>3 DEF SerialInv, PostsAreKnown

\* A new post is the first of its row, and its call is going to report it.
LEMMA NewPost ==
  ASSUME Undisturbed, IInv, SerialInv, NEW c \in Call, Post_Accepted(c)
  PROVE  /\ PostsOf(c[1]) = {}
         /\ CurrentPost(c) \in Post /\ CurrentPost(c)[1] = c[1]
         /\ zstate[CurrentPost(c)] = "none"
         /\ got'[c] = CurrentPost(c)
         /\ \A z \in Post \ {CurrentPost(c)} : zstate'[z] = zstate[z]
         /\ \A z \in Post, k \in {"published", "failed", "cancelled"} :
              event'[<<z, k>>] # "unsent" =>
                \/ event[<<z, k>>] # "unsent"
                \/ z = CurrentPost(c) /\ zstate'[z] = "published"
         /\ zstate'[CurrentPost(c)] # "none"
         /\ bpc'[c] # bpc[c]
<1>1. bpc[c] = "posting" /\ "lost" \notin Faults
  BY DEF Post_Accepted, Undisturbed
<1>2. PICK s \in Accepted(c) : Becomes(CurrentPost(c), s)
  BY DEF Post_Accepted
<1>3. s \in {"scheduled", "processing", "published"}
  BY DEF Accepted
<1>4. CurrentPost(c) \in Post /\ CurrentPost(c)[1] = c[1]
  BY CurrentPostType DEF IInv, CurrentPost
<1>5. got' = [got EXCEPT ![c] = CurrentPost(c)] /\ bpc'[c] # bpc[c]
  BY <1>1 DEF Post_Accepted, Answer, IInv, TypeOK
<1>6. PostsOf(c[1]) = {}
  BY <1>1, WorkedOn, NoPostYet DEF SerialInv, InTurn
<1>7. /\ zstate'[CurrentPost(c)] = s
      /\ \A z \in Post \ {CurrentPost(c)} : zstate'[z] = zstate[z]
  BY <1>2, <1>4 DEF Becomes, IInv, TypeOK
<1>8. ASSUME NEW z \in Post, NEW k \in {"published", "failed", "cancelled"},
             event'[<<z, k>>] # "unsent", event[<<z, k>>] = "unsent"
      PROVE  z = CurrentPost(c) /\ zstate'[z] = "published"
  <2>1. <<z, k>> \in Event
    BY DEF Event, EventKind
  <2>2. <<z, k>> = <<CurrentPost(c), s>>
    BY <1>2, <1>8, <2>1 DEF Becomes, IInv, TypeOK
  <2> QED
    BY <1>3, <1>7, <2>2
<1> QED
  BY <1>3, <1>4, <1>5, <1>6, <1>7, <1>8 DEF PostsOf, Created, IInv, TypeOK

LEMMA CallsAreAwaitedStep ==
  ASSUME Undisturbed, IInv, SerialInv, Next
  PROVE  CallsAreAwaited'
<1> USE DEF CallsAreAwaited
<1>0. TypeOK /\ CallsAreAwaited
  BY DEF IInv, SerialInv
<1>1. ASSUME NEW r \in Row, Local(r), ~Dies(r) PROVE CallsAreAwaited'
  <2>1. UNCHANGED <<attempt, bpc>> /\ \A q \in Row \ {r} : pc'[q] = pc[q]
    BY <1>0, <1>1, LocalFrame, LocalPath
  <2>2. pc[r] # "await" /\ (pc'[r] \in {"fail", "raised"} => pc[r] \in BeforeSubmit)
    BY <1>0, <1>1, LocalPath DEF BeforeSubmit
  <2>3. pc[r] \in BeforeSubmit => bpc[CurrentCall(r)] = "none"
    BY DEF IInv, CallsInOrder, CurrentCall, TypeOK
  <2> QED
    BY <1>0, <2>1, <2>2, <2>3 DEF CurrentCall, Call
<1>2. ASSUME NEW r \in Row, Submit(r) \/ ReceiveError(r) \/ ReceiveOk(r)
      PROVE  CallsAreAwaited'
  <2>1. \A q \in Row \ {r} : pc'[q] = pc[q] /\ attempt'[q] = attempt[q]
    BY <1>0, <1>2, CallPath
  <2>2. \A q \in Row : CurrentCall(q) \in Call /\ CurrentCall(q)[1] = q
    BY <1>0, CurrentCallType DEF CurrentCall
  <2>3. \A q \in Row \ {r} : CurrentCall(q)' = CurrentCall(q)
    BY <2>1 DEF CurrentCall
  <2>4. CASE /\ pc'[r] = "await"
             /\ bpc' = [bpc EXCEPT ![CurrentCall(r)] = "read"]
    <3>1. \A c \in Call : c[1] \in Row
      BY DEF Call
    <3>2. /\ bpc'[CurrentCall(r)] = "read"
          /\ \A c \in Call \ {CurrentCall(r)} : bpc'[c] = bpc[c]
      BY <1>0, <2>2, <2>4 DEF TypeOK
    <3> QED
      BY <1>0, <2>1, <2>2, <2>3, <2>4, <3>1, <3>2
  <2>5. CASE /\ UNCHANGED bpc
             /\ bpc[CurrentCall(r)] \in Answered
             /\ \/ pc'[r] \in {"submit", "done"}
                \/ /\ pc'[r] = "fail" /\ UNCHANGED attempt
                   /\ bpc[CurrentCall(r)] # "ok"
    <3>1. ASSUME NEW c \in Call, bpc[c] \in {"read", "posting", "marking"}
          PROVE  c[1] # r
      BY <2>5, <3>1, WorkedOn DEF Answered
    <3>2. \A c \in Call : c[1] \in Row
      BY DEF Call
    <3> QED
      BY <1>0, <2>1, <2>3, <2>5, <3>1, <3>2 DEF CurrentCall, Answered
  <2> QED
    BY <1>0, <1>2, <2>4, <2>5, CallPath DEF Answered
<1>3. ASSUME NEW c \in Call,
             \/ ReadRow(c) \/ Post_Accepted(c) \/ Post_Refused(c)
             \/ MarkPublished(c)
      PROVE  CallsAreAwaited'
  <2>1. UNCHANGED <<pc, attempt>> /\ \A d \in Call \ {c} : bpc'[d] = bpc[d]
    BY <1>0, <1>3, BackendFrame DEF pipelineVars
  <2>2. pc[c[1]] = "await" /\ c[1] \in Row
    BY <1>0, <1>3, BackendFrame, WorkedOn
  <2>3. ASSUME NEW r \in Row, pc[r] \in {"fail", "raised"}
        PROVE  CurrentCall(r) # c /\ CurrentCall(r) \in Call
    BY <1>0, <2>2, <2>3, CurrentCallType DEF CurrentCall
  <2> QED
    BY <1>0, <2>1, <2>2, <2>3 DEF CurrentCall
<1>4. CASE UNCHANGED <<pc, attempt, bpc>>
  BY <1>0, <1>4 DEF CurrentCall
<1> QED
  BY <1>1, <1>2, <1>3, <1>4, SerialSteps, OutsideFrame
  DEF SerialInv, pipelineVars, backendVars

LEMMA PostsAreKnownStep ==
  ASSUME Undisturbed, IInv, SerialInv, Next
  PROVE  PostsAreKnown'
<1> USE DEF PostsAreKnown, PostsOf, Created
<1>0. /\ TypeOK /\ InTurn /\ CallsAreAwaited /\ PostsAreKnown
      /\ \A r \in Row : CurrentCall(r) \in Call /\ CurrentCall(r)[1] = r
  BY CurrentCallType DEF IInv, SerialInv, CurrentCall
<1>1. ASSUME NEW r \in Row, Local(r), ~Dies(r) PROVE PostsAreKnown'
  <2>1. UNCHANGED <<attempt, got, providerId>> /\ Quiet
    BY <1>0, <1>1, LocalFrame, LocalPath
  <2>2. \A q \in Row \ {r} : pc'[q] = pc[q]
    BY <1>0, <1>1, LocalPath
  <2>3. PostsOf(r) = {} \/ pc'[r] # "done"
    BY <1>0, <1>1, LocalPath, PostRow
  <2>4. pc[r] # "done"
    BY <1>0, <1>1, LocalPath
  <2> QED
    BY <1>0, <2>1, <2>2, <2>3, <2>4 DEF Quiet, CurrentCall
<1>2. ASSUME NEW r \in Row, Submit(r) \/ ReceiveError(r) \/ ReceiveOk(r)
      PROVE  PostsAreKnown'
  <2>1. UNCHANGED <<got, zstate>> /\
        \A q \in Row \ {r} : /\ pc'[q] = pc[q] /\ attempt'[q] = attempt[q]
                             /\ providerId'[q] = providerId[q]
    BY <1>0, <1>2, CallPath
  <2>2. \/ /\ PostsOf(r) = {}
           /\ pc[r] # "done" /\ providerId'[r] = providerId[r]
        \/ /\ pc'[r] = "done" /\ providerId'[r] = got[CurrentCall(r)]
           /\ UNCHANGED attempt
    <3>1. CASE Submit(r)
      BY <1>0, <1>2, <3>1, CallPath, PostRow DEF Submit
    <3>2. CASE ReceiveError(r)
      BY <1>0, <3>2, CallPath, PostRow DEF ReceiveError, Answered
    <3>3. CASE ReceiveOk(r)
      BY <1>0, <3>3, CallPath DEF ReceiveOk
    <3> QED
      BY <1>2, <3>1, <3>2, <3>3
  <2> QED
    BY <1>0, <2>1, <2>2 DEF CurrentCall
<1>3. ASSUME NEW c \in Call, ReadRow(c) \/ Post_Refused(c) \/ MarkPublished(c)
      PROVE  PostsAreKnown'
  <2>1. UNCHANGED <<pc, attempt, providerId, zstate>>
    BY <1>0, <1>3, BackendFrame, AcceptedFacts DEF pipelineVars,
       ReadRow, Post_Refused, MarkPublished, zernioVars
  <2>2. UNCHANGED got
    <3>1. providerId[c[1]] = NoPost
      BY <1>0, <1>3, BackendFrame, WorkedOn
    <3> QED
      BY <1>0, <1>3, <3>1
      DEF ReadRow, Post_Refused, MarkPublished, NeedsPost
  <2> QED
    BY <1>0, <2>1, <2>2 DEF CurrentCall
<1>4. ASSUME NEW c \in Call, Post_Accepted(c) PROVE PostsAreKnown'
  <2>1. /\ UNCHANGED <<pc, attempt, providerId>>
        /\ \A d \in Call \ {c} : got'[d] = got[d]
    BY <1>0, <1>4, BackendFrame DEF pipelineVars
  <2>2. c[1] \in Row /\ c = CurrentCall(c[1]) /\ pc[c[1]] = "await"
    BY <1>0, <1>4, BackendFrame, WorkedOn
  <2>3. ASSUME NEW r \in Row, NEW z \in Post, z[1] = r, zstate'[z] # "none"
        PROVE  got'[CurrentCall(r)] = z /\ (pc[r] = "done" => providerId[r] = z)
    <3>1. CASE z = CurrentPost(c)
      BY <1>4, <2>2, <2>3, <3>1, NewPost
    <3>2. CASE z # CurrentPost(c)
      <4>1. z \in PostsOf(r) /\ r # c[1]
        BY <1>4, <2>3, <3>2, NewPost
      <4> QED
        BY <1>0, <2>1, <2>2, <4>1
    <3> QED
      BY <3>1, <3>2
  <2> QED
    BY <1>0, <2>1, <2>3 DEF CurrentCall
<1>5. ASSUME \/ \E z \in Post : ZernioFinishes(z)
             \/ \E e \in Event : WebhookStep(e)
             \/ \E s \in ContentStatus : Review(s)
      PROVE  PostsAreKnown'
  <2>1. UNCHANGED <<pc, attempt, got, providerId>>
    BY <1>5, OutsideFrame DEF pipelineVars, backendVars
  <2>2. Quiet
    BY <1>0, <1>5, AsideQuiet DEF Aside
  <2> QED
    BY <1>0, <2>1, <2>2 DEF Quiet, CurrentCall
<1> QED
  BY <1>0, <1>1, <1>2, <1>3, <1>4, <1>5, SerialSteps

\* A step of Zernio and its users that leaves every post as it is, except that
\* a waiting one may get through, with its news.
Settling ==
  /\ \A z \in Post :
       \/ zstate'[z] = zstate[z]
       \/ zstate[z] \in Waiting /\ zstate'[z] \in {"published", "failed", "cancelled"}
  /\ \A z \in Post, k \in {"published", "failed", "cancelled"} :
       event'[<<z, k>>] # "unsent" =>
         event[<<z, k>>] # "unsent" \/ zstate'[z] \in {"published", "failed", "cancelled"}

LEMMA BecomesSettling ==
  ASSUME TypeOK, NEW z \in Post, zstate[z] \in Waiting,
         NEW s \in {"published", "failed", "cancelled"}, Becomes(z, s)
  PROVE  Settling
<1>1. /\ zstate'[z] = s
      /\ \A y \in Post \ {z} : zstate'[y] = zstate[y]
  BY DEF TypeOK, Becomes
<1>2. ASSUME NEW y \in Post, NEW k \in {"published", "failed", "cancelled"},
             event'[<<y, k>>] # "unsent", event[<<y, k>>] = "unsent"
      PROVE  y = z
  <2>1. <<y, k>> \in Event
    BY DEF Event, EventKind
  <2>2. <<y, k>> = <<z, s>>
    BY <1>2, <2>1 DEF TypeOK, Becomes
  <2> QED
    BY <2>2
<1> QED
  BY <1>1, <1>2 DEF Settling

LEMMA SettlingSteps ==
  ASSUME Undisturbed, IInv, SerialInv, Next
  PROVE  Settling \/ \E c \in Call : Post_Accepted(c)
<1>0. TypeOK
  BY DEF IInv
<1>1. ASSUME NEW r \in Row, SupersedeUpstream(r) PROVE Settling
  <2>1. PICK q \in todo[r] : DeleteUpstream(q)
    BY <1>1 DEF SupersedeUpstream
  <2>2. q \in Row
    BY <1>0 DEF TypeOK
  <2>3. CASE Deletable(q) /\ Becomes(providerId[q], "cancelled")
    BY <1>0, <2>2, <2>3, BecomesSettling DEF Deletable, TypeOK
  <2>4. CASE UNCHANGED <<zstate, event>>
    BY <2>4 DEF Settling
  <2> QED
    BY <2>1, <2>3, <2>4 DEF DeleteUpstream
<1>2. ASSUME NEW r \in Row, Local(r), ~Dies(r), ~SupersedeUpstream(r)
      PROVE  UNCHANGED <<zstate, event>>
  BY <1>2 DEF Local, Validate, CreateRow, Resolve, Claim, Schedule, Fail,
     zernioVars
<1>3. ASSUME NEW r \in Row, Submit(r) \/ ReceiveError(r) \/ ReceiveOk(r)
      PROVE  UNCHANGED <<zstate, event>>
  BY <1>0, <1>3, CallPath
<1>4. ASSUME NEW c \in Call, ReadRow(c) \/ Post_Refused(c) \/ MarkPublished(c)
      PROVE  UNCHANGED <<zstate, event>>
  BY <1>4 DEF ReadRow, Post_Refused, MarkPublished, zernioVars
<1>5. ASSUME NEW z \in Post, ZernioFinishes(z) PROVE Settling
  BY <1>0, <1>5, BecomesSettling DEF ZernioFinishes
<1>6. ASSUME NEW e \in Event, WebhookStep(e) PROVE Settling
  <2>1. /\ UNCHANGED zstate
        /\ event[e] # "unsent"
        /\ \E s \in EventState : event' = [event EXCEPT ![e] = s]
    BY <1>6 DEF WebhookStep, Deliver, Unhandled, FindRow, ApplyEvent,
       EventState
  <2> QED
    BY <1>0, <2>1 DEF Settling, TypeOK
<1>7. ASSUME NEW s \in ContentStatus, Review(s)
      PROVE  UNCHANGED <<zstate, event>>
  BY <1>7 DEF Review, zernioVars
<1>8. CASE UNCHANGED <<zstate, event>>
  BY <1>8 DEF Settling
<1> QED
  BY <1>1, <1>2, <1>3, <1>4, <1>5, <1>6, <1>7, <1>8, SerialSteps DEF SerialInv

LEMMA FinalNewsIsTrueStep ==
  ASSUME Undisturbed, IInv, SerialInv, Next
  PROVE  FinalNewsIsTrue'
<1> SUFFICES ASSUME NEW z \in Post, NEW k \in {"published", "failed", "cancelled"},
                    event'[<<z, k>>] # "unsent"
             PROVE  zstate'[z] # "none" /\ zstate'[z] \notin Waiting
  BY DEF FinalNewsIsTrue, Created
<1>0. event[<<z, k>>] # "unsent" => zstate[z] # "none" /\ zstate[z] \notin Waiting
  BY DEF SerialInv, FinalNewsIsTrue, Created
<1>1. CASE Settling
  <2>1. \/ event[<<z, k>>] # "unsent"
        \/ zstate'[z] \in {"published", "failed", "cancelled"}
    BY <1>1 DEF Settling
  <2>2. \/ zstate'[z] = zstate[z]
        \/ zstate'[z] \in {"published", "failed", "cancelled"}
    BY <1>1 DEF Settling
  <2> QED
    BY <1>0, <2>1, <2>2 DEF Waiting
<1>2. ASSUME NEW c \in Call, Post_Accepted(c)
      PROVE  zstate'[z] # "none" /\ zstate'[z] \notin Waiting
  <2>1. /\ zstate[CurrentPost(c)] = "none"
        /\ z # CurrentPost(c) => zstate'[z] = zstate[z]
    BY <1>2, NewPost
  <2>2. \A y \in Post, l \in {"published", "failed", "cancelled"} :
          event'[<<y, l>>] # "unsent" =>
            \/ event[<<y, l>>] # "unsent"
            \/ y = CurrentPost(c) /\ zstate'[y] = "published"
    BY <1>2, NewPost
  <2>3. \/ event[<<z, k>>] # "unsent"
        \/ z = CurrentPost(c) /\ zstate'[z] = "published"
    BY <2>2
  <2> QED
    BY <1>0, <2>1, <2>3 DEF Waiting
<1> QED
  BY <1>1, <1>2, SettlingSteps

LEMMA OneWaitingPostStep ==
  ASSUME Undisturbed, IInv, SerialInv, Next
  PROVE  OneWaitingPost'
<1> USE DEF OneWaitingPost, Waiting
<1>0. OneWaitingPost
  BY DEF SerialInv
<1>1. CASE Settling
  BY <1>0, <1>1 DEF Settling
<1>2. ASSUME NEW c \in Call, Post_Accepted(c) PROVE OneWaitingPost'
  <2>1. pc[c[1]] = "await" /\ c[1] \in Row
    BY <1>2, WorkedOn DEF Post_Accepted
  <2>2. \A z \in Post : zstate[z] \in Waiting => z[1] = c[1]
    BY <2>1 DEF SerialInv, OthersAreListed, Superseding
  <2>3. /\ CurrentPost(c) \in Post /\ CurrentPost(c)[1] = c[1]
        /\ \A z \in Post \ {CurrentPost(c)} : zstate'[z] = zstate[z]
    BY <1>2, NewPost
  <2> QED
    BY <2>2, <2>3
<1> QED
  BY <1>1, <1>2, SettlingSteps

\* What the pipelines write into the status of rows.
LEMMA StatusWrites ==
  ASSUME TypeOK, NEW r \in Row, Local(r), ~Dies(r)
  PROVE  \/ UNCHANGED status
         \/ /\ \A q \in Row \ {r} : status'[q] = status[q]
            /\ status'[r] \in ActiveStatus
         \/ Claim(r)
         \/ Fail(r) /\ \A q \in Row \ {r} : status'[q] = status[q]
BY DEF Local, Validate, CreateRow, Resolve, SupersedeUpstream, Claim, Schedule,
   Fail, TypeOK, ActiveStatus

\* When a row is claimed, no other row has a waiting post or is getting one.
LEMMA NobodyIsPursued ==
  ASSUME IInv, SerialInv, NEW r \in Row, Claim(r)
  PROVE  \A q \in Row : ~Pursued(q)
<1>1. pc[r] = "supersede" /\ todo[r] = {}
  BY DEF Claim
<1>2. \A q \in Row : pc[q] \notin {"submit", "await"}
  BY <1>1 DEF SerialInv, InTurn, Running
<1>3. \A z \in Post : zstate[z] \in Waiting => z[1] = r
  BY <1>1 DEF SerialInv, OthersAreListed, Superseding
<1>4. PostsOf(r) = {}
  BY <1>1, PostRow DEF SerialInv
<1> QED
  BY <1>2, <1>3, <1>4 DEF Pursued, PostsOf, Created

\* A waiting post stays its row's, and a row without a post gets no waiting one.
LEMMA StaysPursued ==
  ASSUME Settling, NEW r \in Row,
         \E z \in PostsOf(r)' : zstate'[z] \in Waiting
  PROVE  \E z \in PostsOf(r) : zstate[z] \in Waiting
BY DEF Settling, PostsOf, Created, Waiting

\* The event of a row that is pursued says no more than "pending".
LEMMA PursuedNews ==
  ASSUME IInv, SerialInv, NEW e \in Event, event[e] = "matched",
         Pursued(match[e])
  PROVE  StatusOf(e[2]) \in ActiveStatus
<1>1. PICK z \in Post, k \in EventKind : e = <<z, k>>
  BY DEF Event
<1>2. match[e] = z[1] /\ z[1] \in Row
  BY <1>1 DEF IInv, IdsAreOwn, Post
<1>3. ASSUME k \in {"published", "failed", "cancelled"} PROVE FALSE
  <2>1. z \in PostsOf(z[1]) /\ zstate[z] \notin Waiting
    BY <1>1, <1>3 DEF SerialInv, FinalNewsIsTrue, PostsOf
  <2>2. /\ \A y \in PostsOf(z[1]) : y = z
        /\ bpc[CurrentCall(z[1])] \in {"marking", "ok"}
    BY <1>2, <2>1, PostRow DEF SerialInv
  <2> QED
    BY <1>2, <2>1, <2>2 DEF Pursued
<1>4. k = "scheduled"
  BY <1>3 DEF EventKind
<1> QED
  BY <1>1, <1>4 DEF StatusOf, ActiveStatus

LEMMA PursuedIsActiveStep ==
  ASSUME Undisturbed, IInv, SerialInv, Next
  PROVE  PursuedIsActive'
<1>0. /\ TypeOK /\ InTurn /\ CallsAreAwaited /\ PostsAreKnown
      /\ \A r \in Row : Pursued(r) => status[r] \in ActiveStatus
      /\ \A r \in Row : CurrentCall(r) \in Call /\ CurrentCall(r)[1] = r
  BY CurrentCallType DEF IInv, SerialInv, CurrentCall, PursuedIsActive
<1> SUFFICES ASSUME NEW q \in Row, Pursued(q)'
             PROVE  status'[q] \in ActiveStatus
  BY DEF PursuedIsActive
<1>1. ASSUME NEW r \in Row, Local(r), ~Dies(r)
      PROVE  status'[q] \in ActiveStatus
  <2>1. UNCHANGED <<attempt, bpc>> /\ Settling
    <3>1. UNCHANGED <<attempt, bpc>>
      BY <1>0, <1>1, LocalFrame
    <3>2. ~ \E c \in Call : Post_Accepted(c)
      <4>1. ASSUME NEW c \in Call, Post_Accepted(c) PROVE FALSE
        BY <3>1, <4>1, NewPost
      <4> QED
        BY <4>1
    <3> QED
      BY <3>1, <3>2, SettlingSteps
  <2>2. CurrentCall(q)' = CurrentCall(q)
    BY <2>1 DEF CurrentCall
  <2>3. pc'[q] \in {"submit", "await"} => pc[q] = pc'[q] \/ (q = r /\ Schedule(r))
    BY <1>0, <1>1, LocalPath
  <2>4. Pursued(q) \/ (q = r /\ Schedule(r))
    BY <2>1, <2>2, <2>3, StaysPursued DEF Pursued
  <2>5. CASE Schedule(r) /\ q = r
    BY <1>0, <2>5 DEF Schedule, ActiveStatus, TypeOK
  <2>6. CASE Pursued(q)
    <3>1. ~Claim(r)
      BY <2>6, NobodyIsPursued
    <3>2. ~(Fail(r) /\ q = r)
      <4>1. ASSUME Fail(r) PROVE ~Pursued(r)
        BY <1>0, <4>1, PostRow DEF Fail, Pursued
      <4> QED
        BY <2>6, <4>1
    <3> QED
      BY <1>0, <1>1, <2>6, <3>1, <3>2, StatusWrites
  <2> QED
    BY <2>4, <2>5, <2>6
<1>2. ASSUME NEW r \in Row, Submit(r) \/ ReceiveError(r) \/ ReceiveOk(r)
      PROVE  status'[q] \in ActiveStatus
  <2>1. UNCHANGED <<status, zstate>>
    BY <1>0, <1>2, CallPath
  <2>2. CASE \E z \in PostsOf(q)' : zstate'[z] \in Waiting
    BY <1>0, <2>1, <2>2 DEF Pursued, PostsOf, Created
  <2>3. CASE /\ pc'[q] \in {"submit", "await"}
             /\ bpc'[CurrentCall(q)'] \notin {"marking", "ok"}
    <3>1. CASE q = r
      <4>1. CASE Submit(r)
        <5>1. bpc[CurrentCall(r)] = "none" /\ pc[r] = "submit"
          BY <4>1 DEF Submit, IInv, TypeOK, CallsInOrder, BeforeSubmit,
             CurrentCall
        <5> QED
          BY <1>0, <2>1, <3>1, <5>1 DEF Pursued
      <4>2. CASE ReceiveError(r)
        BY <1>0, <2>1, <3>1, <4>2 DEF ReceiveError, Answered, Pursued
      <4>3. CASE ReceiveOk(r)
        <5>1. pc'[r] = "done"
          BY <1>0, <4>3, CallPath DEF ReceiveOk
        <5> QED
          BY <2>3, <3>1, <5>1
      <4> QED
        BY <1>2, <4>1, <4>2, <4>3
    <3>2. CASE q # r
      <4>1. pc'[q] = pc[q] /\ attempt'[q] = attempt[q]
        BY <1>0, <1>2, <3>2, CallPath
      <4>2. pc[r] \notin {"idle", "done", "raised"}
        BY <1>0, <1>2, CallPath
      <4> QED
        BY <1>0, <2>3, <3>2, <4>1, <4>2 DEF InTurn, Running
    <3> QED
      BY <3>1, <3>2
  <2> QED
    BY <2>2, <2>3 DEF Pursued
<1>3. ASSUME NEW c \in Call,
             \/ ReadRow(c) \/ Post_Accepted(c) \/ Post_Refused(c)
             \/ MarkPublished(c)
      PROVE  status'[q] \in ActiveStatus
  <2>1. /\ UNCHANGED <<pc, attempt>> /\ CurrentCall(q)' = CurrentCall(q)
        /\ \A d \in Call \ {c} : bpc'[d] = bpc[d]
    BY <1>0, <1>3, BackendFrame DEF pipelineVars, CurrentCall
  <2>2. /\ c[1] \in Row /\ c = CurrentCall(c[1]) /\ pc[c[1]] = "await"
    BY <1>0, <1>3, BackendFrame, WorkedOn
  <2>3. CASE ReadRow(c) \/ Post_Refused(c) \/ MarkPublished(c)
    <3>1. UNCHANGED zstate
      BY <2>3 DEF ReadRow, Post_Refused, MarkPublished, zernioVars
    <3>2. q # c[1] => Pursued(q) /\ status'[q] = status[q]
      <4>1. q # c[1] => CurrentCall(q) # c
        BY <1>0
      <4>2. q # c[1] => Pursued(q)
        BY <1>0, <2>1, <3>1, <4>1 DEF Pursued, PostsOf, Created
      <4> QED
        BY <1>0, <2>3, <4>2
        DEF ReadRow, Post_Refused, MarkPublished, TypeOK
    <3>3. CASE (ReadRow(c) \/ Post_Refused(c)) /\ q = c[1]
      BY <1>0, <2>2, <3>3 DEF ReadRow, Post_Refused, Pursued
    <3>4. CASE MarkPublished(c) /\ q = c[1]
      <4>1. bpc'[c] = "ok" /\ bpc[c] = "marking"
        BY <1>0, <3>4 DEF MarkPublished, Undisturbed, Answer, TypeOK
      <4>2. \E z \in PostsOf(q) : zstate[z] \in Waiting
        BY <2>1, <2>2, <3>1, <3>4, <4>1 DEF Pursued, PostsOf, Created
      <4>3. zstate[CurrentPost(c)] = "published"
        BY <4>1 DEF IInv, NewsIsTrue
      <4>4. \A z \in PostsOf(q) : z = CurrentPost(c)
        BY <1>0, <2>2, <3>4, PostRow
      <4> QED
        BY <4>2, <4>3, <4>4 DEF Waiting
    <3> QED
      BY <1>0, <2>3, <3>2, <3>3, <3>4
  <2>4. CASE Post_Accepted(c)
    <3>1. UNCHANGED status /\ bpc[c] = "posting"
      BY <2>4 DEF Post_Accepted
    <3>2. CASE q = c[1]
      BY <1>0, <2>2, <3>1, <3>2 DEF Pursued
    <3>3. CASE q # c[1]
      <4>1. CurrentCall(q) # c
        BY <1>0, <3>3
      <4>2. \A z \in Post : z[1] = q => zstate'[z] = zstate[z]
        BY <2>4, <3>3, NewPost
      <4> QED
        BY <1>0, <2>1, <3>1, <4>1, <4>2 DEF Pursued, PostsOf, Created
    <3> QED
      BY <3>2, <3>3
  <2> QED
    BY <1>3, <2>3, <2>4
<1>4. ASSUME \/ \E z \in Post : ZernioFinishes(z)
             \/ \E e \in Event : WebhookStep(e)
             \/ \E s \in ContentStatus : Review(s)
      PROVE  status'[q] \in ActiveStatus
  <2>1. UNCHANGED <<pc, attempt, bpc>>
    BY <1>4, OutsideFrame DEF pipelineVars, backendVars
  <2>2. Settling
    <3>1. ASSUME NEW c \in Call, Post_Accepted(c) PROVE FALSE
      BY <2>1, <3>1, NewPost
    <3> QED
      BY <3>1, SettlingSteps
  <2>3. Pursued(q)
    BY <2>1, <2>2, StaysPursued DEF Pursued, CurrentCall
  <2>4. ASSUME NEW e \in Event, ApplyEvent(e)
        PROVE  status'[q] \in ActiveStatus
    <3>1. /\ event[e] = "matched"
          /\ status' = [status EXCEPT ![match[e]] = StatusOf(e[2])]
      BY <2>4 DEF ApplyEvent
    <3>2. CASE q = match[e]
      BY <1>0, <2>3, <3>1, <3>2, PursuedNews DEF TypeOK
    <3>3. CASE q # match[e]
      BY <1>0, <2>3, <3>1, <3>3 DEF TypeOK
    <3> QED
      BY <3>2, <3>3
  <2>5. CASE UNCHANGED status
    BY <1>0, <2>3, <2>5
  <2> QED
    BY <1>4, <2>4, <2>5, OutsideFrame
<1> QED
  BY <1>0, <1>1, <1>2, <1>3, <1>4, SerialSteps

LEMMA OthersAreListedStep ==
  ASSUME Undisturbed, IInv, SerialInv, Next
  PROVE  OthersAreListed'
<1>0. /\ TypeOK /\ InTurn /\ CallsAreAwaited /\ PostsAreKnown
      /\ OthersAreListed /\ PursuedIsActive
  BY DEF IInv, SerialInv
<1> SUFFICES ASSUME NEW q \in Row, pc'[q] \in Superseding,
                    NEW z \in Post, zstate'[z] \in Waiting, z[1] # q
             PROVE  pc'[q] = "supersede" /\ z[1] \in todo'[q]
  BY DEF OthersAreListed
<1>1. z[1] \in Row
  BY DEF Post
<1>2. ASSUME Settling
      PROVE  zstate[z] \in Waiting /\ z \in PostsOf(z[1])
  BY <1>2 DEF Settling, Waiting, PostsOf, Created
    \* The other row of a waiting post is through, so it can be found.
<1>3. ASSUME zstate[z] \in Waiting, Running(q)
      PROVE  /\ providerId[z[1]] = z /\ z # NoPost
             /\ status[z[1]] \in ActiveStatus
  <2>1. z \in PostsOf(z[1])
    BY <1>3 DEF Waiting, PostsOf, Created
  <2>2. pc[z[1]] # "await"
    BY <1>0, <1>1, <1>3 DEF InTurn, Running
  <2>3. z # NoPost
    BY ConstantsAssumption DEF Post
  <2> QED
    BY <1>0, <1>1, <1>3, <2>1, <2>2, <2>3, PostRow DEF PursuedIsActive, Pursued
<1>4. ASSUME Settling, pc'[q] = pc[q], todo'[q] = todo[q]
      PROVE  pc'[q] = "supersede" /\ z[1] \in todo'[q]
  BY <1>0, <1>2, <1>4 DEF OthersAreListed
<1>5. ASSUME NEW r \in Row, Local(r), ~Dies(r)
      PROVE  pc'[q] = "supersede" /\ z[1] \in todo'[q]
  <2>1. Settling
    <3>1. ASSUME NEW c \in Call, Post_Accepted(c) PROVE FALSE
      BY <1>0, <1>5, <3>1, NewPost, LocalFrame
    <3> QED
      BY <3>1, SettlingSteps
  <2>2. CASE q # r
    <3>1. pc'[q] = pc[q] /\ todo'[q] = todo[q]
      BY <1>0, <1>5, <2>2 DEF Local, Validate, CreateRow, Resolve,
         SupersedeUpstream, Claim, Schedule, Fail, Goto, TypeOK
    <3> QED
      BY <1>4, <2>1, <3>1
  <2>3. CASE q = r /\ Resolve(r)
    <3>1. Running(q) /\ pc'[q] # "raised"
      BY <2>3 DEF Resolve, Running, Superseding
    <3>2. /\ pc'[q] = "supersede"
          /\ todo'[q] = {p \in ActiveRows(q) : providerId[p] # NoPost}
      BY <1>0, <2>3, <3>1 DEF Resolve, Goto, TypeOK
    <3> QED
      BY <1>1, <1>2, <1>3, <2>1, <3>1, <3>2 DEF ActiveRows
  <2>4. CASE q = r /\ SupersedeUpstream(r)
    <3>1. PICK p \in todo[r] : /\ DeleteUpstream(p)
                               /\ todo' = [todo EXCEPT ![r] = @ \ {p}]
      BY <2>4 DEF SupersedeUpstream
    <3>2. pc[q] = "supersede" /\ pc'[q] = "supersede" /\ Running(q)
      BY <2>4 DEF SupersedeUpstream, Running
    <3>3. zstate[z] \in Waiting /\ z[1] \in todo[q]
      BY <1>0, <1>2, <2>1, <3>2 DEF OthersAreListed, Superseding
    <3>4. z[1] # p
      <4>1. SUFFICES ASSUME z[1] = p PROVE FALSE
        OBVIOUS
      <4>2. providerId[p] = z /\ z # NoPost
        BY <1>3, <3>2, <3>3, <4>1
      <4>3. Becomes(z, "cancelled")
        BY <3>1, <3>3, <4>2 DEF DeleteUpstream, Deletable, Undisturbed
      <4> QED
        BY <1>0, <4>3 DEF Becomes, TypeOK, Waiting
    <3> QED
      BY <1>0, <2>4, <3>1, <3>2, <3>3, <3>4 DEF TypeOK
  <2>5. CASE q = r /\ Claim(r)
    <3>1. zstate[z] \in Waiting
      BY <1>2, <2>1
    <3>2. pc[q] = "supersede" /\ todo[q] = {}
      BY <2>5 DEF Claim
    <3> QED
      BY <1>0, <3>1, <3>2 DEF OthersAreListed, Superseding
  <2>6. CASE q = r /\ Schedule(r)
    <3>1. zstate[z] \in Waiting
      BY <1>2, <2>1
    <3>2. pc[q] = "schedule"
      BY <2>6 DEF Schedule
    <3> QED
      BY <1>0, <3>1, <3>2 DEF OthersAreListed, Superseding
  <2> QED
    BY <1>0, <1>5, <2>2, <2>3, <2>4, <2>5, <2>6, LocalPath DEF Superseding
<1>6. ASSUME NEW r \in Row, Submit(r) \/ ReceiveError(r) \/ ReceiveOk(r)
      PROVE  pc'[q] = "supersede" /\ z[1] \in todo'[q]
  <2>1. zstate[z] \in Waiting /\ UNCHANGED todo
    BY <1>0, <1>6, CallPath
  <2>2. CASE q = r
    <3>1. pc[q] \in {"submit", "await"}
      BY <1>0, <1>6, <2>2, CallPath
    <3> QED
      BY <1>0, <2>1, <3>1 DEF OthersAreListed, Superseding
  <2>3. CASE q # r
    <3>1. pc'[q] = pc[q]
      BY <1>0, <1>6, <2>3, CallPath
    <3> QED
      BY <1>0, <2>1, <3>1 DEF OthersAreListed
  <2> QED
    BY <2>2, <2>3
<1>7. ASSUME NEW c \in Call, Post_Accepted(c)
      PROVE  pc'[q] = "supersede" /\ z[1] \in todo'[q]
  <2>1. UNCHANGED <<pc, todo>>
    BY <1>0, <1>7, BackendFrame DEF pipelineVars
  <2>2. pc[c[1]] = "await" /\ c[1] \in Row
    BY <1>7, WorkedOn DEF Post_Accepted
  <2>3. q = c[1]
    BY <1>0, <2>1, <2>2 DEF InTurn, Running, Superseding
  <2>4. zstate[z] \in Waiting
    BY <1>7, <2>3, NewPost
  <2> QED
    BY <1>0, <2>1, <2>4 DEF OthersAreListed
<1>8. ASSUME Settling, UNCHANGED <<pc, todo>>
      PROVE  pc'[q] = "supersede" /\ z[1] \in todo'[q]
  BY <1>4, <1>8
<1> QED
  BY <1>0, <1>5, <1>6, <1>7, <1>8, SerialSteps, SettlingSteps, BackendFrame,
     OutsideFrame
  DEF pipelineVars

LEMMA SerialInit == Init => SerialInv
BY ConstantsAssumption
DEF Init, SerialInv, InTurn, CallsAreAwaited, PostsAreKnown, FinalNewsIsTrue,
    PursuedIsActive, Pursued, OthersAreListed, Superseding, OneWaitingPost,
    Running, PostsOf, Created, Waiting, Call, Event, EventKind

LEMMA SerialStep ==
  ASSUME Undisturbed
  PROVE  IInv /\ SerialInv /\ [Next]_vars => SerialInv'
<1> SUFFICES ASSUME IInv, SerialInv, [Next]_vars PROVE SerialInv'
  OBVIOUS
<1>1. CASE Next
  BY <1>1, InTurnStep, CallsAreAwaitedStep, PostsAreKnownStep,
     FinalNewsIsTrueStep, PursuedIsActiveStep, OthersAreListedStep,
     OneWaitingPostStep
  DEF SerialInv
<1>2. CASE UNCHANGED vars
  BY <1>2 DEF vars, SerialInv, InTurn, CallsAreAwaited, PostsAreKnown,
     FinalNewsIsTrue, PursuedIsActive, Pursued, OthersAreListed,
     OneWaitingPost, Running, PostsOf, Created, CurrentCall
<1> QED
  BY <1>1, <1>2

\* When nothing is lost, late, cancelled or reset and no two publishes overlap,
\* for any number of publishes after one another and any refusals, reviews and
\* webhook subscriptions, Zernio never holds waiting posts of two rows.
THEOREM NewerReplacesOlder ==
  ASSUME Undisturbed
  PROVE  Spec => []OneWaitingPost
<1>1. IInv /\ SerialInv /\ [Next]_vars => SerialInv'
  BY SerialStep
<1>2. SerialInv => OneWaitingPost
  BY DEF SerialInv
<1> QED
  BY <1>1, <1>2, SerialInit, Invariance, PTL DEF Spec

-----------------------------------------------------------------------------
(* The nested retry loops run out.                                         *)

\* An action of one pipeline moves only that pipeline, and onwards, or takes a
\* row off its list of deletions.
LEMMA PipelineMovesOn ==
  ASSUME TypeOK, NEW r \in Row,
         Validate(r) \/ PipelineStep(r) \/ Timeout(r) \/ Dies(r)
  PROVE  /\ \A q \in Row \ {r} :
              /\ pc'[q] = pc[q] /\ attempt'[q] = attempt[q]
              /\ todo'[q] = todo[q]
         /\ \/ StepsLeft(r)' < StepsLeft(r)
            \/ /\ pc'[r] = pc[r] /\ attempt'[r] = attempt[r]
               /\ todo'[r] \subseteq todo[r] /\ todo'[r] # todo[r]
<1> DEFINE Apart == \A q \in Row \ {r} :
                      /\ pc'[q] = pc[q] /\ attempt'[q] = attempt[q]
                      /\ todo'[q] = todo[q]
<1>1. attempt[r] \in Nat /\ MaxRetries \in Nat /\ attempt[r] <= MaxRetries
  BY ConstantsAssumption DEF TypeOK
<1>2. ASSUME NEW next \in PipelineState, Goto(r, next), UNCHANGED attempt,
             Stage[next] < Stage[pc[r]]
      PROVE  StepsLeft(r)' < StepsLeft(r)
  <2>1. /\ pc'[r] = next /\ attempt'[r] = attempt[r]
        /\ Stage[next] \in Nat /\ Stage[pc[r]] \in Nat
    BY <1>2 DEF Goto, TypeOK, PipelineState, Stage
  <2> QED
    BY <1>1, <1>2, <2>1 DEF StepsLeft
<1>3. ASSUME pc[r] = "await", NextAttempt(r)
      PROVE  StepsLeft(r)' < StepsLeft(r)
  <2>1. CASE attempt[r] < MaxRetries
    <3>1. attempt'[r] = attempt[r] + 1 /\ pc'[r] = "submit"
      BY <1>3, <2>1 DEF NextAttempt, Goto, TypeOK
    <3> QED
      BY <1>1, <1>3, <3>1 DEF StepsLeft, Stage
  <2>2. CASE ~(attempt[r] < MaxRetries)
    <3>1. attempt'[r] = attempt[r] /\ pc'[r] = "fail"
      BY <1>3, <2>2 DEF NextAttempt, Goto, TypeOK
    <3> QED
      BY <1>1, <1>3, <3>1 DEF StepsLeft, Stage
  <2> QED
    BY <2>1, <2>2
<1>4. CASE SupersedeUpstream(r)
  <2>1. PICK q \in todo[r] : todo' = [todo EXCEPT ![r] = @ \ {q}]
    BY <1>4 DEF SupersedeUpstream
  <2>2. UNCHANGED <<pc, attempt>>
    BY <1>4 DEF SupersedeUpstream
  <2> QED
    BY <2>1, <2>2 DEF TypeOK
<1>5. CASE Validate(r) \/ CreateRow(r) \/ Resolve(r) \/ Claim(r)
             \/ Schedule(r) \/ Submit(r) \/ Fail(r) \/ Dies(r)
  <2>1. Apart
    BY <1>5 DEF Validate, CreateRow, Resolve, Claim, Schedule, Submit, Fail,
                Dies, Goto, TypeOK
  <2>2. /\ UNCHANGED attempt
        /\ \E next \in PipelineState :
             Goto(r, next) /\ Stage[next] < Stage[pc[r]]
    <3> USE DEF PipelineState, Stage
    <3>1. CASE Validate(r)  BY <3>1 DEF Validate
    <3>2. CASE CreateRow(r)  BY <3>2 DEF CreateRow
    <3>3. CASE Resolve(r)  BY <3>3 DEF Resolve
    <3>4. CASE Claim(r)  BY <3>4 DEF Claim
    <3>5. CASE Schedule(r)  BY <3>5 DEF Schedule
    <3>6. CASE Submit(r)  BY <3>6 DEF Submit
    <3>7. CASE Fail(r)  BY <3>7 DEF Fail
    <3>8. CASE Dies(r)  BY <3>8 DEF Dies, TypeOK
    <3> QED
      BY <1>5, <3>1, <3>2, <3>3, <3>4, <3>5, <3>6, <3>7, <3>8
  <2> QED
    BY <1>2, <2>1, <2>2
<1>6. CASE ReceiveError(r) \/ ReceiveOk(r) \/ Timeout(r)
  <2>1. pc[r] = "await" /\ UNCHANGED todo
    BY <1>6 DEF ReceiveError, ReceiveOk, Timeout
  <2>2. \/ NextAttempt(r)
        \/ \E next \in {"fail", "done"} : Goto(r, next) /\ UNCHANGED attempt
    BY <1>6 DEF ReceiveError, ReceiveOk, Timeout
  <2>3. StepsLeft(r)' < StepsLeft(r)
    <3>1. \A next \in {"fail", "done"} :
            next \in PipelineState /\ Stage[next] < Stage["await"]
      BY DEF PipelineState, Stage
    <3> QED
      BY <1>2, <1>3, <2>1, <2>2, <3>1
  <2>4. Apart
    BY <2>1, <2>2 DEF NextAttempt, Goto, TypeOK
  <2> QED
    BY <2>3, <2>4
<1> QED
  BY <1>4, <1>5, <1>6 DEF PipelineStep

\* A step of the backend, and its death, bring the call nearer to its answer.
LEMMA CallMovesOn ==
  ASSUME TypeOK, NEW c \in Call, BackendStep(c) \/ CallDies(c)
  PROVE  /\ \A d \in Call \ {c} : bpc'[d] = bpc[d] /\ try'[d] = try[d]
         /\ TriesLeft(c)' < TriesLeft(c)
<1>1. try[c] \in Nat /\ ApiRetries \in Nat /\ try[c] <= ApiRetries
  BY ConstantsAssumption DEF TypeOK
<1>2. /\ \A d \in Call \ {c} : bpc'[d] = bpc[d] /\ try'[d] = try[d]
      /\ \/ /\ try'[c] = try[c] + 1 /\ bpc'[c] = "posting"
            /\ bpc[c] \in {"posting", "marking"}
         \/ /\ try'[c] = try[c]
            /\ \/ bpc[c] = "read" /\ bpc'[c] \in {"posting"} \cup Answered
               \/ bpc[c] = "posting" /\ bpc'[c] \in {"marking"} \cup Answered
               \/ bpc[c] = "marking" /\ bpc'[c] \in Answered
  <2> USE DEF Answer, TypeOK, Answered
  <2>1. CASE ReadRow(c)
    BY <2>1 DEF ReadRow
  <2>2. CASE Post_Accepted(c)
    BY <2>2, NextTryFacts DEF Post_Accepted
  <2>3. CASE Post_Refused(c)
    BY <2>3 DEF Post_Refused
  <2>4. CASE Post_Unavailable(c)
    BY <2>4, NextTryFacts DEF Post_Unavailable
  <2>5. CASE MarkPublished(c)
    BY <2>5, NextTryFacts DEF MarkPublished
  <2>6. CASE CallDies(c)
    BY <2>6 DEF CallDies
  <2> QED
    BY <2>1, <2>2, <2>3, <2>4, <2>5, <2>6 DEF BackendStep
<1> QED
  BY <1>1, <1>2 DEF TriesLeft, CallStage, Answered

\* Nobody else moves a pipeline.
LEMMA RowsMoveOn ==
  ASSUME TypeOK, Next, NEW q \in Row
  PROVE  \/ StepsLeft(q)' < StepsLeft(q)
         \/ /\ pc'[q] = pc[q] /\ attempt'[q] = attempt[q]
            /\ todo'[q] \subseteq todo[q]
<1>1. CASE Aside
  <2>1. UNCHANGED <<pc, attempt, todo>>
    BY <1>1 DEF Aside, ZernioFinishes, WebhookStep, Deliver, FindRow,
       ApplyEvent, HandlerDies, Review, CancelRead, ResetRead, CancelUpstream,
       CancelWrite, CancelDies, ResetUpstream, ResetWrite, ResetDies,
       pipelineVars
  <2> QED
    BY <2>1
<1>2. ASSUME NEW r \in Row,
             Validate(r) \/ PipelineStep(r) \/ Timeout(r) \/ Dies(r)
      PROVE  \/ StepsLeft(q)' < StepsLeft(q)
             \/ /\ pc'[q] = pc[q] /\ attempt'[q] = attempt[q]
                /\ todo'[q] \subseteq todo[q]
  BY <1>2, PipelineMovesOn
<1>3. ASSUME NEW c \in Call, BackendStep(c) \/ CallDies(c)
      PROVE  UNCHANGED <<pc, attempt, todo>>
  BY <1>3 DEF BackendStep, ReadRow, Post_Accepted, Post_Refused,
     Post_Unavailable, MarkPublished, CallDies, pipelineVars
<1> QED
  BY <1>1, <1>2, <1>3 DEF Next, Aside

\* A pipeline sends only calls that no attempt has used, and nobody else
\* touches a call.
LEMMA CallsMoveOn ==
  ASSUME IInv, Next, NEW d \in Call
  PROVE  \/ TriesLeft(d)' < TriesLeft(d)
         \/ bpc'[d] = bpc[d] /\ try'[d] = try[d]
<1> USE DEF IInv
<1>1. CASE Aside
  BY <1>1, AsideFrame
<1>2. ASSUME NEW r \in Row,
             Local(r) \/ ReceiveError(r) \/ Timeout(r) \/ ReceiveOk(r)
      PROVE  UNCHANGED <<bpc, try>>
  BY <1>2, LocalFrame DEF ReceiveError, Timeout, ReceiveOk, backendVars
<1>3. ASSUME NEW r \in Row, Submit(r)
      PROVE  \/ TriesLeft(d)' < TriesLeft(d)
             \/ bpc'[d] = bpc[d] /\ try'[d] = try[d]
  <2>1. CurrentCall(r) \in Call
    BY CurrentCallType
  <2>2. bpc[CurrentCall(r)] = "none"
    BY <1>3 DEF CallsInOrder, Submit, CurrentCall, BeforeSubmit, TypeOK
  <2>3. /\ try'[d] = try[d]
        /\ d # CurrentCall(r) => bpc'[d] = bpc[d]
        /\ d = CurrentCall(r) => bpc'[d] = "read"
    BY <1>3, <2>1 DEF Submit, TypeOK
  <2>4. try[d] \in Nat /\ ApiRetries \in Nat /\ try[d] <= ApiRetries
    BY ConstantsAssumption DEF TypeOK
  <2>5. CASE d = CurrentCall(r)
    BY <2>2, <2>3, <2>4, <2>5 DEF TriesLeft, CallStage
  <2> QED
    BY <2>3, <2>5
<1>4. ASSUME NEW c \in Call, BackendStep(c) \/ CallDies(c)
      PROVE  \/ TriesLeft(d)' < TriesLeft(d)
             \/ bpc'[d] = bpc[d] /\ try'[d] = try[d]
  BY <1>4, CallMovesOn
<1> QED
  BY <1>1, <1>2, <1>3, <1>4, Steps DEF BackendStep

LoopsHaveLimits ==
  /\ \A r \in Row : StepsLeft(r) \in 0 .. 2 * MaxRetries + 8
  /\ \A c \in Call : TriesLeft(c) \in 0 .. 2 * ApiRetries + 4

LEMMA LimitsOfLoops ==
  ASSUME TypeOK PROVE LoopsHaveLimits
<1>1. ASSUME NEW r \in Row
      PROVE  StepsLeft(r) \in 0 .. 2 * MaxRetries + 8
  <2>1. /\ attempt[r] \in Nat /\ MaxRetries \in Nat /\ attempt[r] <= MaxRetries
        /\ Stage[pc[r]] \in 0 .. 8
    BY ConstantsAssumption DEF TypeOK, PipelineState, Stage
  <2> QED
    BY <2>1 DEF StepsLeft
<1>2. ASSUME NEW c \in Call
      PROVE  TriesLeft(c) \in 0 .. 2 * ApiRetries + 4
  <2>1. /\ try[c] \in Nat /\ ApiRetries \in Nat /\ try[c] <= ApiRetries
        /\ CallStage[bpc[c]] \in 0 .. 4
    BY ConstantsAssumption DEF TypeOK, BackendState, CallStage
  <2> QED
    BY <2>1 DEF TriesLeft
<1> QED
  BY <1>1, <1>2 DEF LoopsHaveLimits

\* For all retry limits, rows and faults, every step of a pipeline and of the
\* backend shortens what is left of its loop, and no step of anybody lengthens
\* it.  What is left is a number: a pipeline takes at most 2 * MaxRetries + 8
\* steps besides its deletions, a call at most 2 * ApiRetries + 4.
THEOREM LoopsAreBounded == Spec => []LoopsHaveLimits /\ RetriesRunOut
<1> DEFINE Onwards ==
      /\ \A r \in Row :
           /\ \/ StepsLeft(r)' < StepsLeft(r)
              \/ /\ pc'[r] = pc[r] /\ attempt'[r] = attempt[r]
                 /\ todo'[r] \subseteq todo[r]
           /\ PipelineStep(r) =>
                StepsLeft(r)' < StepsLeft(r) \/ todo'[r] # todo[r]
      /\ \A c \in Call :
           /\ \/ TriesLeft(c)' < TriesLeft(c)
              \/ bpc'[c] = bpc[c] /\ try'[c] = try[c]
           /\ BackendStep(c) => TriesLeft(c)' < TriesLeft(c)
<1>2. ASSUME IInv, Next PROVE Onwards
  <2>1. TypeOK
    BY <1>2 DEF IInv
  <2>2. ASSUME NEW r \in Row
        PROVE  /\ \/ StepsLeft(r)' < StepsLeft(r)
                  \/ /\ pc'[r] = pc[r] /\ attempt'[r] = attempt[r]
                     /\ todo'[r] \subseteq todo[r]
               /\ PipelineStep(r) =>
                    StepsLeft(r)' < StepsLeft(r) \/ todo'[r] # todo[r]
    BY <1>2, <2>1, <2>2, RowsMoveOn, PipelineMovesOn
  <2>3. ASSUME NEW c \in Call
        PROVE  /\ \/ TriesLeft(c)' < TriesLeft(c)
                  \/ bpc'[c] = bpc[c] /\ try'[c] = try[c]
               /\ BackendStep(c) => TriesLeft(c)' < TriesLeft(c)
    BY <1>2, <2>1, <2>3, CallsMoveOn, CallMovesOn
  <2> QED
    BY <2>2, <2>3
<1>3. IInv /\ [Next]_vars => [Onwards]_vars
  BY <1>2
<1> QED
  <2> HIDE DEF Onwards
  <2>1. Spec => [][Onwards]_vars
    BY <1>3, Invariance, PTL DEF Spec
  <2>2. Spec => []LoopsHaveLimits
    BY LimitsOfLoops, TypeCorrect, PTL
  <2> QED
    BY <2>1, <2>2 DEF Onwards, RetriesRunOut

=============================================================================
