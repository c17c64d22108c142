--------------------------- MODULE PublishPipeline ---------------------------
(***************************************************************************)
(* Publishing one ContentPost to TikTok.                                   *)
(*                                                                         *)
(* Three processes that share only the database run here: the ai-service   *)
(* (API handlers and one background pipeline per PublishedPost row), the   *)
(* NestJS backend (the internal publish endpoint, the webhook handler, the *)
(* publish-now reset) and the publisher Zernio, which is external.  Every  *)
(* action is one database transaction or one HTTP message; what a handler  *)
(* keeps across an await is a variable of its own.                         *)
(*                                                                         *)
(* A row is created by an API call and served by exactly one pipeline, so  *)
(* Row names both.                                                         *)
(***************************************************************************)
EXTENDS Naturals, FiniteSets

CONSTANTS
  Row,          \* the PublishedPost rows that may be created for the post
  NoRow,
  NoPost,       \* a null tiktok_publish_id
  MaxRetries,   \* PUBLISH_MAX_RETRIES: retries of the pipeline
  ApiRetries,   \* length of RETRY_DELAYS_MS: retries of the backend
  Faults,       \* what the environment of this instance does, see FaultKind
  Subscribed,   \* the webhook events Zernio is configured to deliver
  Reviews       \* the ContentStatus values the reviewer sets meanwhile

FaultKind == {"timeout",   \* the pipeline's HTTP call to the backend times out
              "lost",      \* Zernio accepts a post and its answer is lost
              "refuse",    \* Zernio or the backend answers 4xx
              "down",      \* Zernio answers 5xx or not at all
              "dberror",   \* a database write fails
              "die",       \* a pipeline or a handler stops: exception, restart
              "overlap",   \* a publish is requested while another is running
              "cancel",    \* the user cancels the scheduled publish
              "reset"}     \* the user calls publish/:id/now

ASSUME ConstantsAssumption ==
  /\ NoRow \notin Row
  /\ MaxRetries \in Nat /\ ApiRetries \in Nat
  /\ NoPost \notin Row \X (0 .. MaxRetries) \X (0 .. ApiRetries)
  /\ Faults \subseteq FaultKind

ContentStatus == {"draft", "approved", "needs_revision", "flagged_for_review",
                  "published"}
RowStatus == {"none", "pending", "processing", "published", "failed",
              "cancelled"}
ActiveStatus == {"pending", "processing"}

\* One request of a pipeline to the backend: the row and the attempt.
Call == Row \X (0 .. MaxRetries)

\* A Zernio post is named by the backend request that created it: row,
\* attempt, and the number of the POST within the request.
Post == Row \X (0 .. MaxRetries) \X (0 .. ApiRetries)

EventKind == {"scheduled", "published", "failed", "cancelled"}
Event == Post \X EventKind

VARIABLES
  content,      \* ContentPost.status
  image,        \* does ContentPost.image_path hold a Cloudinary URL?
  status,       \* PublishedPost.status, "none" before the row exists
  providerId,   \* PublishedPost.tiktok_publish_id
  pc,           \* where the row's pipeline is
  timed,        \* the request names a time or asks for the golden hour
  deferred,     \* the pipeline's scheduled_at is set
  old,          \* active_records: the other rows resolve loaded
  todo,         \* those of old whose upstream cancel is still to be called
  attempt,      \* the pipeline's attempt counter
  bpc,          \* where the backend is with a call
  try,          \* the backend's attempt counter of a call
  got,          \* the provider id a call is going to answer with
  zstate,       \* Zernio's posts
  event,        \* webhook events: sent by Zernio, then handled by the backend
  match,        \* the row the webhook handler found for an event
  cancelling,   \* the cancel endpoint: its step and row
  resetting,    \* the publish-now endpoint: its step and row
  ambiguous     \* history: rows for which an outcome was in doubt

pipelineVars == <<pc, timed, deferred, old, todo, attempt>>
backendVars == <<bpc, try, got>>
zernioVars == <<zstate, event, match>>
userVars == <<content, image, cancelling, resetting>>
vars == <<content, image, status, providerId, pc, timed, deferred, old, todo,
          attempt, bpc, try, got, zstate, event, match, cancelling, resetting,
          ambiguous>>

PipelineState == {"idle", "validated", "resolve", "supersede", "schedule",
                  "submit", "await", "fail", "done", "raised"}
BackendState == {"none", "read", "posting", "marking",
                 "ok", "http4xx", "http5xx", "refused"}
Answered == {"ok", "http4xx", "http5xx", "refused"}
ZernioState == {"none", "scheduled", "processing", "published", "failed",
                "cancelled"}
EventState == {"unsent", "sent", "logged", "matched", "applied", "unmatched",
               "lost"}
Idle == [step |-> "idle", row |-> NoRow]
Handler == {Idle} \cup [step : {"upstream", "write"}, row : Row]

TypeOK ==
  /\ content \in ContentStatus
  /\ image \in BOOLEAN
  /\ status \in [Row -> RowStatus]
  /\ providerId \in [Row -> Post \cup {NoPost}]
  /\ pc \in [Row -> PipelineState]
  /\ timed \in [Row -> BOOLEAN]
  /\ deferred \in [Row -> BOOLEAN]
  /\ old \in [Row -> SUBSET Row]
  /\ todo \in [Row -> SUBSET Row]
  /\ attempt \in [Row -> 0 .. MaxRetries]
  /\ bpc \in [Call -> BackendState]
  /\ try \in [Call -> 0 .. ApiRetries]
  /\ got \in [Call -> Post \cup {NoPost}]
  /\ zstate \in [Post -> ZernioState]
  /\ event \in [Event -> EventState]
  /\ match \in [Event -> Row \cup {NoRow}]
  /\ cancelling \in Handler
  /\ resetting \in Handler
  /\ ambiguous \in SUBSET Row

\* An approved post nobody has asked to publish yet.
Init ==
  /\ content = "approved"
  /\ image \in BOOLEAN
  /\ status = [r \in Row |-> "none"]
  /\ providerId = [r \in Row |-> NoPost]
  /\ pc = [r \in Row |-> "idle"]
  /\ timed = [r \in Row |-> FALSE]
  /\ deferred = [r \in Row |-> FALSE]
  /\ old = [r \in Row |-> {}]
  /\ todo = [r \in Row |-> {}]
  /\ attempt = [r \in Row |-> 0]
  /\ bpc = [c \in Call |-> "none"]
  /\ try = [c \in Call |-> 0]
  /\ got = [c \in Call |-> NoPost]
  /\ zstate = [z \in Post |-> "none"]
  /\ event = [e \in Event |-> "unsent"]
  /\ match = [e \in Event |-> NoRow]
  /\ cancelling = Idle
  /\ resetting = Idle
  /\ ambiguous = {}

-----------------------------------------------------------------------------
(* The ai-service: API handlers and the pipeline of a row.                 *)

Goto(r, next) == pc' = [pc EXCEPT ![r] = next]

Running(r) == pc[r] \notin {"idle", "done", "raised"}

AlreadyPublished == \E q \in Row : status[q] = "published"

\* publish_now, schedule_publish and auto_publish first validate the post ...
Validate(r) ==
  /\ pc[r] = "idle"
  /\ "overlap" \in Faults \/ \A q \in Row : ~Running(q)
  /\ content = "approved"
  /\ ~AlreadyPublished
  /\ Goto(r, "validated")
  /\ timed' \in {[timed EXCEPT ![r] = t] : t \in BOOLEAN}
  /\ UNCHANGED <<status, providerId, deferred, old, todo, attempt, ambiguous,
                 backendVars, zernioVars, userVars>>

\* ... then insert the row in a transaction of its own and queue the pipeline.
CreateRow(r) ==
  /\ pc[r] = "validated"
  /\ status' = [status EXCEPT ![r] = "processing"]
  /\ Goto(r, "resolve")
  /\ UNCHANGED <<providerId, timed, deferred, old, todo, attempt, ambiguous,
                 backendVars, zernioVars, userVars>>

Publishable == content \in {"approved", "published"} /\ ~AlreadyPublished

\* Variant: only scheduled rows are superseded.
ActiveRows_PendingOnly(r) == {q \in Row \ {r} : status[q] = "pending"}

ActiveRows(r) == {q \in Row \ {r} : status[q] \in ActiveStatus}

\* resolve_and_validate loads the rows it is going to supersede.  A post that
\* may not be published raises, and the row stays as it is.
Resolve(r) ==
  /\ pc[r] = "resolve"
  /\ \/ /\ ~Publishable
        /\ Goto(r, "raised")
        /\ UNCHANGED <<old, todo>>
     \/ /\ Publishable
        /\ old' = [old EXCEPT ![r] = ActiveRows(r)]
        /\ todo' = [todo EXCEPT
                      ![r] = {q \in ActiveRows(r) : providerId[q] # NoPost}]
        /\ Goto(r, "supersede")
  /\ UNCHANGED <<status, providerId, timed, deferred, attempt, ambiguous,
                 backendVars, zernioVars, userVars>>

\* Zernio changes a post to s; the change is announced if it is subscribed to.
Becomes(z, s) ==
  /\ zstate' = [zstate EXCEPT ![z] = s]
  /\ event' = IF s \in EventKind \cap Subscribed
                THEN [event EXCEPT ![<<z, s>>] = "sent"] ELSE event

\* Zernio's DELETE /posts/:id, called through the backend's cancelScheduled,
\* which reads the row's current provider id; every failure is swallowed.
Waiting == {"scheduled", "processing"}

Deletable(q) == providerId[q] # NoPost /\ zstate[providerId[q]] \in Waiting

DeleteUpstream(q) ==
  \/ Deletable(q) /\ Becomes(providerId[q], "cancelled")
  \/ (Deletable(q) => "down" \in Faults) /\ UNCHANGED <<zstate, event>>

SupersedeUpstream(r) ==
  /\ pc[r] = "supersede"
  /\ \E q \in todo[r] :
       /\ DeleteUpstream(q)
       /\ todo' = [todo EXCEPT ![r] = @ \ {q}]
  /\ UNCHANGED <<status, providerId, pc, timed, deferred, old, attempt, match,
                 ambiguous, backendVars, userVars>>

\* The commit of resolve_and_validate: all superseded rows are CANCELLED, by
\* what was loaded before the upstream calls, and the own row is PROCESSING.
\* Without a Cloudinary image the node raises and the transaction is undone.
Claim(r) ==
  /\ pc[r] = "supersede" /\ todo[r] = {}
  /\ IF image
       THEN /\ status' = [q \in Row |-> IF q \in old[r] THEN "cancelled"
                                        ELSE IF q = r THEN "processing"
                                        ELSE status[q]]
            /\ Goto(r, "schedule")
       ELSE /\ Goto(r, "raised")
            /\ UNCHANGED status
  /\ old' = [old EXCEPT ![r] = {}]
  /\ UNCHANGED <<providerId, timed, deferred, todo, attempt, ambiguous,
                 backendVars, zernioVars, userVars>>

\* scheduler_node: "publish now" is immediate; an explicit or a golden-hour
\* time is immediate only within IMMEDIATE_THRESHOLD.
Schedule(r) ==
  /\ pc[r] = "schedule"
  /\ \E d \in BOOLEAN :
       /\ d => timed[r]
       /\ deferred' = [deferred EXCEPT ![r] = d]
       /\ status' = [status EXCEPT
                       ![r] = IF d THEN "pending" ELSE "processing"]
  /\ Goto(r, "submit")
  /\ UNCHANGED <<providerId, timed, old, todo, attempt, ambiguous,
                 backendVars, zernioVars, userVars>>

CurrentCall(r) == <<r, attempt[r]>>

\* publish_node posts to the backend and waits for the answer.
Submit(r) ==
  /\ pc[r] = "submit"
  /\ bpc' = [bpc EXCEPT ![CurrentCall(r)] = "read"]
  /\ Goto(r, "await")
  /\ UNCHANGED <<status, providerId, timed, deferred, old, todo, attempt, try,
                 got, ambiguous, zernioVars, userVars>>

\* Variant: the loop does not break on 4xx.
Final_Never(answer) == FALSE

\* HTTP 4xx from the backend ends the loop; everything else is retried.
Final(answer) == answer = "http4xx"

\* Variant: the attempt is not counted.
NextAttempt_Uncounted(r) == Goto(r, "submit") /\ UNCHANGED attempt

\* The end of an iteration of publish_node's loop that did not return.
NextAttempt(r) ==
  IF attempt[r] < MaxRetries
    THEN /\ attempt' = [attempt EXCEPT ![r] = @ + 1]
         /\ Goto(r, "submit")
    ELSE /\ Goto(r, "fail")
         /\ UNCHANGED attempt

ReceiveError(r) ==
  /\ pc[r] = "await"
  /\ bpc[CurrentCall(r)] \in Answered \ {"ok"}
  /\ IF Final(bpc[CurrentCall(r)])
       THEN Goto(r, "fail") /\ UNCHANGED attempt
       ELSE NextAttempt(r)
  /\ UNCHANGED <<status, providerId, timed, deferred, old, todo, ambiguous,
                 backendVars, zernioVars, userVars>>

\* The 30 s of httpx are over; the backend goes on with the abandoned call.
Timeout(r) ==
  /\ "timeout" \in Faults
  /\ pc[r] = "await"
  /\ bpc[CurrentCall(r)] \notin Answered
  /\ NextAttempt(r)
  /\ ambiguous' = ambiguous \cup {r}
  /\ UNCHANGED <<status, providerId, timed, deferred, old, todo,
                 backendVars, zernioVars, userVars>>

\* The answer's provider id is saved, in a transaction that leaves the status
\* alone; an exception of that transaction is retried like any other.
ReceiveOk(r) ==
  /\ pc[r] = "await"
  /\ bpc[CurrentCall(r)] = "ok"
  /\ \/ /\ providerId' = [providerId EXCEPT ![r] = got[CurrentCall(r)]]
        /\ Goto(r, "done")
        /\ UNCHANGED <<attempt, ambiguous>>
     \/ /\ "dberror" \in Faults
        /\ NextAttempt(r)
        /\ ambiguous' = ambiguous \cup {r}
        /\ UNCHANGED providerId
  /\ UNCHANGED <<status, timed, deferred, old, todo,
                 backendVars, zernioVars, userVars>>

\* Variant: the pipeline gives up without a word to the database.
Fail_Silently(r) ==
  /\ pc[r] = "fail"
  /\ Goto(r, "done")
  /\ UNCHANGED <<status, providerId, timed, deferred, old, todo, attempt,
                 ambiguous, backendVars, zernioVars, userVars>>

\* All retries exhausted: the row is FAILED, whatever it was before.
Fail(r) ==
  /\ pc[r] = "fail"
  /\ status' = [status EXCEPT ![r] = "failed"]
  /\ Goto(r, "done")
  /\ UNCHANGED <<providerId, timed, deferred, old, todo, attempt, ambiguous,
                 backendVars, zernioVars, userVars>>

\* run_publish_pipeline handles no exception and no restart: the row keeps the
\* status of the last commit, an open transaction is undone.
Dies(r) ==
  /\ "die" \in Faults
  /\ pc[r] \notin {"idle", "done", "raised"}
  /\ Goto(r, "raised")
  /\ old' = [old EXCEPT ![r] = {}]
  /\ todo' = [todo EXCEPT ![r] = {}]
  /\ UNCHANGED <<status, providerId, timed, deferred, attempt, ambiguous,
                 backendVars, zernioVars, userVars>>

PipelineStep(r) ==
  \/ CreateRow(r) \/ Resolve(r) \/ SupersedeUpstream(r) \/ Claim(r)
  \/ Schedule(r) \/ Submit(r) \/ ReceiveError(r) \/ ReceiveOk(r) \/ Fail(r)

-----------------------------------------------------------------------------
(* The backend: publishPost, called through POST /internal/publish.        *)

NeedsPost(r) == providerId[r] = NoPost

Answer(c, answer) == bpc' = [bpc EXCEPT ![c] = answer]

\* A row that already has its provider id is answered without a new post; an
\* account that is not linked, or no single medium, is a 400.
ReadRow(c) ==
  /\ bpc[c] = "read"
  /\ \/ /\ "refuse" \in Faults
        /\ Answer(c, "http4xx")
        /\ UNCHANGED got
     \/ /\ NeedsPost(c[1])
        /\ Answer(c, "posting")
        /\ UNCHANGED got
     \/ /\ ~NeedsPost(c[1])
        /\ got' = [got EXCEPT ![c] = providerId[c[1]]]
        /\ Answer(c, "ok")
  /\ UNCHANGED <<status, providerId, try, ambiguous, pipelineVars, zernioVars,
                 userVars>>

CurrentPost(c) == <<c[1], c[2], try[c]>>

\* Variant: the backend's attempt is not counted.
NextTry_Uncounted(c) == Answer(c, "posting") /\ UNCHANGED try

\* The end of an iteration of publishPost's loop after an error that may pass.
NextTry(c) ==
  IF try[c] < ApiRetries
    THEN /\ try' = [try EXCEPT ![c] = @ + 1]
         /\ Answer(c, "posting")
    ELSE /\ Answer(c, "http5xx")
         /\ UNCHANGED try

\* What Zernio makes of a new post: a deferred one is scheduled, another is
\* published before the answer or is still being processed.
Accepted(c) == IF deferred[c[1]] THEN {"scheduled"}
               ELSE {"processing", "published"}

\* Zernio accepts POST /posts.  If the answer arrives, it carries the id; if
\* it is lost, the backend sees an error without a response.
Post_Accepted(c) ==
  /\ bpc[c] = "posting"
  /\ \E s \in Accepted(c) :
       /\ Becomes(CurrentPost(c), s)
       /\ \/ /\ got' = [got EXCEPT ![c] = CurrentPost(c)]
             /\ Answer(c, IF s = "published" THEN "marking" ELSE "ok")
             /\ UNCHANGED <<try, ambiguous>>
          \/ /\ "lost" \in Faults
             /\ NextTry(c)
             /\ ambiguous' = ambiguous \cup {c[1]}
             /\ UNCHANGED got
  /\ UNCHANGED <<status, providerId, match, pipelineVars, userVars>>

\* 401 and 403 become a 401 of the backend; any other 4xx leaves the loop and
\* is rethrown as it is, which the exception filter answers with 500.
Post_Refused(c) ==
  /\ "refuse" \in Faults
  /\ bpc[c] = "posting"
  /\ Answer(c, "http4xx") \/ Answer(c, "refused")
  /\ UNCHANGED <<status, providerId, try, got, ambiguous, pipelineVars,
                 zernioVars, userVars>>

Post_Unavailable(c) ==
  /\ "down" \in Faults
  /\ bpc[c] = "posting"
  /\ NextTry(c)
  /\ UNCHANGED <<status, providerId, got, ambiguous, pipelineVars, zernioVars,
                 userVars>>

\* Variant: after marking the row the loop is not left.
MarkPublished_NoReturn(c) ==
  /\ bpc[c] = "marking"
  /\ status' = [status EXCEPT ![c[1]] = "published"]
  /\ NextTry(c)
  /\ UNCHANGED <<providerId, got, ambiguous, pipelineVars, zernioVars,
                 userVars>>

\* Published before the answer: the row is marked at once.  The update is
\* inside the try block, so its failure is retried like a failed POST.
MarkPublished(c) ==
  /\ bpc[c] = "marking"
  /\ \/ /\ status' = [status EXCEPT ![c[1]] = "published"]
        /\ Answer(c, "ok")
        /\ UNCHANGED <<try, ambiguous>>
     \/ /\ "dberror" \in Faults
        /\ NextTry(c)
        /\ ambiguous' = ambiguous \cup {c[1]}
        /\ UNCHANGED status
  /\ UNCHANGED <<providerId, got, pipelineVars, zernioVars, userVars>>

\* The backend restarts: the pipeline sees its connection broken.
CallDies(c) ==
  /\ "die" \in Faults
  /\ bpc[c] \in {"read", "posting", "marking"}
  /\ Answer(c, "http5xx")
  /\ ambiguous' = IF bpc[c] = "marking" THEN ambiguous \cup {c[1]}
                  ELSE ambiguous
  /\ UNCHANGED <<status, providerId, try, got, pipelineVars, zernioVars,
                 userVars>>

BackendStep(c) ==
  \/ ReadRow(c) \/ Post_Accepted(c) \/ Post_Refused(c) \/ Post_Unavailable(c)
  \/ MarkPublished(c)

-----------------------------------------------------------------------------
(* Zernio (external) and the webhook handler of the backend.               *)

\* A post that waits is eventually published on TikTok or fails.
ZernioFinishes(z) ==
  /\ zstate[z] \in Waiting
  /\ \E s \in {"published", "failed"} : Becomes(z, s)
  /\ UNCHANGED <<content, image, status, providerId, match, cancelling,
                 resetting, ambiguous, pipelineVars, backendVars>>

\* handleWebhook inserts the event id in a transaction of its own.  Another
\* delivery of the same id finds it and returns, which changes nothing.
Unhandled(e) == event[e] = "sent"

Deliver(e) ==
  /\ Unhandled(e)
  /\ event' = [event EXCEPT ![e] = "logged"]
  /\ UNCHANGED <<status, providerId, zstate, match, ambiguous, pipelineVars,
                 backendVars, userVars>>

\* Variant: any submitted row of the content post is taken.
Matches_AnySubmitted(r, e) == providerId[r] # NoPost

Matches(r, e) == providerId[r] = e[1]

\* handlePostEvent looks the row up by its provider id and drops the event
\* when no row has it.
FindRow(e) ==
  /\ event[e] = "logged"
  /\ \/ \E r \in Row :
          /\ Matches(r, e)
          /\ match' = [match EXCEPT ![e] = r]
          /\ event' = [event EXCEPT ![e] = "matched"]
     \/ /\ \A r \in Row : ~Matches(r, e)
        /\ event' = [event EXCEPT ![e] = "unmatched"]
        /\ UNCHANGED match
  /\ UNCHANGED <<status, providerId, zstate, ambiguous, pipelineVars,
                 backendVars, userVars>>

\* Variant: Zernio's word is stored as it comes.
StatusOf_Verbatim(kind) == kind

\* post.published, post.scheduled, post.cancelled, post.failed, post.partial.
StatusOf(kind) ==
  [published |-> "published", scheduled |-> "pending",
   cancelled |-> "cancelled", failed |-> "failed"][kind]

\* The update is by row id and looks at nothing the row holds by then.
ApplyEvent(e) ==
  /\ event[e] = "matched"
  /\ status' = [status EXCEPT ![match[e]] = StatusOf(e[2])]
  /\ event' = [event EXCEPT ![e] = "applied"]
  /\ match' = [match EXCEPT ![e] = NoRow]
  /\ UNCHANGED <<providerId, zstate, ambiguous, pipelineVars, backendVars,
                 userVars>>

\* The handler fails or the backend restarts after the id was inserted.
HandlerDies(e) ==
  /\ "die" \in Faults
  /\ event[e] \in {"logged", "matched"}
  /\ event' = [event EXCEPT ![e] = "lost"]
  /\ match' = [match EXCEPT ![e] = NoRow]
  /\ UNCHANGED <<status, providerId, zstate, ambiguous, pipelineVars,
                 backendVars, userVars>>

WebhookStep(e) == Deliver(e) \/ FindRow(e) \/ ApplyEvent(e)

-----------------------------------------------------------------------------
(* What users do meanwhile.                                                *)

\* updateStatus and review set any status, whatever the post's publishing does.
Review(s) ==
  /\ s \in Reviews
  /\ content' = s
  /\ UNCHANGED <<image, status, providerId, cancelling, resetting, ambiguous,
                 pipelineVars, backendVars, zernioVars>>

PendingRows == {q \in Row : status[q] = "pending"}

\* cancel_scheduled_publish loads the one PENDING row: none is a 404, several
\* an error.  (One cancel request at a time.)
CancelRead(r) ==
  /\ "cancel" \in Faults
  /\ cancelling.step = "idle"
  /\ PendingRows = {r}
  /\ cancelling' = [step |-> IF providerId[r] = NoPost THEN "write"
                             ELSE "upstream",
                    row |-> r]
  /\ UNCHANGED <<content, image, status, providerId, resetting, ambiguous,
                 pipelineVars, backendVars, zernioVars>>

CancelUpstream ==
  /\ cancelling.step = "upstream"
  /\ DeleteUpstream(cancelling.row)
  /\ cancelling' = [cancelling EXCEPT !.step = "write"]
  /\ UNCHANGED <<content, image, status, providerId, resetting, ambiguous,
                 match, pipelineVars, backendVars>>

\* The commit writes CANCELLED by what was loaded before the upstream call.
CancelWrite ==
  /\ cancelling.step = "write"
  /\ status' = [status EXCEPT ![cancelling.row] = "cancelled"]
  /\ cancelling' = Idle
  /\ UNCHANGED <<content, image, providerId, resetting, ambiguous,
                 pipelineVars, backendVars, zernioVars>>

CancelDies ==
  /\ "die" \in Faults
  /\ cancelling.step # "idle"
  /\ cancelling' = Idle
  /\ UNCHANGED <<content, image, status, providerId, resetting, ambiguous,
                 pipelineVars, backendVars, zernioVars>>

\* The backend's publishNow on a row of the user that is not finished.
\* (One such request at a time.)
ResetRead(r) ==
  /\ "reset" \in Faults
  /\ resetting.step = "idle"
  /\ status[r] \in ActiveStatus
  /\ resetting' = [step |-> IF providerId[r] = NoPost THEN "write"
                            ELSE "upstream",
                   row |-> r]
  /\ UNCHANGED <<content, image, status, providerId, cancelling, ambiguous,
                 pipelineVars, backendVars, zernioVars>>

ResetUpstream ==
  /\ resetting.step = "upstream"
  /\ DeleteUpstream(resetting.row)
  /\ resetting' = [resetting EXCEPT !.step = "write"]
  /\ UNCHANGED <<content, image, status, providerId, cancelling, ambiguous,
                 match, pipelineVars, backendVars>>

\* The row is pending again without a provider id, also when the upstream
\* delete failed; who submits it again is left to the caller.
ResetWrite ==
  /\ resetting.step = "write"
  /\ providerId' = [providerId EXCEPT ![resetting.row] = NoPost]
  /\ status' = [status EXCEPT ![resetting.row] = "pending"]
  /\ resetting' = Idle
  /\ UNCHANGED <<content, image, cancelling, ambiguous, pipelineVars,
                 backendVars, zernioVars>>

ResetDies ==
  /\ "die" \in Faults
  /\ resetting.step # "idle"
  /\ resetting' = Idle
  /\ UNCHANGED <<content, image, status, providerId, cancelling, ambiguous,
                 pipelineVars, backendVars, zernioVars>>

-----------------------------------------------------------------------------
Next ==
  \/ \E r \in Row :
       \/ Validate(r) \/ PipelineStep(r) \/ Timeout(r) \/ Dies(r)
       \/ CancelRead(r) \/ ResetRead(r)
  \/ \E c \in Call : BackendStep(c) \/ CallDies(c)
  \/ \E z \in Post : ZernioFinishes(z)
  \/ \E e \in Event : WebhookStep(e) \/ HandlerDies(e)
  \/ \E s \in ContentStatus : Review(s)
  \/ CancelUpstream \/ CancelWrite \/ CancelDies
  \/ ResetUpstream \/ ResetWrite \/ ResetDies

Spec == Init /\ [][Next]_vars

\* The event loops run what is ready, httpx times out, Zernio finishes what it
\* accepted and repeats a delivery until it is answered.  Nothing makes a user
\* act or an answer get lost.
Fairness ==
  /\ \A r \in Row : WF_vars(PipelineStep(r) \/ Timeout(r) \/ Dies(r))
  /\ \A c \in Call : WF_vars(BackendStep(c) \/ CallDies(c))
  /\ \A z \in Post : WF_vars(ZernioFinishes(z))
  /\ \A e \in Event : WF_vars(WebhookStep(e) \/ HandlerDies(e))
  /\ WF_vars(CancelUpstream \/ CancelWrite \/ CancelDies)
  /\ WF_vars(ResetUpstream \/ ResetWrite \/ ResetDies)

FairSpec == Spec /\ Fairness

-----------------------------------------------------------------------------
(* Safety.                                                                 *)

Created(z) == zstate[z] # "none"
PostsOf(r) == {z \in Post : z[1] = r /\ Created(z)}

\* A row shows "published" only if one of the Zernio posts made for this very
\* row was published: no late, repeated or foreign webhook, and no shortcut of
\* publishPost, marks a row whose post did not go out.
PublishedIsReal ==
  \A r \in Row : status[r] = "published" =>
    \E z \in PostsOf(r) : zstate[z] = "published"

\* The retries of publish_node and publishPost together submit a row at most
\* once, unless the outcome of an earlier try was in doubt: a lost answer, a
\* timeout, or a failed database write after Zernio had accepted.
DuplicateNeedsDoubt ==
  \A r \in Row \ ambiguous : \A y, z \in PostsOf(r) : y = z

\* A row that shows "processing" is still being worked on, or its provider id
\* is there for a webhook to find, or its pipeline died.
ProcessingIsExplained ==
  \A r \in Row : status[r] = "processing" =>
    Running(r) \/ providerId[r] # NoPost \/ pc[r] = "raised"

\* A 4xx of the backend ends the pipeline: no attempt follows it, except one
\* made before the answer because the pipeline had timed out on the call.
RefusalIsFinal ==
  \A r \in Row \ ambiguous : \A a \in 0 .. MaxRetries :
    bpc[<<r, a>>] = "http4xx" => a = attempt[r]

\* Publishing again once an earlier publish is through replaces it: with an
\* undisturbed network and one publish at a time, Zernio never holds a waiting
\* post of two rows, so the older schedule cannot go out beside the newer.
OneWaitingPost ==
  \A y, z \in Post :
    zstate[y] \in Waiting /\ zstate[z] \in Waiting => y[1] = z[1]

\* What a pipeline, and a call of the backend, has still before it, retries
\* included; the deletions of a supersede are counted by todo.
Stage == [idle |-> 8, validated |-> 7, resolve |-> 6, supersede |-> 5,
          schedule |-> 4, submit |-> 3, await |-> 2, fail |-> 1, done |-> 0,
          raised |-> 0]
StepsLeft(r) == 2 * (MaxRetries - attempt[r]) + Stage[pc[r]]

CallStage == [none |-> 4, read |-> 3, posting |-> 2, marking |-> 1, ok |-> 0,
              http4xx |-> 0, http5xx |-> 0, refused |-> 0]
TriesLeft(c) == 2 * (ApiRetries - try[c]) + CallStage[bpc[c]]

\* The two nested retry loops run out: whatever times out, fails or restarts
\* between them, every step of a pipeline and of the backend brings its loop
\* nearer to the end, nothing throws a loop back, and no attempt takes up a
\* call that another has left.
RetriesRunOut ==
  [][/\ \A r \in Row :
          /\ \/ StepsLeft(r)' < StepsLeft(r)
             \/ /\ pc'[r] = pc[r] /\ attempt'[r] = attempt[r]
                /\ todo'[r] \subseteq todo[r]
          /\ PipelineStep(r) =>
               StepsLeft(r)' < StepsLeft(r) \/ todo'[r] # todo[r]
     /\ \A c \in Call :
          /\ \/ TriesLeft(c)' < TriesLeft(c)
             \/ bpc'[c] = bpc[c] /\ try'[c] = try[c]
          /\ BackendStep(c) => TriesLeft(c)' < TriesLeft(c)]_vars

(* Liveness.                                                               *)

\* Whatever Zernio, the database and the network answer, the loops of
\* publish_node and publishPost end: a row taken up is not worked on forever.
PipelineEnds == \A r \in Row : pc[r] = "resolve" ~> ~Running(r)

-----------------------------------------------------------------------------
(* The inductive invariant behind the safety properties.                   *)

BeforeSubmit == {"idle", "validated", "resolve", "supersede", "schedule",
                 "submit"}

\* No call exists beyond the current attempt, nor at it before it is sent.
CallsInOrder ==
  \A r \in Row : \A a \in 0 .. MaxRetries :
    a > attempt[r] \/ (a = attempt[r] /\ pc[r] \in BeforeSubmit)
      => bpc[<<r, a>>] = "none"

\* A call that is not answered has not used its later tries.
TriesAreFresh ==
  \A c \in Call : \A t \in 0 .. ApiRetries :
    \/ t > try[c]
    \/ t = try[c] /\ bpc[c] \in {"none", "read", "posting"}
    => zstate[<<c[1], c[2], t>>] = "none"

\* Without doubt, the earlier calls of a row were answered, with an error that
\* is retried, and its post is the one the current call is about to report.
EarlierCallsFailed ==
  \A r \in Row \ ambiguous : \A a \in 0 .. MaxRetries :
    a < attempt[r] => bpc[<<r, a>>] \in {"http5xx", "refused"}

OnlyPostIsCurrent ==
  \A r \in Row \ ambiguous : \A z \in PostsOf(r) :
    /\ z = CurrentPost(CurrentCall(r))
    /\ bpc[CurrentCall(r)] \in {"marking", "ok"}

\* Provider ids stay with their row, in calls, rows and matched events.
IdsAreOwn ==
  /\ \A c \in Call : got[c] # NoPost => got[c][1] = c[1]
  /\ \A c \in Call : bpc[c] \in {"marking", "ok"} => got[c] # NoPost
  /\ \A r \in Row : providerId[r] # NoPost => providerId[r][1] = r
  /\ \A e \in Event : event[e] = "matched" => match[e] = e[1][1]

\* What says "published" upstream is published.
NewsIsTrue ==
  /\ \A c \in Call : bpc[c] = "marking" => zstate[CurrentPost(c)] = "published"
  /\ \A z \in Post : event[<<z, "published">>] # "unsent"
                      => zstate[z] = "published"

IInv ==
  /\ TypeOK
  /\ CallsInOrder
  /\ TriesAreFresh
  /\ EarlierCallsFailed
  /\ OnlyPostIsCurrent
  /\ IdsAreOwn
  /\ NewsIsTrue
  /\ PublishedIsReal
  /\ ProcessingIsExplained

-----------------------------------------------------------------------------
(* The inductive invariant behind OneWaitingPost, for an instance in which   *)
(* nothing is lost, late, cancelled or reset and no two publishes overlap.   *)

Undisturbed == Faults \subseteq {"refuse"}

\* Nobody but the pipelines acts, they act in turn, and no outcome is open.
InTurn ==
  /\ ambiguous = {} /\ cancelling = Idle /\ resetting = Idle
  /\ \A q, r \in Row : Running(q) /\ Running(r) => q = r

\* The backend works only while it is waited for, and a row that gave up was
\* told of no post.
CallsAreAwaited ==
  /\ \A c \in Call :
       bpc[c] \in {"read", "posting", "marking"} => pc[c[1]] = "await"
  /\ \A r \in Row :
       pc[r] \in {"fail", "raised"} => bpc[CurrentCall(r)] \notin {"marking", "ok"}

\* The post of a row is the one its call reports, and the row of a pipeline
\* that is through knows it.
PostsAreKnown ==
  /\ \A r \in Row : \A z \in PostsOf(r) :
       got[CurrentCall(r)] = z /\ (pc[r] = "done" => providerId[r] = z)
  /\ \A r \in Row : providerId[r] # NoPost => pc[r] = "done"

\* The news that a post is through is sent when it is.
FinalNewsIsTrue ==
  \A z \in Post, k \in {"published", "failed", "cancelled"} :
    event[<<z, k>>] # "unsent" => Created(z) /\ zstate[z] \notin Waiting

Pursued(r) ==
  \/ pc[r] \in {"submit", "await"} /\ bpc[CurrentCall(r)] \notin {"marking", "ok"}
  \/ \E z \in PostsOf(r) : zstate[z] \in Waiting

\* A row that is going to have a waiting post, or has one, is there for the
\* next publish to find.
PursuedIsActive == \A r \in Row : Pursued(r) => status[r] \in ActiveStatus

Superseding == {"supersede", "schedule", "submit", "await", "fail"}

\* From resolve on, what waits of the other rows is on the list to be deleted.
OthersAreListed ==
  \A r \in Row : pc[r] \in Superseding =>
    \A z \in Post : zstate[z] \in Waiting /\ z[1] # r =>
      pc[r] = "supersede" /\ z[1] \in todo[r]

SerialInv ==
  /\ InTurn
  /\ CallsAreAwaited
  /\ PostsAreKnown
  /\ FinalNewsIsTrue
  /\ PursuedIsActive
  /\ OthersAreListed
  /\ OneWaitingPost

-----------------------------------------------------------------------------
(* The abstract specification.                                             *)

InState(S) == {z \in Post : zstate[z] \in S}

Ledger == INSTANCE PublishLedger
            WITH taken <- InState(ZernioState \ {"none"}),
                 out <- InState({"published"}),
                 gone <- InState({"failed", "cancelled"}),
                 shown <- {r \in Row : status[r] = "published"},
                 doubt <- ambiguous

\* With every retry, timeout, crash, webhook and user action, publishing keeps
\* the promise of the ledger: a second submission of a row is preceded by a
\* doubt, and every success in the history by a publication.
ImplementsLedger == Ledger!Spec

=============================================================================
