-------------------------------- MODULE ScanRun --------------------------------
(***************************************************************************)
(* One ScanRun row and the background task that serves it: run_scan, which *)
(* scans HackerNews, or run_article_pipeline, which reads one article and  *)
(* hands it to the same post generation.  A step is one database           *)
(* transaction or one node of the graph that may raise.                    *)
(***************************************************************************)
EXTENDS Naturals, FiniteSets

CONSTANTS
  Sources,     \* of "scan" and "article": the tasks that may serve the row
  Request,     \* what users ask of POST /posts/generate for this run
  MaxErrors,   \* how often a database transaction fails
  MayDie       \* may the ai-service restart during the run?

ASSUME ConstantsAssumption ==
  /\ Sources \subseteq {"scan", "article"}
  /\ IsFiniteSet(Request)
  /\ MaxErrors \in Nat
  /\ MayDie \in BOOLEAN

VARIABLES
  source,     \* which task serves the row: run_scan or run_article_pipeline
  status,     \* ScanRun.status
  step,       \* where the task is
  wants,      \* request.options.generate_posts
  scanned,    \* did the scanner, or the fetch, succeed?
  found,      \* are there analyzed trends to store?
  tries,      \* failed attempts of the model to make an article's report
  items,      \* are the run's TrendItem rows stored?
  posts,      \* how many generations have stored posts for the run
  extra,      \* the generations users ask for
  errors,     \* database errors so far, for MaxErrors
  unwritten   \* history: FAILED could not be written: an error, or a restart

runVars == <<source, wants>>
vars == <<runVars, status, step, scanned, found, tries, items, posts, extra,
          errors, unwritten>>

ScanStatus == {"pending", "running", "completed", "partial", "failed"}
Ended == {"completed", "partial", "failed"}
Ready == {"completed", "partial"}
ReportTries == 2   \* of build_article_report

TypeOK ==
  /\ source \in Sources
  /\ status \in ScanStatus
  /\ step \in {"start", "fetch", "analyze", "save", "item", "persist",
               "recover", "generate", "duration", "except", "end"}
  /\ wants \in BOOLEAN
  /\ scanned \in BOOLEAN
  /\ found \in BOOLEAN
  /\ tries \in 0 .. ReportTries
  /\ items \in BOOLEAN
  /\ posts \in 0 .. Cardinality(Request) + 1
  /\ extra \in [Request -> {"none", "accepted", "running", "over"}]
  /\ errors \in 0 .. MaxErrors
  /\ unwritten \in BOOLEAN

\* POST /scan hands the user's options to run_scan.
TriggerScan == source = "scan" /\ wants \in BOOLEAN

\* POST /posts/from-article: an article is always followed by post generation.
CreatePostFromArticle == source = "article" /\ wants = TRUE

\* Both endpoints insert a pending row and answer before the task starts.
Init ==
  /\ source \in Sources
  /\ TriggerScan \/ CreatePostFromArticle
  /\ status = "pending"
  /\ step = "start"
  /\ scanned = FALSE
  /\ found = FALSE
  /\ tries = 0
  /\ items = FALSE
  /\ posts = 0
  /\ extra = [q \in Request |-> "none"]
  /\ errors = 0
  /\ unwritten = FALSE

-----------------------------------------------------------------------------
\* A transaction fails and is undone.
DbError == errors < MaxErrors /\ errors' = errors + 1
NoError == UNCHANGED errors

\* The task raises; its handler runs next.
Raise == step' = "except"

Start ==
  /\ step = "start"
  /\ \/ NoError /\ status' = "running" /\ step' = "fetch"
     \/ DbError /\ Raise /\ UNCHANGED status
  /\ UNCHANGED <<runVars, scanned, found, tries, items, posts, extra,
                 unwritten>>

\* The HackerNews scanner returns its error as a result.
FetchTrends ==
  /\ step = "fetch" /\ source = "scan"
  /\ scanned' \in BOOLEAN
  /\ step' = "analyze"
  /\ NoError
  /\ UNCHANGED <<runVars, status, found, tries, items, posts, extra,
                 unwritten>>

Body == {"empty", "short", "article"}

DetectPaywall(body) == body = "short"

\* An article that cannot be fetched, is empty or behind a paywall raises.
FetchArticle ==
  /\ step = "fetch" /\ source = "article"
  /\ \/ \E body \in Body :
          IF body = "empty" \/ DetectPaywall(body)
            THEN Raise /\ UNCHANGED scanned
            ELSE scanned' = TRUE /\ step' = "analyze"
     \/ Raise /\ UNCHANGED scanned
  /\ NoError
  /\ UNCHANGED <<runVars, status, found, tries, items, posts, extra,
                 unwritten>>

\* The report and its summary go to the store with no handler around them.
SaveReportFails == scanned /\ Raise /\ UNCHANGED found

\* trend_analyzer: a model that fails costs a scan only its analysis, a store
\* that fails raises.
AnalyzeTrends ==
  /\ step = "analyze" /\ source = "scan"
  /\ \/ found' \in BOOLEAN /\ (found' => scanned) /\ step' = "save"
     \/ SaveReportFails
  /\ NoError
  /\ UNCHANGED <<runVars, status, scanned, tries, items, posts, extra,
                 unwritten>>

\* content_saver writes a file for each trend and swallows what fails.
SaveContent ==
  /\ step = "save" /\ source = "scan"
  /\ step' = "persist"
  /\ NoError
  /\ UNCHANGED <<runVars, status, scanned, found, tries, items, posts, extra,
                 unwritten>>

\* build_article_report asks the model once more after a failure.
BuildArticleReport ==
  /\ step = "analyze" /\ source = "article"
  /\ \/ found' = TRUE /\ step' = "save" /\ UNCHANGED tries
     \/ /\ tries' = tries + 1
        /\ IF tries' < ReportTries THEN UNCHANGED step ELSE Raise
        /\ UNCHANGED found
  /\ NoError
  /\ UNCHANGED <<runVars, status, scanned, items, posts, extra, unwritten>>

\* The report is written to the store before the row knows of it.
WriteReport ==
  /\ step = "save" /\ source = "article"
  /\ step' = "item" \/ Raise
  /\ NoError
  /\ UNCHANGED <<runVars, status, scanned, found, tries, items, posts, extra,
                 unwritten>>

\* _persist_trend_item, a transaction before the one that completes the run.
PersistItem ==
  /\ step = "item"
  /\ \/ NoError /\ items' = TRUE /\ step' = "persist"
     \/ DbError /\ Raise /\ UNCHANGED items
  /\ UNCHANGED <<runVars, status, scanned, found, tries, posts, extra,
                 unwritten>>

\* Variant: a word of another vocabulary.
Outcome_Success == IF scanned THEN "success" ELSE "failed"

\* One platform, so none or all of them failed and "partial" is not reached.
Outcome == IF scanned THEN "completed" ELSE "failed"

\* Variant: the status is committed before the items are added.
PersistScan_StatusFirst ==
  /\ step = "persist" /\ source = "scan"
  /\ status' = Outcome
  /\ \/ NoError /\ items' = found
        /\ step' = IF wants THEN "generate" ELSE "duration"
     \/ DbError /\ step' = "recover" /\ UNCHANGED items
  /\ UNCHANGED <<runVars, scanned, found, tries, posts, extra, unwritten>>

\* persist_results: items and status in one transaction.
PersistScan ==
  /\ step = "persist" /\ source = "scan"
  /\ \/ /\ NoError
        /\ status' = Outcome
        /\ items' = found
        /\ step' = IF wants THEN "generate" ELSE "duration"
     \/ DbError /\ step' = "recover" /\ UNCHANGED <<status, items>>
  /\ UNCHANGED <<runVars, scanned, found, tries, posts, extra, unwritten>>

\* Variant: after the rollback nothing is written.
Recover_Nothing ==
  /\ step = "recover"
  /\ step' = IF wants THEN "generate" ELSE "duration"
  /\ UNCHANGED <<runVars, status, scanned, found, tries, items, posts, extra,
                 errors, unwritten>>

\* The rest of persist_results after a rollback: the row is FAILED, and an
\* error of this transaction too is swallowed.
Recover ==
  /\ step = "recover"
  /\ \/ NoError /\ status' = "failed" /\ UNCHANGED unwritten
     \/ DbError /\ unwritten' = TRUE /\ UNCHANGED status
  /\ step' = IF wants THEN "generate" ELSE "duration"
  /\ UNCHANGED <<runVars, scanned, found, tries, items, posts, extra>>

PersistArticle ==
  /\ step = "persist" /\ source = "article"
  /\ \/ NoError /\ status' = "completed" /\ step' = "generate"
     \/ DbError /\ Raise /\ UNCHANGED status
  /\ UNCHANGED <<runVars, scanned, found, tries, items, posts, extra,
                 unwritten>>

-----------------------------------------------------------------------------
\* run_post_generation accepts a run that is completed or partial.
Validated == status \in Ready

\* Variant: a generation invents a plan when there are no trend items.
Stores_Unplanned == posts' \in {posts, posts + 1}

\* What a generation that gets this far stores: without trend items there is
\* no plan and no post; a database error of the packaging is swallowed there.
Stores == \/ UNCHANGED posts
          \/ items /\ posts' = posts + 1

\* Variant: generate_posts_node lets the error through.
GenerateFails_Raise == Raise

\* generate_posts_node swallows what post generation raises; the article
\* pipeline does not.
GenerateFails == IF source = "scan" THEN step' = "duration" ELSE Raise

Generate ==
  /\ step = "generate"
  /\ \/ /\ Validated
        /\ Stores
        /\ step' = IF source = "scan" THEN "duration" ELSE "end"
        /\ NoError
     \/ GenerateFails /\ NoError /\ UNCHANGED posts
     \/ source = "scan" /\ DbError /\ Raise /\ UNCHANGED posts
  /\ UNCHANGED <<runVars, status, scanned, found, tries, items, extra,
                 unwritten>>

\* run_scan adds the duration when the graph has ended.
Duration ==
  /\ step = "duration"
  /\ \/ NoError /\ step' = "end"
     \/ DbError /\ Raise
  /\ UNCHANGED <<runVars, status, scanned, found, tries, items, posts, extra,
                 unwritten>>

\* Variant: the row is put back for another try.
Except_Requeue ==
  /\ step = "except"
  /\ status' = "pending"
  /\ step' = "end"
  /\ UNCHANGED <<runVars, scanned, found, tries, items, posts, extra,
                 errors, unwritten>>

\* The handlers of both tasks: the row is FAILED whatever it was; an error of
\* this transaction ends the task.
Except ==
  /\ step = "except"
  /\ \/ NoError /\ status' = "failed" /\ UNCHANGED unwritten
     \/ DbError /\ unwritten' = TRUE /\ UNCHANGED status
  /\ step' = "end"
  /\ UNCHANGED <<runVars, scanned, found, tries, items, posts, extra>>

\* A restart loses the task; nothing takes the row up again.
Dies ==
  /\ MayDie
  /\ step # "end"
  /\ step' = "end"
  /\ unwritten' = TRUE
  /\ UNCHANGED <<runVars, status, scanned, found, tries, items, posts, extra,
                 errors>>

TaskStep ==
  \/ Start \/ FetchTrends \/ AnalyzeTrends \/ SaveContent \/ PersistScan
  \/ Recover \/ FetchArticle \/ BuildArticleReport \/ WriteReport
  \/ PersistItem \/ PersistArticle \/ Generate \/ Duration \/ Except

-----------------------------------------------------------------------------
\* POST /posts/generate on a run that has ended: accepted by its status now,
\* validated again by the background task.
AcceptRequest(q) ==
  /\ extra[q] = "none" /\ status \in Ready
  /\ extra' = [extra EXCEPT ![q] = "accepted"]
  /\ UNCHANGED <<runVars, status, step, scanned, found, tries, items, posts,
                 errors, unwritten>>

ValidateRequest(q) ==
  /\ extra[q] = "accepted"
  /\ extra' = [extra EXCEPT ![q] = IF Validated THEN "running" ELSE "over"]
  /\ UNCHANGED <<runVars, status, step, scanned, found, tries, items, posts,
                 errors, unwritten>>

GenerateRequest(q) ==
  /\ extra[q] = "running"
  /\ Stores
  /\ extra' = [extra EXCEPT ![q] = "over"]
  /\ UNCHANGED <<runVars, status, step, scanned, found, tries, items, errors,
                 unwritten>>

Next ==
  \/ TaskStep \/ Dies
  \/ \E q \in Request :
       AcceptRequest(q) \/ ValidateRequest(q) \/ GenerateRequest(q)

Spec == Init /\ [][Next]_vars

\* A background task goes on until it returns, raises or is lost.
FairSpec == Spec /\ WF_vars(TaskStep)

-----------------------------------------------------------------------------
\* A run that shows completed, as pollers and /posts/generate read it, has all
\* it found in the database, whichever transaction failed before or after.
CompletedHasItems == status \in Ready => items = found

\* Posts come from a run that ended well: its items are there, and only an
\* error after that can have made it FAILED; while it runs there are none.
PostsFollowCompletion == posts > 0 => items /\ status \in Ended

\* Both tasks leave the row in a status that ends the polling, whatever raises
\* in between, unless the transaction that writes FAILED fails itself or the
\* service restarts.
RunEnds == (step # "start") ~> (status \in Ended \/ unwritten)

-----------------------------------------------------------------------------
\* A scan keeps to the documented lifecycle for as long as its transactions
\* succeed: no error of the post generation that follows takes its status back.
Lifecycle == INSTANCE ScanLifecycle WITH missing <- (found /\ ~items)

ImplementsLifecycle ==
  /\ Lifecycle!Init
  /\ [][source = "scan" /\ errors' = 0 => Lifecycle!Next]_(Lifecycle!vars)

=============================================================================
