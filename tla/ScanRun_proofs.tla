----------------------------- MODULE ScanRun_proofs -----------------------------
(***************************************************************************)
(* Proofs about ScanRun for any set of requests, any number of failing     *)
(* transactions, with and without restarts.                                *)
(***************************************************************************)
EXTENDS ScanRun, FiniteSetTheorems, TLAPS

LEMMA RequestIsFinite == IsFiniteSet(Request)
BY ConstantsAssumption

Over == {q \in Request : extra[q] = "over"}
Own == IF step \in {"duration", "except", "end"} THEN 1 ELSE 0

\* Each generation stores posts once: those that are over, and the run's own.
PostsAreCounted == posts \in Nat /\ posts <= Cardinality(Over) + Own

\* The type of all variables but posts.
Typed ==
  /\ source \in Sources
  /\ status \in ScanStatus
  /\ step \in {"start", "fetch", "analyze", "save", "item", "persist",
               "recover", "generate", "duration", "except", "end"}
  /\ wants \in BOOLEAN
  /\ scanned \in BOOLEAN
  /\ found \in BOOLEAN
  /\ tries \in 0 .. ReportTries
  /\ items \in BOOLEAN
  /\ extra \in [Request -> {"none", "accepted", "running", "over"}]
  /\ errors \in 0 .. MaxErrors
  /\ unwritten \in BOOLEAN

BeforeTheEnd == {"start", "fetch", "analyze", "save", "item", "persist",
                 "recover"}

\* What the task has done when it stands at a step.
TaskInOrder ==
  /\ step \in BeforeTheEnd => status \in {"pending", "running"}
  /\ step \in {"start", "fetch", "analyze"} => tries < ReportTries
  /\ step = "item" => source = "article"
  /\ source = "article" /\ step \in {"save", "item", "persist"} => found
  /\ source = "article" /\ step = "persist" => items

\* A generation that was asked for was accepted by the end of the run.
RequestsFollowTheEnd ==
  \A q \in Request : extra[q] # "none" => status \in Ended

IInv ==
  /\ Typed
  /\ PostsAreCounted
  /\ TaskInOrder
  /\ RequestsFollowTheEnd
  /\ CompletedHasItems
  /\ PostsFollowCompletion

LEMMA CountBounds ==
  ASSUME Typed
  PROVE  /\ IsFiniteSet(Over)
         /\ Cardinality(Over) \in Nat
         /\ Cardinality(Over) <= Cardinality(Request)
         /\ Cardinality(Request) \in Nat
  BY RequestIsFinite, FS_Subset, FS_CardinalityType DEF Over

LEMMA InvGivesType == IInv => TypeOK
<1> SUFFICES ASSUME IInv PROVE TypeOK
  OBVIOUS
<1>1. posts \in 0 .. Cardinality(Request) + 1
  BY CountBounds DEF IInv, PostsAreCounted, Own
<1> QED
  BY <1>1 DEF IInv, Typed, TypeOK

LEMMA InvInit == Init => IInv
<1> SUFFICES ASSUME Init PROVE IInv
  OBVIOUS
<1>1. Typed
  <2>1. extra \in [Request -> {"none", "accepted", "running", "over"}]
    BY DEF Init
  <2>2. errors \in 0 .. MaxErrors /\ tries \in 0 .. ReportTries
    BY ConstantsAssumption DEF Init, ReportTries
  <2>3. /\ source \in Sources
        /\ status \in ScanStatus
        /\ step = "start"
        /\ wants \in BOOLEAN
        /\ scanned \in BOOLEAN /\ found \in BOOLEAN /\ items \in BOOLEAN
        /\ unwritten \in BOOLEAN
    BY DEF Init, TriggerScan, CreatePostFromArticle, ScanStatus
  <2> QED
    BY <2>1, <2>2, <2>3 DEF Typed
<1>2. PostsAreCounted
  BY <1>1, CountBounds DEF Init, PostsAreCounted, Own
<1>3. TaskInOrder
  BY DEF Init, TaskInOrder, BeforeTheEnd, ReportTries
<1> QED
  BY <1>1, <1>2, <1>3 DEF Init, IInv, RequestsFollowTheEnd,
     CompletedHasItems, PostsFollowCompletion, Ready

-----------------------------------------------------------------------------
\* The steps of the task that touch neither posts nor requests.
Work ==
  \/ Start \/ FetchTrends \/ AnalyzeTrends \/ SaveContent \/ PersistScan
  \/ Recover \/ FetchArticle \/ BuildArticleReport \/ WriteReport
  \/ PersistItem \/ PersistArticle \/ Duration \/ Except \/ Dies

LEMMA WorkStep ==
  ASSUME IInv, Work
  PROVE  Typed' /\ TaskInOrder' /\ CompletedHasItems'
<1> USE DEF IInv, Typed, TaskInOrder, CompletedHasItems, BeforeTheEnd,
            ReportTries, ScanStatus, Ready, DbError, NoError, Raise, runVars
<1> USE ConstantsAssumption
<1>1. CASE Start
  BY <1>1 DEF Start
<1>2. CASE FetchTrends
  BY <1>2 DEF FetchTrends
<1>3. CASE AnalyzeTrends
  BY <1>3 DEF AnalyzeTrends, SaveReportFails
<1>4. CASE SaveContent
  BY <1>4 DEF SaveContent
<1>5. CASE PersistScan
  BY <1>5 DEF PersistScan, Outcome
<1>6. CASE Recover
  <2> USE <1>6 DEF Recover
  <2>1. /\ step = "recover" /\ step' \in {"generate", "duration"}
        /\ status \in {"pending", "running"}
        /\ status' \in {"pending", "running", "failed"}
        /\ UNCHANGED <<source, wants, scanned, found, tries, items, extra>>
    OBVIOUS
  <2>2. errors' \in 0 .. MaxErrors
    OBVIOUS
  <2>3. unwritten' \in BOOLEAN
    OBVIOUS
  <2> QED
    BY <2>1, <2>2, <2>3
<1>7. CASE FetchArticle
  BY <1>7 DEF FetchArticle
<1>8. CASE BuildArticleReport
  <2> USE <1>8 DEF BuildArticleReport
  <2>1. /\ source = "article" /\ status \in {"pending", "running"}
        /\ step = "analyze" /\ tries < ReportTries
        /\ UNCHANGED <<source, wants, status, scanned, items, extra, errors,
                       unwritten>>
    OBVIOUS
  <2>2. CASE found' = TRUE /\ step' = "save" /\ UNCHANGED tries
    BY <2>1, <2>2
  <2>3. CASE /\ tries' = tries + 1 /\ UNCHANGED found
             /\ IF tries' < ReportTries THEN UNCHANGED step ELSE Raise
    <3>1. tries' \in 0 .. ReportTries
      BY <2>1, <2>3
    <3> QED
      BY <2>1, <2>3, <3>1
  <2> QED
    BY <2>2, <2>3
<1>9. CASE WriteReport
  BY <1>9 DEF WriteReport
<1>10. CASE PersistItem
  <2> USE <1>10 DEF PersistItem
  <2>1. /\ source = "article" /\ found = TRUE
        /\ status \in {"pending", "running"}
        /\ step = "item" /\ step' \in {"persist", "except"}
        /\ step' = "persist" => items' = TRUE
        /\ UNCHANGED <<source, wants, status, scanned, found, tries, extra,
                       unwritten>>
    OBVIOUS
  <2>2. Typed'
    <3>1. errors' \in 0 .. MaxErrors
      OBVIOUS
    <3>2. items' \in BOOLEAN
      OBVIOUS
    <3> QED
      BY <2>1, <3>1, <3>2
  <2>3. TaskInOrder' /\ CompletedHasItems'
    BY <2>1
  <2> QED
    BY <2>2, <2>3
<1>11. CASE PersistArticle
  BY <1>11 DEF PersistArticle
<1>12. CASE Duration
  BY <1>12 DEF Duration
<1>13. CASE Except
  <2> USE <1>13 DEF Except
  <2>1. /\ step' = "end" /\ status' \in {status, "failed"}
        /\ UNCHANGED <<source, wants, scanned, found, tries, items, extra>>
    OBVIOUS
  <2>2. errors' \in 0 .. MaxErrors
    OBVIOUS
  <2>3. unwritten' \in BOOLEAN
    OBVIOUS
  <2> QED
    BY <2>1, <2>2, <2>3
<1>14. CASE Dies
  BY <1>14 DEF Dies
<1> QED
  BY <1>1, <1>2, <1>3, <1>4, <1>5, <1>6, <1>7, <1>8, <1>9, <1>10, <1>11,
     <1>12, <1>13, <1>14 DEF Work

\* No work takes back an end that a request or a post relies on.
LEMMA WorkFrame ==
  ASSUME IInv, Work
  PROVE  /\ UNCHANGED <<posts, extra>>
         /\ status \in Ended => status' \in Ended /\ (items => items')
         /\ Own' >= Own
<1> USE DEF IInv, Typed, TaskInOrder, BeforeTheEnd, Ended, Own, Raise, runVars
<1>1. UNCHANGED <<posts, extra>>
  BY DEF Work, Start, FetchTrends, AnalyzeTrends, SaveReportFails,
     SaveContent, PersistScan, Recover, FetchArticle, BuildArticleReport, WriteReport, PersistItem,
     PersistArticle, Duration, Except, Dies
<1>2. status \in Ended => status' \in Ended /\ (items => items')
  BY DEF Work, Start, FetchTrends, AnalyzeTrends, SaveReportFails,
     SaveContent, PersistScan, Outcome, Recover, FetchArticle, BuildArticleReport, WriteReport,
     PersistItem, PersistArticle, Duration, Except, Dies
<1>3. Own' >= Own
  BY DEF Work, Start, FetchTrends, AnalyzeTrends, SaveReportFails,
     SaveContent, PersistScan, Recover, FetchArticle, BuildArticleReport, WriteReport, PersistItem,
     PersistArticle, Duration, Except, Dies
<1> QED
  BY <1>1, <1>2, <1>3

LEMMA OverGrows ==
  ASSUME Typed, NEW q \in Request, extra[q] # "over",
         extra' = [extra EXCEPT ![q] = "over"]
  PROVE  Cardinality(Over)' = Cardinality(Over) + 1
<1>1. Over' = Over \cup {q} /\ q \notin Over
  BY DEF Typed, Over
<1> QED
  BY <1>1, CountBounds, FS_AddElement

LEMMA InvStep == IInv /\ [Next]_vars => IInv'
<1> SUFFICES ASSUME IInv, [Next]_vars PROVE IInv'
  OBVIOUS
<1> USE DEF IInv
<1>0. Cardinality(Over) \in Nat
  BY CountBounds
<1>1. CASE Work
  <2>1. Typed' /\ TaskInOrder' /\ CompletedHasItems'
    BY <1>1, WorkStep
  <2>2. PostsAreCounted'
    <3>1. Over' = Over
      BY <1>1, WorkFrame DEF Over
    <3>2. Own \in {0, 1} /\ Own' \in {0, 1}
      BY DEF Own
    <3> QED
      BY <1>0, <1>1, <3>1, <3>2, WorkFrame DEF PostsAreCounted
  <2>3. RequestsFollowTheEnd'
    BY <1>1, WorkFrame DEF RequestsFollowTheEnd
  <2>4. PostsFollowCompletion'
    BY <1>1, WorkFrame DEF PostsFollowCompletion
  <2> QED
    BY <2>1, <2>2, <2>3, <2>4
<1>2. CASE Generate
  <2> USE DEF Generate, GenerateFails, Raise, NoError, DbError, runVars
  <2>1. step = "generate" /\ step' \in {"duration", "except", "end"}
    BY <1>2 DEF Typed
  <2>2. UNCHANGED <<source, status, wants, scanned, found, tries, items, extra,
                    unwritten>> /\ errors' \in 0 .. MaxErrors
    BY <1>2, ConstantsAssumption DEF Typed
  <2>3. \/ posts' = posts
        \/ Validated /\ items /\ posts' = posts + 1
    BY <1>2 DEF Stores
  <2>4. Typed' /\ TaskInOrder' /\ RequestsFollowTheEnd' /\ CompletedHasItems'
    BY <2>1, <2>2 DEF Typed, TaskInOrder, BeforeTheEnd, RequestsFollowTheEnd,
       CompletedHasItems
  <2>5. PostsAreCounted'
    <3>1. Over' = Over /\ Own = 0 /\ Own' = 1
      BY <2>1, <2>2 DEF Over, Own
    <3> QED
      BY <1>0, <2>3, <3>1 DEF PostsAreCounted
  <2>6. PostsFollowCompletion'
    BY <2>2, <2>3 DEF PostsFollowCompletion, Validated, Ready, Ended
  <2> QED
    BY <2>4, <2>5, <2>6
<1>3. ASSUME NEW q \in Request, AcceptRequest(q) \/ ValidateRequest(q)
      PROVE  IInv'
  <2>1. UNCHANGED <<runVars, status, step, scanned, found, tries, items, posts,
                    errors, unwritten>>
    BY <1>3 DEF AcceptRequest, ValidateRequest
  <2>2. extra' \in [Request -> {"none", "accepted", "running", "over"}]
    BY <1>3 DEF AcceptRequest, ValidateRequest, Typed
  <2>3. \A p \in Request : extra'[p] # "none" =>
          extra[p] # "none" \/ status \in Ready
    BY <1>3 DEF AcceptRequest, ValidateRequest, Typed
  <2>4. Cardinality(Over)' \in Nat /\ Cardinality(Over)' >= Cardinality(Over)
    <3>1. ASSUME NEW p \in Request, extra[p] # "over",
                 extra' = [extra EXCEPT ![p] = "over"]
          PROVE  /\ Cardinality(Over)' \in Nat
                 /\ Cardinality(Over)' >= Cardinality(Over)
      <4>1. Cardinality(Over)' = Cardinality(Over) + 1
        BY <3>1, OverGrows
      <4> QED
        BY <1>0, <4>1
    <3>2. CASE Over' = Over
      BY <1>0, <3>2
    <3> QED
      BY <1>3, <3>1, <3>2 DEF AcceptRequest, ValidateRequest, Over, Typed
  <2>5. PostsAreCounted'
    <3>1. Own' = Own /\ Own \in {0, 1}
      BY <2>1 DEF Own
    <3> QED
      BY <1>0, <2>1, <2>4, <3>1 DEF PostsAreCounted
  <2> QED
    BY <2>1, <2>2, <2>3, <2>5 DEF Typed, TaskInOrder, RequestsFollowTheEnd,
       CompletedHasItems, PostsFollowCompletion, Ready, Ended, runVars
<1>4. ASSUME NEW q \in Request, GenerateRequest(q) PROVE IInv'
  <2>1. /\ UNCHANGED <<runVars, status, step, scanned, found, tries, items,
                       errors, unwritten>>
        /\ extra[q] = "running" /\ extra' = [extra EXCEPT ![q] = "over"]
        /\ \/ posts' = posts
           \/ items /\ posts' = posts + 1
    BY <1>4 DEF GenerateRequest, Stores
  <2>2. status \in Ended
    BY <2>1 DEF RequestsFollowTheEnd
  <2>3. PostsAreCounted'
    <3>1. Cardinality(Over)' = Cardinality(Over) + 1
      BY <2>1, OverGrows
    <3>2. Own' = Own /\ Own \in {0, 1}
      BY <2>1 DEF Own
    <3> QED
      BY <1>0, <2>1, <3>1, <3>2 DEF PostsAreCounted
  <2> QED
    BY <2>1, <2>2, <2>3 DEF Typed, TaskInOrder, RequestsFollowTheEnd,
       CompletedHasItems, PostsFollowCompletion, runVars
<1>5. CASE UNCHANGED vars
  BY <1>5 DEF vars, runVars, Typed, PostsAreCounted, Over, Own, TaskInOrder,
     RequestsFollowTheEnd, CompletedHasItems, PostsFollowCompletion
<1> QED
  BY <1>1, <1>2, <1>3, <1>4, <1>5 DEF Next, TaskStep, Work

-----------------------------------------------------------------------------
\* The inductive invariant of a run.
THEOREM Invariance == Spec => []IInv
BY InvInit, InvStep, PTL DEF Spec

\* Every variable has its type; no generation stores its posts twice.
THEOREM TypeCorrect == Spec => []TypeOK
BY Invariance, InvGivesType, PTL

\* What shows completed has its items, whichever transactions fail.
THEOREM ItemsAreThere == Spec => []CompletedHasItems
<1>1. IInv => CompletedHasItems
  BY DEF IInv
<1> QED
  BY Invariance, <1>1, PTL

\* Posts are only made of a run that ended well, by its own task or any number
\* of requests.
THEOREM PostsComeLast == Spec => []PostsFollowCompletion
<1>1. IInv => PostsFollowCompletion
  BY DEF IInv
<1> QED
  BY Invariance, <1>1, PTL

-----------------------------------------------------------------------------
(* The lifecycle that pollers rely on.                                     *)

\* Where a scan's task is, by the status it shows, while no transaction failed.
ScanInOrder ==
  /\ step = "start" => status = "pending"
  /\ step \in {"fetch", "analyze", "save", "persist", "except"}
       => status = "running"
  /\ step # "recover"

\* Errors are only counted up, and a run stays with its task.
LEMMA ErrorsGrow ==
  ASSUME Typed, [Next]_vars
  PROVE  source' = source /\ (errors' = errors \/ errors' = errors + 1)
<1> USE DEF DbError, NoError, runVars
<1>1. CASE Start \/ FetchTrends \/ AnalyzeTrends \/ SaveContent \/ FetchArticle
           \/ BuildArticleReport \/ WriteReport
  BY <1>1 DEF Start, FetchTrends, AnalyzeTrends, SaveContent, FetchArticle,
     BuildArticleReport, WriteReport
<1>2. CASE PersistScan \/ Recover \/ PersistItem \/ PersistArticle \/ Generate
           \/ Duration \/ Except \/ Dies
  BY <1>2 DEF PersistScan, Recover, PersistItem, PersistArticle, Generate,
     Duration, Except, Dies
<1>3. CASE \E q \in Request :
             AcceptRequest(q) \/ ValidateRequest(q) \/ GenerateRequest(q)
  BY <1>3 DEF AcceptRequest, ValidateRequest, GenerateRequest
<1>4. CASE UNCHANGED vars
  BY <1>4 DEF vars
<1> QED
  BY <1>1, <1>2, <1>3, <1>4 DEF Next, TaskStep

UntroubledInOrder == source = "scan" /\ errors = 0 => ScanInOrder

\* Up to the first transaction that fails, a scan implements the documented
\* lifecycle, whatever its models, post generation, users and restarts do.
THEOREM ScansKeepTheirStatus == Spec => ImplementsLifecycle
<1>1. Init => UntroubledInOrder /\ Lifecycle!Init
  BY DEF Init, UntroubledInOrder, ScanInOrder, Lifecycle!Init
<1>2. ASSUME UntroubledInOrder, IInv, IInv', source = "scan", errors' = 0,
             [Next]_vars
      PROVE  ScanInOrder' /\ [Lifecycle!Next]_(Lifecycle!vars)
  <2> USE <1>2 DEF ScanInOrder, Lifecycle!Next, Lifecycle!vars, Raise, NoError,
                   runVars
  <2>0. Typed /\ Typed' /\ ~DbError
    BY DEF IInv, Typed, DbError
  <2> ScanInOrder
    BY <2>0, ErrorsGrow DEF UntroubledInOrder, Typed
  <2>1. CASE Start
    BY <2>0, <2>1 DEF Start, Lifecycle!Start
  <2>2. CASE FetchTrends \/ SaveContent \/ Duration
    BY <2>0, <2>2 DEF FetchTrends, SaveContent, Duration
  <2>3. CASE AnalyzeTrends
    BY <2>0, <2>3 DEF AnalyzeTrends, SaveReportFails, Lifecycle!Work, Typed
  <2>4. CASE PersistScan
    BY <2>0, <2>4 DEF PersistScan, Outcome, Typed, Lifecycle!Succeed,
       Lifecycle!Fail
  <2>5. CASE Except
    BY <2>0, <2>5 DEF Except, Lifecycle!Fail, Typed
  <2>6. CASE Recover
    BY <2>6 DEF Recover
  <2>7. CASE FetchArticle \/ BuildArticleReport \/ WriteReport \/ PersistItem
             \/ PersistArticle
    BY <2>7 DEF IInv, TaskInOrder, FetchArticle, BuildArticleReport,
       WriteReport, PersistItem, PersistArticle
  <2>8. CASE Generate
    BY <2>0, <2>8 DEF Generate, GenerateFails
  <2>9. CASE Dies
    BY <2>0, <2>9 DEF Dies
  <2>10. ASSUME NEW q \in Request,
                AcceptRequest(q) \/ ValidateRequest(q) \/ GenerateRequest(q)
         PROVE  ScanInOrder' /\ [Lifecycle!Next]_(Lifecycle!vars)
    BY <2>0, <2>10 DEF AcceptRequest, ValidateRequest, GenerateRequest
  <2>11. CASE UNCHANGED vars
    BY <2>0, <2>11 DEF vars
  <2> QED
    BY <2>1, <2>2, <2>3, <2>4, <2>5, <2>6, <2>7, <2>8, <2>9, <2>10, <2>11
    DEF Next, TaskStep
<1> QED
  <2> DEFINE Kept == source = "scan" /\ errors' = 0 => Lifecycle!Next
  <2>1. ASSUME UntroubledInOrder, IInv, IInv', [Next]_vars
        PROVE  UntroubledInOrder' /\ [Kept]_(Lifecycle!vars)
    <3>1. source' = source
      BY <2>1, ErrorsGrow DEF IInv
    <3> QED
      BY <1>2, <2>1, <3>1 DEF UntroubledInOrder
  <2> HIDE DEF Kept
  <2>2. Spec => [][Kept]_(Lifecycle!vars)
    BY <1>1, <2>1, Invariance, PTL DEF Spec
  <2>3. Spec => Lifecycle!Init
    BY <1>1, PTL DEF Spec
  <2> QED
    BY <2>2, <2>3 DEF ImplementsLifecycle, Kept

-----------------------------------------------------------------------------
(* The task makes a bounded number of steps.                               *)

Rank == [start |-> 13, fetch |-> 12, analyze |-> 9, save |-> 8, item |-> 7,
         persist |-> 6, recover |-> 5, generate |-> 4, duration |-> 3,
         except |-> 1, end |-> 0]

\* What the task has still before it, the tries of an article's report
\* included.
TaskLeft == Rank[step] + (IF step = "analyze" THEN ReportTries - tries ELSE 0)

LEMMA TaskIsCounted ==
  ASSUME IInv PROVE TaskLeft \in 0 .. 13
<1>1. Rank[step] \in 0 .. 13
  BY DEF IInv, Typed, Rank
<1>2. CASE step = "analyze"
  BY <1>2 DEF IInv, Typed, TaskLeft, Rank, ReportTries
<1> QED
  BY <1>1, <1>2 DEF TaskLeft

\* Each step of the task goes to a later one; only a report that failed is
\* tried again where it is.
LEMMA TaskGoesOn ==
  ASSUME IInv, TaskStep \/ Dies
  PROVE  TaskLeft' < TaskLeft
<1> USE DEF TaskLeft, Rank, ReportTries, Raise
<1>0. tries \in 0 .. 2 /\ (step = "analyze" => tries < 2)
  BY DEF IInv, Typed, TaskInOrder
<1>1. CASE Start
  BY <1>1 DEF Start
<1>2. CASE FetchTrends \/ FetchArticle
  <2>1. step = "fetch" /\ step' \in {"analyze", "except"} /\ tries' = tries
    BY <1>2 DEF FetchTrends, FetchArticle
  <2> QED
    BY <1>0, <2>1
<1>3. CASE AnalyzeTrends
  <2>1. step = "analyze" /\ step' \in {"save", "except"}
    BY <1>3 DEF AnalyzeTrends, SaveReportFails
  <2> QED
    BY <1>0, <2>1
<1>4. CASE BuildArticleReport
  <2>1. /\ step = "analyze"
        /\ \/ step' \in {"save", "except"}
           \/ step' = "analyze" /\ tries' = tries + 1
    BY <1>4 DEF BuildArticleReport
  <2> QED
    BY <1>0, <2>1
<1>5. CASE SaveContent \/ WriteReport
  BY <1>5 DEF SaveContent, WriteReport
<1>6. CASE PersistItem
  BY <1>6 DEF PersistItem
<1>7. CASE PersistScan \/ PersistArticle
  BY <1>7 DEF PersistScan, PersistArticle
<1>8. CASE Recover
  BY <1>8 DEF Recover
<1>9. CASE Generate
  BY <1>9 DEF Generate, GenerateFails
<1>10. CASE Duration
  BY <1>10 DEF Duration
<1>11. CASE Except
  BY <1>11 DEF Except
<1>12. CASE Dies
  <2>1. Rank[step] \in 1 .. 13
    BY <1>12 DEF IInv, Typed, Dies
  <2>2. step' = "end"
    BY <1>12 DEF Dies
  <2> QED
    BY <1>0, <2>1, <2>2
<1> QED
  BY <1>1, <1>2, <1>3, <1>4, <1>5, <1>6, <1>7, <1>8, <1>9, <1>10, <1>11,
     <1>12 DEF TaskStep

\* Whichever transactions fail, and however often the service restarts, the
\* task of a scan or an article makes at most thirteen steps, and no request
\* of a user puts it back.
THEOREM TasksAreBounded ==
  Spec => /\ [](TaskLeft \in 0 .. 13)
          /\ [][/\ TaskStep \/ Dies => TaskLeft' < TaskLeft
                /\ TaskLeft' <= TaskLeft]_vars
<1> DEFINE Onwards == /\ TaskStep \/ Dies => TaskLeft' < TaskLeft
                      /\ TaskLeft' <= TaskLeft
<1>1. ASSUME IInv, IInv', Next PROVE Onwards
  <2>1. TaskLeft \in Nat /\ TaskLeft' \in Nat
    <3>1. TaskLeft \in 0 .. 13
      BY <1>1, TaskIsCounted
    <3>2. IInv' => (TaskLeft \in 0 .. 13)'
      BY TaskIsCounted, PTL
    <3> QED
      BY <1>1, <3>1, <3>2
  <2>2. CASE TaskStep \/ Dies
    BY <1>1, <2>1, <2>2, TaskGoesOn
  <2>3. CASE ~(TaskStep \/ Dies)
    <3>1. UNCHANGED <<step, tries>>
      BY <1>1, <2>3 DEF Next, AcceptRequest, ValidateRequest, GenerateRequest
    <3> QED
      BY <2>1, <2>3, <3>1 DEF TaskLeft
  <2> QED
    BY <2>2, <2>3
<1>2. IInv /\ IInv' /\ [Next]_vars => [Onwards]_vars
  BY <1>1
<1>3. Spec => [](TaskLeft \in 0 .. 13)
  BY TaskIsCounted, Invariance, PTL
<1>4. Spec => [][Onwards]_vars
  <2> HIDE DEF Onwards
  <2> QED
    BY <1>2, Invariance, PTL DEF Spec
<1> QED
  BY <1>3, <1>4 DEF Onwards

=============================================================================
