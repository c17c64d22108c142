-------------------------- MODULE ScanProgress_proofs --------------------------
(***************************************************************************)
(* What the gateway is told of a scan: for either task, any requests, any  *)
(* failing transactions, restarts, any clients and poller, the row changes *)
(* only as the gateway's model supposes.                                   *)
(***************************************************************************)
EXTENDS ScanProgress, ScanRun_proofs

Running == {"fetch", "analyze", "save", "item", "persist", "recover"}

\* The status a row can show where its task stands.  "except" is reached from
\* every step, with the status the row had there.
StatusInOrder ==
  /\ status \in {"pending", "running", "completed", "failed"}
  /\ step = "start" => status = "pending"
  /\ step \in Running => status = "running"

\* The task and its restart keep the order, and every change of the status is
\* one of Moves.
LEMMA TaskMoves ==
  ASSUME StatusInOrder, TaskStep \/ Dies
  PROVE  /\ StatusInOrder'
         /\ status' = status \/ <<"scan", status, status'>> \in Moves
<1> USE DEF StatusInOrder, Running, Moves, Raise, runVars
<1>1. CASE Start
  BY <1>1 DEF Start
<1>2. CASE \/ FetchTrends \/ FetchArticle \/ AnalyzeTrends
           \/ SaveContent \/ BuildArticleReport \/ WriteReport
           \/ PersistItem
  BY <1>2 DEF FetchTrends, FetchArticle, AnalyzeTrends,
     SaveReportFails, SaveContent, BuildArticleReport, WriteReport, PersistItem
<1>3. CASE PersistScan
  BY <1>3 DEF PersistScan, Outcome
<1>4. CASE Recover
  BY <1>4 DEF Recover
<1>5. CASE PersistArticle
  BY <1>5 DEF PersistArticle
<1>6. CASE Generate \/ Duration \/ Dies
  BY <1>6 DEF Generate, GenerateFails, Duration, Dies
<1>7. CASE Except
  BY <1>7 DEF Except
<1> QED
  BY <1>1, <1>2, <1>3, <1>4, <1>5, <1>6, <1>7 DEF TaskStep

\* The requests of users leave the row alone.
LEMMA RequestsKeepStatus ==
  ASSUME NEW q \in Request,
         \/ AcceptRequest(q) \/ ValidateRequest(q)
         \/ GenerateRequest(q)
  PROVE  UNCHANGED <<status, step>>
BY DEF AcceptRequest, ValidateRequest, GenerateRequest

LEMMA RunMoves ==
  ASSUME StatusInOrder, Next
  PROVE  /\ StatusInOrder'
         /\ status' = status \/ <<"scan", status, status'>> \in Moves
<1>1. CASE TaskStep \/ Dies
  BY <1>1, TaskMoves
<1>2. CASE \E q \in Request : \/ AcceptRequest(q) \/ ValidateRequest(q)
                              \/ GenerateRequest(q)
  BY <1>2, RequestsKeepStatus DEF StatusInOrder
<1> QED
  BY <1>1, <1>2 DEF Next

-----------------------------------------------------------------------------
\* A step of the run is no step of the gateway's, or a change of its resource.
LEMMA RunStepMaps ==
  ASSUME StatusInOrder, RunStep
  PROVE  [Gateway!Next]_(Gateway!vars)
<1> USE DEF RunStep, gatewayVars
<1>1. CASE status' = status
  BY <1>1 DEF Gateway!vars
<1>2. CASE <<"scan", status, status'>> \in Moves
  <2>1. status' \in Gateway!Status
    BY <1>2 DEF Moves, Gateway!Status, Gateway!ScanStatus
  <2>2. Gateway!Change
    BY <1>2, <2>1 DEF Gateway!Change, Gateway!clientVars
  <2> QED
    BY <2>2 DEF Gateway!Next
<1> QED
  BY <1>1, <1>2, RunMoves

LEMMA StepMaps ==
  ASSUME StatusInOrder, [ProgressNext]_progressVars
  PROVE  StatusInOrder' /\ [Gateway!Next]_(Gateway!vars)
<1>1. CASE RunStep
  BY <1>1, RunMoves, RunStepMaps DEF RunStep
<1>2. CASE \E c \in Client :
             Subscribe(c) \/ Unsubscribe(c) \/ Disconnect(c) \/ Reconnect(c)
  BY <1>2 DEF Subscribe, Unsubscribe, Disconnect, Reconnect, Gateway!Next,
     vars, StatusInOrder
<1>3. CASE Poll
  BY <1>3 DEF Poll, Gateway!Next, vars, StatusInOrder
<1>4. CASE \E i \in Slot : Read(i) \/ Answer(i) \/ RequestFails(i)
  BY <1>4 DEF Read, Answer, RequestFails, Gateway!Next, vars, StatusInOrder
<1>5. CASE UNCHANGED progressVars
  BY <1>5 DEF progressVars, vars, gatewayVars, Gateway!vars, StatusInOrder
<1> QED
  BY <1>1, <1>2, <1>3, <1>4, <1>5 DEF ProgressNext

\* What is proved of StatusGateway for the moves of a scan holds of a scan that
\* is followed: its task makes no other move and nothing else tells the room.
THEOREM GatewayIsImplemented == ProgressSpec => ImplementsGateway
<1>1. ProgressInit => StatusInOrder /\ Gateway!Init
  BY DEF ProgressInit, Init, Gateway!Init, StatusInOrder, Running
<1> QED
  BY <1>1, StepMaps, PTL DEF ProgressSpec, ImplementsGateway, Gateway!Spec

-----------------------------------------------------------------------------
(* Which carries the theorems about the gateway over to followed scans.    *)

Watched == INSTANCE StatusGateway_proofs
             WITH kind <- "scan", Kinds <- {"scan"},
                  resource <- status, news <- {}, Announced <- {}

\* The two instances define the same gateway.
LEMMA SameGateway == Gateway!Spec => Watched!Spec
<1>1. Gateway!Init => Watched!Init
  BY DEF Gateway!Init, Watched!Init, Gateway!Unset, Watched!Unset
<1>2. [Gateway!Next]_(Gateway!vars) => [Watched!Next]_(Watched!vars)
  BY DEF
     Gateway!Emit, Watched!Emit, Gateway!Mount, Watched!Mount,
     Gateway!MaybeStopPolling, Watched!MaybeStopPolling, Gateway!Unmount,
     Watched!Unmount, Gateway!Disconnect, Watched!Disconnect,
     Gateway!Reconnect, Watched!Reconnect, Gateway!Tick, Watched!Tick,
     Gateway!Read, Watched!Read, Gateway!News, Watched!News, Gateway!Answer,
     Watched!Answer, Gateway!RequestFails, Watched!RequestFails,
     Gateway!Change, Watched!Change, Gateway!NotifyRoom, Watched!NotifyRoom,
     Gateway!Next, Watched!Next, Gateway!Terminal, Watched!Terminal,
     Gateway!Status, Watched!Status, Gateway!ScanStatus, Watched!ScanStatus,
     Gateway!PublishStatus, Watched!PublishStatus, Gateway!Unset,
     Watched!Unset, Gateway!vars, Watched!vars, Gateway!clientVars,
     Watched!clientVars, Gateway!worldVars, Watched!worldVars
<1> QED
  BY <1>1, <1>2, PTL DEF Gateway!Spec, Watched!Spec

LEMMA WatchedConstants == Watched!ConstantsAssumption
BY FollowersAssumption DEF Moves, Watched!ConstantsAssumption, Watched!Status,
   Watched!ScanStatus, Watched!PublishStatus

\* However a scan's task fails or dies, its poller stops only when everyone in
\* the room was sent its end, or nobody is left in it.
THEOREM FollowersAreTold ==
  ProgressSpec => [](Gateway!StoppedMeansTold /\ Gateway!PollerIsWanted)
<1>1. Watched!Spec => []Watched!StoppedMeansTold
  BY WatchedConstants, Watched!ScansAreToldToAll
<1>2. Watched!Spec => []Watched!PollerIsWanted
  BY WatchedConstants, Watched!PollersAreWanted
<1>3. /\ Watched!StoppedMeansTold => Gateway!StoppedMeansTold
      /\ Watched!PollerIsWanted => Gateway!PollerIsWanted
  BY DEF Watched!StoppedMeansTold, Gateway!StoppedMeansTold,
     Watched!PollerIsWanted, Gateway!PollerIsWanted
<1> QED
  BY GatewayIsImplemented, SameGateway, <1>1, <1>2, <1>3, PTL
     DEF ImplementsGateway

-----------------------------------------------------------------------------
(* And the theorems about the task, with clients and poller about.         *)

LEMMA SameTask == ProgressSpec => Spec
<1>1. ProgressInit => Init
  BY DEF ProgressInit
<1>2. [ProgressNext]_progressVars => [Next]_vars
  BY DEF ProgressNext, RunStep, Subscribe, Unsubscribe, Disconnect, Reconnect,
     Poll, Read, Answer, RequestFails, progressVars
<1> QED
  BY <1>1, <1>2, PTL DEF ProgressSpec, Spec

\* Nobody who follows a run changes what it keeps: its items are there when it
\* shows completed, posts come after, and a scan keeps to its lifecycle up to
\* the first transaction that fails.
THEOREM FollowedRunsAreKept ==
  ProgressSpec => /\ []CompletedHasItems
                  /\ []PostsFollowCompletion
                  /\ ImplementsLifecycle
BY SameTask, ItemsAreThere, PostsComeLast, ScansKeepTheirStatus, PTL

=============================================================================
