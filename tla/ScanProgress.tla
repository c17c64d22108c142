----------------------------- MODULE ScanProgress -----------------------------
(***************************************************************************)
(* A scan run and the room of the websocket gateway that follows it: the   *)
(* task of ScanRun changes the row, the poller of StatusGateway reads it.  *)
(* No webhook announces a scan, so the poller is the only way to a client. *)
(***************************************************************************)
EXTENDS ScanRun

CONSTANTS Client, Slot, MaxFailures   \* of StatusGateway

VARIABLES
  mounted, online, room, poller, lastStatus, request, failures, shown, told

ASSUME FollowersAssumption == MaxFailures \in Nat

gatewayVars == <<mounted, online, room, poller, lastStatus, request, failures,
                 shown, told>>
progressVars == <<vars, gatewayVars>>

\* How ScanRun changes the status; any other would fail ImplementsGateway.
Moves ==
  {<<"scan", "pending", "running">>, <<"scan", "pending", "failed">>,
   <<"scan", "running", "completed">>, <<"scan", "running", "failed">>,
   <<"scan", "completed", "failed">>}

Gateway == INSTANCE StatusGateway
             WITH kind <- "scan", Kinds <- {"scan"},
                  resource <- status, news <- {}, Announced <- {}

ProgressInit == Init /\ Gateway!Init

RunStep == Next /\ UNCHANGED gatewayVars

Subscribe(c) == Gateway!Mount(c) /\ UNCHANGED vars
Unsubscribe(c) == Gateway!Unmount(c) /\ UNCHANGED vars
Disconnect(c) == Gateway!Disconnect(c) /\ UNCHANGED vars
Reconnect(c) == Gateway!Reconnect(c) /\ UNCHANGED vars
Poll == Gateway!Tick /\ UNCHANGED vars
Read(i) == Gateway!Read(i) /\ UNCHANGED vars
Answer(i) == Gateway!Answer(i) /\ UNCHANGED vars
RequestFails(i) == Gateway!RequestFails(i) /\ UNCHANGED vars

ProgressNext ==
  \/ RunStep
  \/ \E c \in Client :
       Subscribe(c) \/ Unsubscribe(c) \/ Disconnect(c) \/ Reconnect(c)
  \/ Poll
  \/ \E i \in Slot : Read(i) \/ Answer(i) \/ RequestFails(i)

ProgressSpec == ProgressInit /\ [][ProgressNext]_progressVars

\* The fairness of both modules.
FairProgressSpec ==
  /\ ProgressSpec
  /\ WF_progressVars(TaskStep /\ UNCHANGED gatewayVars)
  /\ WF_progressVars(Poll)
  /\ \A i \in Slot : WF_progressVars(Read(i)) /\ WF_progressVars(Answer(i))

-----------------------------------------------------------------------------
\* Of the two tasks and the poller together: who stays in the room of a run
\* that has ended comes to be shown that it has, and how.  One difference stays
\* for good: polling stops at the first terminal answer, so a run that fails
\* after it was completed may go on being shown as completed.
EndIsShown ==
  \A c \in Client :
    (step = "end" /\ status \in Ended /\ c \in room)
      ~> \/ shown[c] = status
         \/ c \notin room
         \/ status = "failed" /\ shown[c] = "completed"

\* The gateway sees nothing but changes of the status it is made for, whichever
\* task serves the row and whichever transaction of it fails.
ImplementsGateway == Gateway!Spec

=============================================================================
