---------------------------- MODULE StatusGateway ----------------------------
(***************************************************************************)
(* The websocket gateway of the backend: one room, scan:<id> or            *)
(* publish:<id>, its subscribers, and the poller that asks the ai-service  *)
(* for the resource's status every two seconds.  Rooms are independent of  *)
(* each other.  A tick does not wait for the one before, so requests       *)
(* overlap and their answers may come in any order.                        *)
(***************************************************************************)
EXTENDS Naturals

CONSTANTS
  Client,       \* browser clients, each with one socket at a time
  Kinds,        \* of "scan" and "publish": what the room may follow
  Slot,         \* requests that may be under way at once
  Moves,        \* kind, status, status: how the resource changes
  Announced,    \* those of Moves a webhook handler makes and announces
  MaxFailures   \* how often a request to the ai-service fails

ScanStatus == {"pending", "running", "completed", "partial", "failed"}
PublishStatus == {"pending", "processing", "published", "failed", "cancelled"}
Status == ScanStatus \cup PublishStatus

Unset == "unset"

ASSUME ConstantsAssumption ==
  /\ Kinds \subseteq {"scan", "publish"}
  /\ Moves \subseteq Kinds \X Status \X Status
  /\ Announced \subseteq Moves
  /\ MaxFailures \in Nat

VARIABLES
  kind,         \* what the room follows
  resource,     \* the status in the database
  news,         \* statuses committed by a webhook and not yet announced
  mounted,      \* clients whose page follows the resource
  online,       \* clients with a connected socket
  room,         \* the sockets in the room
  poller,       \* does pollers hold an interval for the room?
  lastStatus,
  request,      \* requests under way: free, asked, or the status they read
  failures,     \* failed requests so far, for MaxFailures
  shown,        \* the last status a client was sent since it joined
  told          \* clients that were sent a terminal status since they joined

vars == <<kind, resource, news, mounted, online, room, poller, lastStatus, request,
          failures, shown, told>>
clientVars == <<mounted, online>>
worldVars == <<kind, resource, news>>

Terminal == IF kind = "scan" THEN {"completed", "partial", "failed"}
            ELSE {"published", "failed", "cancelled"}

TypeOK ==
  /\ kind \in Kinds
  /\ resource \in Status
  /\ news \subseteq Status
  /\ mounted \subseteq Client
  /\ online \subseteq Client
  /\ room \subseteq Client
  /\ poller \in BOOLEAN
  /\ lastStatus \in Status \cup {Unset}
  /\ request \in [Slot -> Status \cup {"free", "asked"}]
  /\ failures \in 0 .. MaxFailures
  /\ shown \in [Client -> Status \cup {Unset}]
  /\ told \subseteq Client

\* trigger_scan inserts a pending row, the publish endpoints a processing one.
Init ==
  /\ kind \in Kinds
  /\ resource = IF kind = "scan" THEN "pending" ELSE "processing"
  /\ news = {}
  /\ mounted = {}
  /\ online = Client
  /\ room = {}
  /\ poller = FALSE
  /\ lastStatus = Unset
  /\ request = [i \in Slot |-> "free"]
  /\ failures = 0
  /\ shown = [c \in Client |-> Unset]
  /\ told = {}

-----------------------------------------------------------------------------
\* server.to(room).emit with status s in the payload.
Emit(s) ==
  /\ shown' = [c \in Client |-> IF c \in room THEN s ELSE shown[c]]
  /\ told' = IF s \in Terminal THEN told \cup room ELSE told

\* subscribe and ensurePolling.  Pages that are opened subscribe; so would a
\* client that is not connected yet, as soon as it is.
Mount(c) ==
  /\ c \notin mounted /\ c \in online
  /\ mounted' = mounted \cup {c}
  /\ room' = room \cup {c}
  /\ poller' = TRUE
  /\ shown' = [shown EXCEPT ![c] = Unset]
  /\ told' = told \ {c}
  /\ UNCHANGED <<online, lastStatus, request, failures, worldVars>>

\* Variant: the interval is cleared and stays in the map.
MaybeStopPolling_Kept == UNCHANGED <<poller, lastStatus>>

\* maybeStopPolling: the last subscriber takes the interval and lastStatus
\* with it, but lastStatus only if there is an interval.
MaybeStopPolling ==
  IF room' = {} /\ poller
    THEN poller' = FALSE /\ lastStatus' = Unset
    ELSE UNCHANGED <<poller, lastStatus>>

\* unsubscribe, when the page is closed.
Unmount(c) ==
  /\ c \in mounted
  /\ mounted' = mounted \ {c}
  /\ room' = room \ {c}
  /\ MaybeStopPolling
  /\ UNCHANGED <<online, request, failures, shown, told, worldVars>>

\* The socket closes: it leaves its rooms, then handleDisconnect runs.
Disconnect(c) ==
  /\ c \in online
  /\ online' = online \ {c}
  /\ room' = room \ {c}
  /\ MaybeStopPolling
  /\ UNCHANGED <<mounted, request, failures, shown, told, worldVars>>

\* The client library reconnects by itself; the hooks subscribe once per mount.
Reconnect(c) ==
  /\ c \notin online
  /\ online' = online \cup {c}
  /\ UNCHANGED <<mounted, room, poller, lastStatus, request, failures, shown,
                 told, worldVars>>

-----------------------------------------------------------------------------
\* The interval fires: tick sends a request.
Tick ==
  /\ poller
  /\ \E i \in Slot :
       /\ request[i] = "free"
       /\ request' = [request EXCEPT ![i] = "asked"]
  /\ UNCHANGED <<room, poller, lastStatus, failures, shown, told, clientVars,
                 worldVars>>

\* Variant: the body of a 404 is taken for the row.
Read_NoRow(i) ==
  /\ request[i] = "asked"
  /\ request' = [request EXCEPT ![i] = "undefined"]
  /\ UNCHANGED <<room, poller, lastStatus, failures, shown, told, clientVars,
                 worldVars>>

\* The ai-service answers with the status of the row at this moment.
Read(i) ==
  /\ request[i] = "asked"
  /\ request' = [request EXCEPT ![i] = resource]
  /\ UNCHANGED <<room, poller, lastStatus, failures, shown, told, clientVars,
                 worldVars>>

\* Variant: scan.completed is sent like scan.progress, when the status changes.
News_ChangesOnly(s) == lastStatus # s

\* scan.progress and publish.status_changed go out when the status changed,
\* scan.completed with every terminal answer.
News(s) == lastStatus # s \/ (kind = "scan" /\ s \in Terminal)

\* The rest of tick.  A terminal status clears the interval that is in the map
\* by then, and leaves lastStatus.
Answer(i) ==
  /\ request[i] \in Status
  /\ lastStatus' = request[i]
  /\ IF News(request[i]) THEN Emit(request[i]) ELSE UNCHANGED <<shown, told>>
  /\ poller' = (poller /\ request[i] \notin Terminal)
  /\ request' = [request EXCEPT ![i] = "free"]
  /\ UNCHANGED <<room, failures, clientVars, worldVars>>

\* The request fails; the callback of the interval logs it.
RequestFails(i) ==
  /\ request[i] # "free" /\ failures < MaxFailures
  /\ request' = [request EXCEPT ![i] = "free"]
  /\ failures' = failures + 1
  /\ UNCHANGED <<room, poller, lastStatus, shown, told, clientVars, worldVars>>

-----------------------------------------------------------------------------
\* A pipeline or a webhook handler commits a status.
Change ==
  /\ \E s \in Status :
       /\ <<kind, resource, s>> \in Moves
       /\ resource' = s
       /\ news' = IF <<kind, resource, s>> \in Announced
                    THEN news \cup {s} ELSE news
  /\ UNCHANGED <<kind, room, poller, lastStatus, request, failures, shown, told,
                 clientVars>>

\* notifyRoom: the webhook handler emits past the poller.
NotifyRoom(s) ==
  /\ s \in news
  /\ news' = news \ {s}
  /\ Emit(s)
  /\ UNCHANGED <<kind, resource, room, poller, lastStatus, request, failures,
                 clientVars>>

Next ==
  \/ \E c \in Client : Mount(c) \/ Unmount(c) \/ Disconnect(c) \/ Reconnect(c)
  \/ Tick \/ Change
  \/ \E i \in Slot : Read(i) \/ Answer(i) \/ RequestFails(i)
  \/ \E s \in Status : NotifyRoom(s)

Spec == Init /\ [][Next]_vars

\* Intervals fire and requests are answered; sockets reconnect.  Users and the
\* resource's own progress are not forced.
Fairness ==
  /\ WF_vars(Tick)
  /\ \A i \in Slot : WF_vars(Read(i)) /\ WF_vars(Answer(i))
  /\ \A c \in Client : WF_vars(Reconnect(c))
  /\ \A s \in Status : WF_vars(NotifyRoom(s))

FairSpec == Spec /\ Fairness

-----------------------------------------------------------------------------
\* The gateway polls for somebody: when the last subscriber leaves or loses
\* its socket, in whatever order with terminal answers, the interval stops.
PollerIsWanted == poller => room # {}

\* A scan is polled until everyone in the room was sent its end: an interval
\* stopped by the answer to another subscriber's tick leaves nobody behind.
StoppedMeansTold == kind = "scan" => poller \/ room \subseteq told

(* What documentation and comments say, and the code does not do.          *)

\* status.gateway.ts: the frontend shows live progress without polling itself.
PublishIsReported ==
  \A c \in Client :
    (kind = "publish" /\ resource \in Terminal /\ c \in room)
      ~> (c \in told \/ c \notin room)

=============================================================================
