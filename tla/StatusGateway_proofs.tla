------------------------- MODULE StatusGateway_proofs -------------------------
(***************************************************************************)
(* Proofs about StatusGateway for any number of clients, of overlapping    *)
(* requests and of failures, and any way the resource's status moves.      *)
(***************************************************************************)
EXTENDS StatusGateway, TLAPS

LEMMA StopType ==
  ASSUME TypeOK, room' \subseteq Client, MaybeStopPolling
  PROVE  /\ poller' \in BOOLEAN
         /\ lastStatus' \in Status \cup {Unset}
BY DEF TypeOK, MaybeStopPolling

LEMMA EmitType ==
  ASSUME TypeOK, NEW s \in Status, Emit(s)
  PROVE  /\ shown' \in [Client -> Status \cup {Unset}]
         /\ told' \subseteq Client
BY DEF TypeOK, Emit

LEMMA TypeInit == Init => TypeOK
<1> SUFFICES ASSUME Init PROVE TypeOK
  OBVIOUS
<1>1. resource \in Status
  BY DEF Init, Status, ScanStatus, PublishStatus
<1>2. failures \in 0 .. MaxFailures
  BY ConstantsAssumption DEF Init
<1> QED
  BY <1>1, <1>2 DEF Init, TypeOK

LEMMA TypeStep == TypeOK /\ [Next]_vars => TypeOK'
<1> SUFFICES ASSUME TypeOK, [Next]_vars PROVE TypeOK'
  OBVIOUS
<1> USE DEF TypeOK, clientVars, worldVars
<1>1. ASSUME NEW c \in Client, Mount(c) \/ Reconnect(c) PROVE TypeOK'
  BY <1>1 DEF Mount, Reconnect
<1>2. ASSUME NEW c \in Client, Unmount(c) \/ Disconnect(c) PROVE TypeOK'
  <2>1. room' \subseteq Client /\ MaybeStopPolling
    BY <1>2 DEF Unmount, Disconnect
  <2> QED
    BY <1>2, <2>1, StopType DEF Unmount, Disconnect
<1>3. CASE Tick
  BY <1>3 DEF Tick
<1>4. CASE Change
  BY <1>4 DEF Change
<1>5. ASSUME NEW i \in Slot, Read(i) PROVE TypeOK'
  BY <1>5 DEF Read
<1>6. ASSUME NEW i \in Slot, RequestFails(i) PROVE TypeOK'
  BY <1>6, ConstantsAssumption DEF RequestFails
<1>7. ASSUME NEW i \in Slot, Answer(i) PROVE TypeOK'
  <2>1. /\ shown' \in [Client -> Status \cup {Unset}]
        /\ told' \subseteq Client
    BY <1>7, EmitType DEF Answer
  <2> QED
    BY <1>7, <2>1 DEF Answer
<1>8. ASSUME NEW s \in Status, NotifyRoom(s) PROVE TypeOK'
  BY <1>8, EmitType DEF NotifyRoom
<1>9. CASE UNCHANGED vars
  BY <1>9 DEF vars
<1> QED
  BY <1>1, <1>2, <1>3, <1>4, <1>5, <1>6, <1>7, <1>8, <1>9 DEF Next

\* The gateway's state keeps its types.
THEOREM TypeCorrect == Spec => []TypeOK
BY TypeInit, TypeStep, PTL DEF Spec

-----------------------------------------------------------------------------
\* No interval runs for an empty room.
THEOREM PollersAreWanted == Spec => []PollerIsWanted
<1>1. Init => PollerIsWanted
  BY DEF Init, PollerIsWanted
<1>2. PollerIsWanted /\ [Next]_vars => PollerIsWanted'
  <2> SUFFICES ASSUME PollerIsWanted, [Next]_vars PROVE PollerIsWanted'
    OBVIOUS
  <2> USE DEF PollerIsWanted, clientVars, worldVars
  <2>1. ASSUME NEW c \in Client, Mount(c) \/ Reconnect(c) PROVE PollerIsWanted'
    BY <2>1 DEF Mount, Reconnect
  <2>2. ASSUME NEW c \in Client, Unmount(c) \/ Disconnect(c)
        PROVE  PollerIsWanted'
    BY <2>2 DEF Unmount, Disconnect, MaybeStopPolling
  <2>3. CASE Tick \/ Change
    BY <2>3 DEF Tick, Change
  <2>4. ASSUME NEW i \in Slot, Read(i) \/ RequestFails(i) \/ Answer(i)
        PROVE  PollerIsWanted'
    BY <2>4 DEF Read, RequestFails, Answer
  <2>5. ASSUME NEW s \in Status, NotifyRoom(s) PROVE PollerIsWanted'
    BY <2>5 DEF NotifyRoom
  <2>6. CASE UNCHANGED vars
    BY <2>6 DEF vars
  <2> QED
    BY <2>1, <2>2, <2>3, <2>4, <2>5, <2>6 DEF Next
<1> QED
  BY <1>1, <1>2, PTL DEF Spec

\* The end of a scan reaches everyone in the room before its poller stops.
THEOREM ScansAreToldToAll == Spec => []StoppedMeansTold
<1>1. Init => StoppedMeansTold
  BY DEF Init, StoppedMeansTold
<1>2. TypeOK /\ StoppedMeansTold /\ [Next]_vars => StoppedMeansTold'
  <2> SUFFICES ASSUME TypeOK, StoppedMeansTold, [Next]_vars
               PROVE  StoppedMeansTold'
    OBVIOUS
  <2> USE DEF StoppedMeansTold, clientVars, worldVars
  <2>1. ASSUME NEW c \in Client, Mount(c) \/ Reconnect(c)
        PROVE  StoppedMeansTold'
    BY <2>1 DEF Mount, Reconnect
  <2>2. ASSUME NEW c \in Client, Unmount(c) \/ Disconnect(c)
        PROVE  StoppedMeansTold'
    BY <2>2 DEF Unmount, Disconnect, MaybeStopPolling
  <2>3. CASE Tick \/ Change
    BY <2>3 DEF Tick, Change
  <2>4. ASSUME NEW i \in Slot, Read(i) \/ RequestFails(i)
        PROVE  StoppedMeansTold'
    BY <2>4 DEF Read, RequestFails
  <2>5. ASSUME NEW i \in Slot, Answer(i) PROVE StoppedMeansTold'
    <3>1. CASE kind = "scan" /\ request[i] \in Terminal
      <4>1. /\ room' = room /\ told' = told \cup room
            /\ kind' = kind
        BY <2>5, <3>1 DEF Answer, News, Emit
      <4> QED
        BY <4>1
    <3>2. CASE kind = "scan" /\ request[i] \notin Terminal
      <4>1. /\ room' = room /\ told' = told /\ poller' = poller
            /\ kind' = kind
        BY <2>5, <3>2 DEF Answer, Emit, TypeOK
      <4> QED
        BY <4>1
    <3>3. CASE kind # "scan"
      BY <2>5, <3>3 DEF Answer
    <3> QED
      BY <3>1, <3>2, <3>3
  <2>6. ASSUME NEW s \in Status, NotifyRoom(s) PROVE StoppedMeansTold'
    BY <2>6 DEF NotifyRoom, Emit
  <2>7. CASE UNCHANGED vars
    BY <2>7 DEF vars
  <2> QED
    BY <2>1, <2>2, <2>3, <2>4, <2>5, <2>6, <2>7 DEF Next
<1> QED
  BY <1>1, <1>2, TypeCorrect, PTL DEF Spec
=============================================================================
