----------------------------- MODULE ScanLifecycle -----------------------------
(***************************************************************************)
(* What a scan run promises to those who poll its status: the "Scan Run    *)
(* State Machine" of the architecture diagrams.  A run that has ended      *)
(* keeps its status, and one that succeeded has stored what it found.      *)
(***************************************************************************)
VARIABLES
  status,   \* the status a poller reads
  missing   \* was a trend item found and not stored?

vars == <<status, missing>>

Init == status = "pending" /\ missing = FALSE

Start == status = "pending" /\ status' = "running" /\ UNCHANGED missing

Work == status = "running" /\ missing' \in BOOLEAN /\ UNCHANGED status

Succeed ==
  /\ status = "running"
  /\ status' \in {"completed", "partial"}
  /\ missing' = FALSE

Fail ==
  /\ status = "running"
  /\ status' = "failed"
  /\ missing' \in BOOLEAN

Next == Start \/ Work \/ Succeed \/ Fail

Spec == Init /\ [][Next]_vars

=============================================================================
