------------------------------ MODULE MCGateway ------------------------------
(* Small instances of StatusGateway. *)
EXTENDS StatusGateway, TLC

CONSTANTS c1, c2, i1, i2

OneClient == {c1}
TwoClients == {c1, c2}
OneSlot == {i1}
TwoSlots == {i1, i2}
Both == Permutations(TwoClients) \cup Permutations(TwoSlots)

\* run_scan's statuses; a scan of one article may fail after it completed.
ScanMoves ==
  {<<"scan", "pending", "running">>, <<"scan", "pending", "failed">>,
   <<"scan", "running", "completed">>, <<"scan", "running", "partial">>,
   <<"scan", "running", "failed">>, <<"scan", "completed", "failed">>}

\* scheduler_node, publish_node and the cancel endpoint.
SilentMoves ==
  {<<"publish", "processing", "pending">>, <<"publish", "processing", "failed">>,
   <<"publish", "pending", "failed">>, <<"publish", "pending", "cancelled">>}

\* The webhook handler, on a row that publish_node may have given up before.
WebhookMoves ==
  {<<"publish", a, b>> : a \in {"pending", "processing", "failed"},
                         b \in {"published", "cancelled"}}

AllMoves == ScanMoves \cup SilentMoves \cup WebhookMoves
None == {}

=============================================================================
