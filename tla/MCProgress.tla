------------------------------ MODULE MCProgress ------------------------------
(* Small instances of ScanProgress. *)
EXTENDS ScanProgress

CONSTANTS c1, i1, q1, q2

OneClient == {c1}
OneSlot == {i1}
TwoRequests == {q1, q2}

=============================================================================
