------------------------------ MODULE MCPublish ------------------------------
(* Small instances of PublishPipeline. *)
EXTENDS PublishPipeline, TLC

CONSTANTS r1, r2

OneRow == {r1}
TwoRows == {r1, r2}
Rows == Permutations(TwoRows)

=============================================================================
