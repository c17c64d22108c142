------------------------------ MODULE MCTrendScan ------------------------------
(* Small instances of TrendScan. *)
EXTENDS TrendScan, TLC

CONSTANTS a1, a2, a3, a4, s1, s2

Articles == {a1, a2, a3, a4}
Alike == Permutations(Articles)
TwoScans == {s1, s2}

=============================================================================
