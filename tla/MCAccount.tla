------------------------------ MODULE MCAccount ------------------------------
(* Small instances of AccountLink. *)
EXTENDS AccountLink, TLC

CONSTANTS u1, u2, p1, p2, e1, e2, e3, v1

TwoUsers == {u1, u2}
TwoProfiles == {p1, p2}
ThreeRequests == {e1, e2, e3}
OneVisit == {v1}

Alike == Permutations(TwoUsers) \cup Permutations(TwoProfiles)
           \cup Permutations(ThreeRequests)

=============================================================================
