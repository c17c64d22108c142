------------------------------- MODULE MCReview -------------------------------
(* Small instances of ReviewLoop. *)
EXTENDS ReviewLoop, TLC

CONSTANTS p1, p2

TwoPosts == {p1, p2}

=============================================================================
