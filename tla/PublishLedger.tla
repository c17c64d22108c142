----------------------------- MODULE PublishLedger -----------------------------
(***************************************************************************)
(* What publishing promises to the owner of a content post, whatever its   *)
(* loops, handlers and webhooks do: a row of the history is submitted a    *)
(* second time only after an outcome in doubt, and shows "published" only  *)
(* when a submission of its own went out.                                  *)
(*                                                                         *)
(* A submission is a tuple that begins with the row it is for.             *)
(***************************************************************************)
CONSTANTS Row, Post

VARIABLES
  taken,   \* submissions that Zernio accepted
  out,     \* those that were published
  gone,    \* those that failed or were taken back
  shown,   \* rows that show "published"
  doubt    \* rows of which an outcome was in doubt

vars == <<taken, out, gone, shown, doubt>>

Init == taken = {} /\ out = {} /\ gone = {} /\ shown = {} /\ doubt = {}

\* The first submission of a row, or one more after a doubt.
Accept(z) ==
  /\ z \notin taken
  /\ z[1] \in doubt \/ \A y \in taken : y[1] # z[1]
  /\ taken' = taken \cup {z}
  /\ out' \in {out, out \cup {z}}
  /\ doubt' \in SUBSET Row /\ doubt \subseteq doubt'
  /\ UNCHANGED <<gone, shown>>

\* What has gone does not go out, and what is out is not taken back.
Finish(z) ==
  /\ z \in taken /\ z \notin out \cup gone
  /\ \/ out' = out \cup {z} /\ UNCHANGED gone
     \/ gone' = gone \cup {z} /\ UNCHANGED out
  /\ UNCHANGED <<taken, shown, doubt>>

\* The history is rewritten, but never with a success that was none.
Record ==
  /\ shown' \in SUBSET Row
  /\ \A r \in shown' \ shown : \E z \in out : z[1] = r
  /\ UNCHANGED <<taken, out, gone, doubt>>

Doubt ==
  /\ doubt' \in SUBSET Row /\ doubt \subseteq doubt'
  /\ UNCHANGED <<taken, out, gone, shown>>

Next == Record \/ Doubt \/ \E z \in Post : Accept(z) \/ Finish(z)

Spec == Init /\ [][Next]_vars

=============================================================================
