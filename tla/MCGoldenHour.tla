----------------------------- MODULE MCGoldenHour -----------------------------
(* Small instances of GoldenHour. *)
EXTENDS GoldenHour

\* The fallback list, two of a day of four slots.
SlotsOfDefaults == <<1, 2>>
\* Of the settings' zone, not a multiple of the slots' length.
East == 3

=============================================================================
