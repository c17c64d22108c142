----------------------------- MODULE TrendAnalyzer -----------------------------
(***************************************************************************)
(* The trend analyzer of one scan: a model reads the articles in chunks,   *)
(* keeps those it finds good and discards others; when too few are kept    *)
(* for the posts that are wanted, discarded ones are analyzed again.       *)
(*                                                                         *)
(* An article is known by its index in all_items, an analysis by the      *)
(* article the program takes it for (id) and the request that brought it   *)
(* (call).  The model is external: it answers in the schema asked for and  *)
(* names an article at most once, but may leave some out, or fail.         *)
(***************************************************************************)
EXTENDS Naturals, Sequences, FiniteSets

CONSTANTS
  MaxItems,     \* items the scanner returns at most
  ChunkSize,    \* articles in one request to the model
  NumPosts,     \* options.num_posts, or 0 if no posts are wanted
  Attempts,     \* max_promotion_attempts
  Quality       \* values of quality_score

ASSUME AnalyzerAssumption ==
  /\ MaxItems \in Nat
  /\ ChunkSize \in Nat \ {0}
  /\ NumPosts \in Nat
  /\ Attempts \in Nat \ {0}
  /\ Quality \subseteq Nat

VARIABLES
  step,
  total,        \* len(all_items)
  offset,       \* the index of the next chunk's first item
  processed,    \* all_processed
  discarded,    \* all_discarded, by index
  quality,      \* the quality_score of the discarded ones
  attempt,      \* promotions made
  attempted,    \* attempted_ids
  omitted,      \* history: items the reply to a chunk says nothing about
  dropped       \* history: items whose promotion brought no analysis

vars == <<step, total, offset, processed, discarded, quality, attempt,
          attempted, omitted, dropped>>

Index == 0 .. MaxItems - 1
Item == {i \in Index : i < total}
Analysis == [id : Index, call : 0 .. MaxItems + Attempts]

TypeOK ==
  /\ step \in {"start", "analyze", "end", "raised"}
  /\ total \in 0 .. MaxItems
  /\ offset \in Nat
  /\ processed \in SUBSET Analysis
  /\ discarded \in SUBSET Index
  /\ quality \in [Index -> Quality \cup {0}]
  /\ attempt \in 0 .. Attempts
  /\ attempted \in SUBSET Index
  /\ omitted \in SUBSET Index
  /\ dropped \in SUBSET Index

Init ==
  /\ step = "start"
  /\ total = 0
  /\ offset = 0
  /\ processed = {}
  /\ discarded = {}
  /\ quality = [i \in Index |-> 0]
  /\ attempt = 0
  /\ attempted = {}
  /\ omitted = {}
  /\ dropped = {}

\* The items of all scanners that did not fail.
Start ==
  /\ step = "start"
  /\ total' \in 0 .. MaxItems
  /\ step' = IF total' = 0 THEN "end" ELSE "analyze"
  /\ UNCHANGED <<offset, processed, discarded, quality, attempt, attempted,
                 omitted, dropped>>

\* _prepare_raw_articles numbers the articles of a chunk from 0.
Local == {n \in 0 .. ChunkSize - 1 : offset + n < total}

\* Variant: the reply's ids are taken as they are.
IndexOf_Local(n) == n

\* The reply speaks of these numbers; the chunk's offset is added to them.
IndexOf(n) == n + offset

\* What a chunk brings for its articles L.
Analyses(L) == {[id |-> IndexOf(n), call |-> offset] : n \in L}

AnalyzeChunk ==
  /\ step = "analyze" /\ offset < total
  /\ \E good \in SUBSET Local : \E bad \in SUBSET (Local \ good) :
       /\ processed' = processed \cup Analyses(good)
       /\ discarded' = discarded \cup {IndexOf(n) : n \in bad}
       /\ \E q \in [{IndexOf(n) : n \in bad} -> Quality] :
            quality' = [i \in Index |-> IF i \in DOMAIN q THEN q[i]
                                       ELSE quality[i]]
       /\ omitted' = omitted \cup {offset + n : n \in Local \ (good \cup bad)}
  /\ offset' = offset + ChunkSize
  /\ UNCHANGED <<step, total, attempt, attempted, dropped>>

\* _generate_fallback_report: all articles pass, with an analysis of defaults.
Fallback == Analyses(Local)

\* No answer, or one that cannot be parsed.
ChunkFails ==
  /\ step = "analyze" /\ offset < total
  /\ processed' = processed \cup Fallback
  /\ offset' = offset + ChunkSize
  /\ UNCHANGED <<step, total, discarded, quality, attempt, attempted, omitted,
                 dropped>>

-----------------------------------------------------------------------------
Pool == discarded \ attempted

\* Variant: one short is taken to be enough.
Wanted_Less ==
  /\ offset >= total
  /\ Cardinality(processed) < NumPosts - 1
  /\ Pool # {}
  /\ attempt < Attempts

Wanted ==
  /\ offset >= total
  /\ Cardinality(processed) < NumPosts
  /\ Pool # {}
  /\ attempt < Attempts

\* Variant: as many as there are posts.
Deficit_Posts == NumPosts

Deficit == NumPosts - Cardinality(processed)

\* Variant: ascending, without reverse.
Better_Worse(i, j) == quality[i] <= quality[j]

Better(i, j) == quality[i] >= quality[j]

\* A list of distinct articles of the pool, the best first: as many as are
\* missing, or all.
Candidates(c) ==
  /\ \A j, k \in DOMAIN c : j < k => c[j] # c[k] /\ Better(c[j], c[k])
  /\ \A j \in DOMAIN c, i \in Pool :
       (\A k \in DOMAIN c : c[k] # i) => Better(c[j], i)
  /\ \/ Len(c) = Deficit
     \/ Len(c) < Deficit /\ \A i \in Pool : \E k \in DOMAIN c : c[k] = i

Lists(S) == UNION {[1 .. n -> S] : n \in 1 .. Cardinality(S)}

\* zip(promoted, ids_to_promote): the n analyses of the reply go to the first n
\* articles of the request, whichever they are about.
Promoted(c, n) == {[id |-> c[j], call |-> total + attempt] : j \in 1 .. n}

Promote ==
  /\ step = "analyze" /\ Wanted
  /\ \E c \in Lists(Pool) :
       /\ Candidates(c)
       /\ attempted' = attempted \cup {c[j] : j \in DOMAIN c}
       /\ \E n \in 0 .. Len(c) :
            /\ processed' = processed \cup Promoted(c, n)
            /\ dropped' = dropped \cup {c[j] : j \in n + 1 .. Len(c)}
  /\ attempt' = attempt + 1
  /\ UNCHANGED <<step, total, offset, discarded, quality, omitted>>

\* An error of the model, or of parsing its answer, ends the promotion; the
\* candidates count as attempted already.
PromotionFails ==
  /\ step = "analyze" /\ Wanted
  /\ \E c \in Lists(Pool) :
       /\ Candidates(c)
       /\ attempted' = attempted \cup {c[j] : j \in DOMAIN c}
       /\ dropped' = dropped \cup {c[j] : j \in DOMAIN c}
  /\ attempt' = Attempts
  /\ UNCHANGED <<step, total, offset, processed, discarded, quality, omitted>>

\* Variant: the promoted ones stay in the list of the discarded.
Remaining_All == discarded

Remaining == discarded \ attempted

\* The analyses are merged into the items, and the report is written: a store
\* that fails raises.
Finish ==
  /\ step = "analyze" /\ offset >= total /\ ~Wanted
  /\ discarded' = Remaining
  /\ step' \in {"end", "raised"}
  /\ UNCHANGED <<total, offset, processed, quality, attempt, attempted, omitted,
                 dropped>>

Next ==
  Start \/ AnalyzeChunk \/ ChunkFails \/ Promote \/ PromotionFails \/ Finish

Spec == Init /\ [][Next]_vars

-----------------------------------------------------------------------------
Analyzed == {a.id : a \in processed}

\* At the end every article of the scan is analyzed, once, or discarded, and
\* not both, except for those the program loses: what the reply to a chunk says
\* nothing about, and what was taken for a promotion that brought no analysis
\* of it, which leaves the list of the discarded all the same.  Nothing else
\* gets lost; a chunk whose request fails loses none.
EveryItemIsOnce ==
  step = "end" =>
    /\ \A a, b \in processed : a.id = b.id => a = b
    /\ Analyzed \cap discarded = {}
    /\ Item \ (Analyzed \cup discarded) = omitted \cup dropped

\* A scan ends with fewer articles than posts are wanted only when there is no
\* discarded one left to take, or a promotion was not answered in full.
PromotionFills ==
  step = "end" /\ dropped = {} =>
    Cardinality(processed) >= NumPosts \/ discarded = {}

\* Promotion never goes beyond the number of posts.
PromotionFits == attempted # {} => Cardinality(processed) <= NumPosts

\* No discarded article is given a second chance before a better one, in both
\* attempts.
BestAreAttempted ==
  \A i \in attempted, j \in Pool : quality[i] >= quality[j]

=============================================================================
