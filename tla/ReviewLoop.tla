------------------------------ MODULE ReviewLoop ------------------------------
(***************************************************************************)
(* One run of the post generation graph: a plan, the posts written from    *)
(* it, an image prompt and an image for each, a review that scores every   *)
(* post, and a loop back to rewrite those that fail.  Each node is one     *)
(* step of the graph; a node returns a part of the graph's state and keeps *)
(* nothing.  The models behind the nodes are external: they answer with    *)
(* well-formed JSON about any of the posts, or not at all.                 *)
(***************************************************************************)
EXTENDS Naturals

CONSTANTS
  Id,        \* the post_ids the models use in this run
  MaxTexts   \* how many texts of one post are told apart

ASSUME ConstantsAssumption == MaxTexts \in Nat \ {0}

MaxRevisions == 2   \* MAX_REVISIONS of auto_review
RouterLimit == 2    \* the 2 of review_router

\* Texts of a post are numbered in the order they are written.  A prompt is
\* named by the text it was made from, an image by the text of its prompt.
None == 0
Absent == [text |-> None, prompt |-> None, image |-> None]
PostRecord == [text : 0 .. MaxTexts, prompt : 0 .. MaxTexts,
               image : 0 .. MaxTexts]

\* "waived": auto_review failed and let the post pass.
Verdict == {"none", "pass", "fail", "flagged", "waived"}
Unreviewed == [text |-> None, verdict |-> "none"]
ReviewRecord == [text : 0 .. MaxTexts, verdict : Verdict]

VARIABLES
  node,        \* the node that runs next
  plan,        \* does content_plan hold an item?
  posts,       \* generated_posts
  reviews,     \* review_results
  count,       \* revision_count
  revise,      \* posts_to_revise
  rows         \* the ContentPost rows the run has stored

vars == <<node, plan, posts, reviews, count, revise, rows>>

RowRecord == [status : {"none", "draft", "flagged_for_review"},
              text : 0 .. MaxTexts, image : 0 .. MaxTexts,
              revision_count : 0 .. RouterLimit]
NoRow == [status |-> "none", text |-> None, image |-> None,
          revision_count |-> 0]

TypeOK ==
  /\ node \in {"strategy_alignment", "content_generation",
               "image_prompt_creation", "image_generation", "auto_review",
               "output_packaging", "END"}
  /\ plan \in BOOLEAN
  /\ posts \in [Id -> PostRecord]
  /\ reviews \in [Id -> ReviewRecord]
  /\ count \in 0 .. RouterLimit
  /\ revise \in SUBSET Id
  /\ rows \in [Id -> RowRecord]

Init ==
  /\ node = "strategy_alignment"
  /\ plan = FALSE
  /\ posts = [i \in Id |-> Absent]
  /\ reviews = [i \in Id |-> Unreviewed]
  /\ count = 0
  /\ revise = {}
  /\ rows = [i \in Id |-> NoRow]

-----------------------------------------------------------------------------
Exists(i) == posts[i].text # None
NoPosts == \A i \in Id : ~Exists(i)

\* The trends of the run are read from the database with no handler around the
\* call: an error there ends the run.  A report or a strategy that cannot be
\* read is replaced by a default.
InputsFail ==
  /\ node = "strategy_alignment"
  /\ node' = "END"
  /\ UNCHANGED <<plan, posts, reviews, count, revise, rows>>

\* strategy_alignment: no trends, a failing model and an empty answer leave
\* the plan empty; a short one is asked to be completed once.
StrategyAlignment ==
  /\ node = "strategy_alignment"
  /\ plan' \in BOOLEAN
  /\ node' = "content_generation"
  /\ UNCHANGED <<posts, reviews, count, revise, rows>>

\* A post as the model writes it, without the keys later nodes add.
Written(i) ==
  [Absent EXCEPT !.text = IF posts[i].text < MaxTexts THEN posts[i].text + 1
                          ELSE MaxTexts]

\* The first run writes all posts; without a plan it writes none, and a
\* failing model leaves the posts as they are.
Generate ==
  /\ node = "content_generation" /\ revise = {}
  /\ \/ ~plan /\ posts' = [i \in Id |-> Absent]
     \/ plan /\ UNCHANGED posts
     \/ plan /\ \E S \in SUBSET Id :
          posts' = [i \in Id |-> IF i \in S THEN Written(i) ELSE Absent]
  /\ node' = "image_prompt_creation"
  /\ UNCHANGED <<plan, reviews, count, revise, rows>>

\* Variant: only the rewritten posts are kept.
Merge_Replace(S) ==
  posts' = [i \in Id |-> IF i \in S THEN Written(i) ELSE Absent]

\* Variant: the text is replaced in the old post.
Merge_Update(S) ==
  posts' = [i \in Id |-> IF i \in S
                           THEN [posts[i] EXCEPT !.text = Written(i).text]
                           ELSE posts[i]]

\* What the model returns replaces the post of that id, whether it was asked
\* for or not; the others stay.
Merge(S) ==
  posts' = [i \in Id |-> IF i \in S THEN Written(i) ELSE posts[i]]

Revise ==
  /\ node = "content_generation" /\ revise # {}
  /\ UNCHANGED posts \/ \E S \in SUBSET Id : Merge(S)
  /\ node' = "image_prompt_creation"
  /\ UNCHANGED <<plan, reviews, count, revise, rows>>

\* One call for the prompts of all posts.  A post the answer leaves out loses
\* its prompt; a failing call leaves them all as they are.
ImagePromptCreation ==
  /\ node = "image_prompt_creation"
  /\ \/ UNCHANGED posts
     \/ ~NoPosts /\ \E S \in SUBSET Id :
          posts' = [i \in Id |-> [posts[i] EXCEPT
                      !.prompt = IF i \in S THEN posts[i].text ELSE None]]
  /\ node' = "image_generation"
  /\ UNCHANGED <<plan, reviews, count, revise, rows>>

\* An image for each post that has a prompt, in parallel; each may fail.
ImageGeneration ==
  /\ node = "image_generation"
  /\ \E S \in SUBSET {i \in Id : posts[i].prompt # None} :
       posts' = [i \in Id |-> [posts[i] EXCEPT
                   !.image = IF i \in S THEN posts[i].prompt ELSE None]]
  /\ node' = "auto_review"
  /\ UNCHANGED <<plan, reviews, count, revise, rows>>

-----------------------------------------------------------------------------
\* The verdict of the model's score and of the reviews done before.
Judged(score) ==
  IF score = "fail" /\ count >= MaxRevisions THEN "flagged" ELSE score

ToRevise == {i \in Id : reviews'[i].verdict = "fail"}

\* Variant: a review that fails returns its error and nothing else.
Waive_Nothing == UNCHANGED <<reviews, count, revise>>

\* Variant: a review that fails leaves the results of the one before.
Waive_OldResults ==
  /\ count' = count + 1
  /\ revise' = {}
  /\ UNCHANGED reviews

\* A review that fails passes all posts through.
Waive ==
  /\ reviews' = [i \in Id |-> IF Exists(i)
                                THEN [text |-> posts[i].text,
                                      verdict |-> "waived"]
                                ELSE Unreviewed]
  /\ count' = count + 1
  /\ revise' = {}

\* Variant: only the reviews that waive are counted.
Score_Uncounted ==
  /\ \E score \in [Id -> {"none", "pass", "fail"}] :
       reviews' = [i \in Id |-> IF score[i] = "none" THEN Unreviewed
                                 ELSE [text |-> posts[i].text,
                                       verdict |-> Judged(score[i])]]
  /\ revise' = ToRevise
  /\ UNCHANGED count

\* Every post is scored, also those that passed before; the model may leave
\* out some, and name posts that are not there: their reviews are kept, and
\* count for the revision, like all others.
Score ==
  /\ \E score \in [Id -> {"none", "pass", "fail"}] :
       reviews' = [i \in Id |-> IF score[i] = "none" THEN Unreviewed
                                 ELSE [text |-> posts[i].text,
                                       verdict |-> Judged(score[i])]]
  /\ count' = count + 1
  /\ revise' = ToRevise

NothingToReview ==
  /\ reviews' = [i \in Id |-> Unreviewed]
  /\ revise' = {}
  /\ UNCHANGED count

\* Variant: the router looks at the posts only.
Again_Unbounded == revise' # {}

\* Variant: the router, too, compares with the round before.
Again_Early == revise' # {} /\ count' < RouterLimit - 1

\* review_router, on what auto_review has just returned.
Again == revise' # {} /\ count' < RouterLimit

AutoReview ==
  /\ node = "auto_review"
  /\ IF NoPosts THEN NothingToReview ELSE Score \/ Waive
  /\ node' = IF Again THEN "content_generation" ELSE "output_packaging"
  /\ UNCHANGED <<plan, posts, rows>>

\* _build_final_output and _persist_to_db for one post.
Packaged(i) ==
  IF Exists(i)
    THEN [status |-> IF reviews[i].verdict = "flagged"
                       THEN "flagged_for_review" ELSE "draft",
          text |-> posts[i].text, image |-> posts[i].image,
          revision_count |-> count]
    ELSE NoRow

\* All rows in one transaction; if it fails the run ends all the same.
OutputPackaging ==
  /\ node = "output_packaging"
  /\ UNCHANGED rows \/ rows' = [i \in Id |-> Packaged(i)]
  /\ node' = "END"
  /\ UNCHANGED <<plan, posts, reviews, count, revise>>

Next ==
  \/ InputsFail \/ StrategyAlignment \/ Generate \/ Revise
  \/ ImagePromptCreation \/ ImageGeneration \/ AutoReview \/ OutputPackaging

Spec == Init /\ [][Next]_vars

\* langgraph runs the next node when one has returned, and every call of a
\* node to a model or a store returns or raises.
FairSpec == Spec /\ WF_vars(Next)

-----------------------------------------------------------------------------
Stored(i) == rows[i].status # "none"

\* A review that is acted on was made of the text at hand: the loop does not
\* package a rewritten post with the verdict on its older text, and a verdict
\* that is missing stays missing.
ReviewIsOfText ==
  node \in {"output_packaging", "END"} =>
    \A i \in Id : Exists(i) /\ reviews[i].verdict # "none"
                    => reviews[i].text = posts[i].text

\* A stored post has the image of its own text or none: whatever fails in a
\* round of the loop, no image of an earlier text stays with a rewritten post.
ImageIsOfText ==
  \A i \in Id : Stored(i) => rows[i].image \in {None, rows[i].text}

\* The loop may rewrite a post; it never loses one that was written.
NoPostIsLost == [][\A i \in Id : Exists(i) => Exists(i)']_vars

\* The graph comes to its end, also when reviews keep failing and no model
\* answers.
LoopEnds == <>(node = "END")

\* Every text of a stored post went through a review of its own, waived or
\* not: no way around the loop stores a text that was rewritten and not
\* reviewed again.
EveryTextWasReviewed ==
  \A i \in Id : Stored(i) => rows[i].text <= rows[i].revision_count

\* A post is given up, and stored although its last review failed, only when
\* the loop has made all its rounds, whichever posts and nodes failed in them.
FailingHadItsRounds ==
  \A i \in Id : Stored(i) /\ reviews[i].verdict = "fail"
                  => rows[i].revision_count = RouterLimit

\* docs/07 of the last review: "Any still-failing posts are marked
\* `flagged_for_review` and passed through to output."
FailingIsFlagged ==
  \A i \in Id : Stored(i) /\ reviews[i].verdict \in {"fail", "flagged"}
                  => rows[i].status = "flagged_for_review"

\* What the code does instead: auto_review compares the count before its own
\* increment, the router the one after it, and together they leave no round in
\* which a failing post is flagged.
NothingIsFlagged ==
  \A i \in Id : /\ reviews[i].verdict # "flagged"
                /\ rows[i].status # "flagged_for_review"

=============================================================================
