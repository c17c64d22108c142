--------------------------- MODULE ReviewLoop_proofs ---------------------------
(***************************************************************************)
(* Proofs about ReviewLoop.  The inductive invariant ties the number of a  *)
(* post's text to the reviews done so far, stage by stage of the graph.    *)
(***************************************************************************)
EXTENDS ReviewLoop, TLAPS

Ended == {"output_packaging", "END"}
Rewritten == {"image_prompt_creation", "image_generation", "auto_review"}

\* Before the end the router's limit is not reached, and it is the only way
\* back into the loop.
CountIsBelowLimit == node \notin Ended => count < RouterLimit

\* A text that is not yet reviewed is at most one ahead of the reviews.
TextsKeepUp ==
  \A i \in Id : posts[i].text <= IF node \in Rewritten THEN count + 1 ELSE count

\* Prompts and images are made from the text at hand.
PostsAreWhole ==
  \A i \in Id : /\ posts[i].prompt \in {None, posts[i].text}
                /\ posts[i].image \in {None, posts[i].text}

\* The first node runs once, before any review: a run that ends there, because
\* its inputs cannot be read, ends with nothing reviewed.
StartsUnreviewed ==
  node = "strategy_alignment" => \A i \in Id : reviews[i].verdict = "none"

\* The loop is left with a failing post after all rounds, and only then.
LeftAfterAllRounds ==
  node \in Ended =>
    \A i \in Id : reviews[i].verdict = "fail" => count = RouterLimit

\* Only the last node stores rows.
RowsComeLast == node # "END" => \A i \in Id : ~Stored(i)

RoundsAreMade == RowsComeLast /\ LeftAfterAllRounds /\ FailingHadItsRounds

IInv ==
  /\ TypeOK
  /\ StartsUnreviewed
  /\ CountIsBelowLimit
  /\ TextsKeepUp
  /\ PostsAreWhole
  /\ NothingIsFlagged
  /\ RoundsAreMade
  /\ ReviewIsOfText
  /\ ImageIsOfText
  /\ EveryTextWasReviewed

USE DEF None, RouterLimit, MaxRevisions

\* Inside the loop nothing is stored, and so nothing is given up.
LEMMA NothingGivenUp ==
  ASSUME IInv, node # "END", node' \notin Ended, UNCHANGED rows
  PROVE  RoundsAreMade'
BY DEF IInv, RoundsAreMade, RowsComeLast, LeftAfterAllRounds,
       FailingHadItsRounds, Stored, Ended

-----------------------------------------------------------------------------
\* What the model writes for a post is a post record with a new text at most
\* one ahead, and nothing else.
LEMMA WrittenRecord ==
  ASSUME TypeOK, NEW i \in Id
  PROVE  /\ Written(i) \in PostRecord
         /\ Written(i).text \in 1 .. MaxTexts
         /\ Written(i).text <= posts[i].text + 1
         /\ Written(i).prompt = 0 /\ Written(i).image = 0
<1>1. posts[i].text \in 0 .. MaxTexts /\ MaxTexts \in Nat \ {0}
  BY ConstantsAssumption DEF TypeOK, PostRecord
<1> QED  BY <1>1 DEF Written, Absent, PostRecord

\* The initial state satisfies the invariant.
LEMMA InitInv == ASSUME Init PROVE IInv
<1>1. MaxTexts \in Nat \ {0}  BY ConstantsAssumption
<1>2. TypeOK
  <2>1. Absent \in PostRecord /\ Unreviewed \in ReviewRecord /\ NoRow \in RowRecord
    BY <1>1 DEF Absent, PostRecord, Unreviewed, ReviewRecord, Verdict, NoRow,
                RowRecord
  <2>2. /\ posts \in [Id -> PostRecord]
        /\ reviews \in [Id -> ReviewRecord]
        /\ rows \in [Id -> RowRecord]
    BY <2>1 DEF Init
  <2>3. /\ count \in 0 .. RouterLimit /\ revise \in SUBSET Id
        /\ node = "strategy_alignment"
    BY DEF Init
  <2>4. plan \in BOOLEAN  BY DEF Init
  <2> QED  BY <2>2, <2>3, <2>4 DEF TypeOK
<1>3. CountIsBelowLimit /\ TextsKeepUp /\ PostsAreWhole
  BY DEF Init, CountIsBelowLimit, TextsKeepUp, PostsAreWhole, Absent, Rewritten
<1>4. NothingIsFlagged  BY DEF Init, NothingIsFlagged, Unreviewed, NoRow
<1>5. ReviewIsOfText /\ StartsUnreviewed
  BY DEF Init, ReviewIsOfText, StartsUnreviewed, Unreviewed
<1>6. ImageIsOfText /\ EveryTextWasReviewed
  BY DEF Init, ImageIsOfText, EveryTextWasReviewed, Stored, NoRow
<1>7. RoundsAreMade
  BY DEF Init, RoundsAreMade, RowsComeLast, LeftAfterAllRounds,
         FailingHadItsRounds, Stored, NoRow, Ended
<1> QED  BY <1>2, <1>3, <1>4, <1>5, <1>6, <1>7 DEF IInv

-----------------------------------------------------------------------------
\* strategy_alignment only makes the plan.
LEMMA StrategyAlignmentInv ==
  ASSUME IInv, StrategyAlignment PROVE IInv'
<1>1. TypeOK' /\ StartsUnreviewed'
  BY DEF IInv, StrategyAlignment, TypeOK, StartsUnreviewed
<1>2. CountIsBelowLimit' /\ TextsKeepUp' /\ PostsAreWhole' /\ NothingIsFlagged'
  BY DEF IInv, StrategyAlignment, CountIsBelowLimit, TextsKeepUp, Rewritten,
         PostsAreWhole, NothingIsFlagged, Ended
<1>3. ReviewIsOfText' /\ ImageIsOfText' /\ EveryTextWasReviewed'
  BY DEF IInv, StrategyAlignment, ReviewIsOfText, ImageIsOfText,
         EveryTextWasReviewed, Stored
<1>4. RoundsAreMade'
  BY NothingGivenUp DEF StrategyAlignment, Ended
<1> QED  BY <1>1, <1>2, <1>3, <1>4 DEF IInv

\* A run that cannot read its inputs ends before anything is written.
LEMMA InputsFailInv ==
  ASSUME IInv, InputsFail PROVE IInv'
<1>1. TypeOK' /\ StartsUnreviewed'
  BY DEF IInv, InputsFail, TypeOK, StartsUnreviewed
<1>2. CountIsBelowLimit' /\ TextsKeepUp' /\ PostsAreWhole' /\ NothingIsFlagged'
  BY DEF IInv, InputsFail, CountIsBelowLimit, TextsKeepUp, Rewritten,
         PostsAreWhole, NothingIsFlagged, Ended
<1>3. ReviewIsOfText'
  BY DEF IInv, InputsFail, ReviewIsOfText, StartsUnreviewed
<1>4. ImageIsOfText' /\ EveryTextWasReviewed'
  BY DEF IInv, InputsFail, ImageIsOfText, EveryTextWasReviewed, Stored
<1>5. RoundsAreMade'
  BY DEF IInv, InputsFail, StartsUnreviewed, RoundsAreMade, RowsComeLast,
         LeftAfterAllRounds, FailingHadItsRounds, Stored
<1> QED  BY <1>1, <1>2, <1>3, <1>4, <1>5 DEF IInv

\* content_generation, in both modes, writes a post anew, drops it or leaves
\* it; what is new has neither prompt nor image.
LEMMA WritingInv ==
  ASSUME IInv,
         node = "content_generation", node' = "image_prompt_creation",
         UNCHANGED <<plan, reviews, count, revise, rows>>,
         posts' \in [Id -> PostRecord],
         \A i \in Id : posts'[i] \in {posts[i], Absent, Written(i)}
  PROVE  IInv'
<1>1. TypeOK' /\ StartsUnreviewed'  BY DEF IInv, TypeOK, StartsUnreviewed
<1>2. CountIsBelowLimit'  BY DEF IInv, CountIsBelowLimit, Ended
<1>3. ASSUME NEW i \in Id
      PROVE  /\ posts'[i].text <= count + 1
             /\ posts'[i].prompt \in {0, posts'[i].text}
             /\ posts'[i].image \in {0, posts'[i].text}
  <2>1. posts[i].text <= count /\ posts[i].text \in Nat /\ count \in Nat
    BY <1>3, ConstantsAssumption DEF IInv, TextsKeepUp, TypeOK, PostRecord, Rewritten
  <2>2. CASE posts'[i] = posts[i]
    BY <2>1, <2>2, <1>3 DEF IInv, PostsAreWhole
  <2>3. CASE posts'[i] = Absent  BY <2>1, <2>3 DEF Absent
  <2>4. CASE posts'[i] = Written(i)
    <3>1. /\ Written(i).text \in 1 .. MaxTexts
          /\ Written(i).text <= posts[i].text + 1
          /\ Written(i).prompt = 0 /\ Written(i).image = 0
      BY WrittenRecord, <1>3 DEF IInv
    <3> QED  BY <3>1, <2>1, <2>4, ConstantsAssumption
  <2> QED  BY <2>2, <2>3, <2>4, <1>3
<1>4. TextsKeepUp' /\ PostsAreWhole'
  BY <1>3 DEF TextsKeepUp, PostsAreWhole, Rewritten
<1>5. NothingIsFlagged' /\ ReviewIsOfText' /\ ImageIsOfText' /\ EveryTextWasReviewed'
  BY DEF IInv, NothingIsFlagged, ReviewIsOfText, ImageIsOfText,
         EveryTextWasReviewed, Stored
<1>6. RoundsAreMade'  BY NothingGivenUp DEF Ended
<1> QED  BY <1>1, <1>2, <1>4, <1>5, <1>6 DEF IInv

\* An absent post is a post record.
LEMMA AbsentRecord ==
  Absent \in PostRecord
BY ConstantsAssumption DEF Absent, PostRecord

\* The first run writes each post anew or not at all.
LEMMA GenerateInv ==
  ASSUME IInv, Generate PROVE IInv'
<1>1. posts' \in [Id -> PostRecord]
  BY WrittenRecord, AbsentRecord DEF IInv, Generate, TypeOK
<1>2. \A i \in Id : posts'[i] \in {posts[i], Absent, Written(i)}
  BY DEF Generate
<1> QED  BY <1>1, <1>2, WritingInv DEF Generate

\* A revision writes each post anew or leaves it.
LEMMA ReviseInv ==
  ASSUME IInv, Revise PROVE IInv'
<1>1. posts' \in [Id -> PostRecord]
  BY WrittenRecord DEF IInv, Revise, Merge, TypeOK
<1>2. \A i \in Id : posts'[i] \in {posts[i], Absent, Written(i)}
  BY DEF Revise, Merge
<1> QED  BY <1>1, <1>2, WritingInv DEF Revise

-----------------------------------------------------------------------------
\* The image nodes keep every text, and what they add was made from it.
LEMMA PaintingInv ==
  ASSUME IInv,
         node \in Rewritten, node' \in Rewritten,
         UNCHANGED <<plan, reviews, count, revise, rows>>,
         posts' \in [Id -> PostRecord],
         \A i \in Id : /\ posts'[i].text = posts[i].text
                       /\ posts'[i].prompt \in {0, posts[i].text}
                       /\ posts'[i].image \in {0, posts[i].text}
  PROVE  IInv'
<1>1. TypeOK' /\ StartsUnreviewed'
  BY DEF IInv, TypeOK, StartsUnreviewed, Rewritten
<1>2. CountIsBelowLimit' /\ TextsKeepUp' /\ PostsAreWhole'
  BY DEF IInv, CountIsBelowLimit, TextsKeepUp, PostsAreWhole, Ended, Rewritten
<1>3. NothingIsFlagged' /\ ReviewIsOfText' /\ ImageIsOfText' /\ EveryTextWasReviewed'
  BY DEF IInv, NothingIsFlagged, ReviewIsOfText, ImageIsOfText,
         EveryTextWasReviewed, Stored, Rewritten
<1>4. RoundsAreMade'  BY NothingGivenUp DEF Ended, Rewritten
<1> QED  BY <1>1, <1>2, <1>3, <1>4 DEF IInv

\* A prompt is made from the text at hand.
LEMMA ImagePromptCreationInv ==
  ASSUME IInv, ImagePromptCreation PROVE IInv'
<1>1. ASSUME NEW i \in Id
      PROVE  /\ posts[i] \in PostRecord
             /\ posts[i].prompt \in {0, posts[i].text}
             /\ posts[i].image \in {0, posts[i].text}
  BY <1>1 DEF IInv, TypeOK, PostsAreWhole
<1>2. posts' \in [Id -> PostRecord]
      /\ \A i \in Id : /\ posts'[i].text = posts[i].text
                       /\ posts'[i].prompt \in {0, posts[i].text}
                       /\ posts'[i].image \in {0, posts[i].text}
  <2>1. CASE UNCHANGED posts  BY <2>1, <1>1 DEF IInv, TypeOK
  <2>2. ASSUME NEW S \in SUBSET Id,
               posts' = [i \in Id |-> [posts[i] EXCEPT
                           !.prompt = IF i \in S THEN posts[i].text ELSE None]]
        PROVE  /\ posts' \in [Id -> PostRecord]
               /\ \A i \in Id : /\ posts'[i].text = posts[i].text
                                /\ posts'[i].prompt \in {0, posts[i].text}
                                /\ posts'[i].image \in {0, posts[i].text}
    BY <2>2, <1>1, ConstantsAssumption DEF PostRecord
  <2> QED  BY <2>1, <2>2 DEF ImagePromptCreation
<1> QED  BY <1>2, PaintingInv DEF ImagePromptCreation, Rewritten

\* An image is made from the prompt at hand.
LEMMA ImageGenerationInv ==
  ASSUME IInv, ImageGeneration PROVE IInv'
<1>1. ASSUME NEW i \in Id
      PROVE  /\ posts[i] \in PostRecord
             /\ posts[i].prompt \in {0, posts[i].text}
             /\ posts[i].image \in {0, posts[i].text}
  BY <1>1 DEF IInv, TypeOK, PostsAreWhole
<1>2. posts' \in [Id -> PostRecord]
      /\ \A i \in Id : /\ posts'[i].text = posts[i].text
                       /\ posts'[i].prompt \in {0, posts[i].text}
                       /\ posts'[i].image \in {0, posts[i].text}
  <2>1. PICK S \in SUBSET {i \in Id : posts[i].prompt # None} :
          posts' = [i \in Id |-> [posts[i] EXCEPT
                      !.image = IF i \in S THEN posts[i].prompt ELSE None]]
    BY DEF ImageGeneration
  <2> QED  BY <2>1, <1>1, ConstantsAssumption DEF PostRecord
<1> QED  BY <1>2, PaintingInv DEF ImageGeneration, Rewritten

-----------------------------------------------------------------------------
\* Whatever auto_review returns, a verdict it gives is of the text at hand and
\* none is "flagged"; reviews are counted while there are posts.
LEMMA ReviewResult ==
  ASSUME IInv, AutoReview
  PROVE  /\ reviews' \in [Id -> ReviewRecord]
         /\ revise' \in SUBSET Id
         /\ count' \in 0 .. RouterLimit
         /\ node' = "content_generation" => revise' # {} /\ count' < RouterLimit
         /\ \/ node' = "content_generation" \/ count' = RouterLimit
            \/ \A i \in Id : reviews'[i].verdict # "fail"
         /\ \A i \in Id : /\ reviews'[i].verdict # "flagged"
                          /\ reviews'[i].verdict # "none"
                               => reviews'[i].text = posts[i].text
                          /\ posts[i].text <= count'
<1>1. count \in 0 .. 1 /\ MaxTexts \in Nat
  BY ConstantsAssumption DEF IInv, CountIsBelowLimit, AutoReview, Ended, TypeOK
<1>2. \A i \in Id : /\ posts[i].text \in 0 .. MaxTexts
                    /\ posts[i].text <= count + 1
  BY DEF IInv, TextsKeepUp, AutoReview, Rewritten, TypeOK, PostRecord
<1>3. node' = "content_generation" => revise' # {} /\ count' < RouterLimit
  <2>1. node' = IF Again THEN "content_generation" ELSE "output_packaging"
    BY DEF AutoReview
  <2> QED  BY <2>1 DEF Again
<1> DEFINE Result == /\ reviews' \in [Id -> ReviewRecord]
                     /\ revise' \in SUBSET Id
                     /\ count' \in 0 .. RouterLimit
                     /\ \A i \in Id :
                          /\ reviews'[i].verdict = "fail" => i \in revise'
                          /\ reviews'[i].verdict # "flagged"
                          /\ reviews'[i].verdict # "none"
                               => reviews'[i].text = posts[i].text
                          /\ posts[i].text <= count'
<1>4. ASSUME NoPosts, NothingToReview PROVE Result
  <2>1. /\ reviews' = [i \in Id |-> Unreviewed]
        /\ revise' = {} /\ count' = count
        /\ \A i \in Id : posts[i].text = 0
    BY <1>4 DEF NothingToReview, NoPosts, Exists
  <2>2. reviews' \in [Id -> ReviewRecord]
    BY <2>1, <1>1 DEF Unreviewed, ReviewRecord, Verdict
  <2> QED  BY <2>1, <2>2, <1>1 DEF Unreviewed
<1>5. ASSUME Waive PROVE Result
  <2>1. /\ reviews' = [i \in Id |-> IF Exists(i)
                                      THEN [text |-> posts[i].text,
                                            verdict |-> "waived"]
                                      ELSE Unreviewed]
        /\ revise' = {} /\ count' = count + 1
    BY <1>5 DEF Waive
  <2>2. reviews' \in [Id -> ReviewRecord]
    BY <2>1, <1>1, <1>2 DEF Unreviewed, ReviewRecord, Verdict
  <2> QED  BY <2>1, <2>2, <1>1, <1>2 DEF Unreviewed
<1>6. ASSUME Score PROVE Result
  <2>1. PICK score \in [Id -> {"none", "pass", "fail"}] :
          reviews' = [i \in Id |-> IF score[i] = "none" THEN Unreviewed
                                    ELSE [text |-> posts[i].text,
                                          verdict |-> Judged(score[i])]]
    BY <1>6 DEF Score
  <2>2. revise' \in SUBSET Id /\ count' = count + 1
    BY <1>6 DEF Score, ToRevise
  <2>5. \A i \in Id : reviews'[i].verdict = "fail" => i \in revise'
    BY <1>6 DEF Score, ToRevise
  <2>3. \A i \in Id : Judged(score[i]) = score[i]
    BY <1>1 DEF Judged
  <2>4. reviews' \in [Id -> ReviewRecord]
    BY <2>1, <2>3, <1>1, <1>2 DEF Unreviewed, ReviewRecord, Verdict
  <2> QED  BY <2>1, <2>2, <2>3, <2>4, <2>5, <1>1, <1>2 DEF Unreviewed
<1>7. Result  BY <1>4, <1>5, <1>6 DEF AutoReview
<1>8. \/ node' = "content_generation" \/ count' = RouterLimit
      \/ \A i \in Id : reviews'[i].verdict # "fail"
  BY <1>7 DEF AutoReview, Again
<1> QED  BY <1>3, <1>7, <1>8

\* The review either sends posts back, below the limit, or ends the loop.
LEMMA AutoReviewInv ==
  ASSUME IInv, AutoReview PROVE IInv'
<1>1. /\ reviews' \in [Id -> ReviewRecord]
      /\ revise' \in SUBSET Id
      /\ count' \in 0 .. RouterLimit
      /\ node' = "content_generation" => revise' # {} /\ count' < RouterLimit
      /\ \/ node' = "content_generation" \/ count' = RouterLimit
         \/ \A i \in Id : reviews'[i].verdict # "fail"
      /\ \A i \in Id : /\ reviews'[i].verdict # "flagged"
                       /\ reviews'[i].verdict # "none"
                            => reviews'[i].text = posts[i].text
                       /\ posts[i].text <= count'
  BY ReviewResult
<1>2. node' \in {"content_generation", "output_packaging"}
      /\ UNCHANGED <<plan, posts, rows>>
  BY DEF AutoReview
<1>3. TypeOK' /\ StartsUnreviewed'
  BY <1>1, <1>2 DEF IInv, TypeOK, StartsUnreviewed
<1>4. CountIsBelowLimit' /\ TextsKeepUp' /\ PostsAreWhole' /\ NothingIsFlagged'
  BY <1>1, <1>2 DEF IInv, CountIsBelowLimit, TextsKeepUp, PostsAreWhole,
                    NothingIsFlagged, Ended, Rewritten
<1>5. ReviewIsOfText' /\ ImageIsOfText' /\ EveryTextWasReviewed'
  BY <1>1, <1>2 DEF IInv, ReviewIsOfText, ImageIsOfText, EveryTextWasReviewed,
                    Stored, Exists
<1>6. RoundsAreMade'
  BY <1>1, <1>2 DEF IInv, AutoReview, RoundsAreMade, RowsComeLast,
                    LeftAfterAllRounds, FailingHadItsRounds, Stored, Ended
<1> QED  BY <1>3, <1>4, <1>5, <1>6 DEF IInv

\* Packaging stores the posts as they are, or nothing.
LEMMA OutputPackagingInv ==
  ASSUME IInv, OutputPackaging PROVE IInv'
<1>1. /\ node = "output_packaging" /\ node' = "END"
      /\ UNCHANGED <<plan, posts, reviews, count, revise>>
  BY DEF OutputPackaging
<1>2. ASSUME NEW i \in Id
      PROVE  /\ posts[i] \in PostRecord /\ count \in 0 .. RouterLimit
             /\ posts[i].text <= count
             /\ posts[i].image \in {0, posts[i].text}
             /\ reviews[i].verdict # "flagged"
  BY <1>1, <1>2 DEF IInv, TypeOK, TextsKeepUp, PostsAreWhole, NothingIsFlagged, Rewritten
<1>3. ASSUME NEW i \in Id
      PROVE  /\ Packaged(i) \in RowRecord
             /\ Packaged(i).status # "flagged_for_review"
             /\ Packaged(i).status # "none" =>
                  /\ Packaged(i).image \in {0, Packaged(i).text}
                  /\ Packaged(i).text <= Packaged(i).revision_count
  BY <1>2, <1>3, ConstantsAssumption DEF Packaged, NoRow, RowRecord, PostRecord
<1>4. \/ rows' = rows
      \/ rows' = [i \in Id |-> Packaged(i)]
  BY DEF OutputPackaging
<1>5. TypeOK' /\ StartsUnreviewed'
  BY <1>1, <1>3, <1>4 DEF IInv, TypeOK, StartsUnreviewed
<1>6. CountIsBelowLimit' /\ TextsKeepUp' /\ PostsAreWhole' /\ ReviewIsOfText'
  BY <1>1 DEF IInv, CountIsBelowLimit, TextsKeepUp, PostsAreWhole,
              ReviewIsOfText, Exists, Ended, Rewritten
<1>7. NothingIsFlagged' /\ ImageIsOfText' /\ EveryTextWasReviewed'
  BY <1>1, <1>3, <1>4 DEF IInv, NothingIsFlagged, ImageIsOfText,
                          EveryTextWasReviewed, Stored
<1>8. LeftAfterAllRounds
  BY DEF IInv, RoundsAreMade
<1>9. RowsComeLast' /\ LeftAfterAllRounds'
  BY <1>1, <1>8 DEF RowsComeLast, LeftAfterAllRounds, Ended
<1>10. FailingHadItsRounds'
  <2>1. ASSUME NEW i \in Id, Packaged(i).status # "none",
               reviews[i].verdict = "fail"
        PROVE  Packaged(i).revision_count = RouterLimit
    BY <2>1, <1>1, <1>8 DEF LeftAfterAllRounds, Ended, Packaged, NoRow
  <2> QED
    BY <2>1, <1>1, <1>4 DEF IInv, RoundsAreMade, FailingHadItsRounds, Stored
<1> QED  BY <1>5, <1>6, <1>7, <1>9, <1>10 DEF IInv, RoundsAreMade

\* A stuttering step keeps everything.
LEMMA StutterInv == ASSUME IInv, UNCHANGED vars PROVE IInv'
BY DEF IInv, vars, TypeOK, StartsUnreviewed, CountIsBelowLimit, TextsKeepUp, PostsAreWhole,
       NothingIsFlagged, ReviewIsOfText, ImageIsOfText, EveryTextWasReviewed,
       RoundsAreMade, RowsComeLast, LeftAfterAllRounds, FailingHadItsRounds,
       Stored, Exists

\* The invariant holds throughout.
THEOREM Invariance == Spec => []IInv
<1>1. Init => IInv  BY InitInv
<1>2. IInv /\ [Next]_vars => IInv'
  <2> SUFFICES ASSUME IInv, [Next]_vars PROVE IInv'  OBVIOUS
  <2>1. CASE StrategyAlignment
    BY <2>1, StrategyAlignmentInv
  <2>2. CASE Generate  BY <2>2, GenerateInv
  <2>3. CASE Revise  BY <2>3, ReviseInv
  <2>4. CASE ImagePromptCreation
    BY <2>4, ImagePromptCreationInv
  <2>5. CASE ImageGeneration  BY <2>5, ImageGenerationInv
  <2>6. CASE AutoReview  BY <2>6, AutoReviewInv
  <2>7. CASE OutputPackaging  BY <2>7, OutputPackagingInv
  <2>8. CASE InputsFail  BY <2>8, InputsFailInv
  <2>9. CASE UNCHANGED vars  BY <2>9, StutterInv
  <2> QED
    BY <2>1, <2>2, <2>3, <2>4, <2>5, <2>6, <2>7, <2>8, <2>9 DEF Next
<1> QED  BY <1>1, <1>2, PTL DEF Spec

-----------------------------------------------------------------------------
\* Every state is well typed; in particular no review is done after the second.
THEOREM TypeCorrect == Spec => []TypeOK
BY Invariance, PTL DEF IInv

\* Verdicts that are acted on are of the text at hand.
THEOREM ReviewsAreCurrent == Spec => []ReviewIsOfText
BY Invariance, PTL DEF IInv

\* Stored images are of the stored text.
THEOREM ImagesAreCurrent == Spec => []ImageIsOfText
BY Invariance, PTL DEF IInv

\* Stored texts were reviewed.
THEOREM TextsAreReviewed == Spec => []EveryTextWasReviewed
BY Invariance, PTL DEF IInv

\* What is given up had all its rounds.
THEOREM FailingHadAllRounds == Spec => []FailingHadItsRounds
BY Invariance, PTL DEF IInv, RoundsAreMade

\* auto_review's branch for posts that still fail after the last revision is
\* dead code: no post is ever stored as flagged_for_review.
THEOREM FlagIsUnreachable == Spec => []NothingIsFlagged
BY Invariance, PTL DEF IInv

\* No step of the graph loses a post that was written: only the first run
\* rewrites the whole list, and nothing was written before it.
THEOREM PostsAreKept == Spec => NoPostIsLost
<1> DEFINE Kept == \A i \in Id : Exists(i) => Exists(i)'
           FirstIsFirst == node \in {"strategy_alignment", "content_generation"}
                             /\ revise = {} => NoPosts
           Inv == IInv /\ FirstIsFirst
<1>1. Init => FirstIsFirst
  <2>1. Absent.text = None  BY DEF Absent
  <2> QED  BY <2>1 DEF Init, NoPosts, Exists
<1>2. IInv /\ FirstIsFirst /\ [Next]_vars => FirstIsFirst' /\ Kept
  <2> SUFFICES ASSUME IInv, FirstIsFirst, [Next]_vars
               PROVE  FirstIsFirst' /\ Kept
    OBVIOUS
  <2>1. CASE StrategyAlignment
    BY <2>1 DEF StrategyAlignment, NoPosts, Exists
  <2>2. CASE Generate  BY <2>2 DEF Generate, NoPosts, Exists
  <2>3. CASE Revise
    <3>1. FirstIsFirst'  BY <2>3 DEF Revise
    <3>2. Kept
      BY <2>3, WrittenRecord DEF IInv, Revise, Merge, Exists
    <3> QED  BY <3>1, <3>2
  <2>4. CASE ImagePromptCreation
    <3>1. FirstIsFirst'  BY <2>4 DEF ImagePromptCreation
    <3>2. Kept  BY <2>4 DEF IInv, TypeOK, PostRecord, ImagePromptCreation, Exists
    <3> QED  BY <3>1, <3>2
  <2>5. CASE ImageGeneration
    <3>1. FirstIsFirst'  BY <2>5 DEF ImageGeneration
    <3>2. Kept  BY <2>5 DEF IInv, TypeOK, PostRecord, ImageGeneration, Exists
    <3> QED  BY <3>1, <3>2
  <2>6. CASE AutoReview
    <3>1. FirstIsFirst'
      BY <2>6 DEF AutoReview, Again
    <3>2. Kept  BY <2>6 DEF AutoReview, Exists
    <3> QED  BY <3>1, <3>2
  <2>7. CASE OutputPackaging  BY <2>7 DEF OutputPackaging, Exists
  <2>8. CASE InputsFail  BY <2>8 DEF InputsFail, NoPosts, Exists
  <2>9. CASE UNCHANGED vars  BY <2>9 DEF vars, NoPosts, Exists
  <2> QED
    BY <2>1, <2>2, <2>3, <2>4, <2>5, <2>6, <2>7, <2>8, <2>9 DEF Next
<1>3. Spec => [](IInv /\ FirstIsFirst)
  <2>1. Spec => []IInv  BY Invariance
  <2> HIDE DEF FirstIsFirst
  <2> QED  BY <1>1, <1>2, <2>1, PTL DEF Spec
<1>4. IInv /\ FirstIsFirst /\ [Next]_vars => [Kept]_vars  BY <1>2
<1>5. Spec => [][Kept]_vars
  <2> HIDE DEF FirstIsFirst, Kept
  <2> QED  BY <1>3, <1>4, PTL DEF Spec
<1> QED  BY <1>5 DEF NoPostIsLost

-----------------------------------------------------------------------------
(* The loop runs a bounded number of nodes.                                *)

\* The nodes still to run, the next one included, if every review sends posts
\* back for as long as the router lets it.
NodesLeft ==
  IF node \in Ended THEN [output_packaging |-> 1, END |-> 0][node]
  ELSE 4 * (RouterLimit - 1 - count)
         + [strategy_alignment |-> 6, content_generation |-> 5,
            image_prompt_creation |-> 4, image_generation |-> 3,
            auto_review |-> 2][node]

LEMMA NodesAreCounted ==
  ASSUME IInv PROVE NodesLeft \in 0 .. 10
<1>1. CASE node \in Ended
  BY <1>1 DEF NodesLeft, Ended
<1>2. CASE node \notin Ended
  <2>1. count \in 0 .. 1
    BY <1>2 DEF IInv, TypeOK, CountIsBelowLimit
  <2>2. node \in {"strategy_alignment", "content_generation",
                  "image_prompt_creation", "image_generation", "auto_review"}
    BY <1>2 DEF IInv, TypeOK, Ended
  <2> QED
    BY <1>2, <2>1, <2>2 DEF NodesLeft
<1> QED
  BY <1>1, <1>2

LEMMA NodeStep ==
  ASSUME IInv, Next PROVE NodesLeft' < NodesLeft
<1>1. node \notin Ended => count \in 0 .. 1
  BY DEF IInv, TypeOK, CountIsBelowLimit
<1>2. CASE InputsFail
  BY <1>1, <1>2 DEF InputsFail, NodesLeft, Ended
<1>3. CASE StrategyAlignment
  BY <1>1, <1>3 DEF StrategyAlignment, NodesLeft, Ended
<1>4. CASE Generate \/ Revise
  BY <1>1, <1>4 DEF Generate, Revise, NodesLeft, Ended
<1>5. CASE ImagePromptCreation
  BY <1>1, <1>5 DEF ImagePromptCreation, NodesLeft, Ended
<1>6. CASE ImageGeneration
  BY <1>1, <1>6 DEF ImageGeneration, NodesLeft, Ended
<1>7. CASE AutoReview
  <2>1. node = "auto_review" /\ count \in 0 .. 1
    BY <1>1, <1>7 DEF AutoReview, Ended
  <2>2. CASE Again
    <3>1. node' = "content_generation" /\ revise' # {}
      BY <1>7, <2>2 DEF AutoReview, Again
    <3>2. count' = count + 1
      BY <1>7, <3>1 DEF AutoReview, NothingToReview, Score, Waive
    <3> QED
      BY <2>1, <3>1, <3>2 DEF NodesLeft, Ended
  <2>3. CASE ~Again
    <3>1. node' = "output_packaging"
      BY <1>7, <2>3 DEF AutoReview
    <3> QED
      BY <2>1, <3>1 DEF NodesLeft, Ended
  <2> QED
    BY <2>2, <2>3
<1>8. CASE OutputPackaging
  BY <1>8 DEF OutputPackaging, NodesLeft, Ended
<1> QED
  BY <1>2, <1>3, <1>4, <1>5, <1>6, <1>7, <1>8 DEF Next

\* Whatever the models and the stores do, every step of the graph brings its
\* end nearer, and at most ten nodes run: two rounds of four, one before and
\* one after them.
THEOREM TenNodesAtMost ==
  Spec => [](NodesLeft \in 0 .. 10) /\ [][NodesLeft' < NodesLeft]_vars
<1>1. Spec => [](NodesLeft \in 0 .. 10)
  BY NodesAreCounted, Invariance, PTL
<1>2. IInv /\ [Next]_vars => [NodesLeft' < NodesLeft]_vars
  BY NodeStep
<1>3. Spec => [][NodesLeft' < NodesLeft]_vars
  BY <1>2, Invariance, PTL DEF Spec
<1> QED
  BY <1>1, <1>3

=============================================================================
