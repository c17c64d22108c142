----------------------------- MODULE HackerNewsTool -----------------------------
(***************************************************************************)
(* The HackerNews scanner of one scan: the rate limit, then fetch_all,     *)
(* which reads the list of top stories, the stories, and the articles they *)
(* link to.  Fetches run side by side; their results are gathered in the   *)
(* order of the requests, and one that fails costs only its own story.     *)
(***************************************************************************)
EXTENDS Naturals, Sequences, FiniteSets, SequencesExt

CONSTANTS
  MaxStories,    \* max_items_per_platform
  Url,           \* article URLs, up to what _dedup_key ignores
  Points,        \* scores of stories
  ListTries,     \* max_attempts of _fetch_top_story_ids
  MaxItems       \* qualifying stories that are returned

\* Stories are named by their rank in the list.
Story == 1 .. MaxStories

VARIABLES
  phase,      \* where the scanner is
  tries,      \* failed requests for the list
  stories,    \* fetched stories: url and score
  good,       \* stories that were crawled, long enough and about technology
  items       \* what fetch_all returns, by story

vars == <<phase, tries, stories, good, items>>

Detail == [url : Url, score : Points]

TypeOK ==
  /\ phase \in {"check", "list", "stories", "articles", "returned", "over"}
  /\ tries \in 0 .. ListTries - 1
  /\ DOMAIN stories \subseteq Story
  /\ \A s \in DOMAIN stories : stories[s] \in Detail
  /\ good \in SUBSET Story
  /\ items \in Seq(Story) /\ Len(items) <= MaxItems

Init ==
  /\ phase = "check"
  /\ tries = 0
  /\ stories = <<>>
  /\ good = {}
  /\ items = <<>>

\* BaseScannerNode: an error of any kind is a result without items.
Error == phase' = "returned" /\ UNCHANGED <<tries, stories, good, items>>

\* RateLimitError is an error like others.
CheckRateLimit(allowed) ==
  /\ phase = "check"
  /\ IF allowed
       THEN phase' = "list" /\ UNCHANGED <<tries, stories, good, items>>
       ELSE Error

\* with_retry: an error status is retried, a timeout or a lost connection not.
FetchTopStoryIds ==
  /\ phase = "list"
  /\ \/ phase' = "stories" /\ UNCHANGED <<tries, stories, good, items>>
     \/ /\ tries + 1 < ListTries
        /\ tries' = tries + 1
        /\ UNCHANGED <<phase, stories, good, items>>
     \/ Error

\* Requests that fail, and what is no story with a URL, are left out.
FetchStories ==
  /\ phase = "stories"
  /\ \E found \in SUBSET Story : stories' \in [found -> Detail]
  /\ phase' = "articles"
  /\ UNCHANGED <<tries, good, items>>

\* stories.sort(score, reverse): stable, so equals stay in the list's order.
Before(s, t) ==
  \/ stories[s].score > stories[t].score
  \/ stories[s].score = stories[t].score /\ s < t

Sorted(S) ==
  CHOOSE s \in SetToSeqs(S) :
    \A j, k \in DOMAIN s : j < k => Before(s[j], s[k])

\* Variant: the first of the list is kept, not the best.
Unique_ByRank ==
  {s \in DOMAIN stories :
     ~\E t \in DOMAIN stories : stories[t].url = stories[s].url /\ t < s}

\* Of the stories that link to the same article the first in order is kept.
Unique ==
  {s \in DOMAIN stories :
     ~\E t \in DOMAIN stories : stories[t].url = stories[s].url /\ Before(t, s)}

\* Variant: stops after one too many.
FirstOf_More(seq, n) ==
  SubSeq(seq, 1, IF Len(seq) <= n THEN Len(seq) ELSE n + 1)

FirstOf(seq, n) == SubSeq(seq, 1, IF Len(seq) < n THEN Len(seq) ELSE n)

\* An article that cannot be read, is too short, or is not about technology
\* costs its own story.
CrawlArticles ==
  /\ phase = "articles"
  /\ good' \in SUBSET Unique
  /\ items' = FirstOf(Sorted(good'), MaxItems)
  /\ phase' = "returned"
  /\ UNCHANGED <<tries, stories>>

\* The scanner's result is taken over; its coroutine is gone.
Return ==
  /\ phase = "returned"
  /\ phase' = "over"
  /\ tries' = 0
  /\ stories' = <<>>
  /\ good' = {}
  /\ items' = <<>>

Next ==
  \/ \E allowed \in BOOLEAN : CheckRateLimit(allowed)
  \/ FetchTopStoryIds \/ FetchStories \/ CrawlArticles \/ Return

Spec == Init /\ [][Next]_vars

-----------------------------------------------------------------------------
Listed == {items[i] : i \in DOMAIN items}

\* The result is in order of the score and has no article twice.  A story
\* whose article qualified is missing only if as many better ones are there;
\* and where several stories link to one article, the best of them stands for
\* it, whichever came first in the list.
ItemsAreBest ==
  /\ \A i, j \in DOMAIN items : i < j =>
       /\ stories[items[i]].score >= stories[items[j]].score
       /\ stories[items[i]].url # stories[items[j]].url
  /\ \A s \in good \ Listed :
       /\ Len(items) = MaxItems
       /\ \A t \in Listed : stories[t].score >= stories[s].score
  /\ \A s \in Listed, t \in DOMAIN stories :
       stories[t].url = stories[s].url => stories[t].score <= stories[s].score

=============================================================================
