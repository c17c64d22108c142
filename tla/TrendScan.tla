------------------------------- MODULE TrendScan -------------------------------
(***************************************************************************)
(* What a scan does with data, from the rate limit to the analyzed trends: *)
(* RateLimiter, HackerNewsTool and TrendAnalyzer one after the other.  The *)
(* limiter's window is shared with other scans, which go on all the time.  *)
(***************************************************************************)
EXTENDS TrendAnalyzer

CONSTANTS
  Caller, Limit, Window, MaxClock,       \* of RateLimiter
  Self,                                  \* the Caller that is this scan
  MaxStories, Url, Points, ListTries     \* of HackerNewsTool

ASSUME ScanAssumption ==
  /\ Self \in Caller
  /\ Limit \in Nat /\ Window \in Nat \ {0} /\ MaxClock \in Nat
  /\ MaxStories \in Nat /\ ListTries \in Nat \ {0} /\ Points \subseteq Nat

VARIABLES
  clock, now, entries, expires, passed,
  phase, tries, stories, good, items

limiterVars == <<clock, now, entries, expires, passed>>
scannerVars == <<phase, tries, stories, good, items>>
scanVars == <<limiterVars, scannerVars, vars>>

Limiter == INSTANCE RateLimiter
Scanner == INSTANCE HackerNewsTool

ScanInit == Limiter!Init /\ Scanner!Init /\ Init

Clock == (Limiter!Tick \/ Limiter!Expire) /\ UNCHANGED <<scannerVars, vars>>

OtherScan ==
  /\ \E c \in Caller \ {Self} : Limiter!Check(c)
  /\ UNCHANGED <<scannerVars, vars>>

\* The scanner waits for its own check to come back.
StartCheck ==
  /\ phase = "check"
  /\ Limiter!ReadClock(Self)
  /\ UNCHANGED <<scannerVars, vars>>

CheckRateLimit ==
  /\ \E allowed \in BOOLEAN :
       Limiter!Execute(Self, allowed) /\ Scanner!CheckRateLimit(allowed)
  /\ UNCHANGED vars

Fetch ==
  /\ \/ Scanner!FetchTopStoryIds \/ Scanner!FetchStories
     \/ Scanner!CrawlArticles
  /\ UNCHANGED <<limiterVars, vars>>

\* The scanner's items are flattened into all_items; none after an error.
Collect ==
  /\ Scanner!Return
  /\ Start /\ total' = Len(items)
  /\ UNCHANGED limiterVars

Analyze ==
  /\ AnalyzeChunk \/ ChunkFails \/ Promote \/ PromotionFails \/ Finish
  /\ UNCHANGED <<limiterVars, scannerVars>>

ScanNext ==
  Clock \/ OtherScan \/ StartCheck \/ CheckRateLimit \/ Fetch \/ Collect \/ Analyze

ScanSpec == ScanInit /\ [][ScanNext]_scanVars

-----------------------------------------------------------------------------
\* The types of the three modules.
TypesOK == TypeOK /\ Limiter!TypeOK /\ Scanner!TypeOK

\* HackerNewsTool: the scanner returns the best stories, one per article.
ItemsAreBest == Scanner!ItemsAreBest

\* RateLimiter: all scans together are within the limit in the window that ends
\* now, late transactions or not.
LimitIsKept == Limiter!LimitIsKept

=============================================================================
