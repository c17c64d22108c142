---------------------------- MODULE TrendScan_proofs ----------------------------
(***************************************************************************)
(* Proofs about the rate limiter and the trend analyzer of a scan for any  *)
(* limit and window, any number of articles, chunks, posts and attempts.   *)
(***************************************************************************)
EXTENDS TrendScan, FiniteSetTheorems, SequenceTheorems, TLAPS

-----------------------------------------------------------------------------
(* The rate limiter.                                                       *)

\* The same operator, by the name that it has in the instance.
LEMMA SameCardinality == \A S : Limiter!Cardinality(S) = Cardinality(S)
BY DEF Cardinality, Limiter!Cardinality

Recent == {t \in passed : t > clock - Window}

\* Who was let through lately still stands in the window, so its count is an
\* upper bound; the key outlives what stands in it.
LimiterInv ==
  /\ Limiter!TypeOK
  /\ Recent \subseteq entries
  /\ \A t \in entries : t + Window <= expires
  /\ Cardinality(Recent) <= Limit

LEMMA LimiterInit == Limiter!Init => LimiterInv
<1> SUFFICES ASSUME Limiter!Init PROVE LimiterInv
  OBVIOUS
<1>1. Recent = {} /\ entries = {}
  BY DEF Limiter!Init, Recent
<1>2. Cardinality(Recent) = 0
  BY <1>1, FS_EmptySet
<1>3. Limiter!TypeOK
  BY ScanAssumption DEF Limiter!Init, Limiter!TypeOK
<1> QED
  BY <1>1, <1>2, <1>3, ScanAssumption DEF LimiterInv

LEMMA FiniteTimes ==
  ASSUME Limiter!TypeOK, NEW S \in SUBSET (0 .. clock)
  PROVE  IsFiniteSet(S) /\ Cardinality(S) \in Nat
<1>1. clock \in Int
  BY ScanAssumption DEF Limiter!TypeOK
<1>2. IsFiniteSet(0 .. clock)
  BY <1>1, FS_Interval
<1>3. IsFiniteSet(S)
  BY <1>2, FS_Subset
<1> QED
  BY <1>3, FS_CardinalityType

\* A transaction, with whatever older time it carries.
LEMMA ExecuteStep ==
  ASSUME LimiterInv, NEW c \in Caller, NEW allowed \in BOOLEAN,
         Limiter!Execute(c, allowed)
  PROVE  LimiterInv'
<1> DEFINE K == Limiter!Kept(c)
           time == now[c]
<1>1. /\ clock \in Nat /\ time \in 0 .. clock
      /\ entries \in SUBSET (0 .. clock) /\ passed \in SUBSET (0 .. clock)
      /\ Limit \in Nat /\ Window \in Nat \ {0} /\ MaxClock \in Nat
  BY ScanAssumption
  DEF LimiterInv, Limiter!TypeOK, Limiter!Execute, Limiter!Idle
<1>2. Recent \subseteq K /\ K \in SUBSET (0 .. clock) /\ K \subseteq entries
  <2>1. ASSUME NEW t \in entries, t > clock - Window PROVE t > time - Window
    BY <1>1, <2>1
  <2>2. K = {t \in entries : t > time - Window}
    BY DEF Limiter!Kept
  <2> HIDE DEF K, time
  <2> QED
    BY <1>1, <2>1, <2>2 DEF LimiterInv, Recent
<1>3. /\ entries' = K \cup {time} /\ clock' = clock
      /\ expires' = clock + Window
      /\ passed' = IF allowed THEN passed \cup {time} ELSE passed
      /\ allowed => Cardinality(K) < Limit
      /\ now' = [now EXCEPT ![c] = Limiter!Idle]
  BY SameCardinality DEF Limiter!Execute
<1> HIDE DEF K, time
<1>4. Limiter!TypeOK'
  <2>1. now' \in [Caller -> {Limiter!Idle} \cup (0 .. clock)]
    BY <1>3 DEF LimiterInv, Limiter!TypeOK
  <2>2. entries' \in SUBSET (0 .. clock) /\ passed' \in SUBSET (0 .. clock)
    BY <1>1, <1>2, <1>3
  <2>3. expires' \in 0 .. clock + Window
    BY <1>1, <1>3
  <2> QED
    BY <1>3, <2>1, <2>2, <2>3 DEF LimiterInv, Limiter!TypeOK
<1>5. \A t \in entries' : t + Window <= expires'
  <2>1. \A t \in entries' : t \in 0 .. clock
    BY <1>1, <1>2, <1>3
  <2> QED
    BY <1>1, <1>3, <2>1
<1>6. CASE allowed
  <2>1. Recent' \subseteq K \cup {time}
    BY <1>2, <1>3, <1>6 DEF Recent
  <2>2. IsFiniteSet(K) /\ Cardinality(K) \in Nat
    BY <1>2, FiniteTimes DEF LimiterInv
  <2>3. /\ IsFiniteSet(K \cup {time})
        /\ Cardinality(K \cup {time})
             = IF time \in K THEN Cardinality(K) ELSE Cardinality(K) + 1
    BY <2>2, FS_AddElement
  <2>4. /\ Cardinality(K \cup {time}) \in Nat
        /\ Cardinality(K \cup {time}) <= Cardinality(K) + 1
    BY <2>2, <2>3, FS_CardinalityType
  <2>5. Cardinality(Recent') \in Nat
        /\ Cardinality(Recent') <= Cardinality(K \cup {time})
    BY <2>1, <2>3, FS_Subset, FS_CardinalityType
  <2>6. Cardinality(Recent') <= Limit
    BY <1>1, <1>3, <1>6, <2>2, <2>4, <2>5
  <2> QED
    BY <1>3, <1>4, <1>5, <2>1, <2>6 DEF LimiterInv
<1>7. CASE ~allowed
  <2>1. Recent' = Recent
    BY <1>3, <1>7 DEF Recent
  <2> QED
    BY <1>2, <1>3, <1>4, <1>5, <2>1 DEF LimiterInv
<1> QED
  BY <1>6, <1>7

LEMMA LimiterStep ==
  LimiterInv /\ [Limiter!Next]_(Limiter!vars) => LimiterInv'
<1> SUFFICES ASSUME LimiterInv, [Limiter!Next]_(Limiter!vars)
             PROVE  LimiterInv'
  OBVIOUS
<1>0. /\ clock \in Nat /\ clock <= MaxClock
      /\ entries \in SUBSET (0 .. clock) /\ passed \in SUBSET (0 .. clock)
      /\ expires \in 0 .. clock + Window
      /\ Limit \in Nat /\ Window \in Nat \ {0} /\ MaxClock \in Nat
  BY ScanAssumption DEF LimiterInv, Limiter!TypeOK
<1>1. Recent \in SUBSET (0 .. clock) /\ Recent \subseteq entries
  BY <1>0 DEF Recent, LimiterInv
<1>2. IsFiniteSet(Recent) /\ Cardinality(Recent) \in Nat
      /\ Cardinality(Recent) <= Limit
  BY <1>1, FiniteTimes DEF LimiterInv
<1>3. CASE Limiter!Tick
  <2>1. clock' = clock + 1 /\ clock' <= MaxClock
        /\ UNCHANGED <<now, entries, expires, passed>>
    BY <1>0, <1>3 DEF Limiter!Tick
  <2>2. Recent' \subseteq Recent
    <3>1. ASSUME NEW t \in passed, t > (clock + 1) - Window
          PROVE  t > clock - Window
      BY <1>0, <3>1
    <3> QED
      BY <2>1, <3>1 DEF Recent
  <2>3. Cardinality(Recent') <= Cardinality(Recent) /\ IsFiniteSet(Recent')
    BY <1>2, <2>2, FS_Subset
  <2>4. Cardinality(Recent') <= Limit
    BY <1>0, <1>2, <2>3, FS_CardinalityType
  <2>5. Limiter!TypeOK'
    <3>1. 0 .. clock \subseteq 0 .. clock'
      BY <1>0, <2>1
    <3>2. clock' \in 0 .. MaxClock /\ expires' \in 0 .. clock' + Window
      BY <1>0, <2>1
    <3>3. now' \in [Caller -> {Limiter!Idle} \cup (0 .. clock')]
      BY <2>1, <3>1 DEF LimiterInv, Limiter!TypeOK
    <3> QED
      BY <1>0, <2>1, <3>1, <3>2, <3>3 DEF Limiter!TypeOK
  <2> QED
    BY <1>1, <2>1, <2>2, <2>4, <2>5 DEF LimiterInv
<1>4. CASE Limiter!Expire
  <2>1. /\ entries' = {} /\ UNCHANGED <<clock, now, expires, passed>>
        /\ clock >= expires
    BY <1>4 DEF Limiter!Expire
  <2>2. \A t \in entries : t <= clock - Window
    BY <1>0, <2>1 DEF LimiterInv
  <2>3. Recent = {} /\ Recent' = Recent
    BY <1>0, <1>1, <2>1, <2>2 DEF Recent
  <2>4. Limiter!TypeOK'
    BY <2>1 DEF LimiterInv, Limiter!TypeOK
  <2> QED
    BY <1>2, <2>1, <2>3, <2>4 DEF LimiterInv
<1>5. ASSUME NEW c \in Caller, Limiter!ReadClock(c) PROVE LimiterInv'
  <2>1. /\ now' = [now EXCEPT ![c] = clock]
        /\ UNCHANGED <<clock, entries, expires, passed>>
    BY <1>5 DEF Limiter!ReadClock
  <2>2. clock \in 0 .. clock
    BY <1>0
  <2>3. Limiter!TypeOK'
    BY <2>1, <2>2 DEF LimiterInv, Limiter!TypeOK
  <2> QED
    BY <2>1, <2>3 DEF LimiterInv, Recent
<1>6. CASE UNCHANGED Limiter!vars
  BY <1>6 DEF Limiter!vars, Recent, LimiterInv, Limiter!TypeOK
<1> QED
  BY <1>3, <1>4, <1>5, <1>6, ExecuteStep DEF Limiter!Next, Limiter!Check

LEMMA LimiterInvariance == ScanSpec => []LimiterInv
<1>1. ScanInit => LimiterInv
  BY LimiterInit DEF ScanInit
<1>2. [ScanNext]_scanVars => [Limiter!Next]_(Limiter!vars)
  BY ScanAssumption
  DEF ScanNext, Clock, OtherScan, StartCheck, CheckRateLimit, Fetch, Collect,
      Analyze, limiterVars, scanVars, Limiter!Next, Limiter!Check, Limiter!vars
<1> QED
  BY <1>1, <1>2, LimiterStep, PTL DEF ScanSpec

\* All scans together stay within the limit in the window that ends now, for
\* every limit, window and number of scans, and however late and in whichever
\* order the transactions of the checks come.
THEOREM LimitHolds == ScanSpec => []LimitIsKept
<1>1. LimiterInv => LimitIsKept
  BY SameCardinality DEF LimiterInv, LimitIsKept, Limiter!LimitIsKept, Recent
<1> QED
  BY <1>1, LimiterInvariance, PTL

-----------------------------------------------------------------------------
(* The scanner.                                                            *)

LEMMA SameCount == \A S : Scanner!Cardinality(S) = Cardinality(S)
BY DEF Cardinality, Scanner!Cardinality

Fetched == DOMAIN stories

\* Stories that were fetched are in a strict order.
LEMMA BeforeIsOrder ==
  ASSUME Scanner!TypeOK
  PROVE  /\ Fetched \in SUBSET Nat /\ Fetched \in SUBSET Scanner!Story
         /\ IsFiniteSet(Fetched)
         /\ \A s \in Fetched : stories[s].score \in Nat
         /\ \A s \in Fetched : ~Scanner!Before(s, s)
         /\ \A s, t \in Fetched : Scanner!Before(s, t) => ~Scanner!Before(t, s)
         /\ \A s, t \in Fetched : s = t \/ Scanner!Before(s, t) \/ Scanner!Before(t, s)
         /\ \A s, t, u \in Fetched :
              Scanner!Before(s, t) /\ Scanner!Before(t, u) => Scanner!Before(s, u)
<1>1. Fetched \in SUBSET Scanner!Story
  BY DEF Scanner!TypeOK, Fetched
<1>2. Scanner!Story = 1 .. MaxStories /\ MaxStories \in Nat
  BY ScanAssumption DEF Scanner!Story
<1>3. IsFiniteSet(Fetched)
  <2>1. IsFiniteSet(Scanner!Story)
    BY <1>2, FS_Interval
  <2> QED
    BY <1>1, <2>1, FS_Subset
<1>4. ASSUME NEW s \in Fetched PROVE s \in Nat /\ stories[s].score \in Nat
  <2>1. stories[s] \in [url : Url, score : Points]
    BY DEF Scanner!TypeOK, Scanner!Detail, Fetched
  <2>2. stories[s].score \in Points
    BY <2>1
  <2>3. s \in Nat
    BY <1>1, <1>2
  <2> QED
    BY <2>2, <2>3, ScanAssumption
<1> QED
  BY <1>1, <1>3, <1>4 DEF Scanner!Before

\* The stories of S that do not come after s.
UpTo(S, s) == {t \in S : t = s \/ Scanner!Before(t, s)}

LEMMA RankGrows ==
  ASSUME Scanner!TypeOK, NEW S \in SUBSET Fetched,
         NEW s \in S, NEW t \in S, Scanner!Before(s, t)
  PROVE  Cardinality(UpTo(S, s)) < Cardinality(UpTo(S, t))
<1>1. UpTo(S, s) \in SUBSET UpTo(S, t) /\ UpTo(S, t) \in SUBSET Fetched
  BY BeforeIsOrder, Zenon DEF UpTo
<1>2. t \in UpTo(S, t) /\ t \notin UpTo(S, s)
  BY BeforeIsOrder, Zenon DEF UpTo
<1>3. UpTo(S, s) # UpTo(S, t)
  BY <1>2
<1>4. IsFiniteSet(UpTo(S, t)) /\ IsFiniteSet(UpTo(S, s))
  BY <1>1, BeforeIsOrder, FS_Subset
<1>5. Cardinality(UpTo(S, s)) \in Nat /\ Cardinality(UpTo(S, t)) \in Nat
  BY <1>4, FS_CardinalityType
<1>6. /\ Cardinality(UpTo(S, s)) <= Cardinality(UpTo(S, t))
      /\ Cardinality(UpTo(S, t)) = Cardinality(UpTo(S, s))
           => UpTo(S, t) = UpTo(S, s)
  BY <1>1, <1>4, FS_Subset
<1> QED
  BY <1>3, <1>5, <1>6

\* Any stories have a list in that order, which Sorted chooses.
LEMMA StoriesAreSorted ==
  ASSUME Scanner!TypeOK, NEW S \in SUBSET Fetched
  PROVE  LET n == Cardinality(S)
         IN  /\ n \in Nat
             /\ Scanner!Sorted(S) \in [1 .. n -> S]
             /\ \A j, k \in 1 .. n : j < k =>
                  Scanner!Before(Scanner!Sorted(S)[j], Scanner!Sorted(S)[k])
             /\ \A s \in S : \E k \in 1 .. n : Scanner!Sorted(S)[k] = s
<1> DEFINE n == Cardinality(S)
           Rank == [s \in S |-> Cardinality(UpTo(S, s))]
<1>0. IsFiniteSet(S)
  BY BeforeIsOrder, FS_Subset
<1>1. n \in Nat
  BY <1>0, FS_CardinalityType
<1>2. IsFiniteSet(1 .. n) /\ Cardinality(1 .. n) = n
  BY <1>1, FS_Interval
<1>3. ASSUME NEW s \in S PROVE Cardinality(UpTo(S, s)) \in 1 .. n
  <2>1. UpTo(S, s) \in SUBSET S /\ s \in UpTo(S, s)
    BY DEF UpTo
  <2>2. IsFiniteSet(UpTo(S, s)) /\ Cardinality(UpTo(S, s)) <= n
    BY <1>0, <2>1, FS_Subset
  <2>3. Cardinality(UpTo(S, s)) \in Nat
    BY <2>2, FS_CardinalityType
  <2>4. Cardinality(UpTo(S, s)) # 0
    BY <2>1, <2>2, FS_EmptySet
  <2> QED
    BY <1>1, <2>2, <2>3, <2>4
<1>4. Rank \in [S -> 1 .. n]
  BY <1>3
<1>5. \A s, t \in S : Scanner!Before(s, t) => Rank[s] < Rank[t]
  BY RankGrows
<1>6. \A s, t \in S : Rank[s] = Rank[t] => s = t
  <2> SUFFICES ASSUME NEW s \in S, NEW t \in S, Rank[s] = Rank[t]
               PROVE  s = t
    OBVIOUS
  <2>1. ~ (Rank[s] < Rank[t]) /\ ~ (Rank[t] < Rank[s])
    BY <1>1, <1>4
  <2>2. s \in Fetched /\ t \in Fetched
    OBVIOUS
  <2> QED
    BY <1>5, <2>1, <2>2, BeforeIsOrder, Zenon
<1>7. Rank \in Injection(S, 1 .. n)
  BY <1>4, <1>6 DEF Injection, IsInjective
<1>8. Rank \in Surjection(S, 1 .. n)
  BY <1>2, <1>7, FS_Injection
<1>9. \A k \in 1 .. n : \E s \in S : Rank[s] = k
  BY <1>8 DEF Surjection
<1> DEFINE List == [k \in 1 .. n |-> CHOOSE s \in S : Rank[s] = k]
<1> HIDE DEF Rank
<1>10. \A k \in 1 .. n : List[k] \in S /\ Rank[List[k]] = k
  BY <1>9
<1>11. List \in [1 .. n -> S] /\ DOMAIN List = 1 .. n
  BY <1>10
<1> HIDE DEF List
<1>12. \A j, k \in 1 .. n : j < k => Scanner!Before(List[j], List[k])
  <2> SUFFICES ASSUME NEW j \in 1 .. n, NEW k \in 1 .. n, j < k
               PROVE  Scanner!Before(List[j], List[k])
    OBVIOUS
  <2>1. List[j] \in S /\ List[k] \in S /\ Rank[List[j]] = j /\ Rank[List[k]] = k
    BY <1>10
  <2>2. Scanner!Before(List[k], List[j]) => Rank[List[k]] < Rank[List[j]]
    BY <1>5, <2>1, Zenon
  <2>3. ~ (k < j) /\ j # k
    BY <1>1
  <2>4. List[j] # List[k] /\ ~Scanner!Before(List[k], List[j])
    BY <2>1, <2>2, <2>3, Zenon
  <2>5. List[j] \in Fetched /\ List[k] \in Fetched
    BY <2>1
  <2> QED
    BY <2>4, <2>5, BeforeIsOrder, Zenon
<1>13. \A j, k \in 1 .. n : j # k => List[j] # List[k]
  BY <1>10
<1>14. List \in Scanner!SetToSeqs(S)
  BY <1>11, <1>13, SameCount DEF Scanner!SetToSeqs
<1>15. \A j, k \in DOMAIN List : j < k => Scanner!Before(List[j], List[k])
  BY <1>11, <1>12
<1>16. /\ Scanner!Sorted(S) \in Scanner!SetToSeqs(S)
       /\ \A j, k \in DOMAIN Scanner!Sorted(S) :
            j < k => Scanner!Before(Scanner!Sorted(S)[j], Scanner!Sorted(S)[k])
  BY <1>14, <1>15, Zenon DEF Scanner!Sorted
<1> DEFINE sorted == Scanner!Sorted(S)
<1> HIDE DEF sorted
<1>17. /\ sorted \in [1 .. n -> S] /\ DOMAIN sorted = 1 .. n
       /\ \A j, k \in 1 .. n : j # k => sorted[j] # sorted[k]
  BY <1>16, SameCount DEF Scanner!SetToSeqs, sorted
<1>18. \A j, k \in 1 .. n : j < k => Scanner!Before(sorted[j], sorted[k])
  BY <1>16, <1>17 DEF sorted
<1>19. \A s \in S : \E k \in 1 .. n : sorted[k] = s
  <2>1. sorted \in Injection(1 .. n, S)
    BY <1>17, Zenon DEF Injection, IsInjective
  <2>2. sorted \in Surjection(1 .. n, S)
    BY <1>0, <1>2, <2>1, FS_Injection
  <2> QED
    BY <2>2 DEF Surjection
<1> QED
  BY <1>1, <1>17, <1>18, <1>19 DEF sorted

\* The first of a sorted list.
LEMMA FirstOfSorted ==
  ASSUME Scanner!TypeOK, NEW S \in SUBSET Fetched
  PROVE  LET list == Scanner!FirstOf(Scanner!Sorted(S), MaxItems)
             n == Cardinality(S)
         IN  /\ list \in Seq(S) /\ Len(list) <= MaxItems /\ Len(list) <= n
             /\ Len(list) < n => Len(list) = MaxItems
             /\ \A k \in 1 .. Len(list) : list[k] = Scanner!Sorted(S)[k]
<1> DEFINE sorted == Scanner!Sorted(S)
           n == Cardinality(S)
           m == IF n < MaxItems THEN n ELSE MaxItems
<1>1. n \in Nat /\ sorted \in [1 .. n -> S] /\ MaxItems \in Nat
  BY StoriesAreSorted, AnalyzerAssumption
<1> HIDE DEF sorted, n
<1>2. Len(sorted) = n /\ m \in 0 .. n /\ m <= MaxItems
      /\ (m < n => m = MaxItems)
  BY <1>1
<1>3. Scanner!FirstOf(sorted, MaxItems) = SubSeq(sorted, 1, m)
  BY <1>2, Zenon DEF Scanner!FirstOf
<1> HIDE DEF m
<1>4. \A k \in 1 .. m : sorted[k] \in S
  BY <1>1, <1>2
<1>5. /\ SubSeq(sorted, 1, m) \in Seq(S)
      /\ Len(SubSeq(sorted, 1, m)) = IF 1 <= m THEN m - 1 + 1 ELSE 0
      /\ \A k \in 1 .. m - 1 + 1 : SubSeq(sorted, 1, m)[k] = sorted[1 + k - 1]
  BY <1>2, <1>4, SubSeqProperties
<1>6. m \in Nat /\ n \in Nat
  BY <1>1, <1>2
<1>7. /\ Len(SubSeq(sorted, 1, m)) = m
      /\ \A k \in 1 .. m : SubSeq(sorted, 1, m)[k] = sorted[k]
  BY <1>5, <1>6
<1> QED
  BY <1>2, <1>3, <1>5, <1>7 DEF sorted, n

\* What ItemsAreBest says of a list and the stories that qualified.
Best(list, G) ==
  /\ \A i, j \in DOMAIN list : i < j =>
       /\ stories[list[i]].score >= stories[list[j]].score
       /\ stories[list[i]].url # stories[list[j]].url
  /\ \A s \in G \ {list[i] : i \in DOMAIN list} :
       /\ Len(list) = MaxItems
       /\ \A t \in {list[i] : i \in DOMAIN list} :
            stories[t].score >= stories[s].score
  /\ \A s \in {list[i] : i \in DOMAIN list}, t \in DOMAIN stories :
       stories[t].url = stories[s].url => stories[t].score <= stories[s].score

LEMMA CrawlIsBest ==
  ASSUME Scanner!TypeOK, NEW G \in SUBSET Scanner!Unique
  PROVE  LET list == Scanner!FirstOf(Scanner!Sorted(G), MaxItems)
         IN  /\ list \in Seq(Scanner!Story) /\ Len(list) <= MaxItems
             /\ Best(list, G)
<1> DEFINE list == Scanner!FirstOf(Scanner!Sorted(G), MaxItems)
           sorted == Scanner!Sorted(G)
           n == Cardinality(G)
<1>1. G \in SUBSET Fetched /\ Fetched \in SUBSET Scanner!Story
  BY BeforeIsOrder DEF Scanner!Unique, Fetched
<1>2. /\ n \in Nat /\ sorted \in [1 .. n -> G]
      /\ \A j, k \in 1 .. n : j < k => Scanner!Before(sorted[j], sorted[k])
      /\ \A s \in G : \E k \in 1 .. n : sorted[k] = s
  BY <1>1, StoriesAreSorted
<1>3. /\ list \in Seq(G) /\ Len(list) <= MaxItems /\ Len(list) <= n
      /\ Len(list) < n => Len(list) = MaxItems
      /\ \A k \in 1 .. Len(list) : list[k] = sorted[k]
  BY <1>1, FirstOfSorted
<1> HIDE DEF list, sorted, n
<1>4. list \in Seq(Scanner!Story)
  BY <1>1, <1>3
<1>5. DOMAIN list = 1 .. Len(list) /\ Len(list) \in Nat
  BY <1>3
<1>6. \A i \in DOMAIN list : i \in 1 .. n /\ list[i] = sorted[i] /\ list[i] \in G
  BY <1>2, <1>3, <1>5
\* Qualified stories of one article are one.
<1>7. \A s, t \in G : stories[s].url = stories[t].url => s = t
  BY <1>1, BeforeIsOrder, Zenon DEF Scanner!Unique, Fetched
<1>8. \A s, t \in Fetched :
        Scanner!Before(s, t) => s # t /\ stories[s].score >= stories[t].score
  BY BeforeIsOrder DEF Scanner!Before
<1>9. ASSUME NEW i \in DOMAIN list, NEW j \in DOMAIN list, i < j
      PROVE  /\ stories[list[i]].score >= stories[list[j]].score
             /\ stories[list[i]].url # stories[list[j]].url
  <2>1. Scanner!Before(list[i], list[j])
    BY <1>2, <1>6, <1>9
  <2>2. list[i] \in G /\ list[j] \in G /\ list[i] \in Fetched /\ list[j] \in Fetched
    BY <1>1, <1>6
  <2>3. list[i] # list[j] /\ stories[list[i]].score >= stories[list[j]].score
    BY <1>8, <2>1, <2>2
  <2> QED
    BY <1>7, <2>2, <2>3, Zenon
<1>10. ASSUME NEW s \in G \ {list[i] : i \in DOMAIN list}
       PROVE  /\ Len(list) = MaxItems
              /\ \A t \in {list[i] : i \in DOMAIN list} :
                   stories[t].score >= stories[s].score
  <2>1. PICK k \in 1 .. n : sorted[k] = s
    BY <1>2
  <2>2. k \notin DOMAIN list
    BY <1>6, <2>1
  <2>3. Len(list) < k /\ Len(list) < n
    BY <1>2, <1>5, <2>2
  <2>4. ASSUME NEW i \in DOMAIN list
        PROVE  stories[list[i]].score >= stories[s].score
    <3>1. i < k
      BY <1>2, <1>5, <2>3
    <3>2. Scanner!Before(list[i], s)
      BY <1>2, <1>6, <2>1, <3>1
    <3>3. list[i] \in Fetched /\ s \in Fetched
      BY <1>1, <1>6
    <3> QED
      BY <1>8, <3>2, <3>3
  <2> QED
    BY <1>3, <2>3, <2>4
<1>11. ASSUME NEW i \in DOMAIN list, NEW t \in DOMAIN stories,
              stories[t].url = stories[list[i]].url
       PROVE  stories[t].score <= stories[list[i]].score
  <2>1. list[i] \in Scanner!Unique
    BY <1>6
  <2>2. ~Scanner!Before(t, list[i])
    BY <1>11, <2>1, Zenon DEF Scanner!Unique
  <2>3. t \in Fetched /\ list[i] \in Fetched
    BY <1>1, <1>6 DEF Fetched
  <2>4. t = list[i] \/ Scanner!Before(list[i], t)
    BY <2>2, <2>3, BeforeIsOrder, Zenon
  <2>5. stories[t].score \in Nat /\ stories[list[i]].score \in Nat
    BY <2>3, BeforeIsOrder
  <2> QED
    BY <1>8, <2>3, <2>4, <2>5
<1>12. Best(list, G)
  BY <1>9, <1>10, <1>11 DEF Best
<1> QED
  BY <1>3, <1>4, <1>12 DEF list

ScannerInv ==
  /\ Scanner!TypeOK
  /\ phase \in {"check", "list", "stories", "articles"} => good = {} /\ items = <<>>
  /\ Best(items, good)

LEMMA NothingIsBest == Best(<<>>, {})
BY DEF Best

LEMMA ScannerInit == Scanner!Init => ScannerInv
<1> SUFFICES ASSUME Scanner!Init PROVE ScannerInv
  OBVIOUS
<1>1. /\ 0 \in 0 .. ListTries - 1 /\ <<>> \in Seq(Scanner!Story)
      /\ Len(<<>>) <= MaxItems
  BY ScanAssumption, AnalyzerAssumption
<1> QED
  BY <1>1, NothingIsBest DEF Scanner!Init, ScannerInv, Scanner!TypeOK

LEMMA ScannerStep == ScannerInv /\ [Scanner!Next]_(Scanner!vars) => ScannerInv'
<1> SUFFICES ASSUME ScannerInv, [Scanner!Next]_(Scanner!vars)
             PROVE  ScannerInv'
  OBVIOUS
<1> USE DEF ScannerInv
<1>1. CASE /\ UNCHANGED <<stories, good, items>>
           /\ tries' \in 0 .. ListTries - 1
           /\ phase' \in {"list", "stories", "returned"}
           /\ phase \in {"check", "list"}
  BY <1>1 DEF Scanner!TypeOK, Best
<1>2. CASE \E allowed \in BOOLEAN : Scanner!CheckRateLimit(allowed)
  BY <1>1, <1>2 DEF Scanner!CheckRateLimit, Scanner!Error, Scanner!TypeOK
<1>3. CASE Scanner!FetchTopStoryIds
  <2>1. tries' \in 0 .. ListTries - 1
    BY <1>3, ScanAssumption
    DEF Scanner!FetchTopStoryIds, Scanner!Error, Scanner!TypeOK
  <2> QED
    BY <1>1, <1>3, <2>1 DEF Scanner!FetchTopStoryIds, Scanner!Error
<1>4. CASE Scanner!FetchStories
  <2>1. PICK found \in SUBSET Scanner!Story : stories' \in [found -> Scanner!Detail]
    BY <1>4 DEF Scanner!FetchStories
  <2>2. /\ DOMAIN stories' \subseteq Scanner!Story
        /\ \A s \in DOMAIN stories' : stories'[s] \in Scanner!Detail
    BY <2>1
  <2>3. good' = {} /\ items' = <<>> /\ phase' = "articles" /\ tries' = tries
    BY <1>4 DEF Scanner!FetchStories
  <2>4. Best(items, good)'
    BY <2>3 DEF Best
  <2>5. <<>> \in Seq(Scanner!Story) /\ Len(<<>>) <= MaxItems
    BY AnalyzerAssumption
  <2>6. Scanner!TypeOK'
    BY <2>2, <2>3, <2>5 DEF Scanner!TypeOK
  <2> QED
    BY <2>3, <2>4, <2>6
<1>5. CASE Scanner!CrawlArticles
  <2>1. /\ good' \in SUBSET Scanner!Unique
        /\ items' = Scanner!FirstOf(Scanner!Sorted(good'), MaxItems)
        /\ phase' = "returned" /\ UNCHANGED <<tries, stories>>
    BY <1>5 DEF Scanner!CrawlArticles
  <2>2. /\ items' \in Seq(Scanner!Story) /\ Len(items') <= MaxItems
        /\ Best(items', good')
    BY <2>1, CrawlIsBest
  <2>3. Best(items, good)'
    BY <2>1, <2>2 DEF Best
  <2>4. good' \in SUBSET Scanner!Story
    BY <2>1 DEF Scanner!Unique, Scanner!TypeOK
  <2> QED
    BY <2>1, <2>2, <2>3, <2>4 DEF Scanner!TypeOK
<1>6. CASE Scanner!Return
  <2>1. /\ phase' = "over" /\ tries' = 0 /\ stories' = <<>> /\ good' = {}
        /\ items' = <<>>
    BY <1>6 DEF Scanner!Return
  <2>2. /\ 0 \in 0 .. ListTries - 1 /\ <<>> \in Seq(Scanner!Story)
        /\ Len(<<>>) <= MaxItems
    BY ScanAssumption, AnalyzerAssumption
  <2>3. Scanner!TypeOK'
    BY <2>1, <2>2 DEF Scanner!TypeOK
  <2>4. Best(items, good)'
    BY <2>1 DEF Best
  <2> QED
    BY <2>1, <2>3, <2>4
<1>7. CASE UNCHANGED Scanner!vars
  BY <1>7 DEF Scanner!vars, Scanner!TypeOK, Best
<1> QED
  BY <1>2, <1>3, <1>4, <1>5, <1>6, <1>7 DEF Scanner!Next

LEMMA ScannerInvariance == ScanSpec => []ScannerInv
<1>1. ScanInit => ScannerInv
  BY ScannerInit DEF ScanInit
<1>2. [ScanNext]_scanVars => [Scanner!Next]_(Scanner!vars)
  BY DEF ScanNext, Clock, OtherScan, StartCheck, CheckRateLimit, Fetch, Collect,
         Analyze, scannerVars, scanVars, Scanner!Next, Scanner!vars
<1> QED
  BY <1>1, <1>2, ScannerStep, PTL DEF ScanSpec

\* The scanner returns the best stories in order, one for each article, however
\* many stories, articles and items there are and whichever fetches fail.
THEOREM ScannedAreBest == ScanSpec => []ItemsAreBest
<1>1. ScannerInv => ItemsAreBest
  BY DEF ScannerInv, Best, ItemsAreBest, Scanner!ItemsAreBest, Scanner!Listed
<1> QED
  BY <1>1, ScannerInvariance, PTL

-----------------------------------------------------------------------------
(* The trend analyzer.                                                     *)

\* Everything before the offset was read, nothing behind it.
ReadInOrder ==
  /\ \A i \in Item : i < offset => i \in Analyzed \cup discarded \cup omitted
                                         \cup dropped
  /\ \A i \in Analyzed \cup discarded \cup omitted : i \in Item /\ i < offset
  /\ step = "start" => offset = 0
  /\ step \in {"end", "raised"} => offset >= total

\* What is analyzed is so once, and not among those that may be promoted.
AnalyzedOnce ==
  /\ \A a, b \in processed : a.id = b.id => a = b
  /\ Analyzed \cap (Pool \cup omitted \cup dropped) = {}
  /\ discarded \cap omitted = {}

\* What was attempted was discarded, until the end, and brought an analysis or
\* is dropped.
AttemptsAreKept ==
  /\ dropped \subseteq attempted
  /\ attempted \subseteq Analyzed \cup dropped
  /\ attempted \subseteq Item
  /\ step \in {"start", "analyze"} => attempted \subseteq discarded
  /\ step \in {"end", "raised"} => discarded \cap attempted = {}

\* Promotion begins when all chunks are read.
PromotionIsLate == offset < total => attempted = {}

\* A promotion that is answered in full leaves nothing to do.
AnsweredIsFilled ==
  /\ attempt > 0 => attempted # {}
  /\ (attempted # {} \/ step \in {"end", "raised"}) /\ dropped = {} =>
       Cardinality(processed) >= NumPosts \/ Pool = {}

IInv ==
  /\ TypeOK
  /\ IsFiniteSet(processed)
  /\ ReadInOrder
  /\ AnalyzedOnce
  /\ AttemptsAreKept
  /\ PromotionIsLate
  /\ step = "start" => attempted = {} /\ total = 0
  /\ AnsweredIsFilled
  /\ PromotionFits
  /\ BestAreAttempted

LEMMA AnalyzerInit == Init => IInv
<1> SUFFICES ASSUME Init PROVE IInv
  OBVIOUS
<1>1. TypeOK
  <2>1. quality \in [Index -> Quality \cup {0}]
    BY DEF Init
  <2>2. /\ total \in 0 .. MaxItems /\ offset \in Nat
        /\ attempt \in 0 .. Attempts
    BY AnalyzerAssumption DEF Init
  <2>3. /\ step = "start" /\ processed = {} /\ discarded = {}
        /\ attempted = {} /\ omitted = {} /\ dropped = {}
    BY DEF Init
  <2> QED
    BY <2>1, <2>2, <2>3 DEF TypeOK
<1>2. IsFiniteSet(processed)
  BY FS_EmptySet DEF Init
<1>3. ReadInOrder
  BY AnalyzerAssumption DEF Init, ReadInOrder, Analyzed, Item, Index
<1>4. AnsweredIsFilled
  BY DEF Init, AnsweredIsFilled
<1> QED
  BY <1>1, <1>2, <1>3, <1>4 DEF Init, IInv, AnalyzedOnce, AttemptsAreKept,
     Analyzed, Pool, PromotionIsLate, PromotionFits, BestAreAttempted

LEMMA IndexRange ==
  ASSUME TypeOK
  PROVE  /\ Index \subseteq Nat /\ Item \subseteq Index /\ IsFiniteSet(Index)
         /\ offset \in Nat /\ total \in Nat /\ total <= MaxItems
         /\ MaxItems \in Nat /\ Attempts \in Nat /\ ChunkSize \in Nat \ {0}
<1>1. Index \subseteq Nat /\ IsFiniteSet(Index)
  BY AnalyzerAssumption, FS_Interval DEF Index
<1> QED
  BY <1>1, AnalyzerAssumption DEF Item, TypeOK

-----------------------------------------------------------------------------
(* A chunk, answered or not.                                               *)

\* The articles of the chunk, and analyses of some of them that it brings.
Chunk == {i \in Item : offset <= i /\ i < offset + ChunkSize}
Own(S) == {[id |-> i, call |-> offset] : i \in S}

\* The numbers of a reply, with the offset added, are the chunk's articles.
LEMMA LocalFacts ==
  ASSUME TypeOK
  PROVE  /\ {IndexOf(n) : n \in Local} = Chunk
         /\ \A n, m \in Local : IndexOf(n) = IndexOf(m) => n = m
         /\ \A n \in Local : IndexOf(n) = offset + n
<1>1. /\ offset \in Nat /\ total \in Nat /\ total <= MaxItems /\ MaxItems \in Nat
      /\ ChunkSize \in Nat \ {0}
  BY IndexRange
<1>2. ASSUME NEW n \in Local PROVE IndexOf(n) \in Chunk
  BY <1>1 DEF Local, IndexOf, Chunk, Item, Index
<1>3. ASSUME NEW i \in Chunk PROVE \E n \in Local : IndexOf(n) = i
  <2>1. i \in Nat /\ offset <= i /\ i < offset + ChunkSize /\ i < total
    BY <1>1 DEF Chunk, Item, Index
  <2>2. i - offset \in 0 .. ChunkSize - 1 /\ offset + (i - offset) = i
    BY <1>1, <2>1
  <2>3. i - offset \in Local /\ IndexOf(i - offset) = i
    BY <1>1, <2>1, <2>2 DEF Local, IndexOf
  <2> QED
    BY <2>3
<1>4. ASSUME NEW n \in Local, NEW m \in Local, IndexOf(n) = IndexOf(m)
      PROVE  n = m
  BY <1>1, <1>4 DEF Local, IndexOf
<1>5. ASSUME NEW n \in Local PROVE IndexOf(n) = offset + n
  BY <1>1 DEF Local, IndexOf
<1> QED
  BY <1>2, <1>3, <1>4, <1>5

\* What both kinds of step on a chunk do: of its articles kept are analyzed
\* and bad are discarded, the rest is omitted.
ReadChunk(kept, bad) ==
  /\ step = "analyze" /\ offset < total
  /\ kept \in SUBSET Chunk /\ bad \in SUBSET (Chunk \ kept)
  /\ processed' = processed \cup Own(kept)
  /\ discarded' = discarded \cup bad
  /\ omitted' = omitted \cup (Chunk \ (kept \cup bad))
  /\ quality' \in [Index -> Quality \cup {0}]
  /\ offset' = offset + ChunkSize
  /\ UNCHANGED <<step, total, attempt, attempted, dropped>>

LEMMA ChunkIsRead ==
  ASSUME TypeOK, AnalyzeChunk \/ ChunkFails
  PROVE  \E kept, bad \in SUBSET Chunk : ReadChunk(kept, bad)
<1>1. /\ {IndexOf(n) : n \in Local} = Chunk
      /\ \A n, m \in Local : IndexOf(n) = IndexOf(m) => n = m
      /\ \A n \in Local : IndexOf(n) = offset + n
  BY LocalFacts
<1>2. \A L \in SUBSET Local : Analyses(L) = Own({IndexOf(n) : n \in L})
  BY DEF Analyses, Own
<1>3. CASE AnalyzeChunk
  <2>0. PICK g \in SUBSET Local : \E b \in SUBSET (Local \ g) :
          /\ processed' = processed \cup Analyses(g)
          /\ discarded' = discarded \cup {IndexOf(n) : n \in b}
          /\ \E q \in [{IndexOf(n) : n \in b} -> Quality] :
               quality' = [i \in Index |-> IF i \in DOMAIN q THEN q[i]
                                          ELSE quality[i]]
          /\ omitted' = omitted \cup {offset + n : n \in Local \ (g \cup b)}
    BY <1>3 DEF AnalyzeChunk
  <2>1. PICK b \in SUBSET (Local \ g) :
          /\ processed' = processed \cup Analyses(g)
          /\ discarded' = discarded \cup {IndexOf(n) : n \in b}
          /\ \E q \in [{IndexOf(n) : n \in b} -> Quality] :
               quality' = [i \in Index |-> IF i \in DOMAIN q THEN q[i]
                                          ELSE quality[i]]
          /\ omitted' = omitted \cup {offset + n : n \in Local \ (g \cup b)}
    BY <2>0
  <2> DEFINE kept == {IndexOf(n) : n \in g}
             bad == {IndexOf(n) : n \in b}
  <2>2. kept \in SUBSET Chunk /\ bad \in SUBSET (Chunk \ kept)
    BY <1>1
  <2>3. {offset + n : n \in Local \ (g \cup b)} = Chunk \ (kept \cup bad)
    BY <1>1
  <2>4. Analyses(g) = Own(kept)
    BY <1>2
  <2> HIDE DEF kept
  <2>5. quality' \in [Index -> Quality \cup {0}]
    BY <2>1 DEF TypeOK
  <2> HIDE DEF bad
  <2>6. discarded' = discarded \cup bad
    BY <2>1 DEF bad
  <2> QED
    BY <1>3, <2>1, <2>2, <2>3, <2>4, <2>5, <2>6 DEF AnalyzeChunk, ReadChunk
<1>4. CASE ChunkFails
  <2>1. Fallback = Own(Chunk)
    BY <1>1, <1>2 DEF Fallback
  <2>2. ReadChunk(Chunk, {})
    BY <1>4, <2>1 DEF ChunkFails, ReadChunk, TypeOK
  <2> QED
    BY <2>2
<1> QED
  BY <1>3, <1>4

\* The analyses of a chunk are finite, one for each of its articles.
LEMMA OwnFacts ==
  ASSUME TypeOK, offset < total, NEW S \in SUBSET Chunk
  PROVE  /\ Own(S) \in SUBSET Analysis
         /\ IsFiniteSet(Own(S))
         /\ \A a \in Own(S) : a.id \in S
         /\ \A a, b \in Own(S) : a.id = b.id => a = b
         /\ \A i \in S : \E a \in Own(S) : a.id = i
<1>0. S \in SUBSET Index /\ offset \in 0 .. MaxItems + Attempts
  BY IndexRange DEF Chunk
<1>1. IsFiniteSet(Own(S))
  <2> DEFINE f == [i \in S |-> [id |-> i, call |-> offset]]
  <2>1. f \in Surjection(S, Own(S))
    BY DEF Surjection, Own
  <2>2. IsFiniteSet(S)
    BY <1>0, IndexRange, FS_Subset
  <2> QED
    BY <2>1, <2>2, FS_Surjection
<1>2. Own(S) \in SUBSET Analysis
  BY <1>0 DEF Own, Analysis
<1>3. ASSUME NEW i \in S PROVE \E a \in Own(S) : a.id = i
  <2>1. [id |-> i, call |-> offset] \in Own(S)
    BY DEF Own
  <2> QED
    BY <2>1
<1>4. /\ \A a \in Own(S) : a.id \in S
      /\ \A a, b \in Own(S) : a.id = b.id => a = b
  BY DEF Own
<1> QED
  BY <1>1, <1>2, <1>3, <1>4

LEMMA ChunkStep ==
  ASSUME IInv, AnalyzeChunk \/ ChunkFails
  PROVE  IInv'
<1>1. PICK g, b \in SUBSET Chunk : ReadChunk(g, b)
  BY ChunkIsRead DEF IInv
<1> USE DEF IInv, ReadChunk
<1>2. /\ Own(g) \in SUBSET Analysis /\ IsFiniteSet(Own(g))
      /\ \A a \in Own(g) : a.id \in g
      /\ \A x, y \in Own(g) : x.id = y.id => x = y
      /\ \A i \in g : \E a \in Own(g) : a.id = i
  BY <1>1, OwnFacts
<1>3. /\ offset \in Nat /\ total \in Nat /\ ChunkSize \in Nat \ {0}
      /\ Index \subseteq Nat /\ Item \subseteq Index /\ Chunk \subseteq Item
  BY IndexRange DEF Chunk
<1>4. attempted = {} /\ dropped = {} /\ Pool = discarded
  BY <1>1 DEF PromotionIsLate, AttemptsAreKept, Pool
<1>5. TypeOK'
  BY <1>1, <1>2, <1>3 DEF TypeOK
<1>6. IsFiniteSet(processed')
  BY <1>1, <1>2, FS_Union
<1>7. Analyzed' = Analyzed \cup g
  BY <1>1, <1>2 DEF Analyzed
<1>8. \A i \in Chunk : i >= offset /\ i < offset + ChunkSize
  BY DEF Chunk
<1>9. Item' = Item /\ dropped' = dropped /\ attempted' = attempted
  BY <1>1 DEF Item
<1>10. ReadInOrder'
  <2>1. ASSUME NEW i \in Item, i < offset + ChunkSize, ~(i < offset)
        PROVE  i \in Chunk
    BY <1>3, <2>1 DEF Chunk
  <2>2. ASSUME NEW i \in Item, i < offset'
        PROVE  i \in (Analyzed \cup discarded \cup omitted \cup dropped)'
    <3>1. CASE i < offset
      BY <1>1, <1>7, <1>9, <3>1 DEF ReadInOrder
    <3>2. CASE ~(i < offset)
      BY <1>1, <1>7, <2>1, <2>2, <3>2
    <3> QED
      BY <3>1, <3>2
  <2>3. ASSUME NEW i \in (Analyzed \cup discarded \cup omitted)'
        PROVE  i \in Item /\ i < offset'
    <3>1. i \in Chunk \/ i \in Analyzed \cup discarded \cup omitted
      BY <1>1, <1>7
    <3>2. CASE i \in Chunk
      BY <1>1, <1>3, <1>8, <3>2
    <3>3. CASE i \in Analyzed \cup discarded \cup omitted
      <4>1. i \in Item /\ i \in Nat /\ i < offset
        BY <1>3, <3>3 DEF ReadInOrder
      <4> QED
        BY <1>1, <1>3, <4>1
    <3> QED
      BY <3>1, <3>2, <3>3
  <2> QED
    BY <1>1, <1>9, <2>2, <2>3 DEF ReadInOrder
<1>11. AnalyzedOnce'
  <2>1. \A i \in Chunk : i \notin Analyzed \cup discarded \cup omitted
    <3>1. \A i \in Analyzed \cup discarded \cup omitted : i \in Item /\ i < offset
      BY DEF ReadInOrder
    <3> QED
      BY <1>3, <1>8, <3>1
  <2>2. ASSUME NEW x \in processed', NEW y \in processed', x.id = y.id
        PROVE  x = y
    <3>1. CASE x \in processed /\ y \in processed
      BY <2>2, <3>1 DEF AnalyzedOnce
    <3>2. CASE x \in Own(g) /\ y \in Own(g)
      BY <1>2, <2>2, <3>2
    <3>3. CASE x \in processed /\ y \in Own(g)
      BY <1>1, <1>2, <2>1, <2>2, <3>3 DEF Analyzed
    <3>4. CASE x \in Own(g) /\ y \in processed
      BY <1>1, <1>2, <2>1, <2>2, <3>4 DEF Analyzed
    <3> QED
      BY <1>1, <3>1, <3>2, <3>3, <3>4
  <2>3. Pool' = discarded \cup b
    BY <1>1, <1>4 DEF Pool
  <2>4. (Analyzed \cap (Pool \cup omitted \cup dropped))' = {}
    BY <1>1, <1>4, <1>7, <1>9, <2>1, <2>3 DEF AnalyzedOnce
  <2>5. (discarded \cap omitted)' = {}
    BY <1>1, <2>1 DEF AnalyzedOnce
  <2> QED
    BY <2>2, <2>4, <2>5 DEF AnalyzedOnce
<1>12. AttemptsAreKept'
  BY <1>1, <1>4, <1>9 DEF AttemptsAreKept
<1>13. PromotionIsLate'
  BY <1>1, <1>4 DEF PromotionIsLate
<1>14. AnsweredIsFilled'
  BY <1>1, <1>4 DEF AnsweredIsFilled
<1>15. PromotionFits' /\ BestAreAttempted'
  BY <1>1, <1>4 DEF PromotionFits, BestAreAttempted
<1> QED
  BY <1>1, <1>5, <1>6, <1>10, <1>11, <1>12, <1>13, <1>14, <1>15

-----------------------------------------------------------------------------
(* A promotion.                                                            *)

\* The articles that are sent: distinct, of the pool, no more than missing.
LEMMA CandidateFacts ==
  ASSUME IInv, Wanted, NEW c \in Lists(Pool), Candidates(c)
  PROVE  /\ Len(c) \in Nat /\ c \in [1 .. Len(c) -> Pool]
         /\ Len(c) # 0
         /\ Deficit \in Nat /\ Len(c) <= Deficit
         /\ \A j, k \in 1 .. Len(c) : c[j] = c[k] => j = k
<1>1. IsFiniteSet(Pool) /\ Cardinality(Pool) \in Nat
  <2>1. Pool \in SUBSET Index
    BY DEF IInv, TypeOK, Pool
  <2> QED
    BY <2>1, IndexRange, FS_Subset, FS_CardinalityType DEF IInv
<1>2. PICK n \in 1 .. Cardinality(Pool) : c \in [1 .. n -> Pool]
  BY DEF Lists
<1>3. c \in Seq(Pool)
  BY <1>1, <1>2, SeqDef
<1>4. Len(c) \in Nat /\ Len(c) # 0 /\ c \in [1 .. Len(c) -> Pool]
  BY <1>1, <1>2, <1>3, LenProperties
<1>5. Deficit \in Nat
  <2>1. Cardinality(processed) \in Nat
    BY FS_CardinalityType DEF IInv
  <2> QED
    BY <2>1, AnalyzerAssumption DEF Wanted, Deficit
<1>6. Len(c) <= Deficit
  <2>1. Len(c) = Deficit \/ Len(c) < Deficit
    BY Zenon DEF Candidates
  <2> QED
    <3> DEFINE m == Len(c)
    <3>1. m \in Nat /\ (m = Deficit \/ m < Deficit)
      BY <1>4, <2>1
    <3> HIDE DEF m
    <3>2. m <= Deficit
      BY <1>5, <3>1
    <3> QED
      BY <3>2 DEF m
<1>7. ASSUME NEW j \in 1 .. Len(c), NEW k \in 1 .. Len(c), c[j] = c[k]
      PROVE  j = k
  <2>1. j \in DOMAIN c /\ k \in DOMAIN c
    BY <1>4
  <2>2. ~(j < k) /\ ~(k < j)
    BY <1>7, <2>1 DEF Candidates
  <2> QED
    BY <1>4, <2>2
<1> QED
  BY <1>4, <1>5, <1>6, <1>7

\* The analyses of a reply go to as many articles, one to each.
LEMMA PromotedFacts ==
  ASSUME TypeOK, attempt < Attempts,
         NEW m \in Nat, NEW n \in 0 .. m, NEW c \in [1 .. m -> Pool],
         \A j, k \in 1 .. m : c[j] = c[k] => j = k
  PROVE  /\ Promoted(c, n) \in SUBSET Analysis
         /\ IsFiniteSet(Promoted(c, n)) /\ Cardinality(Promoted(c, n)) = n
         /\ {a.id : a \in Promoted(c, n)} = {c[j] : j \in 1 .. n}
         /\ \A a, b \in Promoted(c, n) : a.id = b.id => a = b
<1>1. n \in Nat /\ \A j \in 1 .. n : j \in 1 .. m /\ c[j] \in Pool
  OBVIOUS
<1>2. Pool \subseteq Index /\ total + attempt \in 0 .. MaxItems + Attempts
  BY IndexRange DEF TypeOK, Pool
<1>3. Promoted(c, n) \in SUBSET Analysis
  BY <1>1, <1>2 DEF Promoted, Analysis
<1>4. IsFiniteSet(Promoted(c, n)) /\ Cardinality(Promoted(c, n)) = n
  <2> DEFINE f == [j \in 1 .. n |-> [id |-> c[j], call |-> total + attempt]]
  <2>1. f \in Surjection(1 .. n, Promoted(c, n))
    BY DEF Promoted, Surjection
  <2>2. \A j, k \in 1 .. n : f[j] = f[k] => j = k
    BY <1>1
  <2>3. f \in Bijection(1 .. n, Promoted(c, n))
    BY <2>1, <2>2 DEF Bijection, Injection, IsInjective, Surjection
  <2>4. IsFiniteSet(1 .. n) /\ Cardinality(1 .. n) = n
    BY <1>1, FS_Interval
  <2> HIDE DEF f
  <2> QED
    BY <2>3, <2>4, FS_Bijection DEF ExistsBijection
<1>5. {a.id : a \in Promoted(c, n)} = {c[j] : j \in 1 .. n}
  <2>1. ASSUME NEW j \in 1 .. n PROVE \E a \in Promoted(c, n) : a.id = c[j]
    <3>1. [id |-> c[j], call |-> total + attempt] \in Promoted(c, n)
      BY DEF Promoted
    <3> QED
      BY <3>1
  <2>2. \A a \in Promoted(c, n) : \E j \in 1 .. n : a.id = c[j]
    BY DEF Promoted
  <2> QED
    BY <2>1, <2>2
<1>6. \A a, b \in Promoted(c, n) : a.id = b.id => a = b
  BY DEF Promoted
<1> QED
  BY <1>3, <1>4, <1>5, <1>6

LEMMA PromoteStep ==
  ASSUME IInv, Promote \/ PromotionFails
  PROVE  IInv'
<1>0. PICK c \in Lists(Pool) : \E n \in 0 .. Len(c) :
        /\ Candidates(c)
        /\ attempted' = attempted \cup {c[j] : j \in DOMAIN c}
        /\ processed' = processed \cup Promoted(c, n)
        /\ dropped' = dropped \cup {c[j] : j \in n + 1 .. Len(c)}
  <2>1. CASE Promote
    BY <2>1 DEF Promote
  <2>2. CASE PromotionFails
    <3>1. PICK c \in Lists(Pool) :
            /\ Candidates(c)
            /\ attempted' = attempted \cup {c[j] : j \in DOMAIN c}
            /\ dropped' = dropped \cup {c[j] : j \in DOMAIN c}
      BY <2>2 DEF PromotionFails
    <3>2. Len(c) \in Nat /\ DOMAIN c = 1 .. Len(c)
      BY <2>2, <3>1, CandidateFacts DEF PromotionFails
    <3>3. processed' = processed \cup Promoted(c, 0)
      BY <2>2 DEF PromotionFails, Promoted
    <3>4. DOMAIN c = 0 + 1 .. Len(c) /\ 0 \in 0 .. Len(c)
      BY <3>2
    <3> QED
      BY <3>1, <3>3, <3>4
  <2> QED
    BY <2>1, <2>2
<1>1. PICK n \in 0 .. Len(c) :
        /\ Candidates(c)
        /\ attempted' = attempted \cup {c[j] : j \in DOMAIN c}
        /\ processed' = processed \cup Promoted(c, n)
        /\ dropped' = dropped \cup {c[j] : j \in n + 1 .. Len(c)}
  BY <1>0
<1>2. /\ Wanted /\ step = "analyze"
      /\ attempt' \in 0 .. Attempts /\ attempt < Attempts
      /\ UNCHANGED <<step, total, offset, discarded, quality, omitted>>
  BY AnalyzerAssumption DEF Promote, PromotionFails, Wanted, IInv, TypeOK
<1> USE DEF IInv
<1> DEFINE m == Len(c)
           C == {c[j] : j \in DOMAIN c}
           N == Promoted(c, n)
           A == {c[j] : j \in 1 .. n}
           D == {c[j] : j \in n + 1 .. m}
<1>3. /\ m \in Nat /\ c \in [1 .. m -> Pool] /\ m # 0
      /\ Deficit \in Nat /\ m <= Deficit
      /\ \A j, k \in 1 .. m : c[j] = c[k] => j = k
  BY <1>1, <1>2, CandidateFacts
<1>4. DOMAIN c = 1 .. m /\ C \subseteq Pool
  BY <1>3
<1>5. /\ N \in SUBSET Analysis /\ IsFiniteSet(N) /\ Cardinality(N) = n
      /\ {a.id : a \in N} = A
      /\ \A x, y \in N : x.id = y.id => x = y
  <2>1. TypeOK /\ attempt < Attempts /\ n \in 0 .. m
    BY <1>1, <1>2
  <2>2. /\ m \in Nat /\ c \in [1 .. m -> Pool]
        /\ \A j, k \in 1 .. m : c[j] = c[k] => j = k
    BY <1>3
  <2> HIDE DEF m, N, A, IInv
  <2>3. /\ Promoted(c, n) \in SUBSET Analysis
        /\ IsFiniteSet(Promoted(c, n)) /\ Cardinality(Promoted(c, n)) = n
        /\ {a.id : a \in Promoted(c, n)} = {c[j] : j \in 1 .. n}
        /\ \A a, b \in Promoted(c, n) : a.id = b.id => a = b
    BY <2>1, <2>2, PromotedFacts
  <2> QED
    BY <2>3 DEF N, A
<1>6. n \in Nat /\ n <= m /\ C = A \cup D /\ A \cap D = {} /\ C # {}
  <2>1. n \in Nat /\ n <= m
    BY <1>1, <1>3
  <2>2. 1 .. m = (1 .. n) \cup (n + 1 .. m) /\ (1 .. n) \cap (n + 1 .. m) = {}
    BY <1>3, <2>1
  <2>3. 1 \in 1 .. m
    BY <1>3
  <2>4. C = A \cup D
    BY <1>4, <2>2
  <2>5. A \cap D = {}
    BY <1>3, <2>2
  <2>6. C # {}
    BY <1>4, <2>3
  <2> QED
    BY <2>1, <2>4, <2>5, <2>6
<1>7. processed' = processed \cup N /\ dropped' = dropped \cup D
  BY <1>1
<1>8. attempted' = attempted \cup C
  BY <1>1
<1>9. \A j \in Pool : (\A k \in DOMAIN c : c[k] # j) <=> j \notin C
  OBVIOUS
<1>10. TypeOK'
  <2>1. C \subseteq Index /\ D \subseteq Index
    BY <1>4, <1>6 DEF TypeOK, Pool
  <2> QED
    BY <1>2, <1>5, <1>7, <1>8, <2>1 DEF TypeOK
<1>11. /\ \A i \in C : \A j \in Pool \ C : quality[i] >= quality[j]
       /\ m = Deficit \/ Pool \subseteq C
  <2>1. Candidates(c)
    BY <1>1
  <2>2. \A i \in C : \A j \in Pool \ C : quality[i] >= quality[j]
    BY <2>1, <1>9 DEF Candidates, Better
  <2>3. Len(c) = Deficit \/ \A i \in Pool : \E k \in DOMAIN c : c[k] = i
    BY <2>1, Zenon DEF Candidates
  <2> QED
    BY <2>2, <2>3
<1> HIDE DEF N, A, D, C, m
<1>12. IsFiniteSet(processed')
  BY <1>5, <1>7, FS_Union
<1>13. Analyzed' = Analyzed \cup A
  BY <1>5, <1>7 DEF Analyzed
<1>14. Pool' = Pool \ C
  BY <1>2, <1>8 DEF Pool
<1>15. /\ Analyzed \cap C = {} /\ C \cap dropped = {} /\ C \cap omitted = {}
       /\ C \subseteq discarded /\ C \subseteq Item
  BY <1>4 DEF AnalyzedOnce, AttemptsAreKept, ReadInOrder, Pool
<1>16. Item' = Item
  BY <1>2 DEF Item
<1>17. ReadInOrder'
  <2>1. \A i \in A : i \in Item /\ i < offset
    BY <1>6, <1>15 DEF ReadInOrder
  <2> QED
    BY <1>2, <1>7, <1>13, <1>16, <2>1 DEF ReadInOrder
<1>18. AnalyzedOnce'
  <2>1. ASSUME NEW x \in processed', NEW y \in processed', x.id = y.id
        PROVE  x = y
    <3>1. CASE x \in processed /\ y \in processed
      BY <2>1, <3>1 DEF AnalyzedOnce
    <3>2. CASE x \in N /\ y \in N
      BY <1>5, <2>1, <3>2
    <3>3. CASE x \in processed /\ y \in N
      BY <1>5, <1>6, <1>15, <2>1, <3>3 DEF Analyzed
    <3>4. CASE x \in N /\ y \in processed
      BY <1>5, <1>6, <1>15, <2>1, <3>4 DEF Analyzed
    <3> QED
      BY <1>7, <3>1, <3>2, <3>3, <3>4
  <2>2. (Analyzed \cap (Pool \cup omitted \cup dropped))' = {}
    BY <1>2, <1>6, <1>7, <1>13, <1>14, <1>15 DEF AnalyzedOnce
  <2> QED
    BY <1>2, <2>1, <2>2 DEF AnalyzedOnce
<1>19. AttemptsAreKept'
  BY <1>2, <1>6, <1>7, <1>8, <1>13, <1>15, <1>16 DEF AttemptsAreKept
<1>20. PromotionIsLate'
  BY <1>2 DEF PromotionIsLate, Wanted, TypeOK
<1>21. /\ Cardinality(processed') = Cardinality(processed) + n
       /\ Cardinality(processed) \in Nat
  <2>1. processed \cap N = {}
    BY <1>5, <1>6, <1>15 DEF Analyzed
  <2>2. Cardinality(processed \cap N) = 0
    BY <2>1, FS_EmptySet
  <2>3. Cardinality(processed) \in Nat
    BY FS_CardinalityType
  <2>4. Cardinality(processed \cup N)
          = Cardinality(processed) + Cardinality(N) - Cardinality(processed \cap N)
    BY <1>5, FS_Union
  <2> QED
    BY <1>5, <1>6, <1>7, <2>2, <2>3, <2>4
<1>22. PromotionFits'
  <2>1. Cardinality(processed') <= NumPosts
    BY <1>3, <1>6, <1>21, AnalyzerAssumption DEF Deficit
  <2> QED
    BY <2>1 DEF PromotionFits
<1>23. AnsweredIsFilled'
  <2>1. attempted' # {}
    BY <1>6, <1>8
  <2>2. ASSUME dropped' = {}
        PROVE  Cardinality(processed') >= NumPosts \/ Pool' = {}
    <3>1. n = m
      <4>1. D = {}
        BY <1>7, <2>2
      <4>2. ASSUME n < m PROVE FALSE
        <5>1. m \in n + 1 .. Len(c)
          BY <1>3, <1>6, <4>2 DEF m
        <5>2. c[m] \in D
          BY <5>1 DEF D, m
        <5> QED
          BY <4>1, <5>2
      <4> QED
        BY <1>3, <1>6, <4>2
    <3>2. CASE m = Deficit
      BY <1>3, <1>21, <3>1, <3>2, AnalyzerAssumption DEF Deficit
    <3>3. CASE Pool \subseteq C
      BY <1>14, <3>3
    <3> QED
      BY <1>11, <3>2, <3>3
  <2> QED
    BY <2>1, <2>2 DEF AnsweredIsFilled
<1>24. BestAreAttempted'
  BY <1>2, <1>8, <1>11, <1>14 DEF BestAreAttempted
<1> QED
  BY <1>2, <1>10, <1>12, <1>17, <1>18, <1>19, <1>20, <1>22, <1>23, <1>24

-----------------------------------------------------------------------------
(* Beginning and end.                                                      *)

LEMMA StartStep ==
  ASSUME IInv, Start
  PROVE  IInv'
<1> USE DEF IInv, Start
<1>1. Analyzed = {} /\ discarded = {} /\ omitted = {} /\ offset = 0
  BY IndexRange DEF ReadInOrder
<1>2. TypeOK'
  BY DEF TypeOK
<1>3. ReadInOrder'
  BY <1>1, IndexRange DEF ReadInOrder, Analyzed, Item, TypeOK
<1>4. attempted = {} /\ dropped = {} /\ Pool = {} /\ Pool' = {} /\ Analyzed' = {}
  BY <1>1 DEF AttemptsAreKept, Pool, Analyzed
<1>5. AnalyzedOnce'
  BY <1>1, <1>4 DEF AnalyzedOnce
<1>6. AttemptsAreKept'
  BY <1>1, <1>4 DEF AttemptsAreKept
<1>7. AnsweredIsFilled'
  BY <1>1, <1>4 DEF AnsweredIsFilled
<1> QED
  BY <1>2, <1>3, <1>4, <1>5, <1>6, <1>7 DEF PromotionIsLate, PromotionFits,
     BestAreAttempted

LEMMA FinishStep ==
  ASSUME IInv, Finish
  PROVE  IInv'
<1> USE DEF IInv, Finish, Remaining
<1>1. TypeOK'
  BY DEF TypeOK
<1>2. /\ Pool' = Pool /\ Analyzed' = Analyzed /\ Item' = Item
      /\ discarded' = Pool /\ discarded' \cap attempted' = {}
  BY DEF Pool, Analyzed, Item
<1>3. ReadInOrder'
  <2>1. ASSUME NEW i \in Item, i < offset
        PROVE  i \in (Analyzed \cup discarded \cup omitted \cup dropped)'
    <3>1. i \in Analyzed \cup discarded \cup omitted \cup dropped
      BY <2>1 DEF ReadInOrder
    <3>2. i \in discarded => i \in Pool \/ i \in Analyzed \cup dropped
      BY DEF Pool, AttemptsAreKept
    <3> QED
      BY <1>2, <3>1, <3>2
  <2>2. \A i \in (Analyzed \cup discarded \cup omitted)' : i \in Item /\ i < offset
    BY <1>2 DEF ReadInOrder, Pool
  <2> QED
    BY <1>2, <2>1, <2>2 DEF ReadInOrder
<1>4. AnalyzedOnce'
  BY <1>2 DEF AnalyzedOnce, Pool
<1>5. AttemptsAreKept'
  BY <1>2 DEF AttemptsAreKept
<1>6. AnsweredIsFilled'
  <2>1. /\ attempt \in Nat /\ Attempts \in Nat \ {0} /\ NumPosts \in Nat
        /\ Cardinality(processed) \in Nat
    BY AnalyzerAssumption, FS_CardinalityType DEF TypeOK
  <2>2. \/ Cardinality(processed) >= NumPosts \/ Pool = {} \/ attempt > 0
    BY <2>1 DEF Wanted
  <2> QED
    BY <1>2, <2>2 DEF AnsweredIsFilled
<1> QED
  BY <1>1, <1>2, <1>3, <1>4, <1>5, <1>6 DEF PromotionIsLate, PromotionFits,
     BestAreAttempted

LEMMA AnalyzerStep == IInv /\ [Next]_vars => IInv'
<1> SUFFICES ASSUME IInv, [Next]_vars PROVE IInv'
  OBVIOUS
<1>1. CASE UNCHANGED vars
  BY <1>1 DEF vars, IInv, TypeOK, ReadInOrder, AnalyzedOnce, AttemptsAreKept,
     PromotionIsLate, AnsweredIsFilled, PromotionFits, BestAreAttempted, Analyzed,
     Pool, Item
<1> QED
  BY <1>1, StartStep, ChunkStep, PromoteStep, FinishStep DEF Next

-----------------------------------------------------------------------------
\* The inductive invariant of the analyzer.
THEOREM Invariance == ScanSpec => []IInv
<1>1. ScanInit => IInv
  BY AnalyzerInit DEF ScanInit
<1>2. [ScanNext]_scanVars => [Next]_vars
  BY DEF ScanNext, Clock, OtherScan, StartCheck, CheckRateLimit, Fetch, Collect,
         Analyze, scanVars, Next
<1> QED
  BY <1>1, <1>2, AnalyzerStep, PTL DEF ScanSpec

\* For any number of chunks and failures, each article ends analyzed, once, or
\* discarded, except those that no reply speaks of and those whose promotion
\* brought no analysis.
THEOREM ItemsAreKept == ScanSpec => []EveryItemIsOnce
<1>1. ASSUME IInv, step = "end"
      PROVE  /\ \A a, b \in processed : a.id = b.id => a = b
             /\ Analyzed \cap discarded = {}
             /\ Item \ (Analyzed \cup discarded) = omitted \cup dropped
  <2>1. discarded \subseteq Pool
    BY <1>1 DEF IInv, AttemptsAreKept, Pool
  <2>2. \A i \in Item : i < offset
    BY <1>1, IndexRange DEF IInv, ReadInOrder, Item
  <2>3. omitted \cup dropped \subseteq Item
    BY <1>1 DEF IInv, ReadInOrder, AttemptsAreKept
  <2>4. (omitted \cup dropped) \cap (Analyzed \cup discarded) = {}
    BY <1>1 DEF IInv, AnalyzedOnce, AttemptsAreKept
  <2> QED
    BY <1>1, <2>1, <2>2, <2>3, <2>4 DEF IInv, AnalyzedOnce, ReadInOrder
<1>2. IInv => EveryItemIsOnce
  BY <1>1 DEF EveryItemIsOnce
<1> QED
  BY <1>2, Invariance, PTL

\* Promotions that are answered in full leave no discarded article while posts
\* still lack one, for any number of attempts.
THEOREM PromotionsFill == ScanSpec => []PromotionFills
<1>1. IInv => PromotionFills
  BY DEF IInv, AnsweredIsFilled, AttemptsAreKept, PromotionFills, Pool
<1> QED
  BY <1>1, Invariance, PTL

\* Promotion never passes the number of posts.
THEOREM PromotionsFit == ScanSpec => []PromotionFits
<1>1. IInv => PromotionFits
  BY DEF IInv
<1> QED
  BY <1>1, Invariance, PTL

\* The best of the discarded articles are tried first, over all attempts.
THEOREM BestComeFirst == ScanSpec => []BestAreAttempted
<1>1. IInv => BestAreAttempted
  BY DEF IInv
<1> QED
  BY <1>1, Invariance, PTL

\* Limiter, scanner and analyzer keep their types.
THEOREM TypesCorrect == ScanSpec => []TypesOK
<1>1. IInv /\ LimiterInv /\ ScannerInv => TypesOK
  BY DEF IInv, LimiterInv, ScannerInv, TypesOK
<1> QED
  BY <1>1, Invariance, LimiterInvariance, ScannerInvariance, PTL

=============================================================================
