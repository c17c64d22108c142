---------------------------- MODULE GoldenHour_proofs ----------------------------
(***************************************************************************)
(* Proofs about GoldenHour for any number and length of slots, any table   *)
(* and threshold, and a zone with any offset.                              *)
(***************************************************************************)
EXTENDS GoldenHour, FiniteSetTheorems, WellFoundedInduction, TLAPS

-----------------------------------------------------------------------------
(* Minima and sorted lists.                                                *)

Less == {ss \in Nat \X Nat : ss[1] < ss[2]}

\* A set of natural numbers has a least member.
LEMMA LeastNumber ==
  ASSUME NEW S \in SUBSET Nat, S # {}
  PROVE  Min(S) \in S /\ \A y \in S : Min(S) <= y
<1>1. IsWellFoundedOn(Less, Nat)
  BY NatLessThanWellFounded, Zenon DEF OpToRel, Less
<1>2. PICK x \in S : \A y \in S : <<y, x>> \notin Less
  BY <1>1, WFMin, Zenon
<1>3. ASSUME NEW y \in S PROVE x <= y
  <2>1. x \in Nat /\ y \in Nat
    OBVIOUS
  <2>2. y < x => <<y, x>> \in Less
    BY <2>1 DEF Less
  <2>3. ~ (y < x)
    BY <2>2, <1>2, Zenon
  <2> QED
    BY <2>1, <2>3
<1>4. \E z \in S : \A y \in S : z <= y
  BY <1>3
<1> QED
  BY <1>4, Zenon DEF Min

\* What is at most all members of a set and a member itself is its minimum.
LEMMA MinIsUnique ==
  ASSUME NEW S \in SUBSET Int, NEW m \in S, \A y \in S : m <= y
  PROVE  m = Min(S)
<1>1. Min(S) \in S /\ \A y \in S : Min(S) <= y
  BY Zenon DEF Min
<1>2. Min(S) \in Int /\ m \in Int /\ Min(S) <= m /\ m <= Min(S)
  BY <1>1
<1> QED
  BY <1>2

\* The members of S that are not greater than i.
UpTo(S, i) == {j \in S : j <= i}

LEMMA RankGrows ==
  ASSUME NEW S \in SUBSET Nat, IsFiniteSet(S), NEW i \in S, NEW j \in S, i < j
  PROVE  Cardinality(UpTo(S, i)) < Cardinality(UpTo(S, j))
<1>0. \A y \in S : y <= i => y <= j
  <2>1. \A y \in S : y \in Nat
    OBVIOUS
  <2> QED
    BY <2>1
<1>1. UpTo(S, i) \in SUBSET UpTo(S, j) /\ UpTo(S, j) \in SUBSET S
  BY <1>0, Zenon DEF UpTo
<1>2. j \in UpTo(S, j) /\ j \notin UpTo(S, i)
  BY DEF UpTo
<1>3. UpTo(S, i) # UpTo(S, j)
  BY <1>2
<1>4. IsFiniteSet(UpTo(S, j)) /\ IsFiniteSet(UpTo(S, i))
  BY <1>1, FS_Subset
<1>5. Cardinality(UpTo(S, i)) \in Nat /\ Cardinality(UpTo(S, j)) \in Nat
  BY <1>4, FS_CardinalityType
<1>6. /\ Cardinality(UpTo(S, i)) <= Cardinality(UpTo(S, j))
      /\ Cardinality(UpTo(S, j)) = Cardinality(UpTo(S, i))
           => UpTo(S, j) = UpTo(S, i)
  BY <1>1, <1>4, FS_Subset
<1> QED
  BY <1>3, <1>5, <1>6

\* The slots of a set have an order of time, which InOrder chooses.
LEMMA SlotsHaveOrder ==
  ASSUME NEW S \in SUBSET Nat, IsFiniteSet(S)
  PROVE  /\ Cardinality(S) \in Nat
         /\ InOrder(S) \in [1 .. Cardinality(S) -> S]
         /\ \A j, k \in 1 .. Cardinality(S) :
              j < k => InOrder(S)[j] < InOrder(S)[k]
         /\ \A i \in S : \E k \in 1 .. Cardinality(S) : InOrder(S)[k] = i
<1> DEFINE n == Cardinality(S)
           Rank == [i \in S |-> Cardinality(UpTo(S, i))]
<1>1. n \in Nat
  BY FS_CardinalityType
<1>2. IsFiniteSet(1 .. n) /\ Cardinality(1 .. n) = n
  BY <1>1, FS_Interval
<1>3. ASSUME NEW i \in S PROVE Cardinality(UpTo(S, i)) \in 1 .. n
  <2>1. UpTo(S, i) \in SUBSET S /\ i \in UpTo(S, i)
    BY DEF UpTo
  <2>2. IsFiniteSet(UpTo(S, i)) /\ Cardinality(UpTo(S, i)) <= n
    BY <2>1, FS_Subset
  <2>3. Cardinality(UpTo(S, i)) \in Nat
    BY <2>2, FS_CardinalityType
  <2>4. Cardinality(UpTo(S, i)) # 0
    BY <2>1, <2>2, FS_EmptySet
  <2> QED
    BY <1>1, <2>2, <2>3, <2>4
<1>4. Rank \in [S -> 1 .. n]
  BY <1>3
<1>5. \A i, j \in S : i < j => Rank[i] < Rank[j]
  BY RankGrows
<1>6. \A i, j \in S : Rank[i] = Rank[j] => i = j
  <2> SUFFICES ASSUME NEW i \in S, NEW j \in S, Rank[i] = Rank[j]
               PROVE  i = j
    OBVIOUS
  <2>1. Rank[i] \in Int /\ Rank[j] \in Int
    BY <1>1, <1>4
  <2>2. ~ (i < j) /\ ~ (j < i)
    BY <1>5, <2>1
  <2>3. i \in Nat /\ j \in Nat
    OBVIOUS
  <2> QED
    BY <2>2, <2>3
<1>7. Rank \in Injection(S, 1 .. n)
  BY <1>4, <1>6 DEF Injection, IsInjective
<1>8. Rank \in Surjection(S, 1 .. n)
  BY <1>2, <1>7, FS_Injection
<1>9. \A k \in 1 .. n : \E i \in S : Rank[i] = k
  BY <1>8 DEF Surjection
<1> DEFINE List == [k \in 1 .. n |-> CHOOSE i \in S : Rank[i] = k]
<1> HIDE DEF Rank
<1>10. \A k \in 1 .. n : List[k] \in S /\ Rank[List[k]] = k
  BY <1>9
<1>11. List \in [1 .. n -> S]
  BY <1>10
<1> HIDE DEF List
<1>12. \A j, k \in 1 .. n : j < k => List[j] < List[k]
  <2> SUFFICES ASSUME NEW j \in 1 .. n, NEW k \in 1 .. n, j < k
               PROVE  List[j] < List[k]
    OBVIOUS
  <2>1. List[j] \in S /\ List[k] \in S /\ Rank[List[j]] = j /\ Rank[List[k]] = k
    BY <1>10
  <2>2. List[j] \in Nat /\ List[k] \in Nat
    BY <2>1
  <2>3. List[k] < List[j] => Rank[List[k]] < Rank[List[j]]
    BY <1>5, <2>1, Zenon
  <2>4. ~ (k < j)
    BY <1>1
  <2>5. ~ (List[k] < List[j])
    BY <2>1, <2>3, <2>4, Zenon
  <2>6. List[j] # List[k]
    BY <2>1, <1>1
  <2> QED
    BY <2>2, <2>5, <2>6
<1>13. \A j, k \in 1 .. n : j # k => List[j] # List[k]
  BY <1>10
<1>14. /\ List \in SetToSeqs(S)
       /\ \A j, k \in DOMAIN List : j < k => List[j] < List[k]
  BY <1>11, <1>12, <1>13 DEF SetToSeqs
<1>15. /\ InOrder(S) \in SetToSeqs(S)
       /\ \A j, k \in DOMAIN InOrder(S) : j < k => InOrder(S)[j] < InOrder(S)[k]
  BY <1>14, Zenon DEF InOrder
<1>16. /\ InOrder(S) \in [1 .. n -> S]
       /\ \A j, k \in 1 .. n : j # k => InOrder(S)[j] # InOrder(S)[k]
  BY <1>15 DEF SetToSeqs
<1>17. \A j, k \in 1 .. n : j < k => InOrder(S)[j] < InOrder(S)[k]
  BY <1>15, <1>16
<1>18. \A i \in S : \E k \in 1 .. n : InOrder(S)[k] = i
  <2>1. InOrder(S) \in Injection(1 .. n, S)
    BY <1>16, Zenon DEF Injection, IsInjective
  <2>2. InOrder(S) \in Surjection(1 .. n, S)
    BY <2>1, <1>2, FS_Injection
  <2> QED
    BY <2>2 DEF Surjection
<1> QED
  BY <1>1, <1>16, <1>17, <1>18

-----------------------------------------------------------------------------
(* The next slot.                                                          *)

Times == [wall : Int, offset : Int]

\* A day is divided into its slots.
LEMMA DayLength ==
  /\ Day \in Nat \ {0}
  /\ \A i \in Slot : i \in Nat /\ i * SlotLength \in 0 .. Day - 1
  /\ \A i, j \in Slot : i <= j => i * SlotLength <= j * SlotLength
<1>1. SlotsPerDay \in Nat \ {0} /\ SlotLength \in Nat \ {0}
  BY ConstantsAssumption
<1>2. \A a, b, c \in Nat : a <= b => a * c <= b * c
  OBVIOUS
<1>3. Day \in Nat \ {0}
  BY <1>1 DEF Day
<1>4. ASSUME NEW i \in Slot
      PROVE  i \in Nat /\ i * SlotLength \in 0 .. Day - 1
  <2>1. i \in Nat /\ i + 1 \in Nat /\ i + 1 <= SlotsPerDay
    BY <1>1 DEF Slot
  <2>2. (i + 1) * SlotLength <= Day
    BY <1>1, <1>2, <2>1 DEF Day
  <2>3. (i + 1) * SlotLength = i * SlotLength + SlotLength
    BY <1>1, <2>1
  <2>4. i * SlotLength \in Nat
    BY <1>1, <2>1
  <2> QED
    BY <1>1, <1>3, <2>1, <2>2, <2>3, <2>4
<1>5. \A i, j \in Slot : i <= j => i * SlotLength <= j * SlotLength
  BY <1>1, <1>2, <1>4
<1> QED
  BY <1>3, <1>4, <1>5

\* The starts of the slots of one day lie between its midnights, in order.
LEMMA StartsOfDay ==
  ASSUME NEW i \in Slot, NEW d \in Int
  PROVE  /\ Start(i, d) \in Int
         /\ d * Day \in Int /\ (d + 1) * Day = d * Day + Day
         /\ d * Day <= Start(i, d) /\ Start(i, d) < d * Day + Day
         /\ \A j \in Slot : i <= j => Start(i, d) <= Start(j, d)
<1> DEFINE m == d * Day
<1>1. Day \in Nat \ {0} /\ m \in Int
  BY DayLength
<1>2. (d + 1) * Day = m + Day
  BY <1>1
<1> HIDE DEF m
<1>3. i * SlotLength \in 0 .. Day - 1
  BY DayLength
<1>4. \A j \in Slot :
        j * SlotLength \in Int /\ (i <= j => i * SlotLength <= j * SlotLength)
  BY DayLength
<1>5. \A j \in Slot : Start(j, d) = m + j * SlotLength
  BY DEF Start, m
<1>6. m <= Start(i, d) /\ Start(i, d) < m + Day /\ Start(i, d) \in Int
  BY <1>1, <1>3, <1>5
<1>7. \A j \in Slot : i <= j => Start(i, d) <= Start(j, d)
  BY <1>1, <1>4, <1>5
<1> QED
  BY <1>1, <1>2, <1>6, <1>7 DEF m

LEMMA Today ==
  ASSUME NEW local \in Int
  PROVE  /\ local \div Day \in Int
         /\ (local \div Day) * Day <= local
         /\ local < (local \div Day) * Day + Day
BY DayLength

\* Of a list of slots in order of time, the one that is found is the first to
\* come, today or tomorrow.
LEMMA FindsTheNext ==
  ASSUME NEW n \in Nat \ {0}, NEW s \in [1 .. n -> Slot],
         \A j, k \in 1 .. n : j < k => s[j] < s[k],
         NEW now \in Int
  PROVE  LET local == now + Offset
             today == local \div Day
             next == FindNextSlot(s, now)
         IN  /\ next \in Times
             /\ now < Instant(next) /\ Instant(next) <= now + 2 * Day
             /\ \E k \in 1 .. n, d \in {today, today + 1} :
                  Instant(next) = Start(s[k], d) - Offset
             /\ \A k \in 1 .. n, d \in {today, today + 1} :
                  Start(s[k], d) - Offset > now
                    => Instant(next) <= Start(s[k], d) - Offset
<1> DEFINE local == now + Offset
           today == local \div Day
           mid == today * Day
           later == {k \in 1 .. n : ~Passed(Start(s[k], today), local)}
           next == FindNextSlot(s, now)
<1>1. Offset \in Int /\ local \in Int
  BY ConstantsAssumption
<1>2. today \in Int /\ mid \in Int /\ mid <= local /\ local < mid + Day
  BY <1>1, Today, DayLength
<1>3. (today + 1) * Day = mid + Day /\ today + 1 \in Int
  BY <1>2, DayLength
<1>4. Day \in Nat \ {0}
  BY DayLength
<1>5. DOMAIN s = 1 .. n /\ \A k \in 1 .. n : s[k] \in Slot /\ s[k] \in Nat
  BY DayLength
<1> HIDE DEF local, today, mid
<1>6. next = Datetime(IF later = {} THEN Start(s[1], today + 1)
                      ELSE Start(s[Min(later)], today), Offset)
  BY <1>5, Zenon DEF FindNextSlot, local, today
<1> HIDE DEF next
\* The starts of both days.
<1>7. ASSUME NEW k \in 1 .. n
      PROVE  /\ Start(s[k], today) \in Int /\ Start(s[k], today + 1) \in Int
             /\ Start(s[k], today) < mid + Day
             /\ mid + Day <= Start(s[k], today + 1)
             /\ Start(s[k], today + 1) < mid + Day + Day
  <2>1. s[k] \in Slot
    BY <1>5
  <2>2. Start(s[k], today) \in Int /\ Start(s[k], today) < mid + Day
    BY <1>2, <2>1, StartsOfDay DEF mid
  <2>3. /\ Start(s[k], today + 1) \in Int
        /\ (today + 1) * Day <= Start(s[k], today + 1)
        /\ Start(s[k], today + 1) < (today + 1) * Day + Day
    BY <1>3, <2>1, StartsOfDay
  <2> QED
    BY <1>3, <2>2, <2>3
<1>8. ASSUME NEW j \in 1 .. n, NEW k \in 1 .. n, j <= k
      PROVE  /\ Start(s[j], today) <= Start(s[k], today)
             /\ Start(s[j], today + 1) <= Start(s[k], today + 1)
  <2>1. s[j] \in Slot /\ s[k] \in Slot /\ s[j] \in Nat /\ s[k] \in Nat
    BY <1>5
  <2>2. s[j] <= s[k]
    <3>1. CASE j = k
      BY <2>1, <3>1
    <3>2. CASE j # k
      <4>1. j < k
        BY <1>8, <3>2
      <4>2. s[j] < s[k]
        BY <4>1
      <4> QED
        BY <2>1, <4>2
    <3> QED
      BY <3>1, <3>2
  <2> QED
    BY <1>2, <1>3, <2>1, <2>2, StartsOfDay
<1>9. \A k \in 1 .. n : k \in later <=> local < Start(s[k], today)
  BY <1>1, <1>7 DEF Passed
<1>10. \A w \in Int :
         /\ Datetime(w, Offset) \in Times
         /\ Instant(Datetime(w, Offset)) = w - Offset
  BY <1>1 DEF Datetime, Times, Instant
<1>11. now = local - Offset /\ now \in Int
  BY <1>1 DEF local
<1> DEFINE Found(w) ==
      /\ w \in Int /\ local < w /\ w < local + Day + Day
      /\ \E k \in 1 .. n, d \in {today, today + 1} : w = Start(s[k], d)
      /\ \A k \in 1 .. n, d \in {today, today + 1} :
           local < Start(s[k], d) => w <= Start(s[k], d)
<1>12. ASSUME NEW w, Found(w), next = Datetime(w, Offset)
       PROVE  /\ next \in Times
              /\ now < Instant(next) /\ Instant(next) <= now + 2 * Day
              /\ \E k \in 1 .. n, d \in {today, today + 1} :
                   Instant(next) = Start(s[k], d) - Offset
              /\ \A k \in 1 .. n, d \in {today, today + 1} :
                   Start(s[k], d) - Offset > now
                     => Instant(next) <= Start(s[k], d) - Offset
  <2>1. w \in Int /\ next \in Times /\ Instant(next) = w - Offset
    BY <1>10, <1>12
  <2>2. now < Instant(next) /\ Instant(next) <= now + 2 * Day
    BY <1>1, <1>4, <1>11, <1>12, <2>1
  <2>3. \E k \in 1 .. n, d \in {today, today + 1} :
          Instant(next) = Start(s[k], d) - Offset
    BY <1>12, <2>1
  <2>4. ASSUME NEW k \in 1 .. n, NEW d \in {today, today + 1},
               Start(s[k], d) - Offset > now
        PROVE  Instant(next) <= Start(s[k], d) - Offset
    <3>1. Start(s[k], d) \in Int
      BY <1>7
    <3>2. local < Start(s[k], d)
      BY <1>1, <1>11, <2>4, <3>1
    <3>3. w <= Start(s[k], d)
      BY <1>12, <3>2
    <3> QED
      BY <1>1, <2>1, <3>1, <3>3
  <2> QED
    BY <2>1, <2>2, <2>3, <2>4
<1>13. CASE later = {}
  <2>1. 1 \in 1 .. n /\ \A k \in 1 .. n : 1 <= k
    OBVIOUS
  <2>2. next = Datetime(Start(s[1], today + 1), Offset)
    BY <1>6, <1>13
  <2>3. ASSUME NEW k \in 1 .. n, NEW d \in {today, today + 1},
               local < Start(s[k], d)
        PROVE  Start(s[1], today + 1) <= Start(s[k], d)
    <3>1. d # today
      BY <1>9, <1>13, <2>3
    <3>2. d = today + 1
      BY <3>1
    <3> QED
      BY <1>8, <2>1, <3>2
  <2>4. Found(Start(s[1], today + 1))
    BY <1>1, <1>2, <1>4, <1>7, <2>1, <2>3
  <2> QED
    BY <1>12, <2>2, <2>4 DEF next, local, today
<1>14. CASE later # {}
  <2>1. later \in SUBSET Nat
    OBVIOUS
  <2>2. PICK m \in later : m = Min(later) /\ \A k \in later : m <= k
    BY <1>14, <2>1, LeastNumber
  <2>3. m \in 1 .. n /\ local < Start(s[m], today)
    BY <1>9, <2>2
  <2>4. next = Datetime(Start(s[m], today), Offset)
    BY <1>6, <1>14, <2>2
  <2>5. ASSUME NEW k \in 1 .. n, NEW d \in {today, today + 1},
               local < Start(s[k], d)
        PROVE  Start(s[m], today) <= Start(s[k], d)
    <3>1. CASE d = today
      <4>1. m <= k
        BY <1>9, <2>2, <2>5, <3>1
      <4> QED
        BY <1>8, <2>3, <3>1, <4>1
    <3>2. CASE d = today + 1
      BY <1>2, <1>4, <1>7, <2>3, <3>2
    <3> QED
      BY <3>1, <3>2
  <2>6. Found(Start(s[m], today))
    BY <1>1, <1>2, <1>4, <1>7, <2>3, <2>5
  <2> QED
    BY <1>12, <2>4, <2>6 DEF next, local, today
<1> QED
  BY <1>13, <1>14

-----------------------------------------------------------------------------
(* The invariant.                                                          *)

Typed ==
  /\ clock \in 0 .. MaxClock
  /\ table \in UNION {[S -> Score] : S \in SUBSET Slot}
  /\ step \in {"request", "golden_hour", "scheduler", "publish"}
  /\ mode \in {"auto", "manual"}
  /\ override \in Times \cup {NoTime}
  /\ override # NoTime => Instant(override) \in 0 .. MaxClock
  /\ listed \in SUBSET Slot
  /\ golden \in Times \cup {NoTime}
  /\ asked \in 0 .. MaxClock
  /\ status \in {"processing", "pending"}
  /\ due \in Instants \cup {Nothing}
  /\ decided \in 0 .. MaxClock
  /\ sent \in Int \cup {Nothing}

\* A golden hour is the first start of a listed slot after it was asked for.
GoldenIsFirst ==
  golden # NoTime =>
    /\ Instant(golden) \in Starts
    /\ asked < Instant(golden) /\ Instant(golden) <= asked + 2 * Day
    /\ \A t \in Starts : t > asked => Instant(golden) <= t

\* The nodes run one after the other, and the clock does not go back.
NodesInOrder ==
  /\ asked <= clock
  /\ step \in {"request", "golden_hour"} => golden = NoTime
  /\ step \in {"scheduler", "publish"} => golden # NoTime
  /\ step # "publish" => status = "processing"
  /\ step = "request" \/ mode = "auto" => override = NoTime

\* A row that waits is due later than its decision; an automatic one at its
\* golden hour.
WaitsForGolden ==
  status = "pending" =>
    /\ asked <= decided
    /\ due \in Int /\ decided < due
    /\ mode = "auto" => due = Instant(golden)

IInv == Typed /\ GoldenIsFirst /\ NodesInOrder /\ WaitsForGolden

LEMMA InstantType == \A t \in Times : Instant(t) \in Int
BY DEF Times, Instant

LEMMA Initially == Init => IInv
<1> SUFFICES ASSUME Init PROVE IInv
  OBVIOUS
<1>1. clock \in 0 .. MaxClock /\ 0 \in 0 .. MaxClock
  BY DayLength, ConstantsAssumption DEF Init
<1>2. Typed
  BY <1>1 DEF Init, Typed
<1>3. 0 <= clock
  BY <1>1
<1> QED
  BY <1>2, <1>3 DEF Init, IInv, GoldenIsFirst, NodesInOrder, WaitsForGolden

LEMMA RequestStep == IInv /\ Request => IInv'
<1> SUFFICES ASSUME IInv, Request PROVE IInv'
  OBVIOUS
<1> USE DEF IInv
<1>1. UNCHANGED <<clock, table, listed, golden, asked, status, due, decided, sent>>
  BY DEF Request, goldenVars, rowVars
<1>2. mode' \in {"auto", "manual"} /\ (mode' = "auto" => override' = NoTime)
  BY DEF Request, NodesInOrder
<1>3. /\ override' \in Times \cup {NoTime}
      /\ override' # NoTime => Instant(override') \in 0 .. MaxClock
  <2>1. CASE UNCHANGED override
    BY <2>1 DEF Typed
  <2>2. CASE \E t \in 0 .. MaxClock, o \in UserOffsets :
               override' = Datetime(t + o, o)
    <3>1. PICK t \in 0 .. MaxClock, o \in UserOffsets :
            override' = Datetime(t + o, o)
      BY <2>2
    <3>2. t \in Int /\ o \in Int /\ t + o \in Int /\ (t + o) - o = t
      BY ConstantsAssumption
    <3>3. override' \in Times /\ Instant(override') = t
      BY <3>1, <3>2 DEF Datetime, Times, Instant
    <3> QED
      BY <3>3
  <2> QED
    BY <2>1, <2>2 DEF Request
<1>4. step = "request" /\ step' = "golden_hour"
  BY DEF Request
<1>5. golden = NoTime /\ status = "processing"
  BY <1>4 DEF NodesInOrder
<1>6. Typed'
  BY <1>1, <1>2, <1>3, <1>4 DEF Typed
<1>7. NodesInOrder'
  BY <1>1, <1>2, <1>4, <1>5 DEF NodesInOrder
<1> QED
  BY <1>1, <1>5, <1>6, <1>7 DEF GoldenIsFirst, WaitsForGolden

\* What the golden hour node stores is the first start of what it considered.
LEMMA NodeFindsFirst ==
  ASSUME Typed, NEW n \in Nat \ {0}, NEW s \in [1 .. n -> Slot],
         \A j, k \in 1 .. n : j < k => s[j] < s[k],
         golden' = FindNextSlot(s, clock),
         listed' = {s[k] : k \in 1 .. n}, asked' = clock
  PROVE  /\ golden' \in Times
         /\ Instant(golden') \in Starts'
         /\ asked' < Instant(golden') /\ Instant(golden') <= asked' + 2 * Day
         /\ \A t \in Starts' : t > asked' => Instant(golden') <= t
<1> DEFINE today == (clock + Offset) \div Day
<1>1. clock \in Int
  BY DEF Typed
<1>2. /\ golden' \in Times
      /\ clock < Instant(golden') /\ Instant(golden') <= clock + 2 * Day
      /\ \E k \in 1 .. n, d \in {today, today + 1} :
           Instant(golden') = Start(s[k], d) - Offset
      /\ \A k \in 1 .. n, d \in {today, today + 1} :
           Start(s[k], d) - Offset > clock
             => Instant(golden') <= Start(s[k], d) - Offset
  BY <1>1, FindsTheNext
<1>3. Starts' = {Start(i, d) - Offset :
                   i \in {s[k] : k \in 1 .. n}, d \in {today, today + 1}}
  BY DEF Starts
<1> HIDE DEF today
<1>4. Instant(golden') \in Starts'
  BY <1>2, <1>3
<1>5. ASSUME NEW t \in Starts', t > asked' PROVE Instant(golden') <= t
  <2>1. PICK k \in 1 .. n, d \in {today, today + 1} :
          t = Start(s[k], d) - Offset
    BY <1>3
  <2> QED
    BY <1>2, <1>5, <2>1
<1> QED
  BY <1>2, <1>4, <1>5

LEMMA GoldenHourStep == IInv /\ GoldenHourNode => IInv'
<1> SUFFICES ASSUME IInv, GoldenHourNode PROVE IInv'
  OBVIOUS
<1> USE DEF IInv
<1>1. /\ UNCHANGED <<clock, table, mode, override, status, due, decided, sent>>
      /\ asked' = clock
      /\ step = "golden_hour" /\ step' = "scheduler"
  BY DEF GoldenHourNode, requestVars, rowVars
<1>2. \E n \in Nat \ {0} : \E s \in [1 .. n -> Slot] :
        /\ \A j, k \in 1 .. n : j < k => s[j] < s[k]
        /\ golden' = FindNextSlot(s, clock)
        /\ listed' = {s[k] : k \in 1 .. n}
  <2>1. CASE DOMAIN table = {}
    <3>1. PICK n \in Nat : Defaults \in [1 .. n -> Slot]
      BY ConstantsAssumption
    <3>2. n # 0
      BY <3>1, ConstantsAssumption
    <3>3. DOMAIN Defaults = 1 .. n
      BY <3>1
    <3>4. /\ golden' = FindNextSlot(Defaults, clock)
          /\ listed' = {Defaults[k] : k \in 1 .. n}
      BY <2>1, <3>3 DEF GoldenHourNode
    <3>5. \A j, k \in 1 .. n : j < k => Defaults[j] < Defaults[k]
      BY <3>3, ConstantsAssumption
    <3> QED
      BY <3>1, <3>2, <3>4, <3>5
  <2>2. CASE DOMAIN table # {}
    <3>1. PICK S \in TopSlots :
            golden' = FindNextSlot(InOrder(S), clock) /\ listed' = S
      BY <2>2 DEF GoldenHourNode
    <3>2. PICK D \in SUBSET Slot : table \in [D -> Score]
      BY DEF Typed
    <3>3. DOMAIN table = D /\ D # {}
      BY <2>2, <3>2
    <3>4. IsFiniteSet(Slot) /\ Slot \subseteq Nat
      BY ConstantsAssumption, FS_Interval DEF Slot
    <3>5. IsFiniteSet(D) /\ Cardinality(D) \in Nat \ {0}
      BY <3>2, <3>3, <3>4, FS_Subset, FS_CardinalityType, FS_EmptySet
    <3>6. S \in SUBSET D /\ Cardinality(S) = Min({TopCount, Cardinality(D)})
      BY <3>1, <3>3 DEF TopSlots
    <3>7. Cardinality(S) # 0
      <4>1. {TopCount, Cardinality(D)} \in SUBSET (Nat \ {0})
        BY <3>5 DEF TopCount
      <4>2. Min({TopCount, Cardinality(D)}) \in {TopCount, Cardinality(D)}
        BY <4>1, LeastNumber
      <4> QED
        BY <3>6, <4>1, <4>2
    <3>8. S \in SUBSET Nat /\ IsFiniteSet(S) /\ S \in SUBSET Slot
      BY <3>2, <3>4, <3>5, <3>6, FS_Subset
    <3> DEFINE n == Cardinality(S)
    <3>9. /\ n \in Nat
          /\ InOrder(S) \in [1 .. n -> S]
          /\ \A j, k \in 1 .. n : j < k => InOrder(S)[j] < InOrder(S)[k]
          /\ \A i \in S : \E k \in 1 .. n : InOrder(S)[k] = i
      BY <3>8, SlotsHaveOrder
    <3> HIDE DEF n
    <3>10. InOrder(S) \in [1 .. n -> Slot]
      BY <3>8, <3>9
    <3>11. listed' = {InOrder(S)[k] : k \in 1 .. n}
      BY <3>1, <3>9
    <3> QED
      BY <3>1, <3>7, <3>9, <3>10, <3>11 DEF n
  <2> QED
    BY <2>1, <2>2
<1>3. PICK n \in Nat \ {0} : \E s \in [1 .. n -> Slot] :
        /\ \A j, k \in 1 .. n : j < k => s[j] < s[k]
        /\ golden' = FindNextSlot(s, clock)
        /\ listed' = {s[k] : k \in 1 .. n}
  BY <1>2
<1>33. PICK s \in [1 .. n -> Slot] :
        /\ \A j, k \in 1 .. n : j < k => s[j] < s[k]
        /\ golden' = FindNextSlot(s, clock)
        /\ listed' = {s[k] : k \in 1 .. n}
  BY <1>3
<1>4. /\ golden' \in Times
      /\ Instant(golden') \in Starts'
      /\ asked' < Instant(golden') /\ Instant(golden') <= asked' + 2 * Day
      /\ \A t \in Starts' : t > asked' => Instant(golden') <= t
  BY <1>1, <1>33, NodeFindsFirst
<1>5. listed' \in SUBSET Slot
  BY <1>33
<1>6. Typed'
  BY <1>1, <1>4, <1>5 DEF Typed
<1>7. GoldenIsFirst'
  BY <1>4 DEF GoldenIsFirst
<1>8. golden' # NoTime /\ clock <= clock
  BY <1>4, ConstantsAssumption DEF Times, Typed
<1>9. NodesInOrder'
  BY <1>1, <1>8 DEF NodesInOrder
<1>10. status = "processing"
  BY <1>1 DEF NodesInOrder
<1> QED
  BY <1>1, <1>6, <1>7, <1>9, <1>10 DEF WaitsForGolden

LEMMA SchedulerStep == IInv /\ SchedulerNode => IInv'
<1> SUFFICES ASSUME IInv, SchedulerNode PROVE IInv'
  OBVIOUS
<1> USE DEF IInv
<1>1. /\ UNCHANGED <<clock, table, mode, override, listed, golden, asked>>
      /\ decided' = clock
      /\ step = "scheduler" /\ step' = "publish"
  BY DEF SchedulerNode, requestVars, goldenVars
<1>2. /\ clock \in 0 .. MaxClock /\ MaxClock \in Nat /\ clock \in Int
      /\ Day \in Nat \ {0} /\ asked \in 0 .. MaxClock
  BY ConstantsAssumption, DayLength DEF Typed
<1>3. golden # NoTime /\ golden \in Times /\ Instant(golden) \in Int
  BY <1>1, InstantType DEF NodesInOrder, Typed
<1>4. Instant(golden) \in Instants
  BY <1>2, <1>3 DEF GoldenIsFirst, Instants
<1>5. /\ Target \in Times /\ Instant(Target) \in Instants
      /\ mode = "auto" => Target = golden
  <2>1. CASE override # NoTime
    <3>1. Target = override /\ override \in Times /\ mode # "auto"
      BY <2>1 DEF Target, Typed, NodesInOrder
    <3>2. Instant(override) \in Instants
      BY <1>2, <2>1 DEF Typed, Instants
    <3> QED
      BY <3>1, <3>2
  <2>2. CASE override = NoTime /\ mode = "manual"
    <3>1. Target = Datetime(clock, 0) /\ mode # "auto"
      BY <2>2 DEF Target
    <3>2. Datetime(clock, 0) \in Times /\ Instant(Datetime(clock, 0)) = clock
      BY <1>2 DEF Datetime, Times, Instant
    <3>3. clock \in Instants
      BY <1>2 DEF Instants
    <3> QED
      BY <3>1, <3>2, <3>3
  <2>3. CASE override = NoTime /\ mode # "manual"
    BY <1>3, <1>4, <2>3 DEF Target
  <2> QED
    BY <2>1, <2>2, <2>3
<1>6. Instant(Target) \in Int /\ Target.wall \in Int
  BY <1>5, InstantType DEF Times
<1>7. ~Immediate(Target) => clock < Instant(Target)
  BY <1>2, <1>6, ConstantsAssumption DEF Immediate
<1>8. /\ status' = IF Immediate(Target) THEN "processing" ELSE "pending"
      /\ due' = IF Immediate(Target) THEN Nothing ELSE Instant(Target)
      /\ sent' = IF Immediate(Target) THEN Nothing ELSE Target.wall
  BY DEF SchedulerNode, RowStatus, Written
<1>9. /\ status' \in {"processing", "pending"}
      /\ due' \in Instants \cup {Nothing}
      /\ sent' \in Int \cup {Nothing}
  BY <1>5, <1>6, <1>8, Zenon
<1>10. Typed'
  BY <1>1, <1>9 DEF Typed
<1>11. GoldenIsFirst'
  BY <1>1 DEF GoldenIsFirst, Starts
<1>12. NodesInOrder'
  BY <1>1, <1>3 DEF NodesInOrder
<1>13. WaitsForGolden'
  <2> SUFFICES ASSUME status' = "pending"
               PROVE  /\ asked' <= decided'
                      /\ due' \in Int /\ decided' < due'
                      /\ mode' = "auto" => due' = Instant(golden')
    BY DEF WaitsForGolden
  <2>1. ~Immediate(Target) /\ due' = Instant(Target)
    BY <1>8
  <2>2. due' \in Int /\ decided' < due'
    BY <1>1, <1>6, <1>7, <2>1
  <2>3. asked' <= decided'
    BY <1>1 DEF NodesInOrder
  <2>4. mode' = "auto" => due' = Instant(golden')
    BY <1>1, <1>5, <2>1
  <2> QED
    BY <2>2, <2>3, <2>4
<1> QED
  BY <1>10, <1>11, <1>12, <1>13

LEMMA TickStep == IInv /\ Tick => IInv'
<1> SUFFICES ASSUME IInv, Tick PROVE IInv'
  OBVIOUS
<1>1. clock < MaxClock /\ clock' = clock + 1
      /\ UNCHANGED <<step, requestVars, goldenVars, rowVars>>
  BY DEF Tick
<1> USE DEF IInv, requestVars, goldenVars, rowVars
<1>2. clock \in Nat /\ MaxClock \in Nat /\ asked \in Nat
  BY ConstantsAssumption DEF Typed
<1>3. Typed'
  BY <1>1, <1>2 DEF Typed
<1>4. NodesInOrder'
  BY <1>1, <1>2 DEF NodesInOrder
<1> QED
  BY <1>1, <1>3, <1>4 DEF GoldenIsFirst, Starts, WaitsForGolden

LEMMA Stutter == IInv /\ UNCHANGED vars => IInv'
BY DEF IInv, vars, requestVars, goldenVars, rowVars, Typed, GoldenIsFirst,
       Starts, NodesInOrder, WaitsForGolden

\* The inductive invariant: a golden hour is the first start after it was asked
\* for, and a row that waits for it was decided before it came.
THEOREM Invariance == Spec => []IInv
<1>1. IInv /\ [Next]_vars => IInv'
  BY RequestStep, GoldenHourStep, SchedulerStep, TickStep, Stutter DEF Next
<1> QED
  BY Initially, <1>1, PTL DEF Spec

-----------------------------------------------------------------------------
(* What follows.                                                           *)

\* The state of a publish's timing keeps its type, and times stay within two
\* days of the clock.
THEOREM TypeCorrect == Spec => []TypeOK
<1>1. IInv => TypeOK
  <2> SUFFICES ASSUME IInv PROVE TypeOK
    OBVIOUS
  <2>1. Typed /\ GoldenIsFirst
    BY DEF IInv
  <2>2. DOMAIN table \subseteq Slot /\ \A i \in DOMAIN table : table[i] \in Score
    BY <2>1 DEF Typed
  <2>3. golden = NoTime \/ Instant(golden) \in Instants
    <3> SUFFICES ASSUME golden # NoTime PROVE Instant(golden) \in Instants
      OBVIOUS
    <3>1. golden \in Times /\ Instant(golden) \in Int
      BY <2>1, InstantType DEF Typed
    <3>2. asked \in 0 .. MaxClock /\ MaxClock \in Nat /\ Day \in Nat
      BY <2>1, ConstantsAssumption, DayLength DEF Typed
    <3>3. asked < Instant(golden) /\ Instant(golden) <= asked + 2 * Day
      BY <2>1 DEF GoldenIsFirst
    <3> QED
      BY <3>1, <3>2, <3>3 DEF Instants
  <2> QED
    BY <2>1, <2>2, <2>3 DEF TypeOK, Typed
<1> QED
  BY Invariance, <1>1, PTL

LEMMA StartsAreNumbers == ASSUME Typed PROVE Starts \in SUBSET Int
<1>1. asked + Offset \in Int /\ Offset \in Int /\ listed \in SUBSET Slot
  BY ConstantsAssumption DEF Typed
<1>2. (asked + Offset) \div Day \in Int
  BY <1>1, Today
<1>3. \A d \in {(asked + Offset) \div Day, (asked + Offset) \div Day + 1} : d \in Int
  BY <1>2
<1>4. \A i \in listed : \A d \in Int : Start(i, d) \in Int
  BY <1>1, StartsOfDay
<1> QED
  BY <1>1, <1>3, <1>4 DEF Starts

\* In every zone, at every time of day and for every table, the golden hour is
\* the next start of a listed slot.
THEOREM GoldenComesNext == Spec => []GoldenIsNext
<1>1. IInv => GoldenIsNext
  <2> SUFFICES ASSUME IInv, golden # NoTime
               PROVE  Instant(golden) = Min({t \in Starts : t > asked})
    BY DEF GoldenIsNext
  <2>1. Starts \in SUBSET Int
    BY StartsAreNumbers DEF IInv
  <2>2. /\ Instant(golden) \in Starts /\ asked < Instant(golden)
        /\ \A t \in Starts : t > asked => Instant(golden) <= t
    BY DEF IInv, GoldenIsFirst
  <2>3. Instant(golden) > asked
    BY <2>1, <2>2 DEF IInv, Typed
  <2> QED
    BY <2>1, <2>2, <2>3, MinIsUnique
<1> QED
  BY Invariance, <1>1, PTL

\* However late the nodes run, a row that waits has not missed its time, and an
\* automatic one waits for the first golden hour after its decision.
THEOREM PendingComesInTime == Spec => []PendingIsTimely
<1>1. IInv => PendingIsTimely
  <2> SUFFICES ASSUME IInv, status = "pending"
               PROVE  /\ due > decided
                      /\ mode = "auto" => due = Min({t \in Starts : t > decided})
    BY DEF PendingIsTimely
  <2>1. /\ asked <= decided /\ due \in Int /\ decided < due
        /\ mode = "auto" => due = Instant(golden)
        /\ asked \in Int /\ decided \in Int /\ golden # NoTime
    BY DEF IInv, Typed, NodesInOrder, WaitsForGolden
  <2>2. Starts \in SUBSET Int
    BY StartsAreNumbers DEF IInv
  <2>3. /\ Instant(golden) \in Starts
        /\ \A t \in Starts : t > asked => Instant(golden) <= t
    BY <2>1 DEF IInv, GoldenIsFirst
  <2>4. ASSUME mode = "auto" PROVE due = Min({t \in Starts : t > decided})
    <3>1. due \in {t \in Starts : t > decided}
      BY <2>1, <2>3, <2>4
    <3>2. \A y \in {t \in Starts : t > decided} : due <= y
      BY <2>1, <2>2, <2>3, <2>4
    <3> QED
      BY <2>2, <3>1, <3>2, MinIsUnique
  <2> QED
    BY <2>1, <2>4
<1> QED
  BY Invariance, <1>1, PTL

=============================================================================
