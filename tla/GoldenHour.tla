------------------------------ MODULE GoldenHour ------------------------------
(***************************************************************************)
(* When a publish goes out: the golden_hour and scheduler nodes of the     *)
(* publish graph.  The first picks the next of the best half-hour slots of *)
(* the day, in the time zone of the settings; the second decides between   *)
(* now and later, and hands the time to the publisher as text.  The clock  *)
(* goes on between the request and the nodes.                              *)
(*                                                                         *)
(* Instants are integers in UTC.  A datetime of the program is a wall      *)
(* clock time and the offset of its zone; the zone has no daylight saving, *)
(* as Asia/Ho_Chi_Minh has none.                                           *)
(***************************************************************************)
EXTENDS Integers, Sequences, FiniteSets, FiniteSetsExt, SequencesExt

CONSTANTS
  SlotsPerDay,    \* SLOTS_PER_DAY
  SlotLength,     \* SLOT_DURATION_MIN
  Threshold,      \* IMMEDIATE_THRESHOLD
  Offset,         \* of TIMEZONE
  Defaults,       \* DEFAULT_GOLDEN_HOURS, as slot indices
  Score,          \* values of weighted_score
  UserOffsets,    \* offsets of the times users ask for
  MaxClock,       \* the last instant of this instance
  NoTime,         \* an empty scheduled_time_override or golden_hour_result
  Nothing         \* a null scheduled_at, a post without scheduledFor

Slot == 0 .. SlotsPerDay - 1
Day == SlotsPerDay * SlotLength

\* The configured hours are in order of time, as the default is.
ASSUME ConstantsAssumption ==
  /\ SlotsPerDay \in Nat \ {0} /\ SlotLength \in Nat \ {0}
  /\ Threshold \in Nat
  /\ Offset \in Int
  /\ UserOffsets \subseteq Int
  /\ Defaults \in Seq(Slot) /\ Defaults # <<>>
  /\ \A j, k \in DOMAIN Defaults : j < k => Defaults[j] < Defaults[k]
  /\ Score \subseteq Nat
  /\ MaxClock \in Nat /\ Day <= MaxClock
  /\ NoTime \notin [wall : Int, offset : Int]
  /\ Nothing \notin Int

Instants == -Day .. MaxClock + 2 * Day
TopCount == 3

Datetime(w, o) == [wall |-> w, offset |-> o]
Instant(t) == t.wall - t.offset

VARIABLES
  clock,
  table,      \* EngagementTimeSlot: weighted_score by slot, if samples suffice
  step,       \* the node that runs next
  mode,       \* publish_mode
  override,   \* scheduled_time_override
  listed,     \* the slots that were considered, for the reference definition
  golden,     \* golden_hour_result.scheduled_at
  asked,      \* when golden was computed
  status,     \* PublishedPost.status
  due,        \* PublishedPost.scheduled_at, an instant
  decided,    \* when the scheduler wrote the row
  sent        \* scheduledFor as the publisher reads it

requestVars == <<table, mode, override>>
goldenVars == <<listed, golden, asked>>
rowVars == <<status, due, decided, sent>>
vars == <<clock, step, requestVars, goldenVars, rowVars>>

TypeOK ==
  /\ clock \in 0 .. MaxClock
  /\ DOMAIN table \subseteq Slot /\ \A i \in DOMAIN table : table[i] \in Score
  /\ step \in {"request", "golden_hour", "scheduler", "publish"}
  /\ mode \in {"auto", "manual"}
  /\ override = NoTime \/ Instant(override) \in 0 .. MaxClock
  /\ listed \subseteq Slot
  /\ golden = NoTime \/ Instant(golden) \in Instants
  /\ asked \in 0 .. MaxClock
  /\ status \in {"processing", "pending"}
  /\ due \in Instants \cup {Nothing}
  /\ decided \in 0 .. MaxClock
  /\ sent \in Int \cup {Nothing}

Init ==
  /\ clock \in 0 .. Day - 1
  /\ table \in UNION {[S -> Score] : S \in SUBSET Slot}
  /\ step = "request"
  /\ mode = "auto"
  /\ override = NoTime
  /\ listed = {}
  /\ golden = NoTime
  /\ asked = 0
  /\ status = "processing"
  /\ due = Nothing
  /\ decided = 0
  /\ sent = Nothing

-----------------------------------------------------------------------------
\* auto_publish, publish_now, and schedule_publish with a time to come.
Request ==
  /\ step = "request"
  /\ \/ mode' = "auto" /\ UNCHANGED override
     \/ mode' = "manual" /\ UNCHANGED override
     \/ /\ mode' = "manual"
        /\ \E t \in 0 .. MaxClock, o \in UserOffsets :
             t > clock /\ override' = Datetime(t + o, o)
  /\ step' = "golden_hour"
  /\ UNCHANGED <<clock, table, goldenVars, rowVars>>

Start(i, day) == day * Day + i * SlotLength

\* Variant: a slot that has just begun is taken.
Passed_Before(start, local) == start < local

Passed(start, local) == start <= local

\* _find_next_slot: the first of the list that is still to come today, else
\* the first of the list tomorrow.
FindNextSlot(slots, now) ==
  LET local == now + Offset
      today == local \div Day
      later == {k \in DOMAIN slots : ~Passed(Start(slots[k], today), local)}
  IN  Datetime(IF later = {} THEN Start(slots[1], today + 1)
               ELSE Start(slots[Min(later)], today),
               Offset)

\* The slots that ORDER BY weighted_score DESC may put first; equals in any
\* order.
TopSlots ==
  {S \in SUBSET DOMAIN table :
     /\ Cardinality(S) = Min({TopCount, Cardinality(DOMAIN table)})
     /\ \A i \in S, j \in DOMAIN table \ S : table[i] >= table[j]}

\* Variant: the slots stay in the order of their score.
InOrder_ByScore(S) ==
  CHOOSE s \in SetToSeqs(S) :
    \A j, k \in DOMAIN s : j < k => table[s[j]] >= table[s[k]]

InOrder(S) ==
  CHOOSE s \in SetToSeqs(S) : \A j, k \in DOMAIN s : j < k => s[j] < s[k]

\* calculate_golden_hours; it runs in every mode.
GoldenHourNode ==
  /\ step = "golden_hour"
  /\ IF DOMAIN table = {}
       THEN /\ golden' = FindNextSlot(Defaults, clock)
            /\ listed' = {Defaults[k] : k \in DOMAIN Defaults}
       ELSE \E S \in TopSlots :
              /\ golden' = FindNextSlot(InOrder(S), clock)
              /\ listed' = S
  /\ asked' = clock
  /\ step' = "scheduler"
  /\ UNCHANGED <<clock, requestVars, rowVars>>

Target ==
  IF override # NoTime THEN override
  ELSE IF mode = "manual" THEN Datetime(clock, 0)
  ELSE golden

\* Variant: only what is near is immediate, not what is overdue.
Immediate_Near(t) == Instant(t) - clock \in 0 .. Threshold

Immediate(t) == Instant(t) - clock <= Threshold

\* strftime writes the wall clock of the target and a literal Z.
Written(t) == t.wall

\* Variant: the words of publish_status.
RowStatus_Publish(t) == IF Immediate(t) THEN "immediate" ELSE "scheduled"

RowStatus(t) == IF Immediate(t) THEN "processing" ELSE "pending"

SchedulerNode ==
  /\ step = "scheduler"
  /\ status' = RowStatus(Target)
  /\ due' = IF Immediate(Target) THEN Nothing ELSE Instant(Target)
  /\ sent' = IF Immediate(Target) THEN Nothing ELSE Written(Target)
  /\ decided' = clock
  /\ step' = "publish"
  /\ UNCHANGED <<clock, requestVars, goldenVars>>

Tick ==
  /\ clock < MaxClock
  /\ clock' = clock + 1
  /\ UNCHANGED <<step, requestVars, goldenVars, rowVars>>

Next == Request \/ GoldenHourNode \/ SchedulerNode \/ Tick

Spec == Init /\ [][Next]_vars

-----------------------------------------------------------------------------
\* The instants at which the listed slots start, on the days around now.
Starts ==
  LET today == (asked + Offset) \div Day
  IN  {Start(i, day) - Offset : i \in listed, day \in {today, today + 1}}

\* The golden hour is the earliest start of a listed slot that is still to
\* come, across midnight and in the zone of the settings.
GoldenIsNext ==
  golden # NoTime =>
    Instant(golden) = Min({t \in Starts : t > asked})

\* A post that waits has not missed its time, however long the nodes took: an
\* automatic one waits for the first golden hour after the scheduler's own
\* decision, although that hour was chosen by an earlier node.
PendingIsTimely ==
  status = "pending" =>
    /\ due > decided
    /\ mode = "auto" => due = Min({t \in Starts : t > decided})

(* What documentation and comments say, and the code does not do.          *)

\* scheduler_node.py: scheduled_at is returned as an ISO UTC string.
SentIsDue == sent = due

=============================================================================
