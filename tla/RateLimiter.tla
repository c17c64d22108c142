------------------------------ MODULE RateLimiter ------------------------------
(***************************************************************************)
(* RateLimiter.check: a sliding window per platform, kept in a sorted set  *)
(* of Redis that all scans share.  A check reads the clock, and only then  *)
(* waits for its commands, which are one transaction: transactions may     *)
(* come late, and in another order than the times they carry.  The call is *)
(* entered before its own count is looked at: a refused call counts too.   *)
(***************************************************************************)
EXTENDS Integers, FiniteSets

CONSTANTS
  Caller,     \* scans and pipelines, each with one check at a time
  Limit,      \* max_requests of PLATFORM_LIMITS
  Window,     \* window_seconds
  MaxClock    \* the last instant of this instance

VARIABLES
  clock,      \* time.time(), and the clock of Redis
  now,        \* the local of a check under way, or Idle
  entries,    \* the sorted set: a member's score is its time, and calls of
              \* the same time and cost are one member
  expires,    \* when the key expires
  passed      \* history: the times of the calls that were allowed

vars == <<clock, now, entries, expires, passed>>

Idle == -1

TypeOK ==
  /\ clock \in 0 .. MaxClock
  /\ now \in [Caller -> {Idle} \cup (0 .. clock)]
  /\ entries \in SUBSET (0 .. clock)
  /\ expires \in 0 .. clock + Window
  /\ passed \in SUBSET (0 .. clock)

Init ==
  /\ clock = 0
  /\ now = [c \in Caller |-> Idle]
  /\ entries = {}
  /\ expires = 0
  /\ passed = {}

ReadClock(c) ==
  /\ now[c] = Idle
  /\ now' = [now EXCEPT ![c] = clock]
  /\ UNCHANGED <<clock, entries, expires, passed>>

\* Variant: an entry leaves the window one tick early.
Kept_Short(c) == {t \in entries : t > now[c] - Window + 1}

\* zremrangebyscore removes up to and including now - window.
Kept(c) == {t \in entries : t > now[c] - Window}

\* The transaction, whenever it gets through to Redis.
Execute(c, allowed) ==
  /\ now[c] # Idle
  /\ entries' = Kept(c) \cup {now[c]}
  /\ expires' = clock + Window
  /\ allowed = (Cardinality(Kept(c)) < Limit)
  /\ passed' = IF allowed THEN passed \cup {now[c]} ELSE passed
  /\ now' = [now EXCEPT ![c] = Idle]
  /\ UNCHANGED clock

Expire ==
  /\ entries # {} /\ clock >= expires
  /\ entries' = {}
  /\ UNCHANGED <<clock, now, expires, passed>>

Tick ==
  /\ clock < MaxClock
  /\ clock' = clock + 1
  /\ UNCHANGED <<now, entries, expires, passed>>

Check(c) == ReadClock(c) \/ \E allowed \in BOOLEAN : Execute(c, allowed)

Next == Tick \/ Expire \/ \E c \in Caller : Check(c)

Spec == Init /\ [][Next]_vars

\* At every moment the calls that were allowed in the window that ends now are
\* within the limit, however late their transactions came, in whichever order,
\* and however calls, refused ones among them, meet the edges of the window;
\* calls at the very same instant are one.  This is the window as it is known
\* now: a late call may still be added to windows that have passed, and they
\* may then hold more than the limit.
LimitIsKept == Cardinality({t \in passed : t > clock - Window}) <= Limit

=============================================================================
