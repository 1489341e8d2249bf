-------------------------- MODULE RateLimiterProofs --------------------------
(***************************************************************************)
(* The budget of the token bucket, for every rate, capacity, resolution of *)
(* the clock and set of callers.  The invariant Budget counts a full       *)
(* bucket as the worst thing a window can begin with, which is why the     *)
(* brim of the bucket matters even when nothing was drawn for long.        *)
(***************************************************************************)
EXTENDS RateLimiter, TLAPS, SequenceTheorems

Counters ==
    /\ clock \in Nat /\ tokens \in Nat /\ updated \in Nat
    /\ granted \in Nat /\ markClock \in Nat /\ markGranted \in Nat
    /\ tokens <= Full /\ updated <= clock
    /\ markClock <= clock /\ markGranted <= granted

Budget ==
    /\ Counters
    /\ updated >= markClock =>
          (granted - markGranted) * Cost + tokens
              <= Full + (updated - markClock) * RATE
    /\ updated < markClock => granted = markGranted

LEMMA UnitsAreNat == Cost \in Nat /\ Full \in Nat /\ RATE \in Nat
BY RateAssumption DEF Cost, Full

LEMMA Distribute ==
  ASSUME NEW a \in Nat, NEW b \in Nat, NEW c \in Nat, NEW r \in Nat,
         a <= b, b <= c
  PROVE  /\ (b - a) * r \in Nat
         /\ (c - a) * r = (b - a) * r + (c - b) * r
         /\ (b - a) * r <= (c - a) * r
OBVIOUS

LEMMA RefillBounds ==
  ASSUME Counters
  PROVE  /\ Refill \in Nat
         /\ Refill <= Full
         /\ Refill <= tokens + (clock - updated) * RATE
BY UnitsAreNat, Distribute DEF Counters, Refill

LEMMA BudgetInit == LimiterInit => Budget
BY UnitsAreNat DEF LimiterInit, Budget, Counters

LEMMA BudgetNext == Budget /\ [LimiterNext]_limiterVars => Budget'
<1> SUFFICES ASSUME Budget, [LimiterNext]_limiterVars PROVE Budget'
  OBVIOUS
<1> USE UnitsAreNat
<1>1. CASE Take
  <2>1. tokens' = Refill - Cost /\ Refill >= Cost /\ updated' = clock
        /\ granted' = granted + 1
        /\ UNCHANGED <<clock, markClock, markGranted>>
    BY <1>1 DEF Take, UpdatedNow, window
  <2>2. Counters'
    BY <2>1, RefillBounds DEF Budget, Counters
  <2>3. (granted + 1 - markGranted) * Cost = (granted - markGranted) * Cost + Cost
    BY DEF Budget, Counters
  <2>4. (granted - markGranted) * Cost + Refill
            <= Full + (clock - markClock) * RATE
    <3>1. CASE updated >= markClock
      <4>1. (clock - markClock) * RATE
               = (updated - markClock) * RATE + (clock - updated) * RATE
        BY <3>1, Distribute DEF Budget, Counters
      <4> QED
        BY <3>1, <4>1, RefillBounds DEF Budget, Counters
    <3>2. CASE updated < markClock
      <4>1. granted = markGranted /\ (clock - markClock) * RATE >= 0
        BY <3>2 DEF Budget, Counters
      <4> QED
        BY <4>1, RefillBounds DEF Budget, Counters
    <3> QED
      BY <3>1, <3>2 DEF Budget, Counters
  <2> QED
    BY <2>1, <2>2, <2>3, <2>4, RefillBounds DEF Budget, Counters
<1>2. CASE Sleep
  <2>1. tokens' = Refill /\ updated' = clock
        /\ UNCHANGED <<clock, granted, markClock, markGranted>>
    BY <1>2 DEF Sleep, UpdatedNow, window
  <2>2. Counters'
    BY <2>1, RefillBounds DEF Budget, Counters
  <2>3. CASE updated >= markClock
    <3>1. (clock - markClock) * RATE
             = (updated - markClock) * RATE + (clock - updated) * RATE
      BY <2>3, Distribute DEF Budget, Counters
    <3> QED
      BY <2>1, <2>2, <2>3, <3>1, RefillBounds DEF Budget, Counters
  <2>4. CASE updated < markClock
    <3>1. granted = markGranted /\ (clock - markClock) * RATE >= 0
      BY <2>4 DEF Budget, Counters
    <3> QED
      BY <2>1, <2>2, <3>1, RefillBounds DEF Budget, Counters
  <2> QED
    BY <2>3, <2>4 DEF Budget, Counters
<1>3. CASE Tick
  BY <1>3 DEF Tick, Budget, Counters, bucket, window
<1>4. CASE Mark
  BY <1>4 DEF Mark, Budget, Counters, bucket
<1>5. CASE UNCHANGED <<clock, bucket, window>>
  BY <1>5 DEF Budget, Counters, bucket, window
<1> QED
  BY <1>1, <1>2, <1>3, <1>4, <1>5 DEF LimiterNext, Arrive, Cancel, limiterVars, bucket, window

\* No window of any length lets through more than a full bucket and what the
\* rate allows for its length.
THEOREM WithinBudgetCorrect == LimiterSpec => []WithinBudget
<1>1. Budget => WithinBudget
  <2> SUFFICES ASSUME Budget PROVE WithinBudget
    OBVIOUS
  <2>1. CASE updated >= markClock
    <3>1. (updated - markClock) * RATE <= (clock - markClock) * RATE
      BY <2>1, UnitsAreNat, Distribute DEF Budget, Counters
    <3> QED
      BY <2>1, <3>1, UnitsAreNat, Distribute DEF Budget, Counters, WithinBudget
  <2>2. CASE updated < markClock
    <3>1. granted = markGranted /\ (clock - markClock) * RATE >= 0
      BY <2>2, UnitsAreNat DEF Budget, Counters
    <3> QED
      BY <3>1, UnitsAreNat DEF Budget, Counters, WithinBudget
  <2> QED
    BY <2>1, <2>2 DEF Budget, Counters
<1> QED
  BY <1>1, BudgetInit, BudgetNext, PTL DEF LimiterSpec

-----------------------------------------------------------------------------
(* The sleep of the holder.  What it has computed stays true without the    *)
(* queue: only the holder draws from the bucket, and it sleeps.             *)

SleepIsLongEnough ==
    /\ Counters
    /\ wake \in Nat
    /\ wake > clock => tokens + (wake - updated) * RATE >= Cost

\* Division rounds up when what is one less than the divisor is added before.
LEMMA RoundsUp ==
  ASSUME NEW a \in Nat, NEW r \in Nat \ {0}
  PROVE  /\ (a + r - 1) \div r \in Nat
         /\ ((a + r - 1) \div r) * r >= a
<1> DEFINE b == a + r - 1
           q == b \div r
<1>1. b \in Nat /\ q \in Nat
  OBVIOUS
<1>2. b = r * q + (b % r) /\ b % r \in 0..(r - 1)
  OBVIOUS
<1> QED
  BY <1>1, <1>2

LEMMA SleepIsLongEnoughInit == LimiterInit => SleepIsLongEnough
BY BudgetInit DEF Budget, SleepIsLongEnough, LimiterInit

LEMMA SleepIsLongEnoughNext ==
  ASSUME SleepIsLongEnough, Counters', [LimiterNext]_limiterVars
  PROVE  SleepIsLongEnough'
<1> USE UnitsAreNat
<1>1. CASE Take
  <2>1. wake' = wake /\ clock' = clock /\ wake <= clock
    BY <1>1 DEF Take
  <2>2. ~(wake' > clock')
    BY <2>1 DEF SleepIsLongEnough, Counters
  <2> QED
    BY <2>1, <2>2 DEF SleepIsLongEnough
<1>2. CASE Sleep
  <2>1. /\ Refill \in Nat /\ Refill < Cost
        /\ tokens' = Refill /\ updated' = clock /\ clock' = clock
        /\ wake' = clock + SleepTicks(Refill)
    BY <1>2, RefillBounds DEF Sleep, UpdatedNow, SleepIsLongEnough
  <2>2. SleepTicks(Refill) \in Nat /\ SleepTicks(Refill) * RATE >= Cost - Refill
    <3>1. PICK a \in Nat : a = Cost - Refill
      BY <2>1
    <3>2. SleepTicks(Refill) = (a + RATE - 1) \div RATE
      BY <3>1 DEF SleepTicks
    <3> QED
      BY <3>1, <3>2, RoundsUp, RateAssumption
  <2>3. wake' - updated' = SleepTicks(Refill) /\ wake' \in Nat
    BY <2>1, <2>2 DEF SleepIsLongEnough, Counters
  <2> QED
    BY <2>1, <2>2, <2>3 DEF SleepIsLongEnough
<1>3. CASE Tick
  BY <1>3 DEF Tick, SleepIsLongEnough, Counters, bucket, window
<1>4. CASE Mark
  BY <1>4 DEF Mark, SleepIsLongEnough, Counters, bucket
<1>5. CASE UNCHANGED <<clock, bucket, window>> /\ wake' \in {wake, clock}
  <2>1. UNCHANGED <<clock, tokens, updated>>
    BY <1>5 DEF bucket
  <2>2. wake' > clock' => wake' = wake
    BY <1>5, <2>1 DEF SleepIsLongEnough, Counters
  <2> QED
    BY <1>5, <2>1, <2>2 DEF SleepIsLongEnough, Counters
<1> QED
  BY <1>1, <1>2, <1>3, <1>4, <1>5
     DEF LimiterNext, Arrive, Cancel, limiterVars, bucket, window

\* A holder that sleeps has slept long enough when it wakes: nobody else draws,
\* whoever arrives or is cancelled meanwhile.
THEOREM SleeperWillFindTokenCorrect == LimiterSpec => []SleeperWillFindToken
<1>1. SleepIsLongEnough => SleeperWillFindToken
  BY DEF SleepIsLongEnough, SleeperWillFindToken
<1>2. Budget => Counters
  BY DEF Budget
<1>3. SleepIsLongEnough /\ Budget /\ Budget' /\ [LimiterNext]_limiterVars => SleepIsLongEnough'
  BY <1>2, SleepIsLongEnoughNext DEF Budget
<1> QED
  BY <1>1, <1>3, BudgetInit, BudgetNext, SleepIsLongEnoughInit, PTL DEF LimiterSpec

-----------------------------------------------------------------------------
(* The types.                                                              *)

\* One element less.
LEMMA RemoveAtProperties ==
    ASSUME NEW S, NEW list \in Seq(S), NEW n \in DOMAIN list
    PROVE  RemoveAt(list, n) \in Seq(S) /\ Len(RemoveAt(list, n)) = Len(list) - 1
  <1> DEFINE before == SubSeq(list, 1, n - 1)
             after == SubSeq(list, n + 1, Len(list))
  <1>1. n \in 1..Len(list) /\ Len(list) \in Nat
    OBVIOUS
  <1>2. before \in Seq(S) /\ Len(before) = n - 1
    <2>1. \A i \in 1..(n - 1) : list[i] \in S
      BY <1>1
    <2> QED  BY <1>1, <2>1, SubSeqProperties
  <1>3. after \in Seq(S) /\ Len(after) = Len(list) - n
    <2>1. \A i \in (n + 1)..Len(list) : list[i] \in S
      BY <1>1
    <2> QED  BY <1>1, <2>1, SubSeqProperties
  <1>4. RemoveAt(list, n) = before \o after
    BY DEF RemoveAt
  <1> HIDE DEF before, after
  <1> QED  BY <1>1, <1>2, <1>3, <1>4, ConcatProperties

\* Nobody is in the queue who does not call, and no counter leaves its range, for
\* any capacity and any order of arrivals and cancellations.
THEOREM LimiterTypeCorrect == LimiterSpec => []LimiterTypeOK
<1>1. LimiterInit => queue \in Seq(Callers)
  BY DEF LimiterInit
<1>2. ASSUME queue \in Seq(Callers), [LimiterNext]_limiterVars
      PROVE  (queue \in Seq(Callers))'
  <2>1. ASSUME NEW c \in Callers, Arrive(c) PROVE queue' \in Seq(Callers)
    BY <1>2, <2>1 DEF Arrive
  <2>2. ASSUME NEW c \in Callers, Cancel(c) PROVE queue' \in Seq(Callers)
    BY <1>2, <2>2, RemoveAtProperties DEF Cancel
  <2>3. CASE Take
    BY <1>2, <2>3 DEF Take
  <2>4. CASE UNCHANGED queue
    BY <1>2, <2>4
  <2> QED
    BY <1>2, <2>1, <2>2, <2>3, <2>4 DEF LimiterNext, Sleep, Tick, Mark, limiterVars
<1>3. Budget /\ SleepIsLongEnough /\ queue \in Seq(Callers) => LimiterTypeOK
  BY UnitsAreNat DEF Budget, SleepIsLongEnough, Counters, LimiterTypeOK
<1>4. SleepIsLongEnough /\ Budget /\ Budget' /\ [LimiterNext]_limiterVars => SleepIsLongEnough'
  BY SleepIsLongEnoughNext DEF Budget
<1> QED
  BY <1>1, <1>2, <1>3, <1>4, BudgetInit, BudgetNext, SleepIsLongEnoughInit, PTL DEF LimiterSpec
=============================================================================
