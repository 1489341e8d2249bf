----------------------------- MODULE RateLimiter -----------------------------
(***************************************************************************)
(* The token bucket in front of every VK call (src/app/vk/ratelimit.py),   *)
(* as VKClient uses it (src/app/vk/client.py).                             *)
(*                                                                         *)
(* Time is counted in ticks, TicksPerSecond to the second, and the bucket  *)
(* in fractions of a token: a token is worth TicksPerSecond units and a    *)
(* tick refills RATE of them, so that all arithmetic stays in the naturals *)
(* (the code uses floats).  The asyncio.Lock is a FIFO queue whose head    *)
(* holds it.                                                               *)
(***************************************************************************)
EXTENDS Naturals, Sequences, SequencesExt

CONSTANTS
    Callers,        \* tasks that call VK
    RATE,           \* tokens per second
    CAPACITY,       \* tokens the bucket can hold
    TicksPerSecond, \* resolution of the clock
    MaxClock        \* bound on the clock

ASSUME RateAssumption ==
    /\ RATE \in Nat \ {0}
    /\ CAPACITY \in Nat \ {0}
    /\ TicksPerSecond \in Nat \ {0}
ASSUME ClockAssumption == MaxClock \in Nat

VARIABLES
    clock,      \* time.monotonic()
    tokens,     \* self._tokens, in units
    updated,    \* self._updated
    queue,      \* the lock: its holder, then the callers waiting for it
    wake,       \* when the holder's sleep ends
    granted,    \* how many calls were let through
    markClock,  \* when the observed window began
    markGranted \* what granted was then

limiterVars == <<clock, tokens, updated, queue, wake, granted, markClock, markGranted>>
bucket == <<tokens, updated, granted>>
window == <<markClock, markGranted>>

Cost == TicksPerSecond
Full == CAPACITY * Cost

LimiterTypeOK ==
    /\ clock \in Nat
    /\ tokens \in 0..Full
    /\ updated \in 0..clock
    /\ queue \in Seq(Callers)
    /\ wake \in Nat
    /\ granted \in Nat
    /\ markClock \in 0..clock
    /\ markGranted \in 0..granted

LimiterInit ==
    /\ clock = 0
    /\ tokens = Full
    /\ updated = 0
    /\ queue = <<>>
    /\ wake = 0
    /\ granted = 0
    /\ markClock = 0
    /\ markGranted = 0

\* Seeded bugs: the bucket has no brim; a refill does not restart the clock.
RefillOverflowing == tokens + (clock - updated) * RATE
UpdatedNever == updated

Refill == LET filled == tokens + (clock - updated) * RATE
          IN  IF filled > Full THEN Full ELSE filled
UpdatedNow == clock

Waiting(c) == \E k \in DOMAIN queue : queue[k] = c

\* acquire is called: the caller lines up for the lock.
Arrive(c) ==
    /\ ~Waiting(c)
    /\ queue' = Append(queue, c)
    /\ UNCHANGED <<clock, bucket, wake, window>>

\* The holder is awake and finds a token: acquire returns.
Take ==
    /\ queue # <<>>
    /\ wake <= clock
    /\ Refill >= Cost
    /\ tokens' = Refill - Cost
    /\ updated' = UpdatedNow
    /\ queue' = Tail(queue)
    /\ granted' = granted + 1
    /\ UNCHANGED <<clock, wake, window>>

\* Seeded bug: the sleep is rounded down.
SleepTicksShort(left) == (Cost - left) \div RATE

\* (1 - self._tokens) / self._rate, rounded up to a tick.
SleepTicks(left) == (Cost - left + RATE - 1) \div RATE

\* The holder is awake and finds none: it sleeps, still holding the lock.
Sleep ==
    /\ queue # <<>>
    /\ wake <= clock
    /\ Refill < Cost
    /\ tokens' = Refill
    /\ updated' = UpdatedNow
    /\ wake' = clock + SleepTicks(Refill)
    /\ UNCHANGED <<clock, queue, granted, window>>

\* A caller is cancelled while it waits or sleeps: "async with" lets go.
Cancel(c) ==
    /\ \E k \in DOMAIN queue :
          /\ queue[k] = c
          /\ queue' = RemoveAt(queue, k)
          /\ wake' = IF k = 1 THEN clock ELSE wake
    /\ UNCHANGED <<clock, bucket, window>>

Tick ==
    /\ clock < MaxClock
    /\ clock' = clock + 1
    /\ UNCHANGED <<bucket, queue, wake, window>>

\* An observer starts to count.
Mark ==
    /\ markClock' = clock
    /\ markGranted' = granted
    /\ UNCHANGED <<clock, bucket, queue, wake>>

LimiterNext ==
    \/ \E c \in Callers : Arrive(c) \/ Cancel(c)
    \/ Take \/ Sleep \/ Tick \/ Mark

LimiterSpec == LimiterInit /\ [][LimiterNext]_limiterVars

-----------------------------------------------------------------------------
\* In any window of any length the calls let through are at most one full
\* bucket plus what the rate allows for that length, whoever calls and however
\* they are cancelled.
WithinBudget ==
    (granted - markGranted) * Cost <= Full + (clock - markClock) * RATE

\* A sleeping holder finds its token when its sleep ends: nobody draws from the
\* bucket in the meantime, whoever arrives or is cancelled, and the sleep is
\* long enough.
SleeperWillFindToken ==
    queue # <<>> /\ wake > clock => tokens + (wake - updated) * RATE >= Cost
=============================================================================
