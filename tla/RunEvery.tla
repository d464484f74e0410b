------------------------------- MODULE RunEvery -------------------------------
(***************************************************************************)
(* run_every of src/lib/run_every.c, the loop that paces send_state,       *)
(* network_update and update.                                              *)
(*                                                                         *)
(* The real clock is `now', in milliseconds; the program sees it as an     *)
(* int, which wraps around.  Between any two looks at the clock time may   *)
(* pass: the call takes some, and the scheduler does.  A sleep lasts at    *)
(* least as long as asked for where ticks are fine (nanosleep), and ends   *)
(* on a tick of the kernel where they are coarse (vTaskDelay).             *)
(***************************************************************************)
EXTENDS Integers

CONSTANTS
  Interval,  \* interval_ms
  IntHalf,   \* ints are -IntHalf..IntHalf-1 (2^31)
  TickLengths, \* lengths of a tick: 1 for nanosleep, 1000 / FREERTOS_HZ on the ESP
  MaxDelay,  \* bound: what passes between two looks at the clock
  Horizon    \* bound: how long the real clock is watched

ASSUME PaceAssumption ==
  /\ Interval \in Nat
  /\ TickLengths \subseteq Nat \ {0}
  /\ IntHalf \in Nat \ {0}
  /\ MaxDelay \in Nat
  /\ Horizon \in Nat
\* A call and the sleep after it are short against the range of int.
ASSUME RangeAssumption ==
  \A tick \in TickLengths : 3 * MaxDelay + 2 * Interval + tick < IntHalf

VARIABLES
  tick,         \* the length of a tick where the loop runs
  now,          \* the real clock
  pc,           \* where the loop is
  run,          \* what func returned last
  last, start,  \* the ints of run_every
  delta_time,   \* what func was called with
  begun, started, \* when the loop was entered and func last called, on the real clock
  total         \* all delta_time so far

vars == <<tick, now, pc, run, last, start, delta_time, begun, started, total>>

Ints == (-IntHalf)..(IntHalf - 1)

\* Arithmetic on int, as the build does it.
Wrap(x) == ((x + IntHalf) % (2 * IntHalf)) - IntHalf

TypeOK ==
  /\ tick \in TickLengths
  /\ now \in Nat
  /\ pc \in {"start", "func", "sleep", "returned"}
  /\ run \in BOOLEAN
  /\ last \in Ints /\ start \in Ints /\ delta_time \in Ints
  /\ begun \in Nat /\ started \in Int
  /\ total \in Int

\* The loop is entered at any time, early or late in the range of int.
Init ==
  /\ tick \in TickLengths
  /\ now \in 0..(2 * IntHalf)
  /\ pc = "start"
  /\ run = TRUE
  /\ last = Wrap(Wrap(now) - Interval)
  /\ start = 0 /\ delta_time = 0
  /\ begun = now
  /\ started = now - Interval
  /\ total = 0

\* Time up to the next look at the clock.
Passes(from) == \E d \in 0..MaxDelay : now' = from + d

\* Mutant of Difference: it is taken without wrapping around.
Unwrapped(a, b) == a - b

Difference(a, b) == Wrap(a - b)

\* The head of the loop: func is called with the time since the last call.
Call ==
  /\ pc = "start"
  /\ now - begun <= Horizon
  /\ start' = Wrap(now)
  /\ delta_time' = Difference(start', last)
  /\ total' = total + delta_time'
  /\ started' = now
  /\ pc' = "func"
  /\ Passes(now)
  /\ UNCHANGED <<tick, run, last, begun>>

Return ==
  /\ pc = "func"
  /\ run' \in BOOLEAN
  /\ pc' = "sleep"
  /\ UNCHANGED <<tick, now, last, start, delta_time, begun, started, total>>

\* sleep_ms, where the sleeping thread wakes: not at all if there is no time
\* left, and otherwise so many ticks on as fit in the time.
Wakes(time_ms) ==
  LET ticks == time_ms \div tick IN
  IF time_ms <= 0 \/ ticks = 0 THEN now ELSE (now \div tick + ticks) * tick

\* Mutant of LastCall: the time after the call is kept as the time of the call.
AfterCall == Wrap(now)

\* Mutant of TimeLeft: a late call is made up for by a short sleep.
TimeLeftOfTwo == Wrap(2 * Interval - Difference(Wrap(now), last))

LastCall == start
TimeLeft == Wrap(Interval - Difference(Wrap(now), start))

\* The rest of the loop.  It sleeps even after the last call.
Sleep ==
  /\ pc = "sleep"
  /\ Passes(Wakes(TimeLeft))
  /\ last' = LastCall
  /\ pc' = IF run THEN "start" ELSE "returned"
  /\ UNCHANGED <<tick, run, start, delta_time, begun, started, total>>

Next == Call \/ Return \/ Sleep

Spec == Init /\ [][Next]_vars

-----------------------------------------------------------------------------
(* Properties.                                                             *)

\* The loop loses no time and counts none twice, however late it is woken and
\* wherever the clock wraps around: what func has been told adds up to the time
\* from one interval before the loop was entered to the last call.
TimeAddsUp == total = IF started < begun THEN 0 ELSE started - begun + Interval

\* FPS cap, network TPS cap (Kconfig), TICK_CAP: two calls are an interval apart where
\* sleeps are exact (a tick of 1), which is the cap, and less than two ticks short of it
\* where they are not.  And as long as a tick is no longer than the interval, they never
\* come at the same time: with a delta_time of 0 ball_advance gives no result at all.
ApartEnough(gap) ==
  /\ gap >= Interval - 2 * (tick - 1)
  /\ tick <= Interval => gap > 0
NeverTooSoon ==
  [][pc = "start" /\ pc' = "func" => ApartEnough(started' - started)]_vars
=============================================================================
