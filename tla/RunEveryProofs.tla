---------------------------- MODULE RunEveryProofs ----------------------------
(***************************************************************************)
(* What RunEvery promises, for every interval, width of int, length of     *)
(* ticks and delay within PaceAssumption and RangeAssumption: its types,   *)
(* TimeAddsUp, and that no call comes too soon.                            *)
(***************************************************************************)
EXTENDS RunEvery, TLAPS

-----------------------------------------------------------------------------
(* Arithmetic.                                                             *)

\* Division leaves a rest that is less than the divisor.
LEMMA DivisionRest ==
  ASSUME NEW a \in Int, NEW d \in Nat \ {0}
  PROVE  /\ a \div d \in Int
         /\ (a \div d) * d <= a /\ a < (a \div d) * d + d
         /\ a % d = a - (a \div d) * d
OBVIOUS

\* A product of a whole number with a positive one is no nearer to zero than that,
\* unless it is zero.
LEMMA Multiples ==
  ASSUME NEW q \in Int, NEW m \in Nat, -m < q * m, q * m < m
  PROVE  q = 0
<1>1. q >= 1 => q * m >= m
  OBVIOUS
<1>2. q <= -1 => q * m <= -m
  OBVIOUS
<1>3. QED
  BY <1>1, <1>2

\* Wrapping gives an int, a multiple of 2^w away.
LEMMA WrapFacts ==
  ASSUME NEW x \in Int
  PROVE  /\ Wrap(x) \in Ints
         /\ \E q \in Int : x = Wrap(x) + q * (2 * IntHalf)
<1> DEFINE m == 2 * IntHalf
           a == x + IntHalf
<1>1. IntHalf \in Nat \ {0} /\ m \in Nat \ {0} /\ a \in Int
  BY PaceAssumption
<1>2. Wrap(x) = (a % m) - IntHalf
  BY DEF Wrap
<1>3. m = 2 * IntHalf /\ a = x + IntHalf
  OBVIOUS
<1> HIDE DEF m, a
<1>4. /\ a \div m \in Int
      /\ (a \div m) * m <= a /\ a < (a \div m) * m + m
      /\ a % m = a - (a \div m) * m
  BY <1>1, DivisionRest
<1> DEFINE q == a \div m
           p == q * m
           r == a % m
<1>5. q \in Int /\ p \in Int /\ p <= a /\ a < p + m /\ r = a - p
  BY <1>1, <1>4
<1>6. Wrap(x) = r - IntHalf
  BY <1>2
<1>7. p = q * (2 * IntHalf)
  BY <1>3
<1> HIDE DEF q, p, r
<1>8. Wrap(x) \in Ints
  BY <1>1, <1>3, <1>5, <1>6 DEF Ints
<1>9. x = Wrap(x) + p
  BY <1>1, <1>3, <1>5, <1>6
<1>10. QED
  BY <1>5, <1>7, <1>8, <1>9

\* Ints that are a multiple of 2^w apart are the same.
LEMMA WrapIs ==
  ASSUME NEW x \in Int, NEW y \in Ints, NEW q \in Int, x = y + q * (2 * IntHalf)
  PROVE  Wrap(x) = y
<1>1. IntHalf \in Nat \ {0}
  BY PaceAssumption
<1>2. Wrap(x) \in Ints
  BY WrapFacts
<1>3. PICK k \in Int : x = Wrap(x) + k * (2 * IntHalf)
  BY WrapFacts
<1> DEFINE m == 2 * IntHalf
<1>4. m \in Nat /\ q - k \in Int
  BY <1>1
<1>5. (q - k) * m = Wrap(x) - y
  <2>1. (q - k) * m = q * m - k * m
    BY <1>1
  <2>2. q * m \in Int /\ k * m \in Int /\ y \in Int /\ Wrap(x) \in Int
    BY <1>1, <1>2 DEF Ints
  <2>3. x = y + q * m /\ x = Wrap(x) + k * m
    BY <1>3
  <2> DEFINE a == q * m
             b == k * m
  <2>4. a \in Int /\ b \in Int /\ x = y + a /\ x = Wrap(x) + b /\ (q - k) * m = a - b
    BY <2>1, <2>2, <2>3
  <2> HIDE DEF a, b
  <2>5. QED
    BY <2>2, <2>4
<1>6. -m < Wrap(x) - y /\ Wrap(x) - y < m
  BY <1>1, <1>2 DEF Ints
<1>7. q - k = 0
  <2> HIDE DEF m
  <2>1. QED
    BY <1>4, <1>5, <1>6, Multiples
<1>8. Wrap(x) - y = 0
  BY <1>1, <1>5, <1>7
<1>9. QED
  BY <1>2, <1>8 DEF Ints

\* The difference of two wrapped times is the time between them, when that is an int.
LEMMA DifferenceIs ==
  ASSUME NEW a \in Int, NEW b \in Int, a - b \in Ints
  PROVE  Difference(Wrap(a), Wrap(b)) = a - b
<1>1. IntHalf \in Nat \ {0}
  BY PaceAssumption
<1>2. PICK p \in Int : a = Wrap(a) + p * (2 * IntHalf)
  BY WrapFacts
<1>3. PICK q \in Int : b = Wrap(b) + q * (2 * IntHalf)
  BY WrapFacts
<1>4. Wrap(a) \in Int /\ Wrap(b) \in Int
  BY <1>1, WrapFacts DEF Ints
<1>5. Wrap(a) - Wrap(b) = (a - b) + (q - p) * (2 * IntHalf)
  <2>1. (q - p) * (2 * IntHalf) = q * (2 * IntHalf) - p * (2 * IntHalf)
    BY <1>1
  <2>2. p * (2 * IntHalf) \in Int /\ q * (2 * IntHalf) \in Int
    BY <1>1
  <2> DEFINE h == p * (2 * IntHalf)
             k == q * (2 * IntHalf)
  <2>3. /\ h \in Int /\ k \in Int /\ (q - p) * (2 * IntHalf) = k - h
        /\ a = Wrap(a) + h /\ b = Wrap(b) + k
    BY <1>2, <1>3, <2>1, <2>2
  <2> HIDE DEF h, k
  <2>4. QED
    BY <1>4, <2>3
<1>6. Wrap(a) - Wrap(b) \in Int /\ q - p \in Int
  BY <1>4
<1>7. QED
  BY <1>5, <1>6, WrapIs DEF Difference

\* An int is left as it is.
LEMMA WrapInt ==
  ASSUME NEW x \in Ints
  PROVE  Wrap(x) = x
<1>1. IntHalf \in Nat \ {0}
  BY PaceAssumption
<1>2. x \in Int /\ x = x + 0 * (2 * IntHalf)
  BY <1>1 DEF Ints
<1>3. QED
  BY <1>2, WrapIs

\* Where the sleeping thread wakes: at the end of its time where ticks are fine, up to
\* two ticks, less one millisecond each, early where they are not, never in the past, and
\* after a tick or more not in the present either.
LEMMA WakesInTime ==
  ASSUME TypeOK, NEW time \in Int
  PROVE  /\ Wakes(time) \in Nat /\ Wakes(time) >= now
         /\ Wakes(time) >= now + time - 2 * (tick - 1)
         /\ (Wakes(time) <= now \/ Wakes(time) <= now + time)
         /\ time >= tick => Wakes(time) > now
<1>1. tick \in Nat \ {0} /\ now \in Nat
  BY PaceAssumption DEF TypeOK
<1> DEFINE ticks == time \div tick
           rest == now \div tick
           a == ticks * tick
           b == rest * tick
<1>2. ticks \in Int /\ a <= time /\ time < a + tick /\ a \in Int
  BY <1>1, DivisionRest
<1>3. rest \in Int /\ b <= now /\ now < b + tick /\ b \in Int
  BY <1>1, DivisionRest
<1>4. (rest + ticks) * tick = b + a
  BY <1>1, <1>2, <1>3
<1>5. Wakes(time) = IF time <= 0 \/ ticks = 0 THEN now ELSE b + a
  BY <1>4 DEF Wakes
<1>6. ticks = 0 => a = 0
  BY <1>1
<1>7. time > 0 /\ ticks # 0 => a >= tick
  <2> SUFFICES ASSUME time > 0, ticks # 0 PROVE a >= tick
    OBVIOUS
  <2>1. ticks >= 1
    <3>1. ticks <= -1 => a <= -tick
      BY <1>1, <1>2
    <3>2. QED
      <4> HIDE DEF ticks, a
      <4>1. QED
        BY <1>1, <1>2, <3>1
  <2>2. QED
    BY <1>1, <1>2, <2>1
<1>b. time >= tick => ticks # 0
  BY <1>1, <1>2
<1> HIDE DEF ticks, rest, a, b
<1>8. CASE time <= 0
  BY <1>1, <1>5, <1>8
<1>9. CASE time > 0 /\ ticks = 0
  BY <1>1, <1>2, <1>5, <1>6, <1>9, <1>b
<1>10. CASE time > 0 /\ ticks # 0
  BY <1>1, <1>2, <1>3, <1>5, <1>7, <1>10
<1>11. QED
  BY <1>8, <1>9, <1>10

-----------------------------------------------------------------------------
(* The invariant.                                                          *)

\* At the head of the loop last is the time of the last call, which is long enough
\* ago for another one, and not so long that the difference wraps around.
AtHead ==
  /\ last = Wrap(started)
  /\ started <= now /\ now - started <= 2 * MaxDelay + Interval
  /\ ApartEnough(now - started)

\* From the call to the sleep start is the time of the call, a short while ago.
InCall ==
  /\ start = Wrap(started)
  /\ begun <= started /\ started <= now /\ now - started <= MaxDelay

PaceInv ==
  /\ TypeOK /\ TimeAddsUp
  /\ begun <= now
  /\ started < begun => started = begun - Interval
  /\ pc = "start" => AtHead
  /\ pc \in {"func", "sleep"} => InCall

\* The range of int covers whatever the loop takes the difference of.
LEMMA RangeFacts ==
  ASSUME TypeOK
  PROVE  /\ Interval \in Nat /\ MaxDelay \in Nat /\ IntHalf \in Nat
         /\ tick \in Nat /\ tick >= 1
         /\ 3 * MaxDelay + 2 * Interval + tick < IntHalf
BY PaceAssumption, RangeAssumption DEF TypeOK

\* The loop is entered as if it had been called one interval before.
LEMMA EntersLoop == Init => PaceInv
<1> SUFFICES ASSUME Init PROVE PaceInv
  OBVIOUS
<1>1. /\ now \in Nat /\ begun = now /\ started = now - Interval /\ started \in Int
      /\ tick \in TickLengths /\ pc = "start" /\ total = 0 /\ run = TRUE
      /\ start = 0 /\ delta_time = 0 /\ last = Wrap(Wrap(now) - Interval)
      /\ Interval \in Nat /\ IntHalf \in Nat \ {0} /\ MaxDelay \in Nat
      /\ tick \in Nat /\ tick >= 1
  BY PaceAssumption DEF Init
<1>2. 3 * MaxDelay + 2 * Interval + tick < IntHalf
  BY <1>1, RangeAssumption
<1>3. last = Wrap(started) /\ last \in Ints
  <2>0. now \in Int /\ started \in Int
    BY <1>1
  <2>1. Wrap(started) \in Ints /\ Wrap(now) \in Ints /\ Wrap(started) \in Int /\ Wrap(now) \in Int
    <3>1. Wrap(started) \in Ints /\ Wrap(now) \in Ints
      BY <2>0, WrapFacts
    <3>2. QED
      BY <1>1, <3>1 DEF Ints
  <2>2. PICK p \in Int : started = Wrap(started) + p * (2 * IntHalf)
    BY <2>0, WrapFacts
  <2>3. PICK q \in Int : now = Wrap(now) + q * (2 * IntHalf)
    BY <2>0, WrapFacts
  <2>4. Wrap(now) - Interval = Wrap(started) + (p - q) * (2 * IntHalf)
    <3>1. (p - q) * (2 * IntHalf) = p * (2 * IntHalf) - q * (2 * IntHalf)
      BY <1>1
    <3> DEFINE h == p * (2 * IntHalf)
               k == q * (2 * IntHalf)
    <3>2. /\ h \in Int /\ k \in Int /\ (p - q) * (2 * IntHalf) = h - k
          /\ started = Wrap(started) + h /\ now = Wrap(now) + k
      BY <1>1, <2>2, <2>3, <3>1
    <3> HIDE DEF h, k
    <3>3. started = now - Interval /\ Interval \in Int
      BY <1>1
    <3>4. QED
      BY <2>0, <2>1, <3>2, <3>3
  <2>5. Wrap(now) - Interval \in Int /\ p - q \in Int
    BY <1>1, <2>1
  <2>6. QED
    BY <1>1, <2>1, <2>4, <2>5, WrapIs
<1>4. TypeOK
  BY <1>1, <1>3 DEF TypeOK, Ints
<1>5. TimeAddsUp
  BY <1>1 DEF TimeAddsUp
<1>6. AtHead
  BY <1>1, <1>2, <1>3 DEF AtHead, ApartEnough
<1>7. QED
  BY <1>1, <1>4, <1>5, <1>6 DEF PaceInv

\* The loop calls func with the time since it did so last.
LEMMA CallKeeps ==
  ASSUME PaceInv, Call
  PROVE  PaceInv' /\ ApartEnough(started' - started)
<1>1. /\ now \in Nat /\ begun \in Nat /\ started \in Int /\ total \in Int
      /\ Interval \in Nat /\ MaxDelay \in Nat /\ IntHalf \in Nat
      /\ tick \in Nat /\ tick >= 1
      /\ 3 * MaxDelay + 2 * Interval + tick < IntHalf
  BY RangeFacts DEF PaceInv, TypeOK
<1>2. /\ last = Wrap(started) /\ started <= now /\ now - started <= 2 * MaxDelay + Interval
      /\ ApartEnough(now - started)
  BY DEF PaceInv, Call, AtHead
<1>3. /\ start' = Wrap(now) /\ delta_time' = Difference(Wrap(now), last)
      /\ total' = total + delta_time' /\ started' = now /\ pc' = "func"
      /\ UNCHANGED <<tick, run, last, begun>>
  BY DEF Call
<1>4. PICK d \in 0..MaxDelay : now' = now + d
  BY DEF Call, Passes
<1>5. now - started \in Ints
  BY <1>1, <1>2 DEF Ints
<1>6. Difference(Wrap(now), Wrap(started)) = now - started
  BY <1>1, <1>5, DifferenceIs
<1>7. delta_time' = now - started
  BY <1>2, <1>3, <1>6
<1>8. start' \in Ints
  BY <1>1, <1>3, WrapFacts
<1>9. TypeOK'
  BY <1>1, <1>3, <1>4, <1>5, <1>7, <1>8 DEF PaceInv, TypeOK
<1>10. begun <= now /\ (started < begun => started = begun - Interval)
  BY DEF PaceInv
<1>11. total' = now - begun + Interval
  <2>1. total = IF started < begun THEN 0 ELSE started - begun + Interval
    BY DEF PaceInv, TimeAddsUp
  <2>2. total' = total + (now - started)
    BY <1>3, <1>7
  <2>3. QED
    BY <1>1, <1>10, <2>1, <2>2
<1>12. TimeAddsUp'
  BY <1>1, <1>3, <1>10, <1>11 DEF TimeAddsUp
<1>13. InCall'
  BY <1>1, <1>3, <1>4, <1>10 DEF InCall
<1>14. (begun <= now)' /\ ~(started' < begun')
  BY <1>1, <1>3, <1>4, <1>10
<1>15. PaceInv'
  BY <1>3, <1>9, <1>12, <1>13, <1>14 DEF PaceInv
<1>16. QED
  BY <1>2, <1>3, <1>15

\* func returns at the time it was left at.
LEMMA ReturnKeeps ==
  ASSUME PaceInv, Return
  PROVE  PaceInv'
<1>1. TypeOK'
  BY DEF PaceInv, TypeOK, Return
<1>2. InCall'
  BY DEF PaceInv, Return, InCall
<1>3. TimeAddsUp'
  BY DEF PaceInv, TimeAddsUp, Return
<1>4. QED
  BY <1>1, <1>2, <1>3 DEF PaceInv, Return

\* The sleep takes the loop on to one interval after the call, or a little less.
LEMMA SleepKeeps ==
  ASSUME PaceInv, Sleep
  PROVE  PaceInv'
<1>1. /\ now \in Nat /\ begun \in Nat /\ started \in Int
      /\ Interval \in Nat /\ MaxDelay \in Nat /\ IntHalf \in Nat
      /\ tick \in Nat /\ tick >= 1
      /\ 3 * MaxDelay + 2 * Interval + tick < IntHalf
  BY RangeFacts DEF PaceInv, TypeOK
<1>2. /\ start = Wrap(started)
      /\ begun <= started /\ started <= now /\ now - started <= MaxDelay
  BY DEF PaceInv, Sleep, InCall
<1>3. /\ last' = start /\ pc' \in {"start", "returned"}
      /\ UNCHANGED <<tick, run, start, delta_time, begun, started, total>>
  BY DEF Sleep, LastCall
<1> DEFINE left == Interval - (now - started)
<1>4. TimeLeft = left
  <2>1. now - started \in Ints /\ left \in Ints
    BY <1>1, <1>2 DEF Ints
  <2>2. Difference(Wrap(now), Wrap(started)) = now - started
    BY <1>1, <2>1, DifferenceIs
  <2>3. Wrap(left) = left
    <3> HIDE DEF left
    <3>1. QED
      BY <2>1, WrapInt
  <2>4. QED
    BY <1>2, <2>2, <2>3 DEF TimeLeft
<1>5. left \in Int
  BY <1>1
<1> DEFINE wakes == Wakes(TimeLeft)
<1>6. /\ wakes \in Nat /\ wakes >= now
      /\ wakes >= now + left - 2 * (tick - 1)
      /\ (wakes <= now \/ wakes <= now + left)
      /\ left >= tick => wakes > now
  <2> HIDE DEF left
  <2>1. QED
    BY <1>4, <1>5, WakesInTime DEF PaceInv
<1>7. PICK d \in 0..MaxDelay : now' = wakes + d
  BY DEF Sleep, Passes
<1> HIDE DEF wakes
<1>8. now' \in Nat /\ now <= now'
  BY <1>1, <1>6, <1>7
<1>9. TypeOK'
  BY <1>3, <1>8 DEF PaceInv, TypeOK
<1>10. AtHead'
  <2>1. /\ started <= now' /\ now' - started <= 2 * MaxDelay + Interval
        /\ now' - started >= Interval - 2 * (tick - 1)
    BY <1>1, <1>2, <1>6, <1>7
  <2>2. ApartEnough(now' - started)
    <3>1. CASE left >= tick
      BY <1>1, <1>2, <1>6, <1>7, <2>1, <3>1 DEF ApartEnough
    <3>2. CASE left < tick
      <4>1. tick <= Interval => now > started
        BY <1>1, <3>2
      <4>2. QED
        BY <1>1, <1>6, <1>7, <2>1, <4>1 DEF ApartEnough
    <3>3. left \in Int /\ tick \in Int
      BY <1>1
    <3> HIDE DEF left
    <3>4. QED
      BY <3>1, <3>2, <3>3
  <2>3. QED
    BY <1>2, <1>3, <2>1, <2>2 DEF AtHead, ApartEnough
<1>11. TimeAddsUp'
  BY <1>3 DEF PaceInv, TimeAddsUp
<1>12. (begun <= now)' /\ (started < begun => started = begun - Interval)'
  BY <1>1, <1>2, <1>3, <1>8 DEF PaceInv
<1>13. QED
  BY <1>3, <1>9, <1>10, <1>11, <1>12 DEF PaceInv

\* Every step keeps the invariant.
LEMMA StepKeeps ==
  ASSUME PaceInv, [Next]_vars
  PROVE  PaceInv'
<1>1. CASE Call
  BY <1>1, CallKeeps
<1>2. CASE Return
  BY <1>2, ReturnKeeps
<1>3. CASE Sleep
  BY <1>3, SleepKeeps
<1>4. CASE UNCHANGED vars
  BY <1>4 DEF vars, PaceInv, TypeOK, TimeAddsUp, AtHead, InCall, ApartEnough
<1>5. QED
  BY <1>1, <1>2, <1>3, <1>4 DEF Next

-----------------------------------------------------------------------------
(* The theorems.                                                           *)

\* Every reachable state is in the invariant.
LEMMA AlwaysInPace == Spec => []PaceInv
BY EntersLoop, StepKeeps, PTL DEF Spec

\* TypeOK of RunEvery: what it keeps as ints are ints.
THEOREM TypeCorrect == Spec => []TypeOK
<1>1. PaceInv => TypeOK
  BY DEF PaceInv
<1>2. QED
  BY <1>1, AlwaysInPace, PTL

\* TimeAddsUp of RunEvery: the delta times func is called with add up to the time that
\* passed, however often the clock wraps around and however late the loop is woken.
THEOREM NoTimeLost == Spec => []TimeAddsUp
<1>1. PaceInv => TimeAddsUp
  BY DEF PaceInv
<1>2. QED
  BY <1>1, AlwaysInPace, PTL

\* NeverTooSoon of RunEvery: two calls are an interval apart, less at most two ticks
\* where sleeps end on a tick, and never at the same time unless a tick is longer than
\* the interval.
THEOREM KeepsItsPace == Spec => NeverTooSoon
<1>1. ASSUME PaceInv, [Next]_vars, pc = "start", pc' = "func"
      PROVE  ApartEnough(started' - started)
  <2>1. Call
    BY <1>1 DEF Next, Return, Sleep, vars
  <2>2. QED
    BY <1>1, <2>1, CallKeeps
<1>2. PaceInv /\ [Next]_vars =>
        [pc = "start" /\ pc' = "func" => ApartEnough(started' - started)]_vars
  BY <1>1
<1>3. QED
  BY <1>2, AlwaysInPace, PTL DEF Spec, NeverTooSoon
=============================================================================
