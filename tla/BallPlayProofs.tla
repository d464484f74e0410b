---------------------------- MODULE BallPlayProofs ----------------------------
(***************************************************************************)
(* What holds of the packets and of the game they carry, in a field of any *)
(* size and with bytes and ints of any width:                              *)
(*                                                                         *)
(*   - what packet_serialize writes, packet_deserialize reads              *)
(*     (PacketsSurvive), from the digits of a number up to the fields of a *)
(*     packet;                                                             *)
(*   - ball_advance returns a ball, whatever it bounces off (AdvanceType), *)
(*     and so BallPlay keeps its types (TypeCorrect);                      *)
(*   - the client has what the server had (ClientInStep);                  *)
(*   - no ball gets through the front of a paddle (PointsEarned), from the *)
(*     times of collision and the turns of ball_advance up to the course   *)
(*     that a tick leaves the ball on (TickCourse);                        *)
(*   - a ball in play stays in play or scores (InPlayOrScored), unless it  *)
(*     bounces twice in one tick, or in a corner of a paddle and a wall.   *)
(***************************************************************************)
EXTENDS BallPlay, SequenceFacts, TLAPS

Unfolds(f, n, e, next) ==
  f[0] = e /\ \A i \in 0..n, j \in 1..n : j = i + 1 => f[j] = next[j][f[i]]

\* A function that is defined by recursion over 0..n exists, when each step stays in a set.
LEMMA Recursion ==
  ASSUME NEW S, NEW n \in Nat, NEW e \in S, NEW next \in [1..n -> [S -> S]]
  PROVE  \E f \in [0..n -> S] : Unfolds(f, n, e, next)
<1> DEFINE Upto(m) == \E f \in [0..n -> S] :
             f[0] = e /\ \A i \in 0..n, j \in 1..n : j = i + 1 /\ j <= m => f[j] = next[j][f[i]]
           T == {m \in Nat : Upto(m)}
<1>1. 0 \in T
  <2>1. PICK f : f = [i \in 0..n |-> e]
    OBVIOUS
  <2>2. f \in [0..n -> S] /\ f[0] = e
    BY <2>1
  <2>3. \A j \in 1..n : ~(j <= 0)
    OBVIOUS
  <2>4. Upto(0)
    BY <2>2, <2>3
  <2>5. QED
    BY <2>4
<1>2. ASSUME NEW m \in T, NEW k \in Nat, k = m + 1 PROVE k \in T
  <2>1. PICK f \in [0..n -> S] :
          f[0] = e /\ \A i \in 0..n, j \in 1..n : j = i + 1 /\ j <= m => f[j] = next[j][f[i]]
    OBVIOUS
  <2>2. CASE k \in 1..n
    <3> DEFINE g == [i \in 0..n |-> IF i = k THEN next[k][f[m]] ELSE f[i]]
    <3>1. m \in 0..n /\ next[k][f[m]] \in S
      BY <1>2, <2>2
    <3>2. /\ g \in [0..n -> S] /\ g[k] = next[k][f[m]]
          /\ \A i \in 0..n : i # k => g[i] = f[i]
      BY <2>2, <3>1
    <3> HIDE DEF g
    <3>3. g[0] = e
      BY <2>1, <2>2, <3>2
    <3>4. ASSUME NEW i \in 0..n, NEW j \in 1..n, j = i + 1, j <= k
          PROVE  g[j] = next[j][g[i]]
      <4>1. i # k
        BY <3>4
      <4>2. CASE j = k
        <5>1. i = m
          BY <1>2, <3>4, <4>2
        <5>2. QED
          BY <3>2, <4>1, <4>2, <5>1
      <4>3. CASE j # k
        <5>1. j <= m /\ j \in 0..n
          BY <1>2, <3>4, <4>3
        <5>2. f[j] = next[j][f[i]]
          BY <2>1, <3>4, <5>1
        <5>3. QED
          BY <3>2, <4>1, <4>3, <5>1, <5>2
      <4>4. QED
        BY <4>2, <4>3
    <3>5. g \in [0..n -> S] /\ g[0] = e
      BY <3>2, <3>3, Zenon
    <3>6. \A i \in 0..n, j \in 1..n : j = i + 1 /\ j <= k => g[j] = next[j][g[i]]
      BY <3>4, Zenon
    <3>7. QED
      BY <3>5, <3>6, Zenon
  <2>3. CASE k \notin 1..n
    <3>1. \A j \in 1..n : j <= k => j <= m
      BY <1>2, <2>3
    <3>2. \A i \in 0..n, j \in 1..n : j = i + 1 /\ j <= k => f[j] = next[j][f[i]]
      BY <2>1, <3>1, Zenon
    <3>3. QED
      BY <2>1, <3>2, Zenon
  <2>4. QED
    BY <2>2, <2>3
<1>3. T = Nat
  <2>1. T \in SUBSET Nat
    OBVIOUS
  <2> HIDE DEF T
  <2>2. QED
    BY <1>1, <1>2, <2>1, SetInduction
<1>4. Upto(n)
  <2>1. n \in T
    BY <1>3
  <2>2. QED
    BY <2>1
<1>5. PICK f \in [0..n -> S] :
        f[0] = e /\ \A i \in 0..n, j \in 1..n : j = i + 1 /\ j <= n => f[j] = next[j][f[i]]
  BY <1>4
<1>6. \A j \in 1..n : j <= n
  OBVIOUS
<1>7. QED
  BY <1>5, <1>6 DEF Unfolds

\* Power, defined by recursion, is what it says: each power is positive and ByteBase times
\* the one before it.
LEMMA PowerIs ==
  /\ \A i \in 0..IntBytes : Power[i] \in Nat /\ Power[i] > 0
  /\ Power[0] = 1
  /\ \A i \in 0..IntBytes, j \in 1..IntBytes : j = i + 1 => Power[j] = ByteBase * Power[i]
<1> DEFINE Def(f) == f = [n \in 0..IntBytes |-> IF n = 0 THEN 1 ELSE ByteBase * f[n - 1]]
<1>0. IntBytes \in Nat /\ ByteBase \in Nat
  BY WidthAssumption
<1>1. PICK next : next = [i \in 1..IntBytes |-> [x \in Nat |-> ByteBase * x]]
  OBVIOUS
<1>2. next \in [1..IntBytes -> [Nat -> Nat]]
  BY <1>0, <1>1
<1>3. 1 \in Nat
  OBVIOUS
<1>4. PICK f \in [0..IntBytes -> Nat] : Unfolds(f, IntBytes, 1, next)
  BY <1>0, <1>2, <1>3, Recursion, Zenon
<1>5. Def(f)
  <2>1. f[0] = 1 /\ \A i \in 0..IntBytes, j \in 1..IntBytes : j = i + 1 => f[j] = ByteBase * f[i]
    BY <1>1, <1>4 DEF Unfolds
  <2>2. ASSUME NEW n \in 0..IntBytes PROVE f[n] = IF n = 0 THEN 1 ELSE ByteBase * f[n - 1]
    BY <2>1, <1>0
  <2>3. QED
    BY <2>2
<1>6. Def(Power)
  <2>1. Power = CHOOSE p : Def(p)
    BY Zenon DEF Power
  <2> HIDE DEF Def
  <2>2. QED
    BY <1>5, <2>1, Zenon
<1>7. /\ Power[0] = 1
      /\ \A i \in 0..IntBytes, j \in 1..IntBytes : j = i + 1 => Power[j] = ByteBase * Power[i]
  <2>1. \A n \in 0..IntBytes : Power[n] = IF n = 0 THEN 1 ELSE ByteBase * Power[n - 1]
    BY <1>6, Zenon
  <2>2. QED
    BY <1>0, <2>1
<1> DEFINE Typed(m) == \A i \in 0..IntBytes : i = m => Power[i] \in Nat /\ Power[i] > 0
           T == {m \in Nat : Typed(m)}
<1>8. T = Nat
  <2>1. Typed(0)
    BY <1>7
  <2>2. ASSUME NEW m \in Nat, Typed(m), NEW k \in Nat, k = m + 1 PROVE Typed(k)
    <3> SUFFICES ASSUME NEW j \in 0..IntBytes, j = k PROVE Power[j] \in Nat /\ Power[j] > 0
      OBVIOUS
    <3>1. m \in 0..IntBytes /\ j \in 1..IntBytes /\ j = m + 1
      BY <2>2, <1>0
    <3>2. PICK p \in Nat : p = Power[m] /\ p > 0 /\ Power[j] = ByteBase * p
      BY <1>7, <2>2, <3>1
    <3>3. ByteBase * p \in Nat /\ ByteBase * p > 0
      BY <3>2, WidthAssumption
    <3>4. QED
      BY <3>2, <3>3
  <2> HIDE DEF Typed
  <2>3. T \in SUBSET Nat /\ 0 \in T /\ \A m \in T, k \in Nat : k = m + 1 => k \in T
    BY <2>1, <2>2
  <2> HIDE DEF T
  <2>4. QED
    BY <2>3, SetInduction
<1>9. ASSUME NEW i \in 0..IntBytes PROVE Power[i] \in Nat /\ Power[i] > 0
  <2>1. i \in T
    <3> HIDE DEF T
    <3> QED
      BY <1>0, <1>8
  <2>2. QED
    BY <2>1, Zenon
<1>10. QED
  BY <1>7, <1>9

\* Quotient and remainder, and that nothing else is.
LEMMA Division ==
  ASSUME NEW u \in Int, NEW a \in Nat, a > 0
  PROVE  /\ u \div a \in Int /\ u % a \in Nat /\ u % a < a
         /\ u = a * (u \div a) + (u % a)
OBVIOUS

\* The quotient of a natural number is one.
LEMMA DivisionNat ==
  ASSUME NEW u \in Nat, NEW a \in Nat, a > 0
  PROVE  u \div a \in Nat
<1>1. PICK q \in Int, r \in Nat : q = u \div a /\ r = u % a /\ r < a /\ u = a * q + r
  BY Division
<1>2. ASSUME q < 0 PROVE FALSE
  <2>1. q <= -1 
    BY <1>2
  <2>2. a * q <= a * (-1)
    BY <2>1
  <2>3. QED
    BY <1>1, <2>2
<1>3. QED
  BY <1>1, <1>2

\* There is one way only to write a number as a multiple and a rest below the divisor.
LEMMA DivisionUnique ==
  ASSUME NEW u \in Int, NEW a \in Nat, a > 0, NEW q \in Int, NEW r \in Nat, r < a, u = a * q + r
  PROVE  u \div a = q /\ u % a = r
<1>1. PICK p \in Int, s \in Nat : p = u \div a /\ s = u % a /\ s < a /\ u = a * p + s
  BY Division
<1>2. ASSUME p < q PROVE FALSE
  <2>1. PICK d \in Int : d >= 1 /\ q = p + d
    <3>1. q - p \in Int /\ q - p >= 1 /\ q = p + (q - p)
      BY <1>2
    <3>2. QED
      BY <3>1
  <2>2. a * q = a * p + a * d /\ a * d >= a
    BY <2>1
  <2>3. QED
    BY <1>1, <2>2
<1>3. ASSUME q < p PROVE FALSE
  <2>1. PICK d \in Int : d >= 1 /\ p = q + d
    <3>1. p - q \in Int /\ p - q >= 1 /\ p = q + (p - q)
      BY <1>3
    <3>2. QED
      BY <3>1
  <2>2. a * p = a * q + a * d /\ a * d >= a
    BY <2>1
  <2>3. QED
    BY <1>1, <2>2
<1>4. QED
  BY <1>1, <1>2, <1>3

\* A number modulo b * a is its last digits, modulo a, and one digit more.
LEMMA OneMoreDigit ==
  ASSUME NEW u \in Nat, NEW a \in Nat, a > 0, NEW b \in Nat, b > 0, NEW c \in Nat, c = b * a
  PROVE  u % c = (u % a) + ((u \div a) % b) * a
<1>1. PICK q \in Nat, r \in Nat : q = u \div a /\ r = u % a /\ r < a /\ u = a * q + r
  BY Division, DivisionNat
<1>2. PICK p \in Int, s \in Nat : p = q \div b /\ s = q % b /\ s < b /\ q = b * p + s
  BY Division
<1>3. c > 0
  OBVIOUS
<1>4. u = c * p + (s * a + r)
  <2>1. a * q = a * (b * p) + a * s
    BY <1>2
  <2>2. a * (b * p) = c * p
    OBVIOUS
  <2>3. QED
    BY <1>1, <2>1, <2>2
<1>5. s * a + r \in Nat /\ s * a + r < c
  <2>1. s + 1 <= b
    BY <1>2
  <2>2. (s + 1) * a <= b * a
    BY <2>1
  <2>3. (s + 1) * a = s * a + a /\ s * a \in Nat
    OBVIOUS
  <2>4. QED
    BY <1>1, <2>2, <2>3
<1>6. PICK t \in Nat : t = s * a + r
  BY <1>5
<1>7. u % c = t
  <2>1. u \in Int /\ t < c /\ u = c * p + t
    BY <1>4, <1>5, <1>6
  <2>2. QED
    <3>1. p \in Int /\ t \in Nat
      BY <1>2, <1>6
    <3>2. QED
      BY <1>3, <2>1, <3>1, DivisionUnique, Zenon
<1>8. QED
  BY <1>1, <1>2, <1>6, <1>7

\* The number that n bytes of value u stand for, in two's complement.
Wrap(u, n) == IF 2 * u >= Power[n] THEN u - Power[n] ELSE u

\* The n bytes of u.
AreDigits(bytes, u, n) ==
  \A i \in 0..n, j \in 1..n : j = i + 1 => bytes[j] = (u \div Power[i]) % ByteBase

\* FromBytes puts n digits together again, and takes the upper half of the numbers for
\* negative ones.
LEMMA FromDigits ==
  ASSUME NEW bytes, NEW n \in 1..IntBytes, Len(bytes) = n,
         NEW u \in Nat, u < Power[n], AreDigits(bytes, u, n)
  PROVE  FromBytes(bytes) = Wrap(u, n)
<1> DEFINE Def(f) == f = [i \in 0..Len(bytes) |->
                            IF i = 0 THEN 0 ELSE f[i - 1] + bytes[i] * Power[i - 1]]
           sum == CHOOSE f : Def(f)
           g == [i \in 0..n |-> u % Power[i]]
<1>0. /\ IntBytes \in Nat /\ ByteBase \in Nat /\ ByteBase > 0 /\ n \in Nat
      /\ 0..n \subseteq 0..IntBytes /\ 1..n \subseteq 1..IntBytes
  BY WidthAssumption
<1>1. /\ g[0] = 0
      /\ \A i \in 0..n, j \in 1..n : j = i + 1 => g[j] = g[i] + bytes[j] * Power[i]
  <2>1. g[0] = 0
    <3>1. Power[0] = 1 /\ 0 \in 0..n
      BY <1>0, PowerIs
    <3>2. u % 1 = 0
      OBVIOUS
    <3>3. QED
      BY <3>1, <3>2
  <2>2. ASSUME NEW i \in 0..n, NEW j \in 1..n, j = i + 1
        PROVE  g[j] = g[i] + bytes[j] * Power[i]
    <3>1. PICK a \in Nat, c \in Nat : a = Power[i] /\ a > 0 /\ c = Power[j] /\ c = ByteBase * a
      <4>1. i \in 0..IntBytes /\ j \in 1..IntBytes /\ j \in 0..IntBytes
        BY <1>0
      <4>2. Power[i] \in Nat /\ Power[i] > 0 /\ Power[j] \in Nat /\ Power[j] = ByteBase * Power[i]
        BY <2>2, <4>1, PowerIs, Zenon
      <4>3. QED
        BY <4>2, Zenon
    <3>2. u % c = (u % a) + ((u \div a) % ByteBase) * a
      <4>1. ByteBase \in Nat /\ ByteBase > 0 /\ a > 0 /\ c = ByteBase * a
        BY <1>0, <3>1
      <4>2. QED
        BY <4>1, OneMoreDigit
    <3>3. bytes[j] = (u \div a) % ByteBase
      BY <2>2, <3>1 DEF AreDigits
    <3>4. g[j] = u % c /\ g[i] = u % a
      <4>1. j \in 0..n
        BY <1>0
      <4>2. QED
        BY <3>1, <4>1, Zenon
    <3>5. QED
      BY <3>1, <3>2, <3>3, <3>4, Zenon
  <2>3. QED
    BY <2>1, <2>2
<1>2. Def(g)
  <2>1. ASSUME NEW i \in 0..n PROVE g[i] = IF i = 0 THEN 0 ELSE g[i - 1] + bytes[i] * Power[i - 1]
    <3> HIDE DEF g
    <3>1. CASE i = 0
      BY <1>1, <3>1
    <3>2. CASE i # 0
      <4>1. PICK h \in 0..n : h = i - 1 /\ i = h + 1 /\ i \in 1..n
        BY <1>0, <3>2
      <4>2. QED
        BY <1>1, <3>2, <4>1, Zenon
    <3>3. QED
      BY <3>1, <3>2
  <2>2. g = [i \in 0..n |-> IF i = 0 THEN 0 ELSE g[i - 1] + bytes[i] * Power[i - 1]]
    <3>1. g = [i \in 0..n |-> g[i]]
      OBVIOUS
    <3> HIDE DEF g
    <3>2. QED
      BY <2>1, <3>1, Zenon
  <2>3. QED
    BY <2>2, Zenon
<1>3. Def(sum)
  <2> HIDE DEF Def, g
  <2> QED
    BY <1>2, Zenon
<1>4. /\ sum[0] = 0
      /\ \A i \in 0..n, j \in 1..n : j = i + 1 => sum[j] = sum[i] + bytes[j] * Power[i]
  <2> HIDE DEF sum
  <2>1. \A i \in 0..n : sum[i] = IF i = 0 THEN 0 ELSE sum[i - 1] + bytes[i] * Power[i - 1]
    BY <1>3, Zenon
  <2>2. QED
    BY <1>0, <2>1
<1> DEFINE Agree(m) == \A i \in 0..n : i = m => sum[i] = g[i]
           T == {m \in Nat : Agree(m)}
<1>5. T = Nat
  <2> HIDE DEF sum, g, Def
  <2>1. Agree(0)
    BY <1>1, <1>4
  <2>2. ASSUME NEW m \in Nat, Agree(m), NEW k \in Nat, k = m + 1 PROVE Agree(k)
    <3> SUFFICES ASSUME NEW j \in 0..n, j = k PROVE sum[j] = g[j]
      OBVIOUS
    <3>1. m \in 0..n /\ j \in 1..n /\ j = m + 1
      BY <1>0, <2>2
    <3>2. sum[m] = g[m]
      BY <2>2, <3>1
    <3>3. QED
      <4>1. g[j] = g[m] + bytes[j] * Power[m]
        BY <1>1, <3>1, Zenon
      <4>2. sum[j] = sum[m] + bytes[j] * Power[m]
        BY <1>4, <3>1, Zenon
      <4>3. QED
        BY <3>2, <4>1, <4>2, Zenon
  <2> HIDE DEF Agree
  <2>3. T \in SUBSET Nat /\ 0 \in T /\ \A m \in T, k \in Nat : k = m + 1 => k \in T
    BY <2>1, <2>2
  <2> HIDE DEF T
  <2>4. QED
    BY <2>3, SetInduction
<1>6. sum[n] = u
  <2>1. n \in T /\ n \in 0..n
    <3> HIDE DEF T
    <3> QED
      BY <1>0, <1>5
  <2>2. sum[n] = g[n]
    <3> HIDE DEF sum, g
    <3> QED
      BY <2>1, Zenon
  <2>3. g[n] = u % Power[n]
    BY <2>1
  <2>4. PICK p \in Nat : p = Power[n] /\ p > 0 /\ u < p
    BY <1>0, PowerIs
  <2>5. u \in Int /\ 0 \in Int /\ u = p * 0 + u
    BY <2>4
  <2>6. u % p = u
    BY <2>4, <2>5, DivisionUnique, Zenon
  <2>7. QED
    BY <2>2, <2>3, <2>4, <2>6, Zenon
<1>7. FromBytes(bytes) =
        IF 2 * sum[Len(bytes)] >= Power[Len(bytes)] THEN sum[Len(bytes)] - Power[Len(bytes)]
        ELSE sum[Len(bytes)]
  BY Zenon DEF FromBytes
<1>8. QED
  <2> HIDE DEF sum
  <2> QED
    BY <1>6, <1>7, Zenon DEF Wrap

\* ToBytes makes n bytes, the digits of the value modulo what n bytes can tell apart.
LEMMA DigitsOf ==
  ASSUME NEW value \in Int, NEW n \in 1..IntBytes
  PROVE  /\ ToBytes(value, n) \in Seq(Bytes) /\ Len(ToBytes(value, n)) = n
         /\ value % Power[n] \in Nat /\ value % Power[n] < Power[n]
         /\ AreDigits(ToBytes(value, n), value % Power[n], n)
<1>0. /\ IntBytes \in Nat /\ ByteBase \in Nat /\ ByteBase > 0 /\ n \in Nat /\ n \in 0..IntBytes
      /\ 0..n \subseteq 0..IntBytes /\ 1..n \subseteq 1..IntBytes
  BY WidthAssumption
<1>1. PICK u \in Nat : u = value % Power[n] /\ u < Power[n] /\ Power[n] \in Nat
  BY <1>0, PowerIs, Division
<1>2. ASSUME NEW i \in 1..n PROVE (u \div Power[i - 1]) % ByteBase \in Bytes
  <2>1. PICK a \in Nat : a = Power[i - 1] /\ a > 0
    BY <1>0, PowerIs
  <2>2. u \div a \in Int
    BY <2>1, Division
  <2>3. (u \div a) % ByteBase \in Nat /\ (u \div a) % ByteBase < ByteBase
    BY <1>0, <2>2, Division
  <2>4. QED
    BY <1>0, <2>1, <2>3 DEF Bytes
<1>3. PICK s : s = [i \in 1..n |-> (u \div Power[i - 1]) % ByteBase]
  OBVIOUS
<1>4. ToBytes(value, n) = s
  BY <1>1, <1>3, Zenon DEF ToBytes
<1>5. s \in [1..n -> Bytes] /\ s \in Seq(Bytes) /\ Len(s) = n
  BY <1>0, <1>2, <1>3
<1>6. AreDigits(s, u, n)
  BY <1>0, <1>3 DEF AreDigits
<1>7. QED
  BY <1>1, <1>4, <1>5, <1>6, Zenon

\* What ToBytes wrote and FromBytes reads is the value, wrapped around to n bytes.
LEMMA BytesBack ==
  ASSUME NEW value \in Int, NEW n \in 1..IntBytes
  PROVE  FromBytes(ToBytes(value, n)) = Wrap(value % Power[n], n)
BY DigitsOf, FromDigits

\* A value that n bytes hold is not wrapped around.
LEMMA WrapFits ==
  ASSUME NEW value \in Int, NEW n \in 1..IntBytes
  PROVE  /\ Wrap(value % Power[n], n) \in Int
         /\ Fits(value, n) => Wrap(value % Power[n], n) = value
<1>1. PICK p \in Nat : p = Power[n] /\ p > 0
  BY PowerIs, WidthAssumption
<1>2. PICK q \in Int, r \in Nat : q = value \div p /\ r = value % p /\ r < p /\ value = p * q + r
  BY <1>1, Division
<1>3. Wrap(value % Power[n], n) = IF 2 * r >= p THEN r - p ELSE r
  BY <1>1, <1>2 DEF Wrap
<1>4. ASSUME Fits(value, n) PROVE Wrap(value % Power[n], n) = value
  <2>1. -p <= 2 * value /\ 2 * value < p
    BY <1>1, <1>4 DEF Fits
  <2>2. CASE value >= 0
    <3>1. value \in Nat /\ 0 \in Int /\ value < p /\ value = p * 0 + value
      BY <1>1, <2>1, <2>2
    <3>2. value % p = value
      BY <1>1, <3>1, DivisionUnique, Zenon
    <3>3. QED
      BY <1>1, <1>2, <1>3, <2>1, <3>2
  <2>3. CASE value < 0
    <3>1. PICK s \in Nat : s = value + p /\ s < p /\ value = p * (-1) + s
      BY <1>1, <2>1, <2>3
    <3>2. value % p = s
      <4>1. -1 \in Int
        OBVIOUS
      <4>2. QED
        BY <1>1, <3>1, <4>1, DivisionUnique, Zenon
    <3>3. QED
      BY <1>1, <1>2, <1>3, <2>1, <3>1, <3>2
  <2>4. QED
    BY <2>2, <2>3
<1>5. QED
  BY <1>1, <1>3, <1>4

\* The elements m + 1 to n of a sequence.
LEMMA PartFacts ==
  ASSUME NEW S, NEW s \in Seq(S), NEW m \in Nat, NEW n \in Nat, m <= n, n <= Len(s)
  PROVE  /\ SubSeq(s, m + 1, n) \in Seq(S) /\ Len(SubSeq(s, m + 1, n)) = n - m
         /\ \A j \in 1..(n - m) : SubSeq(s, m + 1, n)[j] = s[m + j]
<1>1. \A i \in (m + 1)..n : s[i] \in S
  BY ElementOfSeq, LenProperties
<1>2. m + 1 \in Int /\ n \in Int
  OBVIOUS
<1>3. /\ SubSeq(s, m + 1, n) \in Seq(S)
      /\ Len(SubSeq(s, m + 1, n)) = IF m + 1 <= n THEN n - (m + 1) + 1 ELSE 0
      /\ \A i \in 1..(n - (m + 1) + 1) : SubSeq(s, m + 1, n)[i] = s[m + 1 + i - 1]
  BY <1>1, <1>2, SubSeqProperties
<1>4. \A i \in 1..(n - m) : i \in 1..(n - (m + 1) + 1) /\ m + 1 + i - 1 = m + i
  OBVIOUS
<1>5. (IF m + 1 <= n THEN n - (m + 1) + 1 ELSE 0) = n - m
  OBVIOUS
<1>6. ASSUME NEW j \in 1..(n - m) PROVE SubSeq(s, m + 1, n)[j] = s[m + j]
  <2>1. j \in 1..(n - (m + 1) + 1) /\ m + 1 + j - 1 = m + j
    BY <1>4
  <2>2. QED
    BY <1>3, <2>1, Zenon
<1>7. Len(SubSeq(s, m + 1, n)) = n - m
  BY <1>3, <1>5
<1>8. QED
  BY <1>3, <1>6, <1>7, Zenon

\* s is what c has behind its first i elements.
Has(c, i, s) == \A j \in 1..Len(s) : c[i + j] = s[j]
\* What two sequences, one behind the other, have where.
LEMMA CatElements ==
  \A S : \A a, b \in Seq(S) :
    /\ Cat(a, b) \in Seq(S) /\ Len(a) \in Nat /\ Len(b) \in Nat
    /\ Len(Cat(a, b)) = Len(a) + Len(b)
    /\ \A j \in 1..Len(a) : Cat(a, b)[j] = a[j]
    /\ Has(Cat(a, b), Len(a), b)
BY ConcatProperties, LenProperties DEF Cat, Has

\* What three sequences, one behind the other, have where.
LEMMA CatThree ==
  ASSUME NEW S, NEW a \in Seq(S), NEW b \in Seq(S), NEW c \in Seq(S)
  PROVE  LET d == Cat(Cat(a, b), c) IN
         /\ d \in Seq(S) /\ Len(d) = Len(a) + Len(b) + Len(c)
         /\ \A j \in 1..Len(a) : d[j] = a[j]
         /\ Has(d, Len(a), b)
         /\ Has(d, Len(a) + Len(b), c)
<1>1. /\ Cat(a, b) \in Seq(S) /\ Len(a) \in Nat /\ Len(b) \in Nat
      /\ Len(Cat(a, b)) = Len(a) + Len(b)
      /\ \A j \in 1..Len(a) : Cat(a, b)[j] = a[j]
      /\ Has(Cat(a, b), Len(a), b)
  BY CatElements, Zenon
<1>3. \A j \in 1..Len(a) : j \in 1..Len(Cat(a, b))
  BY <1>1
<1>4. \A j \in 1..Len(b) : Len(a) + j \in 1..Len(Cat(a, b))
  BY <1>1
<1>5. /\ Cat(Cat(a, b), c) \in Seq(S)
      /\ Len(Cat(Cat(a, b), c)) = Len(Cat(a, b)) + Len(c)
      /\ \A j \in 1..Len(Cat(a, b)) : Cat(Cat(a, b), c)[j] = Cat(a, b)[j]
      /\ Has(Cat(Cat(a, b), c), Len(Cat(a, b)), c)
  BY <1>1, CatElements, Zenon
<1>6. \A j \in 1..Len(a) : Cat(Cat(a, b), c)[j] = a[j]
  BY <1>1, <1>3, <1>5, Zenon
<1>7. Has(Cat(Cat(a, b), c), Len(a), b)
  BY <1>1, <1>4, <1>5, Zenon DEF Has
<1>8. Has(Cat(Cat(a, b), c), Len(a) + Len(b), c)
  BY <1>1, <1>5, Zenon
<1>9. Len(Cat(Cat(a, b), c)) = Len(a) + Len(b) + Len(c)
  BY <1>1, <1>5, Zenon
<1>10. QED
  BY <1>5, <1>6, <1>7, <1>8, <1>9, Zenon

\* The array behind whose last byte the next one is written.
Whole(b) == [buf |-> b, size |-> Len(b), index |-> Len(b)]

\* Writing at the end of a binarr puts the bytes behind those it has.
LEMMA AppendBehind ==
  ASSUME NEW b \in Seq(Bytes), NEW bytes \in Seq(Bytes), NEW size
  PROVE  Appended(Write([buf |-> b, size |-> size, index |-> Len(b)], bytes))
           = Whole(Cat(b, bytes))
<1>1. Len(b) \in Nat /\ Len(bytes) \in Nat
  BY LenProperties
<1>2. SubSeq(b, 1, Len(b)) = b
  BY SubSeqFull
<1>3. SubSeq(b, Len(b) + Len(bytes) + 1, Len(b)) = <<>>
  <2>1. PICK m \in Int : m = Len(b) + Len(bytes) + 1 /\ Len(b) < m
    BY <1>1
  <2>2. PICK n \in Int : n = Len(b)
    BY <1>1
  <2>3. SubSeq(b, m, n) = <<>>
    BY <2>1, <2>2, SubSeqEmpty
  <2>4. QED
    BY <2>1, <2>2, <2>3, Zenon
<1>4. b \o bytes \o <<>> = b \o bytes
  BY ConcatProperties, ConcatEmptySeq
<1>5. Len(b \o bytes) = Len(b) + Len(bytes)
  BY ConcatProperties
<1>6. SubSeq(b, 1, Len(b)) \o bytes \o SubSeq(b, Len(b) + Len(bytes) + 1, Len(b)) = Cat(b, bytes)
  BY <1>2, <1>3, <1>4, Zenon DEF Cat
<1>7. Len(Cat(b, bytes)) = Len(b) + Len(bytes)
  BY <1>5, Zenon DEF Cat
<1> DEFINE arr == [buf |-> b, size |-> size, index |-> Len(b)]
<1>8. arr.buf = b /\ arr.index = Len(b)
  OBVIOUS
<1>9. Write(arr, bytes) = [buf |-> Cat(b, bytes), size |-> size, index |-> Len(b) + Len(bytes)]
  <2>1. PICK c : c = Cat(b, bytes)
    OBVIOUS
  <2>2. Write(arr, bytes) = [arr EXCEPT !.buf = c, !.index = Len(b) + Len(bytes)]
    BY <1>6, <1>8, <2>1, Zenon DEF Write
  <2>3. QED
    BY <2>1, <2>2
<1>10. QED
  <2>1. PICK c, n : c = Cat(b, bytes) /\ n = Len(b) + Len(bytes) /\ Len(c) = n
    BY <1>7
  <2>2. Write(arr, bytes) = [buf |-> c, size |-> size, index |-> n]
    BY <1>9, <2>1, Zenon
  <2>3. PICK w : w = Write(arr, bytes)
    OBVIOUS
  <2>4. Appended(w) = [buf |-> c, size |-> n, index |-> n]
    BY <2>2, <2>3 DEF Appended
  <2>5. QED
    BY <2>1, <2>3, <2>4, Zenon DEF Whole

\* c is b with bytes written over what followed its first i.
Overwritten(c, b, i, bytes) ==
  /\ c \in Seq(Bytes) /\ Len(c) = Len(b)
  /\ \A j \in 1..i : c[j] = b[j]
  /\ Has(c, i, bytes)
  /\ \A j \in (i + Len(bytes) + 1)..Len(b) : c[j] = b[j]

\* Writing before the end of a binarr replaces as many bytes as are written.
LEMMA WriteOver ==
  ASSUME NEW b \in Seq(Bytes), NEW bytes \in Seq(Bytes), NEW i \in Nat, NEW size,
         i + Len(bytes) <= Len(b)
  PROVE  Overwritten(Write([buf |-> b, size |-> size, index |-> i], bytes).buf, b, i, bytes)
<1>1. Len(b) \in Nat /\ Len(bytes) \in Nat
  BY LenProperties
<1>2. PICK front \in Seq(Bytes) : front = SubSeq(b, 1, i) /\ Len(front) = i
                                  /\ \A j \in 1..i : front[j] = b[j]
  <2>1. 0 \in Nat /\ 0 <= i /\ i <= Len(b) /\ 0 + 1 = 1 /\ i - 0 = i /\ \A j \in 1..i : 0 + j = j
    BY <1>1
  <2>2. /\ SubSeq(b, 0 + 1, i) \in Seq(Bytes) /\ Len(SubSeq(b, 0 + 1, i)) = i - 0
        /\ \A j \in 1..(i - 0) : SubSeq(b, 0 + 1, i)[j] = b[0 + j]
    BY <2>1, PartFacts
  <2>3. QED
    BY <2>1, <2>2, Zenon
<1>3. PICK k \in Nat : k = i + Len(bytes) /\ k <= Len(b)
  BY <1>1
<1>4. PICK len \in Nat : len = Len(b)
  BY <1>1
<1>5. PICK back \in Seq(Bytes) : back = SubSeq(b, k + 1, len) /\ Len(back) = len - k
                                 /\ \A j \in 1..(len - k) : back[j] = b[k + j]
  <2>1. \A m, n \in Nat : m <= n /\ n <= Len(b) =>
          /\ SubSeq(b, m + 1, n) \in Seq(Bytes) /\ Len(SubSeq(b, m + 1, n)) = n - m
          /\ \A j \in 1..(n - m) : SubSeq(b, m + 1, n)[j] = b[m + j]
    BY PartFacts
  <2>2. k <= len /\ len <= Len(b) /\ k \in Nat /\ len \in Nat
    BY <1>1, <1>3, <1>4
  <2>3. QED
    BY <2>1, <2>2, Zenon
<1>6. PICK c \in Seq(Bytes) : c = Cat(Cat(front, bytes), back) /\ Len(c) = Len(b)
        /\ (\A j \in 1..i : c[j] = front[j])
        /\ Has(c, i, bytes) /\ Has(c, k, back)
  <2>1. PICK c : c = Cat(Cat(front, bytes), back)
    OBVIOUS
  <2>2. /\ c \in Seq(Bytes) /\ Len(c) = Len(front) + Len(bytes) + Len(back)
        /\ \A j \in 1..Len(front) : c[j] = front[j]
        /\ Has(c, Len(front), bytes) /\ Has(c, Len(front) + Len(bytes), back)
    <3>1. front \in Seq(Bytes) /\ back \in Seq(Bytes)
      BY <1>2, <1>5
    <3>2. LET d == Cat(Cat(front, bytes), back) IN
          /\ d \in Seq(Bytes) /\ Len(d) = Len(front) + Len(bytes) + Len(back)
          /\ \A j \in 1..Len(front) : d[j] = front[j]
          /\ Has(d, Len(front), bytes) /\ Has(d, Len(front) + Len(bytes), back)
      BY <3>1, CatThree, Zenon
    <3>3. QED
      BY <2>1, <3>2
  <2>3. Len(front) = i /\ Len(back) = len - k
    BY <1>2, <1>5
  <2>4. i + Len(bytes) = k /\ k + (len - k) = Len(b)
    BY <1>3, <1>4, <1>1
  <2>5. QED
    BY <1>2, <1>5, <2>1, <2>2, <2>3, <2>4, Zenon
<1>8. Write([buf |-> b, size |-> size, index |-> i], bytes).buf = c
  <2> DEFINE arr == [buf |-> b, size |-> size, index |-> i]
  <2>1. arr.buf = b /\ arr.index = i
    OBVIOUS
  <2>2. c = SubSeq(b, 1, i) \o bytes \o SubSeq(b, i + Len(bytes) + 1, Len(b))
    BY <1>2, <1>3, <1>4, <1>5, <1>6, Zenon DEF Cat
  <2>3. Write(arr, bytes) = [arr EXCEPT !.buf = c, !.index = i + Len(bytes)]
    BY <2>1, <2>2, Zenon DEF Write
  <2>4. QED
    BY <2>3
<1>9. \A j \in 1..i : c[j] = b[j]
  BY <1>2, <1>6, Zenon
<1>10. ASSUME NEW j \in (i + Len(bytes) + 1)..Len(b) PROVE c[j] = b[j]
  <2>1. PICK h \in 1..(len - k) : k + h = j
    <3>1. j - k \in 1..(len - k) /\ k + (j - k) = j
      BY <1>1, <1>3, <1>4
    <3>2. QED
      BY <3>1
  <2>2. c[k + h] = back[h] /\ back[h] = b[k + h]
    BY <1>5, <1>6, <2>1, Zenon DEF Has
  <2>3. QED
    BY <2>1, <2>2, Zenon
<1>11. QED
  BY <1>6, <1>8, <1>9, <1>10, Zenon DEF Overwritten

\* The bytes of an int32_t as they are on the wire, and the int32_t that they are.
Word(value) == Swap(ToBytes(value, IntBytes))
Int32(value) == Wrap(value % Power[IntBytes], IntBytes)

\* htonl and ntohl undo each other.
LEMMA SwapTwice ==
  ASSUME NEW S, NEW s \in Seq(S)
  PROVE  Swap(s) \in Seq(S) /\ Len(Swap(s)) = Len(s) /\ Swap(Swap(s)) = s
<1>1. PICK n \in Nat : n = Len(s) /\ s \in [1..n -> S]
  BY LenProperties
<1>2. PICK r : r = [i \in 1..n |-> s[(n - i) + 1]]
  OBVIOUS
<1>3. Swap(s) = r
  BY <1>1, <1>2, Zenon DEF Swap, Reverse
<1>4. r \in [1..n -> S]
  BY <1>1, <1>2
<1>5. r \in Seq(S) /\ Len(r) = n
  BY <1>4
<1>6. [i \in 1..n |-> r[(n - i) + 1]] = s
  <2>1. ASSUME NEW i \in 1..n PROVE r[(n - i) + 1] = s[i]
    <3>1. PICK j \in 1..n : j = (n - i) + 1 /\ (n - j) + 1 = i
      OBVIOUS
    <3>2. QED
      BY <1>2, <3>1
  <2>2. QED
    BY <1>1, <2>1
<1>7. Swap(r) = s
  BY <1>5, <1>6, Zenon DEF Swap, Reverse
<1>8. QED
  BY <1>1, <1>3, <1>5, <1>7, Zenon

\* The four bytes of an int32_t on the wire are read as the int32_t that was written.
LEMMA Words ==
  ASSUME NEW value \in Int
  PROVE  /\ Word(value) \in Seq(Bytes) /\ Len(Word(value)) = IntBytes
         /\ FromBytes(Swap(Word(value))) = Int32(value)
<1>1. IntBytes \in 1..IntBytes
  BY WidthAssumption
<1>2. ToBytes(value, IntBytes) \in Seq(Bytes) /\ Len(ToBytes(value, IntBytes)) = IntBytes
  BY <1>1, DigitsOf
<1>3. FromBytes(ToBytes(value, IntBytes)) = Int32(value)
  BY <1>1, BytesBack DEF Int32
<1>4. QED
  BY <1>2, <1>3, SwapTwice, Zenon DEF Word

\* An int32_t is a number, and the one it was made of when that fits.
LEMMA Int32Facts ==
  ASSUME NEW value \in Int
  PROVE  Int32(value) \in Int /\ (Fits(value, IntBytes) => Int32(value) = value)
<1>1. IntBytes \in 1..IntBytes
  BY WidthAssumption
<1>2. QED
  BY <1>1, WrapFits, Zenon DEF Int32

\* binarr_append_i32_n puts the word of a value behind the bytes of the array.
LEMMA AppendWord ==
  ASSUME NEW b \in Seq(Bytes), NEW value \in Int
  PROVE  append_i32_n(Whole(b), value) = Whole(Cat(b, Word(value)))
<1>1. Word(value) \in Seq(Bytes)
  BY Words
<1>2. Appended(Write(Whole(b), Word(value))) = Whole(Cat(b, Word(value)))
  BY <1>1, AppendBehind, Zenon DEF Whole
<1>3. QED
  BY <1>2, Zenon DEF append_i32_n, write_i32_n, Word

\* A single byte at the first or the second place.
LEMMA HasOne ==
  \A c, s : Len(s) = 1 =>
    /\ Has(c, 0, s) <=> c[1] = s[1]
    /\ Has(c, 1, s) <=> c[2] = s[1]
<1> SUFFICES ASSUME NEW c, NEW s, Len(s) = 1
             PROVE  (Has(c, 0, s) <=> c[1] = s[1]) /\ (Has(c, 1, s) <=> c[2] = s[1])
  OBVIOUS
<1>1. 1..Len(s) = {1} /\ 0 + 1 = 1 /\ 1 + 1 = 2
  OBVIOUS
<1>2. Has(c, 0, s) <=> c[1] = s[1]
  BY <1>1 DEF Has
<1>3. Has(c, 1, s) <=> c[2] = s[1]
  BY <1>1 DEF Has
<1>4. QED
  BY <1>2, <1>3

\* The header of a packet: its type, its sync, and room for the size.
LEMMA HeaderBytes ==
  ASSUME NEW type \in Int, NEW sync \in Int
  PROVE  \E h \in Seq(Bytes) :
           /\ Skip(append_i8(append_i8(binarr_new, type), sync), IntBytes) = Whole(h)
           /\ Len(h) = PACKET_HEADER_SIZE
           /\ Has(h, 0, ToBytes(type, 1)) /\ Has(h, 1, ToBytes(sync, 1))
<1>1. PICK t \in Seq(Bytes) : t = ToBytes(type, 1) /\ Len(t) = 1
  <2>1. 1 \in 1..IntBytes
    BY WidthAssumption
  <2>2. QED
    BY <2>1, DigitsOf, Zenon
<1>2. PICK s \in Seq(Bytes) : s = ToBytes(sync, 1) /\ Len(s) = 1
  <2>1. 1 \in 1..IntBytes
    BY WidthAssumption
  <2>2. QED
    BY <2>1, DigitsOf, Zenon
<1>3. PICK z \in Seq(Bytes) : z = [i \in 1..IntBytes |-> 0] /\ Len(z) = IntBytes
  <2>1. 0 \in Bytes /\ IntBytes \in Nat
    BY WidthAssumption DEF Bytes
  <2>2. [i \in 1..IntBytes |-> 0] \in [1..IntBytes -> Bytes]
    BY <2>1
  <2>3. [i \in 1..IntBytes |-> 0] \in Seq(Bytes) /\ Len([i \in 1..IntBytes |-> 0]) = IntBytes
    BY <2>1, <2>2
  <2>4. QED
    BY <2>3
<1>4. PICK e \in Seq(Bytes) : e = <<>> /\ Len(e) = 0
  <2>1. <<>> \in Seq(Bytes) /\ Len(<<>>) = 0
    OBVIOUS
  <2>2. QED
    BY <2>1, Zenon
<1>5. binarr_new = Whole(e)
  BY <1>4 DEF binarr_new, Whole
<1>6. append_i8(Whole(e), type) = Whole(Cat(e, t)) /\ Cat(e, t) \in Seq(Bytes)
  BY <1>1, AppendBehind, CatElements, Zenon DEF Whole, append_i8
<1>7. /\ append_i8(Whole(Cat(e, t)), sync) = Whole(Cat(Cat(e, t), s))
      /\ Cat(Cat(e, t), s) \in Seq(Bytes)
  BY <1>2, <1>6, AppendBehind, CatElements, Zenon DEF Whole, append_i8
<1> DEFINE h == Cat(Cat(Cat(e, t), s), z)
<1>8. Skip(Whole(Cat(Cat(e, t), s)), IntBytes) = Whole(h) /\ h \in Seq(Bytes)
  BY <1>3, <1>7, AppendBehind, CatElements, Zenon DEF Whole, Skip
<1>9. Skip(append_i8(append_i8(binarr_new, type), sync), IntBytes) = Whole(h)
  BY <1>5, <1>6, <1>7, <1>8, Zenon
<1>10. /\ Len(Cat(e, t)) = 1 /\ Cat(e, t)[1] = t[1]
  <2>1. Len(Cat(e, t)) = Len(e) + Len(t) /\ Has(Cat(e, t), Len(e), t)
    BY CatElements, Zenon
  <2>2. QED
    BY <1>1, <1>4, <2>1 DEF Has
<1>11. /\ Len(Cat(Cat(e, t), s)) = 2
       /\ Cat(Cat(e, t), s)[1] = t[1] /\ Cat(Cat(e, t), s)[2] = s[1]
  <2>1. PICK c \in Seq(Bytes) : c = Cat(e, t) /\ Len(c) = 1 /\ c[1] = t[1]
    BY <1>6, <1>10
  <2>2. PICK d : d = Cat(c, s)
    OBVIOUS
  <2>3. /\ Len(d) = Len(c) + Len(s) /\ Has(d, Len(c), s)
        /\ \A j \in 1..Len(c) : d[j] = c[j]
    BY <2>2, CatElements, Zenon
  <2>4. Len(d) = 2 /\ d[1] = t[1] /\ d[2] = s[1]
    BY <1>2, <2>1, <2>3 DEF Has
  <2>5. QED
    BY <2>1, <2>2, <2>4
<1>12. Len(h) = PACKET_HEADER_SIZE /\ h[1] = t[1] /\ h[2] = s[1]
  <2>1. PICK c \in Seq(Bytes) : c = Cat(Cat(e, t), s) /\ Len(c) = 2 /\ c[1] = t[1] /\ c[2] = s[1]
    BY <1>7, <1>11
  <2>2. PICK d : d = Cat(c, z)
    OBVIOUS
  <2>3. /\ Len(d) = Len(c) + Len(z) /\ \A j \in 1..Len(c) : d[j] = c[j]
    BY <2>2, CatElements, Zenon
  <2>4. Len(d) = 2 + IntBytes /\ d[1] = t[1] /\ d[2] = s[1]
    BY <1>3, <2>1, <2>3, WidthAssumption
  <2>5. QED
    BY <2>1, <2>2, <2>4 DEF PACKET_HEADER_SIZE
<1>13. Has(h, 0, t) /\ Has(h, 1, s)
  <2> HIDE DEF h
  <2>1. QED
    BY <1>1, <1>2, <1>12, HasOne, Zenon
<1>14. QED
  BY <1>1, <1>2, <1>8, <1>9, <1>12, <1>13

\* Where field i of a packet begins.
Place(i) == PACKET_HEADER_SIZE + (i - 1) * IntBytes

\* The header, and behind it the first m of the words.
Laid(c, h, words, m) ==
  /\ c \in Seq(Bytes) /\ Len(c) = PACKET_HEADER_SIZE + m * IntBytes
  /\ \A j \in 1..PACKET_HEADER_SIZE : c[j] = h[j]
  /\ \A i \in 1..m : Has(c, Place(i), words[i])

\* The fields follow the header and each other, and lie inside of the packet.
LEMMA Places ==
  ASSUME NEW n \in Nat
  PROVE  /\ PACKET_HEADER_SIZE \in Nat /\ IntBytes \in Nat
         /\ \A m \in 0..n : m * IntBytes \in Nat
         /\ \A i \in 1..n : Place(i) \in Nat /\ Place(i) >= PACKET_HEADER_SIZE
                            /\ Place(i) + IntBytes = PACKET_HEADER_SIZE + i * IntBytes
         /\ \A i \in 1..n, m \in 0..n : i <= m =>
              Place(i) + IntBytes <= PACKET_HEADER_SIZE + m * IntBytes
<1>1. PACKET_HEADER_SIZE \in Nat /\ IntBytes \in Nat
  BY WidthAssumption DEF PACKET_HEADER_SIZE
<1>2. \A m \in Nat : m * IntBytes \in Nat
  BY <1>1
<1>3. ASSUME NEW i \in 1..n
      PROVE  Place(i) \in Nat /\ Place(i) >= PACKET_HEADER_SIZE
             /\ Place(i) + IntBytes = PACKET_HEADER_SIZE + i * IntBytes
  <2>1. PICK k \in Nat : k = i - 1 /\ i = k + 1
    OBVIOUS
  <2>2. k * IntBytes \in Nat /\ i * IntBytes = k * IntBytes + IntBytes
    BY <1>1, <1>2, <2>1
  <2>3. Place(i) = PACKET_HEADER_SIZE + k * IntBytes
    BY <2>1 DEF Place
  <2>4. QED
    BY <1>1, <2>2, <2>3
<1>4. ASSUME NEW i \in 1..n, NEW m \in 0..n, i <= m
      PROVE  Place(i) + IntBytes <= PACKET_HEADER_SIZE + m * IntBytes
  <2>1. PICK d \in Nat : m = i + d
    <3>1. m - i \in Nat /\ m = i + (m - i)
      BY <1>4
    <3>2. QED
      BY <3>1
  <2>2. m * IntBytes = i * IntBytes + d * IntBytes /\ d * IntBytes \in Nat /\ i * IntBytes \in Nat
    BY <1>1, <1>2, <2>1
  <2>3. Place(i) + IntBytes = PACKET_HEADER_SIZE + i * IntBytes
    BY <1>3
  <2>4. QED
    BY <1>1, <2>2, <2>3
<1>5. QED
  BY <1>1, <1>2, <1>3, <1>4

\* One more word behind a packet that holds the first m.
LEMMA LaidOneMore ==
  ASSUME NEW n \in Nat, NEW words \in [1..n -> Seq(Bytes)],
         \A i \in 1..n : Len(words[i]) = IntBytes,
         NEW h \in Seq(Bytes), NEW m \in 0..n, NEW k \in 1..n, k = m + 1,
         NEW c, Laid(c, h, words, m)
  PROVE  Laid(Cat(c, words[k]), h, words, k)
<1> DEFINE w == words[k]
           d == Cat(c, w)
<1>1. c \in Seq(Bytes) /\ w \in Seq(Bytes) /\ Len(w) = IntBytes
  BY DEF Laid
<1>2. /\ d \in Seq(Bytes) /\ Len(c) \in Nat /\ Len(d) = Len(c) + Len(w)
      /\ \A j \in 1..Len(c) : d[j] = c[j]
      /\ Has(d, Len(c), w)
  <2> HIDE DEF w
  <2> QED
    BY <1>1, CatElements, Zenon
<1>3. Place(k) = Len(c) /\ Len(c) + IntBytes = PACKET_HEADER_SIZE + k * IntBytes
  <2>1. Place(k) \in Nat /\ Place(k) + IntBytes = PACKET_HEADER_SIZE + k * IntBytes
    BY Places
  <2>2. Len(c) = PACKET_HEADER_SIZE + m * IntBytes /\ k - 1 = m
    BY DEF Laid
  <2>3. Place(k) = Len(c)
    BY <2>2 DEF Place
  <2>4. QED
    BY <2>1, <2>3
<1>4. Len(d) = PACKET_HEADER_SIZE + k * IntBytes
  BY <1>1, <1>2, <1>3
<1>5. ASSUME NEW j \in 1..PACKET_HEADER_SIZE PROVE d[j] = h[j]
  <2>1. j \in 1..Len(c)
    <3>1. /\ m * IntBytes \in Nat /\ PACKET_HEADER_SIZE \in Nat
          /\ Len(c) = PACKET_HEADER_SIZE + m * IntBytes
      BY Places DEF Laid
    <3>2. QED
      BY <3>1
  <2>2. c[j] = h[j]
    BY DEF Laid
  <2>3. QED
    BY <1>2, <2>1, <2>2, Zenon
<1>6. ASSUME NEW i \in 1..k PROVE Has(d, Place(i), words[i])
  <2>1. CASE i = k
    BY <1>2, <1>3, <2>1, Zenon
  <2>2. CASE i # k
    <3>1. i \in 1..m /\ i \in 1..n
      BY <2>2
    <3>2. Has(c, Place(i), words[i]) /\ Len(words[i]) = IntBytes
      BY <3>1 DEF Laid
    <3>3. Place(i) \in Nat /\ Place(i) + IntBytes <= Len(c)
      <4>1. Len(c) = PACKET_HEADER_SIZE + m * IntBytes
        BY DEF Laid
      <4>2. i <= m
        BY <3>1
      <4>3. Place(i) \in Nat /\ Place(i) + IntBytes <= PACKET_HEADER_SIZE + m * IntBytes
        BY <3>1, <4>2, Places, Zenon
      <4>4. QED
        BY <4>1, <4>3, Zenon
    <3>4. ASSUME NEW j \in 1..Len(words[i]) PROVE d[Place(i) + j] = words[i][j]
      <4>1. Place(i) + j \in 1..Len(c)
        BY <1>2, <3>2, <3>3, WidthAssumption
      <4>2. d[Place(i) + j] = c[Place(i) + j] /\ c[Place(i) + j] = words[i][j]
        BY <1>2, <3>2, <4>1, Zenon DEF Has
      <4>3. QED
        BY <4>2, Zenon
    <3>5. QED
      BY <3>4, Zenon DEF Has
  <2>3. QED
    BY <2>1, <2>2
<1>7. QED
  BY <1>2, <1>4, <1>5, <1>6, Zenon DEF Laid

Types == {PACKET_INPUT, PACKET_INIT, PACKET_STATE}

\* A packet that can be sent: the values of its fields are numbers.
Sendable(packet) ==
  /\ packet.type \in Types /\ packet.sync \in Syncs
  /\ \A i \in DOMAIN Written(packet.type) : packet.data[Written(packet.type)[i][1]] \in Int

\* A float is stored as an int32_t.
LEMMA ScaleIsInt == \A value \in Int : ToScale(value) \in Int
<1> SUFFICES ASSUME NEW value \in Int PROVE ToScale(value) \in Int
  OBVIOUS
<1>1. PICK a \in Int : a = (IF value < 0 THEN -value ELSE value) * FLOAT_SCALE
  BY WidthAssumption
<1>2. a \div Steps \in Int
  BY Division, WidthAssumption
<1>3. PICK q \in Int : q = a \div Steps
  BY <1>2
<1>4. ToScale(value) = IF value < 0 THEN -q ELSE q
  BY <1>1, <1>3, Zenon DEF ToScale
<1>5. QED
  BY <1>4

\* The fields of a type are written and read in the same order.
LEMMA FieldsAre ==
  ASSUME NEW type \in Types
  PROVE  /\ Read(type) = Written(type)
         /\ DOMAIN Written(type) = 1..Len(Written(type)) /\ Len(Written(type)) \in Nat
<1>1. DOMAIN InputFields = 1..Len(InputFields) /\ Len(InputFields) \in Nat
  BY DEF InputFields, Ints
<1>2. DOMAIN StateFields = 1..Len(StateFields) /\ Len(StateFields) \in Nat
  BY DEF StateFields, Floats
<1>3. DOMAIN InitFields = 1..Len(InitFields) /\ Len(InitFields) \in Nat
  BY DEF InitFields, Floats, Ints
<1>4. QED
  BY <1>1, <1>2, <1>3 DEF Written, Read, Types

\* body[m] is the header and the first m of the words.
Grows(body, n, h, words) ==
  /\ body \in [0..n -> Seq(Bytes)] /\ body[0] = h
  /\ \A i \in 0..n, j \in 1..n : j = i + 1 => body[j] = Cat(body[i], words[j])

\* The fields of a packet, appended one after the other, lie where they are looked for.
LEMMA BodyOf ==
  ASSUME NEW n \in Nat, NEW words \in [1..n -> Seq(Bytes)],
         \A i \in 1..n : Len(words[i]) = IntBytes,
         NEW h \in Seq(Bytes), Len(h) = PACKET_HEADER_SIZE
  PROVE  \E body : Grows(body, n, h, words) /\ \A m \in 0..n : Laid(body[m], h, words, m)
<1>1. PICK next : next = [j \in 1..n |-> [b \in Seq(Bytes) |-> Cat(b, words[j])]]
  OBVIOUS
<1>2. next \in [1..n -> [Seq(Bytes) -> Seq(Bytes)]]
  <2>1. ASSUME NEW j \in 1..n, NEW b \in Seq(Bytes) PROVE Cat(b, words[j]) \in Seq(Bytes)
    <3>1. words[j] \in Seq(Bytes)
      OBVIOUS
    <3>2. QED
      BY <3>1, CatElements, Zenon
  <2>2. QED
    BY <1>1, <2>1
<1>3. PICK body \in [0..n -> Seq(Bytes)] : Unfolds(body, n, h, next)
  BY <1>2, Recursion, Zenon
<1>4. /\ body[0] = h
      /\ \A i \in 0..n, j \in 1..n : j = i + 1 => body[j] = Cat(body[i], words[j])
  BY <1>1, <1>3 DEF Unfolds
<1> DEFINE Good(m) == \A i \in 0..n : i = m => Laid(body[i], h, words, i)
           T == {m \in Nat : Good(m)}
<1>5. Good(0)
  <2>1. Len(h) = PACKET_HEADER_SIZE + 0 * IntBytes
    BY WidthAssumption DEF PACKET_HEADER_SIZE
  <2>2. \A i \in 1..0 : Has(h, Place(i), words[i])
    OBVIOUS
  <2>3. Laid(h, h, words, 0)
    BY <2>1, <2>2, Zenon DEF Laid
  <2>4. QED
    BY <1>4, <2>3, Zenon
<1>6. ASSUME NEW m \in Nat, Good(m), NEW k \in Nat, k = m + 1 PROVE Good(k)
  <2> SUFFICES ASSUME NEW j \in 0..n, j = k PROVE Laid(body[j], h, words, j)
    OBVIOUS
  <2>1. m \in 0..n /\ j \in 1..n /\ j = m + 1
    BY <1>6
  <2>2. Laid(body[m], h, words, m)
    BY <1>6, <2>1, Zenon
  <2>3. body[j] = Cat(body[m], words[j])
    BY <1>4, <2>1, Zenon
  <2>4. Laid(Cat(body[m], words[j]), h, words, j)
    BY <2>1, <2>2, LaidOneMore, Zenon
  <2>5. QED
    BY <2>3, <2>4, Zenon
<1>7. T = Nat
  <2> HIDE DEF Good
  <2>1. T \in SUBSET Nat /\ 0 \in T /\ \A m \in T, k \in Nat : k = m + 1 => k \in T
    BY <1>5, <1>6
  <2> HIDE DEF T
  <2>2. QED
    BY <2>1, SetInduction
<1>8. ASSUME NEW m \in 0..n PROVE Laid(body[m], h, words, m)
  <2>1. m \in T
    <3>1. m \in Nat
      OBVIOUS
    <3> HIDE DEF T
    <3>2. QED
      BY <1>7, <3>1, Zenon
  <2>2. QED
    BY <2>1, Zenon
<1>9. Grows(body, n, h, words)
  BY <1>3, <1>4, Zenon DEF Grows
<1>10. QED
  BY <1>8, <1>9, Zenon

\* The words of a packet's fields.
Words32(packet) ==
  LET fields == Written(packet.type)
  IN [i \in 1..Len(fields) |-> Word(Made(fields[i], packet.data[fields[i][1]]))]

\* The words of a packet that can be sent are four bytes each.
LEMMA WordsOf ==
  ASSUME NEW packet, Sendable(packet)
  PROVE  /\ Words32(packet) \in [1..Len(Written(packet.type)) -> Seq(Bytes)]
         /\ \A i \in 1..Len(Written(packet.type)) :
              /\ Made(Written(packet.type)[i], packet.data[Written(packet.type)[i][1]]) \in Int
              /\ Len(Words32(packet)[i]) = IntBytes
              /\ Words32(packet)[i]
                   = Word(Made(Written(packet.type)[i], packet.data[Written(packet.type)[i][1]]))
<1> DEFINE fields == Written(packet.type)
           number(i) == Made(fields[i], packet.data[fields[i][1]])
<1>1. DOMAIN fields = 1..Len(fields)
  BY FieldsAre DEF Sendable
<1> HIDE DEF fields
<1>2. \A i \in 1..Len(fields) : packet.data[fields[i][1]] \in Int
  BY <1>1 DEF Sendable, fields
<1>3. ASSUME NEW i \in 1..Len(fields) PROVE number(i) \in Int
  <2>1. PICK v \in Int : v = packet.data[fields[i][1]]
    BY <1>2
  <2>2. v \in Int /\ ToScale(v) \in Int
    BY ScaleIsInt
  <2>3. QED
    BY <2>1, <2>2 DEF Made
<1> HIDE DEF number
<1>4. \A i \in 1..Len(fields) : Word(number(i)) \in Seq(Bytes) /\ Len(Word(number(i))) = IntBytes
  BY <1>3, Words
<1>5. Words32(packet) = [i \in 1..Len(fields) |-> Word(number(i))]
  BY Zenon DEF Words32, fields, number
<1>6. /\ Words32(packet) \in [1..Len(fields) -> Seq(Bytes)]
      /\ \A i \in 1..Len(fields) : Words32(packet)[i] = Word(number(i))
  BY <1>4, <1>5
<1>7. QED
  BY <1>3, <1>4, <1>6, Zenon DEF fields, number

\* The recursion of packet_serialize, which appends field after field, is the body above:
\* what remains is the size, written over the room for it.
LEMMA SerializedAs ==
  ASSUME NEW packet, Sendable(packet),
         NEW n \in Nat, n = Len(Written(packet.type)),
         NEW h \in Seq(Bytes),
         Skip(append_i8(append_i8(binarr_new, packet.type), packet.sync), IntBytes) = Whole(h),
         NEW body, Grows(body, n, h, Words32(packet))
  PROVE  packet_serialize(packet)
           = write_i32_n([Whole(body[n]) EXCEPT !.index = 2],
                         Whole(body[n]).index - PACKET_HEADER_SIZE).buf
<1> DEFINE fields == Written(packet.type)
           header == Skip(append_i8(append_i8(binarr_new, packet.type), packet.sync), IntBytes)
           Def(f) == f = [i \in 0..Len(fields) |->
                            IF i = 0 THEN header
                            ELSE LET value == packet.data[fields[i][1]]
                                 IN IF fields[i][2] = "i32" THEN append_i32_n(f[i - 1], value)
                                    ELSE append_float_n(f[i - 1], value)]
           upto == CHOOSE f : Def(f)
           Step(i, arr) == LET value == packet.data[fields[i][1]]
                           IN IF fields[i][2] = "i32" THEN append_i32_n(arr, value)
                              ELSE append_float_n(arr, value)
<1>0. /\ body \in [0..n -> Seq(Bytes)] /\ body[0] = h
      /\ \A i \in 0..n, j \in 1..n : j = i + 1 => body[j] = Cat(body[i], Words32(packet)[j])
  BY Zenon DEF Grows
<1>1. ASSUME NEW i \in 0..n, NEW j \in 1..n, j = i + 1
      PROVE  Step(j, Whole(body[i])) = Whole(body[j])
  <2>1. PICK v \in Int : v = Made(fields[j], packet.data[fields[j][1]])
                         /\ Words32(packet)[j] = Word(v)
    BY WordsOf
  <2>2. Step(j, Whole(body[i])) = append_i32_n(Whole(body[i]), v)
    <3>1. CASE fields[j][2] = "i32"
      <4>1. v = packet.data[fields[j][1]]
        BY <2>1, <3>1, Zenon DEF Made
      <4>2. QED
        BY <3>1, <4>1, Zenon
    <3>2. CASE fields[j][2] # "i32"
      <4>1. v = ToScale(packet.data[fields[j][1]])
        BY <2>1, <3>2, Zenon DEF Made
      <4>2. QED
        BY <3>2, <4>1, Zenon DEF append_float_n
    <3>3. QED
      BY <3>1, <3>2
  <2>3. body[i] \in Seq(Bytes)
    BY <1>0
  <2>4. body[j] = Cat(body[i], Word(v))
    <3>1. body[j] = Cat(body[i], Words32(packet)[j])
      BY <1>0, <1>1, Zenon
    <3>2. QED
      BY <2>1, <3>1, Zenon
  <2>5. QED
    BY <2>2, <2>3, <2>4, AppendWord, Zenon
<1>2. PICK g : g = [i \in 0..n |-> Whole(body[i])]
  OBVIOUS
<1>3. header = Whole(body[0])
  BY <1>0, Zenon
<1>4. n = Len(fields)
  OBVIOUS
<1> HIDE DEF fields, header, Step
<1>5. Def(g)
  <2>1. ASSUME NEW i \in 0..n PROVE g[i] = IF i = 0 THEN header ELSE Step(i, g[i - 1])
    <3>1. g[i] = Whole(body[i])
      BY <1>2, Zenon
    <3>2. CASE i = 0
      BY <1>3, <3>1, <3>2, Zenon
    <3>3. CASE i # 0
      <4>1. PICK m \in 0..n : m = i - 1 /\ i = m + 1 /\ i \in 1..n
        BY <3>3
      <4>2. g[m] = Whole(body[m])
        BY <1>2, Zenon
      <4>3. Step(i, Whole(body[m])) = Whole(body[i])
        BY <1>1, <4>1, Zenon
      <4>4. QED
        BY <3>1, <3>3, <4>1, <4>2, <4>3, Zenon
    <3>4. QED
      BY <3>2, <3>3
  <2>2. g = [i \in 0..n |-> IF i = 0 THEN header ELSE Step(i, g[i - 1])]
    <3>1. g = [i \in 0..n |-> g[i]]
      BY <1>2
    <3>2. QED
      BY <2>1, <3>1, Zenon
  <2>3. QED
    BY <1>4, <2>2, Zenon DEF Step
<1>6. Def(upto)
  <2> HIDE DEF Def
  <2> QED
    BY <1>5, Zenon
<1>7. \A i \in 0..n : upto[i] = IF i = 0 THEN header ELSE Step(i, upto[i - 1])
  <2> HIDE DEF upto
  <2>1. upto = [i \in 0..Len(fields) |-> IF i = 0 THEN header ELSE Step(i, upto[i - 1])]
    BY <1>6, Zenon DEF Step
  <2>2. QED
    BY <1>4, <2>1, Zenon
<1> DEFINE Agrees(m) == \A i \in 0..n : i = m => upto[i] = Whole(body[i])
           T == {m \in Nat : Agrees(m)}
<1>8. T = Nat
  <2> HIDE DEF upto
  <2>1. Agrees(0)
    BY <1>3, <1>7
  <2>2. ASSUME NEW m \in Nat, Agrees(m), NEW k \in Nat, k = m + 1 PROVE Agrees(k)
    <3> SUFFICES ASSUME NEW j \in 0..n, j = k PROVE upto[j] = Whole(body[j])
      OBVIOUS
    <3>1. m \in 0..n /\ j \in 1..n /\ j = m + 1 /\ j # 0 /\ j - 1 = m
      BY <2>2
    <3>2. upto[m] = Whole(body[m])
      BY <2>2, <3>1, Zenon
    <3>3. upto[j] = Step(j, upto[m])
      BY <1>7, <3>1, Zenon
    <3>4. Step(j, Whole(body[m])) = Whole(body[j])
      BY <1>1, <3>1, Zenon
    <3>5. QED
      BY <3>2, <3>3, <3>4, Zenon
  <2> HIDE DEF Agrees
  <2>3. T \in SUBSET Nat /\ 0 \in T /\ \A m \in T, k \in Nat : k = m + 1 => k \in T
    BY <2>1, <2>2
  <2> HIDE DEF T
  <2>4. QED
    BY <2>3, SetInduction
<1>9. upto[n] = Whole(body[n])
  <2>1. n \in T /\ n \in 0..n
    <3> HIDE DEF T, upto
    <3> QED
      BY <1>8
  <2>2. QED
    <3> HIDE DEF upto
    <3> QED
      BY <2>1, Zenon
<1>10. packet_serialize(packet)
         = write_i32_n([upto[Len(fields)] EXCEPT !.index = 2],
                       upto[Len(fields)].index - PACKET_HEADER_SIZE).buf
  BY Zenon DEF packet_serialize, fields, header
<1>11. QED
  <2> HIDE DEF upto
  <2> QED
    BY <1>4, <1>9, <1>10, Zenon

\* c holds a packet.
Holds(c, packet, n) ==
  /\ c \in Seq(Bytes) /\ Len(c) = PACKET_HEADER_SIZE + n * IntBytes
  /\ Has(c, 0, ToBytes(packet.type, 1)) /\ Has(c, 1, ToBytes(packet.sync, 1))
  /\ Has(c, 2, Word(n * IntBytes))
  /\ \A i \in 1..n : Has(c, Place(i), Words32(packet)[i])

\* packet_serialize: the bytes it makes hold the type, the sync, the size and each field at
\* its place; writing the size last spoils none of the others.
LEMMA Serialized ==
  ASSUME NEW packet, Sendable(packet), packet.sync \in Int
  PROVE  Holds(packet_serialize(packet), packet, Len(Written(packet.type)))
<1>1. PICK n \in Nat : n = Len(Written(packet.type))
  BY FieldsAre DEF Sendable
<1>2. /\ Words32(packet) \in [1..n -> Seq(Bytes)]
      /\ \A i \in 1..n : Len(Words32(packet)[i]) = IntBytes
  BY <1>1, WordsOf
<1>3. packet.type \in Int
  BY DEF Sendable, Types, PACKET_INPUT, PACKET_INIT, PACKET_STATE
<1>4. PICK h \in Seq(Bytes) :
        /\ Skip(append_i8(append_i8(binarr_new, packet.type), packet.sync), IntBytes) = Whole(h)
        /\ Len(h) = PACKET_HEADER_SIZE
        /\ Has(h, 0, ToBytes(packet.type, 1)) /\ Has(h, 1, ToBytes(packet.sync, 1))
  BY <1>3, HeaderBytes, Zenon
<1>5. PICK words : words = Words32(packet)
  OBVIOUS
<1>6. PICK body : /\ Grows(body, n, h, Words32(packet))
                  /\ \A m \in 0..n : Laid(body[m], h, Words32(packet), m)
  BY <1>2, <1>4, BodyOf, Zenon
<1>7. packet_serialize(packet)
        = write_i32_n([Whole(body[n]) EXCEPT !.index = 2],
                      Whole(body[n]).index - PACKET_HEADER_SIZE).buf
  BY <1>1, <1>4, <1>6, SerializedAs, Zenon
<1>8. PICK b \in Seq(Bytes) : b = body[n] /\ Laid(b, h, words, n)
  <2>1. n \in 0..n
    OBVIOUS
  <2>2. Laid(body[n], h, words, n)
    BY <1>5, <1>6, <2>1, Zenon
  <2>3. body[n] \in Seq(Bytes)
    BY <2>2, Zenon DEF Laid
  <2>4. QED
    BY <2>2, <2>3, Zenon
<1>9. PICK size \in Int : size = n * IntBytes /\ size >= 0
  BY WidthAssumption
<1>10. Len(b) = PACKET_HEADER_SIZE + size /\ PACKET_HEADER_SIZE \in Nat
  BY <1>8, <1>9, WidthAssumption DEF Laid, PACKET_HEADER_SIZE
<1>11. PICK w \in Seq(Bytes) : w = Word(size) /\ Len(w) = IntBytes
  BY Words
<1>12. packet_serialize(packet) = Write([buf |-> b, size |-> Len(b), index |-> 2], w).buf
  <2>1. Whole(b).index - PACKET_HEADER_SIZE = size
    BY <1>9, <1>10 DEF Whole
  <2>2. [Whole(b) EXCEPT !.index = 2] = [buf |-> b, size |-> Len(b), index |-> 2]
    BY DEF Whole
  <2>3. packet_serialize(packet)
          = write_i32_n([Whole(b) EXCEPT !.index = 2], Whole(b).index - PACKET_HEADER_SIZE).buf
    BY <1>7, <1>8, Zenon
  <2>4. packet_serialize(packet) = write_i32_n([buf |-> b, size |-> Len(b), index |-> 2], size).buf
    BY <2>1, <2>2, <2>3, Zenon
  <2>5. QED
    BY <1>11, <2>4, Zenon DEF write_i32_n, Word
<1>13. PICK c : c = packet_serialize(packet)
  OBVIOUS
<1>14. /\ c \in Seq(Bytes) /\ Len(c) = Len(b)
       /\ \A j \in 1..2 : c[j] = b[j]
       /\ Has(c, 2, w)
       /\ \A j \in (2 + Len(w) + 1)..Len(b) : c[j] = b[j]
  <2>1. 2 \in Nat /\ 2 + Len(w) <= Len(b)
    <3>1. size \in Int /\ size >= 0
      BY <1>9
    <3>2. QED
      BY <1>10, <1>11, <3>1, WidthAssumption DEF PACKET_HEADER_SIZE
  <2>2. Overwritten(Write([buf |-> b, size |-> Len(b), index |-> 2], w).buf, b, 2, w)
    <3>1. b \in Seq(Bytes) /\ w \in Seq(Bytes)
      BY <1>8, <1>11
    <3>2. QED
      BY <2>1, <3>1, WriteOver, Zenon
  <2>3. QED
    BY <1>12, <1>13, <2>2, Zenon DEF Overwritten
<1>15. Has(c, 0, ToBytes(packet.type, 1)) /\ Has(c, 1, ToBytes(packet.sync, 1))
  <2>1. PICK t \in Seq(Bytes) : t = ToBytes(packet.type, 1) /\ Len(t) = 1
    <3>1. 1 \in 1..IntBytes
      BY WidthAssumption
    <3>2. QED
      BY <1>3, <3>1, DigitsOf, Zenon
  <2>2. PICK s \in Seq(Bytes) : s = ToBytes(packet.sync, 1) /\ Len(s) = 1
    <3>1. 1 \in 1..IntBytes
      BY WidthAssumption
    <3>2. QED
      BY <3>1, DigitsOf, Zenon
  <2>3. Has(h, 0, t) /\ Has(h, 1, s)
    BY <1>4, <2>1, <2>2, Zenon
  <2>4. h[1] = t[1] /\ h[2] = s[1]
    BY <2>1, <2>2, <2>3, HasOne, ZenonT(40)
  <2>5. b[1] = h[1] /\ b[2] = h[2]
    BY <1>8, WidthAssumption DEF Laid, PACKET_HEADER_SIZE
  <2>6. c[1] = t[1] /\ c[2] = s[1]
    BY <1>14, <2>4, <2>5
  <2>7. Has(c, 0, t) /\ Has(c, 1, s)
    BY <2>1, <2>2, <2>6, HasOne, ZenonT(40)
  <2>8. QED
    BY <2>1, <2>2, <2>7, Zenon
<1>16. ASSUME NEW i \in 1..n PROVE Has(c, Place(i), words[i])
  <2>1. Has(b, Place(i), words[i])
    BY <1>8 DEF Laid
  <2>2. Place(i) \in Nat /\ Place(i) >= PACKET_HEADER_SIZE
    BY Places
  <2>3. Place(i) + IntBytes <= Len(b)
    <3>1. i <= n /\ n \in 0..n
      OBVIOUS
    <3>2. Place(i) + IntBytes <= PACKET_HEADER_SIZE + n * IntBytes
      BY <3>1, Places, Zenon
    <3>3. QED
      BY <1>9, <1>10, <3>2, Zenon
  <2>4. Len(words[i]) = IntBytes
    BY <1>2, <1>5
  <2>5. ASSUME NEW j \in 1..Len(words[i]) PROVE c[Place(i) + j] = words[i][j]
    <3>1. PICK k \in (2 + Len(w) + 1)..Len(b) : k = Place(i) + j
      BY <1>10, <1>11, <2>2, <2>3, <2>4, WidthAssumption DEF PACKET_HEADER_SIZE
    <3>2. c[k] = b[k]
      BY <1>14, Zenon
    <3>3. b[Place(i) + j] = words[i][j]
      BY <2>1, Zenon DEF Has
    <3>4. QED
      BY <3>1, <3>2, <3>3, Zenon
  <2>6. QED
    BY <2>5, Zenon DEF Has
<1>17. Len(c) = PACKET_HEADER_SIZE + n * IntBytes
  BY <1>9, <1>10, <1>14, Zenon
<1>18. QED
  BY <1>1, <1>5, <1>9, <1>11, <1>13, <1>14, <1>15, <1>16, <1>17, Zenon DEF Holds

\* What lies at a place is read from there.
LEMMA ReadBack ==
  ASSUME NEW c \in Seq(Bytes), NEW bytes \in Seq(Bytes), NEW i \in Nat, NEW k \in Nat,
         Len(bytes) = k, i + k <= Len(c), Has(c, i, bytes)
  PROVE  SubSeq(c, i + 1, i + k) = bytes
<1>1. PICK m \in Nat : m = i + k /\ i <= m /\ m <= Len(c) /\ m - i = k
  OBVIOUS
<1>2. PICK p : p = SubSeq(c, i + 1, m)
  OBVIOUS
<1>3. /\ p \in Seq(Bytes) /\ Len(p) = m - i
      /\ \A j \in 1..(m - i) : p[j] = c[i + j]
  <2>1. \A n \in Nat : i <= n /\ n <= Len(c) =>
          /\ SubSeq(c, i + 1, n) \in Seq(Bytes) /\ Len(SubSeq(c, i + 1, n)) = n - i
          /\ \A j \in 1..(n - i) : SubSeq(c, i + 1, n)[j] = c[i + j]
    BY PartFacts
  <2>2. QED
    BY <1>1, <1>2, <2>1, Zenon
<1>4. Len(p) = Len(bytes) /\ \A j \in 1..Len(bytes) : p[j] = bytes[j]
  <2>1. Len(p) = Len(bytes)
    BY <1>1, <1>3
  <2>2. ASSUME NEW j \in 1..Len(bytes) PROVE p[j] = bytes[j]
    <3>1. j \in 1..(m - i)
      BY <1>1
    <3>2. c[i + j] = bytes[j]
      BY Zenon DEF Has
    <3>3. QED
      BY <1>3, <3>1, <3>2, Zenon
  <2>3. QED
    BY <2>1, <2>2
<1>5. p = bytes
  BY <1>3, <1>4, SeqEqual
<1>6. QED
  BY <1>1, <1>2, <1>5, Zenon

InitNames ==
  <<"id1", "id2", "own", "score1", "score2",
    "p1_x", "p1_y", "p1_vx", "p1_vy", "p1_w", "p1_h",
    "p2_x", "p2_y", "p2_vx", "p2_vy", "p2_w", "p2_h",
    "ball_x", "ball_y", "ball_vx", "ball_vy", "ball_w", "ball_h", "box_w", "box_h">>

\* Ints and Floats keep the names and add how they are stored.
LEMMA FieldsOfNames ==
  ASSUME NEW n \in Nat, NEW names, DOMAIN names = 1..n, NEW S,
         \A i \in 1..n : <<names[i], "i32">> \in S /\ <<names[i], "float">> \in S
  PROVE  /\ Ints(names) \in Seq(S) /\ Len(Ints(names)) = n
         /\ \A i \in 1..n : Ints(names)[i] = <<names[i], "i32">>
         /\ Floats(names) \in Seq(S) /\ Len(Floats(names)) = n
         /\ \A i \in 1..n : Floats(names)[i] = <<names[i], "float">>
<1>1. PICK a : a = [i \in 1..n |-> <<names[i], "i32">>]
  OBVIOUS
<1>2. a \in [1..n -> S]
  BY <1>1
<1>3. a \in Seq(S) /\ Len(a) = n
  BY <1>2
<1>4. Ints(names) = a
  BY <1>1 DEF Ints
<1>5. PICK b : b = [i \in 1..n |-> <<names[i], "float">>]
  OBVIOUS
<1>6. b \in [1..n -> S]
  BY <1>5
<1>7. b \in Seq(S) /\ Len(b) = n
  BY <1>6
<1>8. Floats(names) = b
  BY <1>5 DEF Floats
<1>9. QED
  BY <1>1, <1>3, <1>4, <1>5, <1>7, <1>8

\* The 25 fields of an INIT: five ints, then the floats.
LEMMA InitFieldsAre ==
  /\ DOMAIN InitFields = 1..25 /\ Len(InitFields) = 25
  /\ \A i \in 1..25 : InitFields[i][1] = InitNames[i]
                      /\ InitFields[i][2] = IF i <= 5 THEN "i32" ELSE "float"
<1> DEFINE intNames == <<"id1", "id2", "own", "score1", "score2">>
           floatNames == <<"p1_x", "p1_y", "p1_vx", "p1_vy", "p1_w", "p1_h",
             "p2_x", "p2_y", "p2_vx", "p2_vy", "p2_w", "p2_h",
             "ball_x", "ball_y", "ball_vx", "ball_vy", "ball_w", "ball_h",
             "box_w", "box_h">>
<1>1. DOMAIN intNames = 1..5 /\ DOMAIN floatNames = 1..20 /\ 5 \in Nat /\ 20 \in Nat
  OBVIOUS
<1>2. /\ \A i \in 1..5 : intNames[i] = InitNames[i]
      /\ \A i \in 1..20, k \in 1..25 : k = 5 + i => floatNames[i] = InitNames[k]
  BY DEF InitNames
<1>3. InitFields = Ints(intNames) \o Floats(floatNames)
  BY Zenon DEF InitFields
<1> HIDE DEF intNames, floatNames
<1> DEFINE S == {<<intNames[i], "i32">> : i \in 1..5} \cup {<<intNames[i], "float">> : i \in 1..5}
                \cup {<<floatNames[i], "i32">> : i \in 1..20}
                \cup {<<floatNames[i], "float">> : i \in 1..20}
<1>4. \A i \in 1..5 : <<intNames[i], "i32">> \in S /\ <<intNames[i], "float">> \in S
  OBVIOUS
<1>a. \A i \in 1..20 : <<floatNames[i], "i32">> \in S /\ <<floatNames[i], "float">> \in S
  OBVIOUS
<1> HIDE DEF S
<1>5. PICK a \in Seq(S) : a = Ints(intNames) /\ Len(a) = 5
                          /\ \A i \in 1..5 : a[i] = <<intNames[i], "i32">>
  BY <1>1, <1>4, FieldsOfNames, ZenonT(40)
<1>6. PICK b \in Seq(S) : b = Floats(floatNames) /\ Len(b) = 20
                          /\ \A i \in 1..20 : b[i] = <<floatNames[i], "float">>
  BY <1>1, <1>a, FieldsOfNames, ZenonT(40)
<1>7. PICK c : c = InitFields /\ c = Cat(a, b)
  BY <1>3, <1>5, <1>6, Zenon DEF Cat
<1>8. c \in Seq(S) /\ Len(c) = 25
  <2>1. Cat(a, b) \in Seq(S) /\ Len(Cat(a, b)) = Len(a) + Len(b)
    BY <1>5, <1>6, CatElements, Zenon
  <2>2. Len(a) + Len(b) = 25
    BY <1>5, <1>6
  <2>3. QED
    BY <1>7, <2>1, <2>2, Zenon
<1>9. /\ \A i \in 1..5 : c[i] = a[i]
      /\ \A i \in 1..20 : c[5 + i] = b[i]
  <2>1. (\A i \in 1..Len(a) : c[i] = a[i]) /\ Has(c, Len(a), b)
    <3>1. a \in Seq(S) /\ b \in Seq(S)
      BY <1>5, <1>6
    <3>2. (\A i \in 1..Len(a) : Cat(a, b)[i] = a[i]) /\ Has(Cat(a, b), Len(a), b)
      BY <3>1, CatElements, Zenon
    <3>3. QED
      BY <1>7, <3>2, Zenon
  <2>2. QED
    BY <1>5, <1>6, <2>1, Zenon DEF Has
<1>10. DOMAIN c = 1..25
  BY <1>8, LenProperties
<1>11. ASSUME NEW i \in 1..5
      PROVE  c[i][1] = InitNames[i] /\ c[i][2] = "i32"
  <2>1. intNames[i] = InitNames[i] /\ c[i] = <<intNames[i], "i32">>
    BY <1>2, <1>5, <1>9, Zenon
  <2>2. QED
    BY <2>1
<1>12. ASSUME NEW k \in 6..25
       PROVE  c[k][1] = InitNames[k] /\ c[k][2] = "float"
  <2>1. PICK i \in 1..20 : k = 5 + i /\ k \in 1..25
    <3>1. k - 5 \in 1..20 /\ k = 5 + (k - 5)
      OBVIOUS
    <3>2. QED
      BY <3>1
  <2>2. floatNames[i] = InitNames[k] /\ c[k] = <<floatNames[i], "float">>
    BY <1>2, <1>6, <1>9, <2>1, Zenon
  <2>3. QED
    BY <2>2
<1>13. QED
  BY <1>7, <1>8, <1>10, <1>11, <1>12

\* No two fields of a packet have the same name.
LEMMA FieldsDiffer ==
  ASSUME NEW type \in Types, NEW i \in DOMAIN Written(type), NEW k \in DOMAIN Written(type),
         Written(type)[i][1] = Written(type)[k][1]
  PROVE  i = k
<1>1. CASE type = PACKET_INPUT
  <2>1. Written(type) = InputFields
    BY <1>1 DEF Written, PACKET_INPUT, PACKET_INIT, PACKET_STATE
  <2>2. DOMAIN InputFields = {1}
    BY DEF InputFields, Ints
  <2>3. QED
    BY <2>1, <2>2
<1>2. CASE type = PACKET_INIT
  <2>1. Written(type) = InitFields
    BY <1>2 DEF Written, PACKET_INPUT, PACKET_INIT, PACKET_STATE
  <2>2. i \in 1..25 /\ k \in 1..25 /\ InitNames[i] = InitNames[k]
    BY <2>1, InitFieldsAre
  <2>3. QED
    BY <2>2 DEF InitNames
<1>3. CASE type = PACKET_STATE
  <2>1. Written(type) = StateFields
    BY <1>3 DEF Written, PACKET_INPUT, PACKET_INIT, PACKET_STATE
  <2>2. i \in 1..10 /\ k \in 1..10 /\ StateFields[i][1] = StateFields[k][1]
    BY <2>1 DEF StateFields, Floats
  <2>3. QED
    BY <2>2 DEF StateFields, Floats
<1>4. QED
  BY <1>1, <1>2, <1>3 DEF Types

\* What is left of a field's value after its way to the other side.
Kept(field, value) ==
  IF field[2] = "i32" THEN Int32(value) ELSE Int32(ToScale(value)) * (Steps \div FLOAT_SCALE)

\* A byte is read as it was written.
LEMMA ReadByte ==
  ASSUME NEW c \in Seq(Bytes), NEW i \in Nat, NEW value \in Int, NEW size,
         i + 1 <= Len(c), Has(c, i, ToBytes(value, 1))
  PROVE  read_i8([buf |-> c, size |-> size, index |-> i]) = Wrap(value % Power[1], 1)
<1>1. 1 \in 1..IntBytes /\ 1 \in Nat
  BY WidthAssumption
<1>2. ToBytes(value, 1) \in Seq(Bytes) /\ Len(ToBytes(value, 1)) = 1
  BY <1>1, DigitsOf, Zenon
<1>3. SubSeq(c, i + 1, i + 1) = ToBytes(value, 1)
  BY <1>1, <1>2, ReadBack, Zenon
<1> DEFINE arr == [buf |-> c, size |-> size, index |-> i]
<1>4. arr.buf = c /\ arr.index = i
  OBVIOUS
<1>5. Ahead(arr, 1) = ToBytes(value, 1)
  BY <1>3, <1>4, Zenon DEF Ahead
<1>6. FromBytes(ToBytes(value, 1)) = Wrap(value % Power[1], 1)
  BY <1>1, BytesBack, Zenon
<1>7. QED
  BY <1>5, <1>6, Zenon DEF read_i8

\* A word is read as it was written.
LEMMA ReadWord ==
  ASSUME NEW c \in Seq(Bytes), NEW i \in Nat, NEW value \in Int, NEW size,
         i + IntBytes <= Len(c), Has(c, i, Word(value))
  PROVE  read_i32_n([buf |-> c, size |-> size, index |-> i]) = Int32(value)
<1>1. IntBytes \in Nat
  BY WidthAssumption
<1>2. Word(value) \in Seq(Bytes) /\ Len(Word(value)) = IntBytes
      /\ FromBytes(Swap(Word(value))) = Int32(value)
  BY Words, Zenon
<1>3. SubSeq(c, i + 1, i + IntBytes) = Word(value)
  <2>1. Word(value) \in Seq(Bytes) /\ Len(Word(value)) = IntBytes
    BY <1>2
  <2>2. QED
    BY <1>1, <2>1, ReadBack, ZenonT(40)
<1> DEFINE arr == [buf |-> c, size |-> size, index |-> i]
<1>4. arr.buf = c /\ arr.index = i
  OBVIOUS
<1>5. Ahead(arr, IntBytes) = Word(value)
  BY <1>3, <1>4, Zenon DEF Ahead
<1>6. QED
  BY <1>2, <1>5, Zenon DEF read_i32_n

\* The type and the sync of a packet survive in a byte each.
LEMMA SmallNumbers ==
  /\ \A type \in Types : Wrap(type % Power[1], 1) % ByteBase = type
  /\ \A sync \in Syncs : Wrap(sync % Power[1], 1) = sync
<1>1. Power[1] = ByteBase /\ 1 \in 1..IntBytes
  <2>1. 0 \in 0..IntBytes /\ 1 \in 1..IntBytes /\ 1 = 0 + 1
    BY WidthAssumption
  <2>2. Power[1] = ByteBase * Power[0] /\ Power[0] = 1
    BY <2>1, PowerIs, Zenon
  <2>3. QED
    BY <2>1, <2>2, WidthAssumption
<1>2. PICK b \in Nat : b = ByteBase /\ b > 3
  BY WidthAssumption, PacketAssumption
<1>3. ASSUME NEW type \in Types PROVE Wrap(type % Power[1], 1) % ByteBase = type
  <2>1. PICK v \in Nat : v = type /\ v > 0 /\ v <= 3
    BY DEF Types, PACKET_INPUT, PACKET_INIT, PACKET_STATE
  <2>2. v % b = v
    <3>1. v \in Int /\ 0 \in Int /\ v < b /\ b > 0 /\ v = b * 0 + v
      BY <1>2, <2>1
    <3>2. QED
      BY <3>1, DivisionUnique, Zenon
  <2>3. CASE 2 * v >= b
    <3>1. Wrap(v, 1) = v - b
      BY <1>1, <1>2, <2>3 DEF Wrap
    <3>2. (v - b) % b = v
      <4>1. v - b \in Int /\ -1 \in Int /\ v < b /\ b > 0 /\ v - b = b * (-1) + v
        BY <1>2, <2>1
      <4>2. QED
        BY <4>1, DivisionUnique, Zenon
    <3>3. QED
      BY <1>1, <1>2, <2>1, <2>2, <3>1, <3>2, Zenon
  <2>4. CASE ~(2 * v >= b)
    <3>1. Wrap(v, 1) = v
      BY <1>1, <1>2, <2>4 DEF Wrap
    <3>2. QED
      BY <1>1, <1>2, <2>1, <2>2, <3>1, Zenon
  <2>5. QED
    BY <2>3, <2>4
<1>4. ASSUME NEW sync \in Syncs PROVE Wrap(sync % Power[1], 1) = sync
  <2>1. PICK h \in Int, r \in Nat : h = b \div 2 /\ r < 2 /\ b = 2 * h + r
    BY Division
  <2>2. sync \in Int /\ -h <= sync /\ sync <= h - 1
    BY <1>2, <2>1 DEF Syncs
  <2>3. -b <= 2 * sync /\ 2 * sync < b
    BY <2>1, <2>2
  <2>4. Fits(sync, 1)
    BY <1>1, <1>2, <2>3, Zenon DEF Fits
  <2>5. QED
    BY <1>1, <2>2, <2>4, WrapFits, Zenon
<1>5. QED
  BY <1>3, <1>4

Returned(packet) == packet_deserialize(packet_serialize(packet))

\* packet_deserialize once it knows the type.
Decoded(arr, type, fields) ==
  [type |-> type, sync |-> read_i8(Moved(arr, 1)), size |-> read_i32_n(Moved(arr, 2)),
   data |-> [name \in {fields[i][1] : i \in DOMAIN fields} |->
               LET i == CHOOSE k \in DOMAIN fields : fields[k][1] = name
               IN IF fields[i][2] = "i32" THEN read_i32_n(Moved(arr, Place(i)))
                  ELSE read_float_n(Moved(arr, Place(i)))]]

\* packet_deserialize reads the type first, then what that type has.
LEMMA DeserializeDecodes ==
  ASSUME NEW buf, NEW arr, arr = [buf |-> buf, size |-> Len(buf), index |-> 0]
  PROVE  packet_deserialize(buf)
           = Decoded(arr, read_i8(arr) % ByteBase, Read(read_i8(arr) % ByteBase))
<1>1. packet_deserialize(buf)
        = Decoded([buf |-> buf, size |-> Len(buf), index |-> 0],
                  read_i8([buf |-> buf, size |-> Len(buf), index |-> 0]) % ByteBase,
                  Read(read_i8([buf |-> buf, size |-> Len(buf), index |-> 0]) % ByteBase))
  BY Zenon DEF packet_deserialize, Decoded, Place
<1>2. QED
  BY <1>1, Zenon

\* packet_deserialize undoes packet_serialize, for every packet that can be sent, of any type:
\* type and sync come back, and each field as the int32_t it was made into.
THEOREM PacketsSurvive ==
  ASSUME NEW packet, Sendable(packet)
  PROVE  /\ Returned(packet).type = packet.type /\ Returned(packet).sync = packet.sync
         /\ \A i \in DOMAIN Written(packet.type) :
              LET field == Written(packet.type)[i]
              IN Returned(packet).data[field[1]] = Kept(field, packet.data[field[1]])
<1> DEFINE type == packet.type
           fields == Written(type)
           c == packet_serialize(packet)
           At(x) == [buf |-> c, size |-> Len(c), index |-> x]
<1>1. type \in Types /\ packet.sync \in Syncs /\ type \in Int /\ packet.sync \in Int
  <2>1. type \in Types /\ packet.sync \in Syncs
    BY DEF Sendable
  <2>2. ByteBase \div 2 \in Int
    BY Division, WidthAssumption
  <2>3. QED
    BY <2>1, <2>2 DEF Types, Syncs, PACKET_INPUT, PACKET_INIT, PACKET_STATE
<1>2. PICK n \in Nat : n = Len(fields) /\ DOMAIN fields = 1..n /\ Read(type) = fields
  BY <1>1, FieldsAre
<1>3. Holds(c, packet, n)
  BY <1>1, <1>2, Serialized, Zenon
<1>4. /\ c \in Seq(Bytes) /\ PACKET_HEADER_SIZE \in Nat /\ IntBytes \in Nat /\ n * IntBytes \in Nat
      /\ Len(c) = PACKET_HEADER_SIZE + n * IntBytes /\ PACKET_HEADER_SIZE = 2 + IntBytes
  <2>1. c \in Seq(Bytes) /\ Len(c) = PACKET_HEADER_SIZE + n * IntBytes
    BY <1>3, Zenon DEF Holds
  <2>2. n \in 0..n
    OBVIOUS
  <2>3. n * IntBytes \in Nat /\ PACKET_HEADER_SIZE \in Nat /\ IntBytes \in Nat
    BY <2>2, Places, Zenon
  <2>4. QED
    BY <2>1, <2>3, Zenon DEF PACKET_HEADER_SIZE
<1>5. PICK arr : arr = [buf |-> c, size |-> Len(c), index |-> 0]
  OBVIOUS
<1> HIDE DEF c, fields
<1>6. \A x \in Nat : Moved(arr, x) = At(x)
  BY <1>5 DEF Moved
<1>7. \A x \in Nat : At(x) = [buf |-> c, size |-> Len(c), index |-> x]
  OBVIOUS
<1> HIDE DEF At
<1>8. /\ read_i8(arr) = Wrap(type % Power[1], 1)
      /\ read_i8(Moved(arr, 1)) = Wrap(packet.sync % Power[1], 1)
  <2>1. Has(c, 0, ToBytes(type, 1)) /\ Has(c, 1, ToBytes(packet.sync, 1))
    BY <1>3, Zenon DEF Holds
  <2>2. 0 \in Nat /\ 1 \in Nat /\ 0 + 1 <= Len(c) /\ 1 + 1 <= Len(c)
    <3>1. PICK k \in Nat : k = n * IntBytes
      BY <1>4
    <3>2. Len(c) = 2 + IntBytes + k
      BY <1>4, <3>1, Zenon
    <3>3. QED
      BY <1>4, <3>2
  <2>3. read_i8([buf |-> c, size |-> Len(c), index |-> 0]) = Wrap(type % Power[1], 1)
    BY <1>1, <1>4, <2>1, <2>2, ReadByte, Zenon
  <2>4. read_i8([buf |-> c, size |-> Len(c), index |-> 1]) = Wrap(packet.sync % Power[1], 1)
    BY <1>1, <1>4, <2>1, <2>2, ReadByte, Zenon
  <2>5. QED
    BY <1>5, <1>6, <1>7, <2>2, <2>3, <2>4, Zenon
<1>9. read_i8(arr) % ByteBase = type /\ read_i8(Moved(arr, 1)) = packet.sync
  BY <1>1, <1>8, SmallNumbers, Zenon
<1> DEFINE number(i) == Made(fields[i], packet.data[fields[i][1]])
<1>10. \A i \in 1..n : number(i) \in Int /\ Words32(packet)[i] = Word(number(i))
  BY <1>2, WordsOf, Zenon DEF fields
<1> HIDE DEF number
<1>11. ASSUME NEW i \in 1..n
       PROVE  /\ read_i32_n(Moved(arr, Place(i))) = Int32(number(i))
              /\ read_float_n(Moved(arr, Place(i))) = Int32(number(i)) * (Steps \div FLOAT_SCALE)
  <2>1. Has(c, Place(i), Word(number(i)))
    BY <1>3, <1>10, Zenon DEF Holds
  <2>2. Place(i) \in Nat /\ Place(i) + IntBytes <= Len(c)
    <3>1. n \in 0..n /\ i <= n
      OBVIOUS
    <3>2. QED
      BY <1>4, <3>1, Places, Zenon
  <2>3. read_i32_n([buf |-> c, size |-> Len(c), index |-> Place(i)]) = Int32(number(i))
    BY <1>4, <1>10, <2>1, <2>2, ReadWord, Zenon
  <2>4. QED
    BY <1>6, <1>7, <2>2, <2>3, Zenon DEF read_float_n
<1> DEFINE data == [name \in {fields[i][1] : i \in DOMAIN fields} |->
                      LET i == CHOOSE k \in DOMAIN fields : fields[k][1] = name
                      IN IF fields[i][2] = "i32" THEN read_i32_n(Moved(arr, Place(i)))
                         ELSE read_float_n(Moved(arr, Place(i)))]
<1>12. Returned(packet) = Decoded(arr, type, fields)
  BY <1>2, <1>5, <1>9, DeserializeDecodes, Zenon DEF Returned, c
<1>13. ASSUME NEW i \in 1..n
       PROVE  data[fields[i][1]] = Kept(fields[i], packet.data[fields[i][1]])
  <2>1. (CHOOSE k \in DOMAIN fields : fields[k][1] = fields[i][1]) = i
    BY <1>1, <1>2, FieldsDiffer, Zenon DEF fields
  <2>2. data[fields[i][1]] = IF fields[i][2] = "i32" THEN read_i32_n(Moved(arr, Place(i)))
                             ELSE read_float_n(Moved(arr, Place(i)))
    BY <1>2, <2>1, Zenon
  <2> HIDE DEF data
  <2>3. QED
    BY <1>11, <2>2, Zenon DEF Kept, Made, number
<1> HIDE DEF data
<1>14. /\ Returned(packet).type = type /\ Returned(packet).sync = packet.sync
       /\ Returned(packet).data = data
  <2>1. PICK d : d = data
    OBVIOUS
  <2>2. Decoded(arr, type, fields)
          = [type |-> type, sync |-> read_i8(Moved(arr, 1)), size |-> read_i32_n(Moved(arr, 2)),
             data |-> d]
    BY <2>1, Zenon DEF Decoded, data
  <2>3. QED
    BY <1>9, <1>12, <2>1, <2>2
<1>15. QED
  BY <1>2, <1>13, <1>14, Zenon DEF fields

\* What is left of a float.
KeptFloat(value) == Int32(ToScale(value)) * (Steps \div FLOAT_SCALE)

\* A float that fits is seen on the other side less than one unit of the wire off, and
\* towards zero.
LEMMA FloatsSeen ==
  ASSUME NEW value \in Int
  PROVE  /\ KeptFloat(value) \in Int
         /\ Fits(ToScale(value), IntBytes) => Seen(value, KeptFloat(value))
<1>1. PICK k \in Nat, f \in Nat : k = Steps \div FLOAT_SCALE /\ f = FLOAT_SCALE
                                  /\ k > 0 /\ f > 0 /\ Steps = f * k
  <2>1. PICK q \in Int, r \in Nat : q = Steps \div FLOAT_SCALE /\ r = Steps % FLOAT_SCALE
                                    /\ Steps = FLOAT_SCALE * q + r
    BY Division, WidthAssumption
  <2>2. r = 0 /\ Steps > 0 /\ Steps = FLOAT_SCALE * q
    BY <2>1, WidthAssumption
  <2>3. q \in Nat
    BY <2>1, DivisionNat, WidthAssumption
  <2>4. q > 0
    <3>1. q # 0
      BY <2>2, WidthAssumption
    <3>2. QED
      BY <2>3, <3>1
  <2>5. QED
    BY <2>1, <2>2, <2>3, <2>4, WidthAssumption
<1>2. PICK a \in Nat : a = IF value < 0 THEN -value ELSE value
  OBVIOUS
<1>3. PICK q \in Nat, r \in Nat : q = a \div k /\ r < k /\ a = k * q + r
  BY <1>1, Division, DivisionNat
<1>4. (a * f) \div Steps = q
  <2>1. PICK s \in Nat : s = r * f
    BY <1>1
  <2>2. a * f = (f * k) * q + r * f
    <3>1. a * f = (k * q) * f + r * f
      <4>1. PICK p \in Nat : p = k * q
        BY <1>1
      <4>2. a = p + r
        BY <1>3, <4>1
      <4>3. a * f = p * f + r * f
        BY <4>2
      <4>4. QED
        BY <4>1, <4>3, Zenon
    <3>2. (k * q) * f = (f * k) * q
      OBVIOUS
    <3>3. QED
      BY <3>1, <3>2, Zenon
  <2>3. r * f < f * k
    <3>1. PICK d \in Nat : k = r + d /\ d > 0
      <4>1. k - r \in Nat /\ k = r + (k - r) /\ k - r > 0
        BY <1>3
      <4>2. QED
        BY <4>1
    <3>2. f * k = r * f + f * d /\ f * d > 0 /\ r * f \in Int /\ f * d \in Int
      BY <1>1, <3>1
    <3>3. QED
      BY <3>2
  <2>4. PICK p \in Int, t \in Nat : p = a * f /\ t = f * k /\ t > 0
    <3>1. a * f \in Int /\ f * k \in Nat /\ f * k > 0
      BY <1>1
    <3>2. QED
      BY <3>1, Zenon
  <2>5. p = t * q + s /\ s < t
    BY <2>1, <2>2, <2>3, <2>4, Zenon
  <2>6. p \div t = q
    <3>1. q \in Int
      OBVIOUS
    <3>2. QED
      BY <2>1, <2>4, <2>5, <3>1, DivisionUnique, Zenon
  <2>7. QED
    BY <1>1, <2>4, <2>6, Zenon
<1>5. ToScale(value) = IF value < 0 THEN -q ELSE q
  <2>1. ToScale(value) = IF value < 0 THEN -((a * f) \div Steps) ELSE (a * f) \div Steps
    BY <1>1, <1>2, Zenon DEF ToScale
  <2>2. QED
    BY <1>4, <2>1
<1>6. PICK here : here = KeptFloat(value)
  OBVIOUS
<1>7. here = Int32(ToScale(value)) * k
  BY <1>1, <1>6, Zenon DEF KeptFloat
<1>8. here \in Int
  <2>1. Int32(ToScale(value)) \in Int
    BY ScaleIsInt, Int32Facts
  <2>2. QED
    BY <1>1, <1>7, <2>1
<1>9. ASSUME Fits(ToScale(value), IntBytes) PROVE Seen(value, here)
  <2>1. Int32(ToScale(value)) = ToScale(value)
    BY <1>9, ScaleIsInt, Int32Facts
  <2>2. PICK m \in Nat : m = q * k
    BY <1>1
  <2>3. m <= a /\ a - m < k
    BY <1>1, <1>3, <2>2
  <2>4. CASE value < 0
    <3>1. here = -m
      BY <1>5, <1>7, <2>1, <2>2, <2>4
    <3>2. Abs(here) = m /\ Abs(value) = a /\ Abs(value - here) = a - m
      BY <1>2, <2>3, <2>4, <3>1 DEF Abs
    <3>3. here * value >= 0
      <4>1. here * value = m * a
        BY <1>2, <2>4, <3>1
      <4>2. QED
        BY <4>1
    <3>4. QED
      BY <1>1, <2>3, <3>2, <3>3, Zenon DEF Seen
  <2>5. CASE ~(value < 0)
    <3>1. here = m
      BY <1>5, <1>7, <2>1, <2>2, <2>5
    <3>2. Abs(here) = m /\ Abs(value) = a /\ Abs(value - here) = a - m
      BY <1>2, <2>3, <2>5, <3>1 DEF Abs
    <3>3. here * value >= 0
      <4>1. here * value = m * a
        BY <1>2, <2>5, <3>1
      <4>2. QED
        BY <4>1
    <3>4. QED
      BY <1>1, <2>3, <3>2, <3>3, Zenon DEF Seen
  <2>6. QED
    BY <2>4, <2>5
<1>10. QED
  BY <1>6, <1>8, <1>9

\* The fields of a state are numbers.
LEMMA FieldsTyped ==
  ASSUME NEW st \in States
  PROVE  /\ \A i \in 1..25 : Fields(st)[InitNames[i]] \in Int
         /\ \A i \in 1..10 : Fields(st)[StateFields[i][1]] \in Int
<1> DEFINE d == Fields(st)
<1>1. /\ Box.x \in Int /\ Box.y \in Int
      /\ st.score[1] \in Int /\ st.score[2] \in Int
  BY FieldAssumption, PacketAssumption DEF States, Vectors
<1>2. ASSUME NEW o \in Objects
      PROVE  /\ o.pos.x \in Int /\ o.pos.y \in Int /\ o.velocity.x \in Int /\ o.velocity.y \in Int
             /\ 2 * o.half.x \in Int /\ 2 * o.half.y \in Int
  BY DEF Objects, Vectors
<1>3. st.player1 \in Objects /\ st.player2 \in Objects /\ st.ball \in Objects
  BY DEF States
<1>4. /\ d.id1 \in Int /\ d.id2 \in Int /\ d.own \in Int /\ d.score1 \in Int /\ d.score2 \in Int
      /\ d.box_w \in Int /\ d.box_h \in Int
  BY <1>1 DEF Fields
<1>5. /\ d.p1_x \in Int /\ d.p1_y \in Int /\ d.p1_vx \in Int /\ d.p1_vy \in Int
      /\ d.p1_w \in Int /\ d.p1_h \in Int
  BY <1>2, <1>3 DEF Fields
<1>6. /\ d.p2_x \in Int /\ d.p2_y \in Int /\ d.p2_vx \in Int /\ d.p2_vy \in Int
      /\ d.p2_w \in Int /\ d.p2_h \in Int
  BY <1>2, <1>3 DEF Fields
<1>7. /\ d.ball_x \in Int /\ d.ball_y \in Int /\ d.ball_vx \in Int /\ d.ball_vy \in Int
      /\ d.ball_w \in Int /\ d.ball_h \in Int
  BY <1>2, <1>3 DEF Fields
<1> HIDE DEF d
<1>8. \A i \in 1..25 : d[InitNames[i]] \in Int
  BY <1>4, <1>5, <1>6, <1>7 DEF InitNames
<1>9. \A i \in 1..10 : d[StateFields[i][1]] \in Int
  BY <1>5, <1>6, <1>7 DEF StateFields, Floats
<1>10. QED
  BY <1>8, <1>9 DEF d

\* The ten fields of a STATE, all of them floats.
LEMMA StateFieldsAre ==
  /\ DOMAIN StateFields = 1..10 /\ Len(StateFields) = 10
  /\ \A i \in 1..10 : StateFields[i][2] = "float"
  /\ StateFields[1][1] = "p1_y" /\ StateFields[2][1] = "p1_vx" /\ StateFields[3][1] = "p1_vy"
  /\ StateFields[4][1] = "p2_y" /\ StateFields[5][1] = "p2_vx" /\ StateFields[6][1] = "p2_vy"
  /\ StateFields[7][1] = "ball_x" /\ StateFields[8][1] = "ball_y"
  /\ StateFields[9][1] = "ball_vx" /\ StateFields[10][1] = "ball_vy"
BY DEF StateFields, Floats

\* A packet of the server's state, as it is read.
Got(type, sync, st) == packet_deserialize(Packet(type, sync, st))

\* A state that is sent is read field by field as it was kept.
LEMMA GotFields ==
  ASSUME NEW type \in {PACKET_INIT, PACKET_STATE}, NEW sync \in Syncs, NEW st \in States
  PROVE  /\ Got(type, sync, st).type = type
         /\ \A i \in DOMAIN Written(type) :
              Got(type, sync, st).data[Written(type)[i][1]]
                = Kept(Written(type)[i], Fields(st)[Written(type)[i][1]])
<1>1. PICK packet : packet = [type |-> type, sync |-> sync, data |-> Fields(st)]
  OBVIOUS
<1>2. packet.type = type /\ packet.sync = sync /\ packet.data = Fields(st)
  BY <1>1
<1>3. /\ type = PACKET_INIT => Written(type) = InitFields
      /\ type = PACKET_STATE => Written(type) = StateFields
  BY DEF Written, PACKET_INPUT, PACKET_INIT, PACKET_STATE
<1>4. ASSUME NEW i \in DOMAIN Written(type) PROVE Fields(st)[Written(type)[i][1]] \in Int
  <2>1. CASE type = PACKET_INIT
    BY <1>3, <2>1, InitFieldsAre, FieldsTyped
  <2>2. CASE type = PACKET_STATE
    BY <1>3, <2>2, StateFieldsAre, FieldsTyped
  <2>3. QED
    BY <2>1, <2>2
<1>5. Sendable(packet)
  BY <1>2, <1>4 DEF Sendable, Types
<1>6. Returned(packet) = Got(type, sync, st)
  BY <1>1, Zenon DEF Returned, Got, Packet
<1>7. /\ Returned(packet).type = packet.type
      /\ \A i \in DOMAIN Written(packet.type) :
           Returned(packet).data[Written(packet.type)[i][1]]
             = Kept(Written(packet.type)[i], packet.data[Written(packet.type)[i][1]])
  BY <1>5, PacketsSurvive
<1>8. QED
  BY <1>2, <1>6, <1>7, Zenon

\* The client's numbers are what the wire leaves of the server's.
Mirrors(here, there) ==
  /\ here.ball.pos.x = KeptFloat(there.ball.pos.x) /\ here.ball.pos.y = KeptFloat(there.ball.pos.y)
  /\ here.ball.velocity.x = KeptFloat(there.ball.velocity.x)
  /\ here.ball.velocity.y = KeptFloat(there.ball.velocity.y)
  /\ here.player2.pos.y = KeptFloat(there.player2.pos.y)
  /\ here.player2.velocity.y = KeptFloat(there.player2.velocity.y)
  /\ here.score = there.score

\* A score is read as it was sent.
LEMMA ScoresKept ==
  ASSUME NEW score \in 0..(MaxScore - 1)
  PROVE  Int32(score) = score
<1>1. PICK p \in Nat : p = Power[IntBytes] /\ 2 * MaxScore <= p
  BY PowerIs, WidthAssumption, PacketAssumption
<1>2. score \in Int /\ -p <= 2 * score /\ 2 * score < p
  BY <1>1, PacketAssumption
<1>3. Fits(score, IntBytes)
  BY <1>1, <1>2, Zenon DEF Fits
<1>4. QED
  BY <1>2, <1>3, Int32Facts

\* server_state_receive on an INIT: the client's whole state is made anew and mirrors the
\* server's, the score included.
LEMMA InitRead ==
  ASSUME NEW sync \in Syncs, NEW st \in States
  PROVE  /\ Got(PACKET_INIT, sync, st).type = PACKET_INIT
         /\ StateFrom(Got(PACKET_INIT, sync, st).data) \in States
         /\ Mirrors(StateFrom(Got(PACKET_INIT, sync, st).data), st)
<1> DEFINE got == Got(PACKET_INIT, sync, st)
           d == got.data
           f == Fields(st)
<1>1. Written(PACKET_INIT) = InitFields
  BY DEF Written, PACKET_INPUT, PACKET_INIT, PACKET_STATE
<1>2. /\ got.type = PACKET_INIT
      /\ \A i \in 1..25 : d[InitNames[i]] = Kept(InitFields[i], f[InitNames[i]])
  <2>1. PACKET_INIT \in {PACKET_INIT, PACKET_STATE}
    OBVIOUS
  <2>2. /\ got.type = PACKET_INIT
        /\ \A i \in DOMAIN InitFields :
             d[InitFields[i][1]] = Kept(InitFields[i], f[InitFields[i][1]])
    <3>1. /\ got.type = PACKET_INIT
          /\ \A i \in DOMAIN Written(PACKET_INIT) :
               d[Written(PACKET_INIT)[i][1]]
                 = Kept(Written(PACKET_INIT)[i], f[Written(PACKET_INIT)[i][1]])
      BY <2>1, GotFields, Zenon
    <3>2. QED
      BY <1>1, <3>1
  <2>3. \A i \in 1..25 : i \in DOMAIN InitFields /\ InitFields[i][1] = InitNames[i]
    BY InitFieldsAre, Zenon
  <2>4. ASSUME NEW i \in 1..25 PROVE d[InitNames[i]] = Kept(InitFields[i], f[InitNames[i]])
    <3>1. d[InitFields[i][1]] = Kept(InitFields[i], f[InitFields[i][1]])
      BY <2>2, <2>3, ZenonT(30)
    <3>2. InitFields[i][1] = InitNames[i]
      BY <2>3, Zenon
    <3>3. QED
      BY <3>1, <3>2, ZenonT(30)
  <2>5. QED
    BY <2>2, <2>4, Zenon
<1> HIDE DEF d, f, got
<1>3. \A i \in 6..25 : d[InitNames[i]] = KeptFloat(f[InitNames[i]])
  <2>1. \A i \in 6..25 : i \in 1..25 /\ InitFields[i][2] # "i32"
    BY InitFieldsAre
  <2>2. QED
    BY <1>2, <2>1, Zenon DEF Kept, KeptFloat
<1>4. \A i \in 1..5 : d[InitNames[i]] = Int32(f[InitNames[i]])
  <2>1. \A i \in 1..5 : i \in 1..25 /\ InitFields[i][2] = "i32"
    BY InitFieldsAre
  <2>2. QED
    BY <1>2, <2>1, Zenon DEF Kept
<1>5. \A i \in 6..25 : d[InitNames[i]] \in Int
  <2>1. \A i \in 6..25 : f[InitNames[i]] \in Int
    BY FieldsTyped DEF f
  <2>2. QED
    BY <1>3, <2>1, FloatsSeen
<1>6. d.score1 = Int32(f.score1) /\ d.score2 = Int32(f.score2)
  BY <1>4 DEF InitNames
<1>7. d.score1 = st.score[1] /\ d.score2 = st.score[2]
  <2>1. st.score[1] \in 0..(MaxScore - 1) /\ st.score[2] \in 0..(MaxScore - 1)
    BY DEF States
  <2>2. f.score1 = st.score[1] /\ f.score2 = st.score[2]
    BY DEF f, Fields
  <2>3. QED
    BY <1>6, <2>1, <2>2, ScoresKept
<1>8. /\ d.p1_x \in Int /\ d.p1_y \in Int /\ d.p1_vx \in Int /\ d.p1_vy \in Int
      /\ d.p1_w \in Int /\ d.p1_h \in Int
      /\ d.p2_x \in Int /\ d.p2_y \in Int /\ d.p2_vx \in Int /\ d.p2_vy \in Int
      /\ d.p2_w \in Int /\ d.p2_h \in Int
      /\ d.ball_x \in Int /\ d.ball_y \in Int /\ d.ball_vx \in Int /\ d.ball_vy \in Int
      /\ d.ball_w \in Int /\ d.ball_h \in Int
  BY <1>5 DEF InitNames
<1>9. /\ d.ball_x = KeptFloat(f.ball_x) /\ d.ball_y = KeptFloat(f.ball_y)
      /\ d.ball_vx = KeptFloat(f.ball_vx) /\ d.ball_vy = KeptFloat(f.ball_vy)
      /\ d.p2_y = KeptFloat(f.p2_y) /\ d.p2_vy = KeptFloat(f.p2_vy)
  BY <1>3 DEF InitNames
<1>10. \A n \in Int : n \div 2 \in Int
  BY Division
<1>11. StateFrom(d) \in States
  <2>1. Object(d, "p1_x", "p1_y", "p1_vx", "p1_vy", "p1_w", "p1_h") \in Objects
    BY <1>8, <1>10 DEF Object, Objects, Vectors
  <2>2. Object(d, "p2_x", "p2_y", "p2_vx", "p2_vy", "p2_w", "p2_h") \in Objects
    BY <1>8, <1>10 DEF Object, Objects, Vectors
  <2>3. Object(d, "ball_x", "ball_y", "ball_vx", "ball_vy", "ball_w", "ball_h") \in Objects
    BY <1>8, <1>10 DEF Object, Objects, Vectors
  <2>4. <<d.score1, d.score2>> \in [1..2 -> 0..(MaxScore - 1)]
    BY <1>7 DEF States
  <2>5. QED
    BY <2>1, <2>2, <2>3, <2>4, Zenon DEF StateFrom, States
<1>12. Mirrors(StateFrom(d), st)
  <2>1. <<d.score1, d.score2>> = st.score
    BY <1>7 DEF States
  <2>2. /\ StateFrom(d).ball.pos = [x |-> d.ball_x, y |-> d.ball_y]
        /\ StateFrom(d).ball.velocity = [x |-> d.ball_vx, y |-> d.ball_vy]
        /\ StateFrom(d).player2.pos.y = d.p2_y /\ StateFrom(d).player2.velocity.y = d.p2_vy
        /\ StateFrom(d).score = <<d.score1, d.score2>>
    BY DEF StateFrom, Object
  <2>3. /\ f.ball_x = st.ball.pos.x /\ f.ball_y = st.ball.pos.y
        /\ f.ball_vx = st.ball.velocity.x /\ f.ball_vy = st.ball.velocity.y
        /\ f.p2_y = st.player2.pos.y /\ f.p2_vy = st.player2.velocity.y
    BY DEF f, Fields
  <2>4. QED
    BY <1>9, <2>1, <2>2, <2>3 DEF Mirrors
<1>13. QED
  BY <1>2, <1>11, <1>12 DEF d, got

\* server_state_receive on a STATE: the ball and the opponent's paddle mirror the server's,
\* the score is what it was.
LEMMA StateRead ==
  ASSUME NEW sync \in Syncs, NEW st \in States, local \in States, local.score = st.score
  PROVE  /\ Got(PACKET_STATE, sync, st).type = PACKET_STATE
         /\ Snapped(Got(PACKET_STATE, sync, st).data) \in States
         /\ Mirrors(Snapped(Got(PACKET_STATE, sync, st).data), st)
<1> DEFINE got == Got(PACKET_STATE, sync, st)
           d == got.data
           f == Fields(st)
<1>1. Written(PACKET_STATE) = StateFields
  BY DEF Written, PACKET_INPUT, PACKET_INIT, PACKET_STATE
<1>2. /\ got.type = PACKET_STATE
      /\ \A i \in 1..10 : d[StateFields[i][1]] = Kept(StateFields[i], f[StateFields[i][1]])
  <2>1. PACKET_STATE \in {PACKET_INIT, PACKET_STATE}
    OBVIOUS
  <2>2. QED
    BY <1>1, <2>1, GotFields, StateFieldsAre, Zenon
<1> HIDE DEF d, f, got
<1>3. \A i \in 1..10 : d[StateFields[i][1]] = KeptFloat(f[StateFields[i][1]])
  <2>1. \A i \in 1..10 : StateFields[i][2] # "i32"
    BY StateFieldsAre
  <2>2. QED
    BY <1>2, <2>1, Zenon DEF Kept, KeptFloat
<1>4. \A i \in 1..10 : d[StateFields[i][1]] \in Int
  <2>1. \A i \in 1..10 : f[StateFields[i][1]] \in Int
    BY FieldsTyped DEF f
  <2>2. QED
    BY <1>3, <2>1, FloatsSeen
<1>5. /\ d.ball_x \in Int /\ d.ball_y \in Int /\ d.ball_vx \in Int /\ d.ball_vy \in Int
      /\ d.p2_y \in Int /\ d.p2_vy \in Int
  BY <1>4, StateFieldsAre
<1>6. /\ d.ball_x = KeptFloat(f.ball_x) /\ d.ball_y = KeptFloat(f.ball_y)
      /\ d.ball_vx = KeptFloat(f.ball_vx) /\ d.ball_vy = KeptFloat(f.ball_vy)
      /\ d.p2_y = KeptFloat(f.p2_y) /\ d.p2_vy = KeptFloat(f.p2_vy)
  BY <1>3, StateFieldsAre
<1>7. PICK pos, velocity : pos = [x |-> d.ball_x, y |-> d.ball_y]
                           /\ velocity = [x |-> d.ball_vx, y |-> d.ball_vy]
  OBVIOUS
<1>8. pos \in Vectors /\ velocity \in Vectors
  BY <1>5, <1>7 DEF Vectors
<1>9. PICK p2 : p2 = [local.player2 EXCEPT !.pos.y = d.p2_y, !.velocity.y = d.p2_vy]
  OBVIOUS
<1>10. p2 \in Objects /\ p2.pos.y = d.p2_y /\ p2.velocity.y = d.p2_vy
  BY <1>5, <1>9 DEF States, Objects, Vectors
<1>11. PICK ball : ball = [local.ball EXCEPT !.pos = pos, !.velocity = velocity]
  OBVIOUS
<1>12. ball \in Objects /\ ball.pos = pos /\ ball.velocity = velocity
  BY <1>8, <1>11 DEF States, Objects
<1>13. Snapped(d) = [local EXCEPT !.ball = ball, !.player2 = p2]
  BY <1>7, <1>9, <1>11 DEF Snapped, States, Objects, Vectors
<1>14. /\ Snapped(d) \in States /\ Snapped(d).ball = ball /\ Snapped(d).player2 = p2
       /\ Snapped(d).score = st.score
  BY <1>10, <1>12, <1>13 DEF States
<1>15. Mirrors(Snapped(d), st)
  <2>1. /\ f.ball_x = st.ball.pos.x /\ f.ball_y = st.ball.pos.y
        /\ f.ball_vx = st.ball.velocity.x /\ f.ball_vy = st.ball.velocity.y
        /\ f.p2_y = st.player2.pos.y /\ f.p2_vy = st.player2.velocity.y
    BY DEF f, Fields
  <2>2. QED
    BY <1>6, <1>7, <1>10, <1>12, <1>14, <2>1 DEF Mirrors
<1>16. QED
  BY <1>2, <1>14, <1>15 DEF d, got

Fractions == [n : Int, d : Nat \ {0}]

\* Factors that are positive can be taken away.
LEMMA Cancel ==
  ASSUME NEW x \in Int, NEW y \in Int, NEW k \in Nat, k > 0
  PROVE  (x * k < y * k => x < y) /\ (x * k <= y * k => x <= y)
<1>1. ASSUME y < x PROVE y * k < x * k
  <2>1. PICK d \in Nat : x = y + d /\ d > 0
    <3>1. x - y \in Nat /\ x = y + (x - y) /\ x - y > 0
      BY <1>1
    <3>2. QED
      BY <3>1
  <2>2. x * k = y * k + d * k /\ d * k > 0 /\ y * k \in Int /\ d * k \in Int
    BY <2>1
  <2>3. QED
    BY <2>2
<1>2. y = x => y * k = x * k
  OBVIOUS
<1>3. x * k \in Int /\ y * k \in Int
  OBVIOUS
<1>4. PICK a \in Int, b \in Int : a = x * k /\ b = y * k
  BY <1>3
<1>5. (y < x => b < a) /\ (y = x => b = a)
  BY <1>1, <1>2, <1>4
<1>6. (a < b => x < y) /\ (a <= b => x <= y)
  BY <1>5
<1>7. QED
  BY <1>4, <1>6, Zenon

\* Factors that are positive keep the order.
LEMMA Grow ==
  ASSUME NEW x \in Int, NEW y \in Int, NEW k \in Nat, k > 0
  PROVE  (x < y => x * k < y * k) /\ (x <= y => x * k <= y * k)
<1>1. ASSUME x < y PROVE x * k < y * k
  <2>1. PICK d \in Nat : y = x + d /\ d > 0
    <3>1. y - x \in Nat /\ y = x + (y - x) /\ y - x > 0
      BY <1>1
    <3>2. QED
      BY <3>1
  <2>2. y * k = x * k + d * k /\ d * k > 0 /\ x * k \in Int /\ d * k \in Int
    BY <2>1
  <2>3. QED
    BY <2>2
<1>2. ASSUME x = y PROVE x * k <= y * k
  <2>1. x * k \in Int
    OBVIOUS
  <2>2. QED
    BY <1>2, <2>1
<1>3. QED
  <2>1. x <= y => x < y \/ x = y
    OBVIOUS
  <2>2. PICK a \in Int, b \in Int : a = x * k /\ b = y * k
    OBVIOUS
  <2>3. (x < y => a < b) /\ (x = y => a <= b)
    BY <1>1, <1>2, <2>2
  <2>4. (x < y => a < b) /\ (x <= y => a <= b)
    BY <2>1, <2>3
  <2>5. QED
    BY <2>2, <2>4, Zenon

\* r is not after s.
AtMost(r, s) == r.n * s.d <= s.n * r.d

\* Fractions are in order: any two compare, and comparing is transitive.
LEMMA LessOrder ==
  /\ \A r, s \in Fractions : Less(r, s) \/ Same(r, s) \/ Less(s, r)
  /\ \A r, s \in Fractions : AtMost(r, s) <=> Less(r, s) \/ Same(r, s)
  /\ \A r, s, t \in Fractions : Less(r, s) /\ AtMost(s, t) => Less(r, t)
  /\ \A r, s, t \in Fractions : AtMost(r, s) /\ AtMost(s, t) => AtMost(r, t)
<1>1. ASSUME NEW r \in Fractions, NEW s \in Fractions
      PROVE  /\ r.n * s.d \in Int /\ s.n * r.d \in Int
             /\ r.n \in Int /\ r.d \in Nat /\ r.d > 0
  BY DEF Fractions
<1>2. ASSUME NEW r \in Fractions, NEW s \in Fractions
      PROVE  (Less(r, s) \/ Same(r, s) \/ Less(s, r)) /\ (AtMost(r, s) <=> Less(r, s) \/ Same(r, s))
  <2>1. PICK a \in Int, b \in Int : a = r.n * s.d /\ b = s.n * r.d
    BY <1>1
  <2>2. (a < b \/ a = b \/ b < a) /\ (a <= b <=> (a < b \/ a = b))
    OBVIOUS
  <2>3. QED
    BY <2>1, <2>2, Zenon DEF Less, Same, AtMost
<1>3. ASSUME NEW r \in Fractions, NEW s \in Fractions, NEW t \in Fractions, AtMost(s, t)
      PROVE  (Less(r, s) => Less(r, t)) /\ (AtMost(r, s) => AtMost(r, t))
  <2>1. PICK a \in Int, b \in Nat : a = r.n /\ b = r.d /\ b > 0
    BY <1>1
  <2>2. PICK c \in Int, d \in Nat : c = s.n /\ d = s.d /\ d > 0
    BY <1>1
  <2>3. PICK e \in Int, f \in Nat : e = t.n /\ f = t.d /\ f > 0
    BY <1>1
  <2>4. c * f <= e * d
    BY <1>3, <2>2, <2>3, Zenon DEF AtMost
  <2>5. (c * f) * b <= (e * d) * b
    <3>1. c * f \in Int /\ e * d \in Int
      OBVIOUS
    <3>2. QED
      BY <2>1, <2>4, <3>1, Grow
  <2>6. (c * f) * b = (c * b) * f /\ (e * d) * b = (e * b) * d /\ (a * d) * f = (a * f) * d
    OBVIOUS
  <2>7. /\ a * d \in Int /\ c * b \in Int /\ a * f \in Int /\ e * b \in Int
        /\ (a * d) * f \in Int /\ (c * b) * f \in Int /\ (e * b) * d \in Int /\ (a * f) * d \in Int
    OBVIOUS
  <2>8. a * d < c * b => a * f < e * b
    <3>1. ASSUME a * d < c * b PROVE a * f < e * b
      <4>1. (a * d) * f < (c * b) * f
        BY <2>3, <2>7, <3>1, Grow
      <4>2. PICK u \in Int, v \in Int, w \in Int :
              u = (a * f) * d /\ v = (c * b) * f /\ w = (e * b) * d
        BY <2>7, Zenon
      <4>3. u < v /\ v <= w
        BY <2>5, <2>6, <4>1, <4>2, Zenon
      <4>4. u < w
        BY <4>3
      <4>5. QED
        BY <2>2, <2>7, <4>2, <4>4, Cancel, Zenon
    <3>2. QED
      BY <3>1
  <2>9. a * d <= c * b => a * f <= e * b
    <3>1. ASSUME a * d <= c * b PROVE a * f <= e * b
      <4>1. (a * d) * f <= (c * b) * f
        BY <2>3, <2>7, <3>1, Grow
      <4>2. PICK u \in Int, v \in Int, w \in Int :
              u = (a * f) * d /\ v = (c * b) * f /\ w = (e * b) * d
        BY <2>7, Zenon
      <4>3. u <= v /\ v <= w
        BY <2>5, <2>6, <4>1, <4>2, Zenon
      <4>4. u <= w
        BY <4>3
      <4>5. QED
        BY <2>2, <2>7, <4>2, <4>4, Cancel, Zenon
    <3>2. QED
      BY <3>1
  <2>10. QED
    BY <2>1, <2>2, <2>3, <2>8, <2>9, Zenon DEF Less, AtMost
<1>4. QED
  BY <1>2, <1>3, Zenon

CollisionsType == [toi : Fractions, normal : Vectors, pos : Vectors]

\* Collision i of cs comes before collision j.
Before(cs, i, j) ==
  \/ Less(cs[i].toi, cs[j].toi)
  \/ Same(cs[i].toi, cs[j].toi) /\ i <= j

\* The collisions of a list.
LEMMA CollisionTyped ==
  \A cs \in Seq(CollisionsType) : \A i \in DOMAIN cs :
    cs[i] \in CollisionsType /\ cs[i].toi \in Fractions
<1> SUFFICES ASSUME NEW cs \in Seq(CollisionsType), NEW i \in DOMAIN cs
             PROVE  cs[i] \in CollisionsType /\ cs[i].toi \in Fractions
  OBVIOUS
<1>1. cs[i] \in CollisionsType
  BY LenProperties
<1>2. PICK c \in CollisionsType : c = cs[i]
  BY <1>1
<1>3. c.toi \in Fractions
  BY DEF CollisionsType
<1>4. QED
  BY <1>1, <1>2, <1>3, Zenon

\* Of two collisions the earlier comes first, and what it comes before the later one's do.
LEMMA BeforeOrder ==
  ASSUME NEW cs \in Seq(CollisionsType), NEW i \in DOMAIN cs, NEW j \in DOMAIN cs
  PROVE  /\ i <= j => Before(cs, i, j) \/ Less(cs[j].toi, cs[i].toi)
         /\ \A k \in DOMAIN cs : Less(cs[j].toi, cs[i].toi) /\ Before(cs, i, k) => Before(cs, j, k)
<1>1. cs[i].toi \in Fractions /\ cs[j].toi \in Fractions
  BY CollisionTyped, Zenon
<1>2. ASSUME NEW k \in DOMAIN cs, Less(cs[j].toi, cs[i].toi), Before(cs, i, k)
      PROVE  Before(cs, j, k)
  <2>1. cs[k].toi \in Fractions
    BY CollisionTyped, Zenon
  <2>2. AtMost(cs[i].toi, cs[k].toi)
    BY <1>1, <1>2, <2>1, LessOrder, Zenon DEF Before
  <2>3. Less(cs[j].toi, cs[k].toi)
    <3>1. \A r, s, t \in Fractions : Less(r, s) /\ AtMost(s, t) => Less(r, t)
      BY LessOrder, Zenon
    <3>2. QED
      BY <1>1, <1>2, <2>1, <2>2, <3>1, Zenon
  <2>4. QED
    BY <2>3, Zenon DEF Before
<1>3. i <= j => Before(cs, i, j) \/ Less(cs[j].toi, cs[i].toi)
  BY <1>1, LessOrder, Zenon DEF Before
<1>4. QED
  BY <1>2, <1>3, Zenon

\* There is a first of the collisions, if there is one.
LEMMA FirstExists ==
  ASSUME NEW cs \in Seq(CollisionsType), NEW hits \in SUBSET (DOMAIN cs), hits # {}
  PROVE  \E i \in hits : \A j \in hits : Before(cs, i, j)
<1>1. PICK n \in Nat : n = Len(cs) /\ DOMAIN cs = 1..n
  BY LenProperties
<1> DEFINE Upto(m) == \/ \A j \in hits : ~(j <= m)
                      \/ \E i \in hits : i <= m /\ \A j \in hits : j <= m => Before(cs, i, j)
           T == {m \in Nat : Upto(m)}
<1>2. Upto(0)
  BY <1>1
<1>3. ASSUME NEW m \in Nat, Upto(m), NEW k \in Nat, k = m + 1 PROVE Upto(k)
  <2>1. \A j \in hits : j \in Int /\ (j <= k <=> (j <= m \/ j = k)) /\ j \in DOMAIN cs
    BY <1>1, <1>3
  <2>2. CASE k \notin hits
    <3>1. \A j \in hits : j <= k => j <= m
      BY <2>1, <2>2, Zenon
    <3>2. \A j \in hits : j <= m => j <= k
      BY <2>1, Zenon
    <3>3. QED
      BY <1>3, <3>1, <3>2, Zenon
  <2>3. CASE k \in hits
    <3>1. k <= k /\ k \in DOMAIN cs
      BY <2>1, <2>3
    <3>2. Before(cs, k, k)
      <4>1. cs[k].toi \in Fractions
        BY <3>1, CollisionTyped, Zenon
      <4>2. Same(cs[k].toi, cs[k].toi)
        BY <4>1 DEF Same
      <4>3. QED
        BY <3>1, <4>2, Zenon DEF Before
    <3>3. CASE \A j \in hits : ~(j <= m)
      <4>1. \A j \in hits : j <= k => Before(cs, k, j)
        BY <2>1, <3>2, <3>3, Zenon
      <4>2. QED
        BY <2>3, <3>1, <4>1, Zenon
    <3>4. CASE \E i \in hits : i <= m /\ \A j \in hits : j <= m => Before(cs, i, j)
      <4>1. PICK i \in hits : i <= m /\ \A j \in hits : j <= m => Before(cs, i, j)
        BY <3>4
      <4>2. i <= k /\ i \in DOMAIN cs
        BY <2>1, <4>1
      <4>3. CASE Before(cs, i, k)
        <5>1. \A j \in hits : j <= k => Before(cs, i, j)
          BY <2>1, <4>1, <4>3, Zenon
        <5>2. QED
          BY <4>1, <4>2, <5>1, Zenon
      <4>4. CASE ~Before(cs, i, k)
        <5>1. Less(cs[k].toi, cs[i].toi)
          BY <3>1, <4>2, <4>4, BeforeOrder, Zenon
        <5>2. \A j \in hits : j <= k => Before(cs, k, j)
          BY <2>1, <3>1, <3>2, <4>1, <4>2, <5>1, BeforeOrder, Zenon
        <5>3. QED
          BY <2>3, <3>1, <5>2, Zenon
      <4>5. QED
        BY <4>3, <4>4
    <3>5. QED
      BY <1>3, <3>3, <3>4, Zenon
  <2>4. QED
    BY <2>2, <2>3
<1>4. T = Nat
  <2> HIDE DEF Upto
  <2>1. T \in SUBSET Nat /\ 0 \in T /\ \A m \in T, k \in Nat : k = m + 1 => k \in T
    BY <1>2, <1>3
  <2> HIDE DEF T
  <2>2. QED
    BY <2>1, SetInduction
<1>5. Upto(n)
  <2>1. n \in T
    <3> HIDE DEF T
    <3> QED
      BY <1>4
  <2>2. QED
    BY <2>1, Zenon
<1>6. \A j \in hits : j <= n
  BY <1>1
<1>7. QED
  BY <1>5, <1>6, Zenon

\* get_first_collision returns a collision.
LEMMA FirstType ==
  ASSUME NEW cs \in Seq(CollisionsType)
  PROVE  get_first_collision(cs) \in CollisionsType
<1> DEFINE hits == {i \in DOMAIN cs : is_valid_toi(cs[i].toi)}
           first == CHOOSE i \in hits : \A j \in hits :
                      \/ Less(cs[i].toi, cs[j].toi)
                      \/ Same(cs[i].toi, cs[j].toi) /\ i <= j
<1>1. get_first_collision(cs) = IF hits = {} THEN NoCollision ELSE cs[first]
  BY Zenon DEF get_first_collision
<1>2. NoCollision \in CollisionsType
  BY DEF NoCollision, CollisionsType, Never, Zero, Fractions, Vectors
<1>3. ASSUME hits # {} PROVE cs[first] \in CollisionsType
  <2>1. hits \in SUBSET (DOMAIN cs)
    OBVIOUS
  <2>2. \E i \in hits : \A j \in hits : Before(cs, i, j)
    <3> HIDE DEF hits
    <3> QED
      BY <1>3, <2>1, FirstExists, Zenon
  <2>3. first \in hits
    <3> HIDE DEF hits
    <3> QED
      BY <2>2, Zenon DEF Before
  <2> HIDE DEF first
  <2>4. first \in DOMAIN cs
    BY <2>1, <2>3
  <2>5. QED
    BY <2>4
<1>4. QED
  BY <1>1, <1>2, <1>3

\* The numbers of an object.
LEMMA ObjectParts ==
  \A o \in Objects :
    /\ o.pos \in Vectors /\ o.velocity \in Vectors /\ o.half \in Vectors
    /\ o.pos.x \in Int /\ o.pos.y \in Int /\ o.velocity.x \in Int /\ o.velocity.y \in Int
    /\ o.half.x \in Int /\ o.half.y \in Int
BY DEF Objects, Vectors

\* The arithmetic of the geometry stays in its types; no Ratio divides by zero.
LEMMA ArithmeticType ==
  /\ \A a \in Int : Abs(a) \in Nat /\ Sign(a) \in Int /\ (a # 0 => Abs(a) > 0)
  /\ \A a, b \in Int : Ratio(a, b) \in Fractions
  /\ \A a \in Int : ToInt(a) \in Int
  /\ \A v \in Vectors, k \in Int : Times(v, k) \in Vectors
  /\ \A u, v \in Vectors : Plus(u, v) \in Vectors
<1>1. ASSUME NEW a \in Int PROVE Abs(a) \in Nat /\ Sign(a) \in Int /\ (a # 0 => Abs(a) > 0)
  BY DEF Abs, Sign
<1>2. ASSUME NEW a \in Int, NEW b \in Int PROVE Ratio(a, b) \in Fractions
  <2>1. CASE b = 0
    BY <2>1 DEF Ratio, Never, Fractions
  <2>2. CASE b # 0
    <3>1. Sign(b) * a \in Int /\ Abs(b) \in Nat \ {0}
      BY <1>1, <2>2
    <3>2. QED
      BY <2>2, <3>1 DEF Ratio, Fractions
  <2>3. QED
    BY <2>1, <2>2
<1>3. ASSUME NEW a \in Int PROVE ToInt(a) \in Int
  <2>1. PICK q : q = Abs(a) \div PX
    OBVIOUS
  <2>2. q \in Int
    BY <1>1, <2>1, Division, GridAssumption
  <2>3. Sign(a) * q \in Int
    BY <1>1, <2>2
  <2>4. Quotient(a, PX) \in Int
    BY <2>1, <2>3, Zenon DEF Quotient
  <2>5. QED
    BY <2>4, GridAssumption DEF ToInt
<1>4. ASSUME NEW v \in Vectors, NEW k \in Int PROVE Times(v, k) \in Vectors
  BY DEF Times, Vectors
<1>5. ASSUME NEW u \in Vectors, NEW v \in Vectors PROVE Plus(u, v) \in Vectors
  BY DEF Plus, Vectors
<1>6. QED
  BY <1>1, <1>2, <1>3, <1>4, <1>5, Zenon

\* linear_move returns an object.
LEMMA MoveType ==
  \A o \in Objects, k \in Int : linear_move(o, k) \in Objects
<1> SUFFICES ASSUME NEW o \in Objects, NEW k \in Int PROVE linear_move(o, k) \in Objects
  OBVIOUS
<1>1. PICK p \in Vectors : p = Plus(o.pos, Times(o.velocity, k))
  BY ObjectParts, ArithmeticType
<1>2. linear_move(o, k) = [o EXCEPT !.pos = p]
  BY <1>1, Zenon DEF linear_move
<1>3. QED
  BY <1>2 DEF Objects

\* What stands for no collision is one of them.
LEMMA NoCollisionType == NoCollision \in CollisionsType
BY DEF NoCollision, CollisionsType, Never, Zero, Fractions, Vectors

\* The place that a ball gets to is a collision with numbers in it.
LEMMA ReachedType ==
  ASSUME NEW ball \in Objects, NEW way \in Vectors, NEW toi \in Fractions, NEW normal \in Vectors
  PROVE  Reached(ball, way, toi, normal) \in CollisionsType
<1>1. PICK n \in Int, d \in Nat : n = toi.n /\ d = toi.d /\ d > 0
  BY DEF Fractions
<1>2. (n * way.x) \div d \in Int /\ (n * way.y) \div d \in Int
  <2>1. n * way.x \in Int /\ n * way.y \in Int
    BY DEF Vectors
  <2>2. QED
    BY <1>1, <2>1, Division
<1>3. PICK u \in Vectors : u = [x |-> (n * way.x) \div d, y |-> (n * way.y) \div d]
  BY <1>2 DEF Vectors
<1>4. PICK p \in Vectors : p = linear_interpolate(ball.pos, way, toi)
  <2>1. Plus(ball.pos, u) \in Vectors
    BY ObjectParts, ArithmeticType
  <2>2. linear_interpolate(ball.pos, way, toi) = Plus(ball.pos, u)
    BY <1>1, <1>3, Zenon DEF linear_interpolate
  <2>3. QED
    BY <2>1, <2>2
<1>5. [toi |-> toi, normal |-> normal, pos |-> p] \in CollisionsType
  BY DEF CollisionsType
<1>6. QED
  BY <1>4, <1>5, NoCollisionType, Zenon DEF Reached

\* The ball against an edge.
LEMMA EdgeType ==
  ASSUME NEW ball \in Objects, NEW e \in Int, NEW k \in Int
  PROVE  /\ ball_x_collide(ball, e, k) \in CollisionsType
         /\ ball_y_collide(ball, e, k) \in CollisionsType
<1>1. PICK way \in Vectors : way = Times(ball.velocity, k) /\ way.x \in Int /\ way.y \in Int
  <2>1. Times(ball.velocity, k) \in Vectors
    BY ObjectParts, ArithmeticType
  <2>2. \A v \in Vectors : v.x \in Int /\ v.y \in Int
    BY DEF Vectors
  <2>3. QED
    BY <2>1, <2>2
<1>2. ball_x_collide(ball, e, k) \in CollisionsType
  <2>1. PICK dir \in Int : dir = IF ball.velocity.x > 0 THEN 1 ELSE -1
    OBVIOUS
  <2>2. PICK a \in Int : a = e - dir * ball.half.x - ball.pos.x
    BY ObjectParts
  <2>3. Ratio(a, way.x) \in Fractions
    BY <1>1, ArithmeticType
  <2>4. [x |-> -dir, y |-> 0] \in Vectors
    BY DEF Vectors
  <2>5. Reached(ball, way, Ratio(a, way.x), [x |-> -dir, y |-> 0]) \in CollisionsType
    BY <2>3, <2>4, ReachedType
  <2>6. ball_x_collide(ball, e, k) = Reached(ball, way, Ratio(a, way.x), [x |-> -dir, y |-> 0])
    BY <1>1, <2>1, <2>2, Zenon DEF ball_x_collide
  <2>7. QED
    BY <2>5, <2>6
<1>3. ball_y_collide(ball, e, k) \in CollisionsType
  <2>1. PICK dir \in Int : dir = IF ball.velocity.y > 0 THEN 1 ELSE -1
    OBVIOUS
  <2>2. PICK a \in Int : a = e - dir * ball.half.y - ball.pos.y
    BY ObjectParts
  <2>3. Ratio(a, way.y) \in Fractions
    BY <1>1, ArithmeticType
  <2>4. [x |-> 0, y |-> -dir] \in Vectors
    BY DEF Vectors
  <2>5. Reached(ball, way, Ratio(a, way.y), [x |-> 0, y |-> -dir]) \in CollisionsType
    BY <2>3, <2>4, ReachedType
  <2>6. ball_y_collide(ball, e, k) = Reached(ball, way, Ratio(a, way.y), [x |-> 0, y |-> -dir])
    BY <1>1, <2>1, <2>2, Zenon DEF ball_y_collide
  <2>7. QED
    BY <2>5, <2>6
<1>4. QED
  BY <1>2, <1>3

\* The first of two collisions is a collision.
LEMMA PairType ==
  ASSUME NEW c \in CollisionsType, NEW d \in CollisionsType
  PROVE  get_first_collision(<<c, d>>) \in CollisionsType
<1>1. <<c, d>> \in Seq(CollisionsType)
  OBVIOUS
<1>2. QED
  BY <1>1, FirstType

\* AABB_collide returns a collision.
LEMMA PaddleType ==
  ASSUME NEW ball \in Objects, NEW paddle \in Objects, NEW k \in Int
  PROVE  AABB_collide(ball, paddle, k) \in CollisionsType
<1>1. PICK edge : edge = AABB_get_boundaries(paddle)
  OBVIOUS
<1>2. edge.left \in Int /\ edge.right \in Int /\ edge.up \in Int /\ edge.down \in Int
  BY <1>1, ObjectParts DEF AABB_get_boundaries
<1>3. /\ ToInt(edge.left) \in Int /\ ToInt(edge.right) \in Int
      /\ ToInt(edge.up) \in Int /\ ToInt(edge.down) \in Int
  BY <1>2, ArithmeticType
<1>4. PICK xc \in CollisionsType :
        xc = get_first_collision(<<ball_x_collide(ball, ToInt(edge.left), k),
                                   ball_x_collide(ball, ToInt(edge.right), k)>>)
  BY <1>3, EdgeType, PairType
<1>5. PICK yc \in CollisionsType :
        yc = get_first_collision(<<ball_y_collide(ball, ToInt(edge.up), k),
                                   ball_y_collide(ball, ToInt(edge.down), k)>>)
  BY <1>3, EdgeType, PairType
<1>6. /\ UnlessBeside(xc, ball, edge) \in CollisionsType
      /\ UnlessAbove(yc, ball, edge) \in CollisionsType
  BY NoCollisionType, Zenon DEF UnlessBeside, UnlessAbove
<1>7. get_first_collision(<<UnlessBeside(xc, ball, edge), UnlessAbove(yc, ball, edge)>>)
        \in CollisionsType
  BY <1>6, PairType
<1>8. QED
  BY <1>1, <1>4, <1>5, <1>7, Zenon DEF AABB_collide

\* The edges of the field.
LEMMA WallType ==
  /\ wall.up \in Int /\ wall.down \in Int /\ wall.left \in Int /\ wall.right \in Int
BY FieldAssumption DEF wall, Vectors

\* The four things that a ball may meet in one turn of the loop.
LEMMA CollisionsAreTyped ==
  ASSUME NEW p1 \in Objects, NEW p2 \in Objects, NEW ball \in Objects,
         NEW k \in Int, NEW left \in Int
  PROVE  /\ Collisions(wall, p1, p2, ball, k, left) \in Seq(CollisionsType)
         /\ Collisions(wall, p1, p2, ball, k, left)[4] \in CollisionsType
<1>1. /\ AABB_collide(ball, p1, k) \in CollisionsType
      /\ AABB_collide(ball, p2, k) \in CollisionsType
  BY PaddleType
<1>2. ball_wall_collide(wall, ball, k) \in CollisionsType
  BY WallType, EdgeType, PairType, Zenon DEF ball_wall_collide
<1>3. ball_score_collide(wall, ball, left) \in CollisionsType
  BY WallType, EdgeType, Zenon DEF ball_score_collide, OrElse
<1>4. QED
  BY <1>1, <1>2, <1>3 DEF Collisions

Turned == [ball : Objects, scored_index : {-1, 0, 1}, passed : Fractions,
           hits : Seq(CollisionsType), done : BOOLEAN]

\* ball_bounce_on_collision returns an object.
LEMMA BounceType ==
  ASSUME NEW ball \in Objects, NEW normal \in Vectors
  PROVE  ball_bounce_on_collision(ball, normal) \in Objects
<1>1. PICK v \in Vectors : v = reflect_orthogonal(ball.velocity, normal)
  <2>1. PICK u \in Vectors : u = ball.velocity
    BY ObjectParts
  <2>2. [u EXCEPT !.y = -@] \in Vectors /\ [u EXCEPT !.x = -@] \in Vectors
    BY DEF Vectors
  <2>3. reflect_orthogonal(u, normal) \in Vectors
    BY <2>2, Zenon DEF reflect_orthogonal
  <2>4. QED
    BY <2>1, <2>3
<1>2. PICK more \in Int : more = IF Abs(v.x) > SpeedCap THEN 0 ELSE SpeedUp
  BY GridAssumption
<1>3. PICK w \in Vectors : w = Faster(v, more)
  <2>1. v.x \in Int /\ v.y \in Int
    BY DEF Vectors
  <2>2. Sign(v.x) \in Int /\ Sign(v.y) \in Int
    BY <2>1, ArithmeticType
  <2>3. v.x + more * Sign(v.x) \in Int /\ v.y + more * Sign(v.y) \in Int
    BY <2>1, <2>2
  <2>4. QED
    BY <2>3 DEF Faster, Vectors
<1>4. ball_bounce_on_collision(ball, normal) = [ball EXCEPT !.velocity = w]
  BY <1>1, <1>2, <1>3, Zenon DEF ball_bounce_on_collision
<1>5. QED
  BY <1>4 DEF Objects

\* The sum of two fractions is one: no denominator becomes zero.
LEMMA Sum2Type ==
  ASSUME NEW r \in Fractions, NEW s \in Fractions
  PROVE  Sum2(r, s) \in Fractions
<1>1. PICK a \in Int, b \in Nat : a = r.n /\ b = r.d /\ b > 0
  BY DEF Fractions
<1>2. PICK c \in Int, d \in Nat : c = s.n /\ d = s.d /\ d > 0
  BY DEF Fractions
<1>3. PICK q \in Int : q = b \div d
  BY <1>2, Division
<1>4. a + c * q \in Int /\ a * d + c * b \in Int /\ b * d \in Nat \ {0}
  BY <1>1, <1>2
<1>5. [n |-> a + c * q, d |-> b] \in Fractions
  BY <1>1, <1>4 DEF Fractions
<1>6. [n |-> a * d + c * b, d |-> b * d] \in Fractions
  BY <1>4 DEF Fractions
<1>7. QED
  BY <1>1, <1>2, <1>3, <1>5, <1>6, Zenon DEF Sum2

\* Whatever a turn of the loop meets, the loop goes on with a ball, a time and a score.
LEMMA AfterFirstType ==
  ASSUME NEW s \in Turned, NEW k \in Int, NEW left \in Int,
         NEW score \in CollisionsType, NEW coll \in CollisionsType
  PROVE  AfterFirst(s, k, left, score, coll) \in Turned
<1>1. s.ball \in Objects /\ s.passed \in Fractions /\ s.hits \in Seq(CollisionsType)
  BY DEF Turned
<1>2. coll.toi \in Fractions /\ coll.normal \in Vectors /\ coll.pos \in Vectors
  BY DEF CollisionsType
<1>3. PICK passed \in Fractions : passed = Sum2(s.passed, coll.toi)
  BY <1>1, <1>2, Sum2Type
<1>4. PICK moved \in Objects : moved = linear_move(s.ball, left)
  BY <1>1, MoveType
<1>5. [s EXCEPT !.ball = moved, !.done = TRUE] \in Turned
  BY DEF Turned
<1>6. PICK index \in {-1, 0, 1} : index = ScoredIndex(score)
  BY DEF ScoredIndex
<1>7. Blank \in Objects
  BY DEF Blank, Zero, Objects, Vectors
<1>8. [s EXCEPT !.ball = Blank, !.scored_index = index, !.done = TRUE] \in Turned
  BY <1>7 DEF Turned
<1>9. PICK bounced \in Objects :
        bounced = ball_bounce_on_collision([s.ball EXCEPT !.pos = coll.pos], coll.normal)
  <2>1. PICK b : b = [s.ball EXCEPT !.pos = coll.pos]
    OBVIOUS
  <2>2. b \in Objects
    BY <1>1, <1>2, <2>1 DEF Objects
  <2>3. QED
    BY <1>2, <2>1, <2>2, BounceType
<1>10. PICK hits \in Seq(CollisionsType) : hits = Append(s.hits, coll)
  <2>1. Append(s.hits, coll) \in Seq(CollisionsType)
    BY <1>1, AppendFacts, Zenon
  <2>2. QED
    BY <2>1
<1>11. \A d \in BOOLEAN :
         [s EXCEPT !.ball = bounced, !.passed = passed, !.hits = hits, !.done = d] \in Turned
  BY DEF Turned
<1>12. (k * passed.d <= passed.n) \in BOOLEAN
  OBVIOUS
<1>13. [s EXCEPT !.ball = bounced, !.passed = passed, !.hits = hits,
                 !.done = k * passed.d <= passed.n] \in Turned
  BY <1>11, <1>12, Zenon
<1>14. CASE ~Hit(coll)
  BY <1>4, <1>5, <1>14, Zenon DEF AfterFirst
<1>15. CASE Hit(coll) /\ Hit(score) /\ Same(coll.toi, score.toi)
  BY <1>6, <1>8, <1>15, Zenon DEF AfterFirst
<1>16. CASE Hit(coll) /\ ~(Hit(score) /\ Same(coll.toi, score.toi))
  BY <1>3, <1>9, <1>10, <1>13, <1>16, Zenon DEF AfterFirst
<1>17. QED
  BY <1>14, <1>15, <1>16, Zenon

\* One turn of the loop of ball_advance.
LEMMA TurnType ==
  ASSUME NEW p1 \in Objects, NEW p2 \in Objects, NEW k \in Int, NEW s \in Turned
  PROVE  Turn(wall, p1, p2, k, s) \in Turned
<1>1. s.ball \in Objects /\ s.passed \in Fractions
  BY DEF Turned
<1>2. PICK left \in Int : left = IntLeft(k, s.passed)
  <2>1. PICK n \in Int, d \in Nat : n = s.passed.n /\ d = s.passed.d /\ d > 0
    BY <1>1 DEF Fractions
  <2>2. (k * d - n) \div d \in Int
    BY <2>1, Division
  <2>3. QED
    BY <2>1, <2>2, Zenon DEF IntLeft
<1>3. PICK cs \in Seq(CollisionsType) : cs = Collisions(wall, p1, p2, s.ball, k, left)
                                       /\ cs[4] \in CollisionsType
  BY <1>1, CollisionsAreTyped
<1>4. get_first_collision(cs) \in CollisionsType
  BY FirstType
<1>5. AfterFirst(s, k, left, cs[4], get_first_collision(cs)) \in Turned
  BY <1>3, <1>4, AfterFirstType, Zenon
<1>6. QED
  BY <1>2, <1>3, <1>5, Zenon DEF Turn, AfterAll

\* The loop of ball_advance before its first turn.
Start(ball) ==
  [ball |-> ball, scored_index |-> -1, passed |-> Ratio(0, 1), hits |-> <<>>, done |-> FALSE]

LEMMA StartTurned ==
  ASSUME NEW ball \in Objects
  PROVE  LET s == Start(ball) IN
         /\ s \in Turned /\ s.ball = ball /\ s.passed = [n |-> 0, d |-> 1]
         /\ s.scored_index = -1 /\ s.hits = <<>> /\ s.done = FALSE
<1>1. PICK r \in Fractions : r = [n |-> 0, d |-> 1]
  <2>1. [n |-> 0, d |-> 1] \in Fractions
    BY DEF Fractions
  <2>2. QED
    BY <2>1, Zenon
<1>2. Ratio(0, 1) = r
  BY <1>1 DEF Ratio, Sign, Abs
<1>3. PICK hits \in Seq(CollisionsType) : hits = <<>>
  <2>1. <<>> \in Seq(CollisionsType)
    OBVIOUS
  <2>2. QED
    BY <2>1, Zenon
<1>4. PICK s : s = [ball |-> ball, scored_index |-> -1, passed |-> r, hits |-> hits, done |-> FALSE]
  OBVIOUS
<1>5. s \in Turned
  BY <1>4 DEF Turned
<1>6. /\ s.ball = ball /\ s.passed = r /\ s.scored_index = -1 /\ s.hits = hits
      /\ s.done = FALSE
  BY <1>4
<1>7. Start(ball) = s
  BY <1>2, <1>3, <1>4, Zenon DEF Start
<1>8. QED
  BY <1>1, <1>3, <1>5, <1>6, <1>7, Zenon

\* The turns of the loop, one after the other.
AreTurns(turns, p1, p2, ball, k) ==
  /\ \A i \in 0..MaxBounces : turns[i] \in Turned
  /\ turns[0] = Start(ball)
  /\ \A i \in 0..MaxBounces, j \in 1..MaxBounces : j = i + 1 =>
       turns[j] = IF turns[i].done THEN turns[i] ELSE Turn(wall, p1, p2, k, turns[i])
  /\ ball_advance(wall, p1, p2, ball, k) = turns[MaxBounces]

\* ball_advance turns until it is done, MaxBounces times at most.
LEMMA AdvanceTurns ==
  ASSUME NEW p1 \in Objects, NEW p2 \in Objects, NEW ball \in Objects, NEW k \in Int
  PROVE  \E turns : AreTurns(turns, p1, p2, ball, k)
<1> DEFINE first == Start(ball)
           Step(s) == IF s.done THEN s ELSE Turn(wall, p1, p2, k, s)
           Def(f) == f = [i \in 0..MaxBounces |->
                            IF i = 0
                            THEN [ball |-> ball, scored_index |-> -1, passed |-> Ratio(0, 1),
                                  hits |-> <<>>, done |-> FALSE]
                            ELSE LET s == f[i - 1]
                                 IN IF s.done THEN s ELSE Turn(wall, p1, p2, k, s)]
           turns == CHOOSE f : Def(f)
<1>1. first \in Turned
  BY StartTurned, Zenon
<1>2. \A s \in Turned : Step(s) \in Turned
  BY TurnType
<1>3. MaxBounces \in Nat
  BY GridAssumption
<1> HIDE DEF first, Step
<1>4. PICK next : next = [i \in 1..MaxBounces |-> [s \in Turned |-> Step(s)]]
  OBVIOUS
<1>5. next \in [1..MaxBounces -> [Turned -> Turned]]
  BY <1>2, <1>4
<1>6. PICK f \in [0..MaxBounces -> Turned] : Unfolds(f, MaxBounces, first, next)
  BY <1>1, <1>3, <1>5, Recursion, Zenon
<1>7. f[0] = first /\ \A i \in 0..MaxBounces, j \in 1..MaxBounces : j = i + 1 => f[j] = Step(f[i])
  BY <1>4, <1>6 DEF Unfolds
<1>8. Def(f)
  <2>1. ASSUME NEW i \in 0..MaxBounces PROVE f[i] = IF i = 0 THEN first ELSE Step(f[i - 1])
    <3>1. CASE i = 0
      BY <1>7, <3>1, Zenon
    <3>2. CASE i # 0
      <4>1. PICK m \in 0..MaxBounces : m = i - 1 /\ i = m + 1 /\ i \in 1..MaxBounces
        BY <1>3, <3>2
      <4>2. QED
        BY <1>7, <3>2, <4>1, Zenon
    <3>3. QED
      BY <3>1, <3>2
  <2>2. f = [i \in 0..MaxBounces |-> IF i = 0 THEN first ELSE Step(f[i - 1])]
    <3>1. f = [i \in 0..MaxBounces |-> f[i]]
      BY <1>6
    <3>2. QED
      BY <2>1, <3>1, Zenon
  <2>3. QED
    BY <2>2, Zenon DEF Step, first, Start
<1>9. Def(turns)
  <2> HIDE DEF Def
  <2> QED
    BY <1>8, Zenon
<1>10. /\ turns[0] = first
       /\ \A i \in 0..MaxBounces, j \in 1..MaxBounces : j = i + 1 => turns[j] = Step(turns[i])
  <2> HIDE DEF turns
  <2>1. turns = [i \in 0..MaxBounces |-> IF i = 0 THEN first ELSE Step(turns[i - 1])]
    BY <1>9, Zenon DEF Step, first, Start
  <2>2. \A i \in 0..MaxBounces : turns[i] = IF i = 0 THEN first ELSE Step(turns[i - 1])
    BY <2>1, Zenon
  <2>3. QED
    BY <1>3, <2>2
<1> DEFINE Typed(m) == \A i \in 0..MaxBounces : i = m => turns[i] \in Turned
           T == {m \in Nat : Typed(m)}
<1>11. T = Nat
  <2> HIDE DEF turns
  <2>1. Typed(0)
    BY <1>1, <1>10
  <2>2. ASSUME NEW m \in Nat, Typed(m), NEW j \in Nat, j = m + 1 PROVE Typed(j)
    <3> SUFFICES ASSUME NEW i \in 0..MaxBounces, i = j PROVE turns[i] \in Turned
      OBVIOUS
    <3>1. m \in 0..MaxBounces /\ i \in 1..MaxBounces /\ i = m + 1
      BY <1>3, <2>2
    <3>2. turns[m] \in Turned
      BY <2>2, <3>1, Zenon
    <3>3. turns[i] = Step(turns[m])
      BY <1>10, <3>1, Zenon
    <3>4. QED
      BY <1>2, <3>2, <3>3, Zenon
  <2> HIDE DEF Typed
  <2>3. T \in SUBSET Nat /\ 0 \in T /\ \A m \in T, j \in Nat : j = m + 1 => j \in T
    BY <2>1, <2>2
  <2> HIDE DEF T
  <2>4. QED
    BY <2>3, SetInduction
<1>12. \A i \in 0..MaxBounces : turns[i] \in Turned
  <2> HIDE DEF turns
  <2>1. \A i \in 0..MaxBounces : i \in T
    <3> HIDE DEF T
    <3> QED
      BY <1>11
  <2>2. QED
    BY <2>1, Zenon
<1>13. ball_advance(wall, p1, p2, ball, k) = turns[MaxBounces]
  BY Zenon DEF ball_advance
<1>14. \A i \in 0..MaxBounces, j \in 1..MaxBounces : j = i + 1 =>
         turns[j] = IF turns[i].done THEN turns[i] ELSE Turn(wall, p1, p2, k, turns[i])
  <2> HIDE DEF turns
  <2> QED
    BY <1>10, Zenon DEF Step
<1>15. QED
  <2> HIDE DEF turns
  <2> QED
    BY <1>10, <1>12, <1>13, <1>14, Zenon DEF first, AreTurns

\* ball_advance returns a ball, after however many turns.
LEMMA AdvanceType ==
  ASSUME NEW p1 \in Objects, NEW p2 \in Objects, NEW ball \in Objects, NEW k \in Int
  PROVE  ball_advance(wall, p1, p2, ball, k) \in Turned
<1>1. MaxBounces \in 0..MaxBounces
  BY GridAssumption
<1>2. PICK turns : AreTurns(turns, p1, p2, ball, k)
  BY AdvanceTurns, Zenon
<1>3. QED
  BY <1>1, <1>2, Zenon DEF AreTurns

\* The packet under way is the state that the server has, and a STATE, which does not
\* carry the score, finds it at the client already.
UnderWay ==
  \E type \in {PACKET_INIT, PACKET_STATE} :
    /\ wire = <<Packet(type, ssync, state)>>
    /\ type = PACKET_STATE => local.score = state.score

IInv ==
  /\ TypeOK
  /\ wire = <<>> => Mirrors(local, state)
  /\ wire # <<>> => UnderWay

\* init_game makes a state with the score it is given.
LEMMA InitGameType ==
  ASSUME NEW score \in [1..2 -> 0..(MaxScore - 1)], NEW st \in init_game(score)
  PROVE  st \in States /\ st.score = score
<1>1. Box.x \in Int /\ Box.y \in Int /\ PaddleHalf.x \in Int
  BY FieldAssumption DEF Vectors
<1>2. Box.x \div 2 \in Int /\ Box.y \div 2 \in Int
  BY <1>1, Division
<1>3. ASSUME NEW x \in Int PROVE Paddle(x) \in Objects
  <2>1. [x |-> x, y |-> Box.y \div 2] \in Vectors /\ Zero \in Vectors
    BY <1>2 DEF Vectors, Zero
  <2>2. QED
    BY <2>1, FieldAssumption DEF Paddle, Objects
<1>4. InitPlayer1 \in Objects /\ InitPlayer2 \in Objects
  <2>1. Box.x - PaddleHalf.x \in Int
    BY <1>1
  <2>2. QED
    BY <1>1, <1>3, <2>1 DEF InitPlayer1, InitPlayer2
<1>5. ASSUME NEW ball \in InitBalls PROVE ball \in Objects
  <2>1. PICK dx \in {-1, 1}, dy \in {-1, 1} :
          ball = [pos |-> [x |-> Box.x \div 2, y |-> Box.y \div 2], half |-> BallHalf,
                  velocity |-> Times([x |-> dx, y |-> dy], InitSpeed)]
    BY DEF InitBalls
  <2>2. [x |-> dx, y |-> dy] \in Vectors
    BY DEF Vectors
  <2>3. PICK v \in Vectors : v = Times([x |-> dx, y |-> dy], InitSpeed)
    BY <2>2, ArithmeticType, FieldAssumption
  <2>4. PICK p \in Vectors : p = [x |-> Box.x \div 2, y |-> Box.y \div 2]
    BY <1>2 DEF Vectors
  <2>5. ball = [pos |-> p, half |-> BallHalf, velocity |-> v]
    BY <2>1, <2>3, <2>4
  <2>6. QED
    BY <2>5, FieldAssumption DEF Objects
<1>6. PICK ball \in InitBalls :
        st = [player1 |-> InitPlayer1, player2 |-> InitPlayer2, ball |-> ball, score |-> score]
  BY DEF init_game
<1>7. QED
  BY <1>4, <1>5, <1>6 DEF States

\* The sync stays in an int8_t.
LEMMA SyncType ==
  /\ 0 \in Syncs
  /\ \A sync \in Syncs : NextSync(sync) \in Syncs
<1>1. PICK h \in Int, r \in Nat : h = ByteBase \div 2 /\ r < 2 /\ ByteBase = 2 * h + r
  BY Division, WidthAssumption
<1>2. h >= 1
  BY <1>1, PacketAssumption, WidthAssumption
<1>3. Syncs = (-h)..(h - 1)
  BY <1>1 DEF Syncs
<1>4. QED
  BY <1>1, <1>2, <1>3 DEF NextSync

\* A paddle that is pushed is a paddle.
LEMMA PushedType ==
  ASSUME NEW paddle \in Objects, NEW push \in Int
  PROVE  Pushed(paddle, push) \in Objects
<1>1. PICK v \in Int : v = PaddleSpeed * Sign(push)
  BY ArithmeticType, FieldAssumption
<1>2. PICK o : o = [paddle EXCEPT !.velocity.y = v]
  OBVIOUS
<1>3. o \in Objects
  BY <1>2 DEF Objects, Vectors
<1>4. Abs(push) \in Int
  BY ArithmeticType
<1>5. QED
  BY <1>1, <1>2, <1>3, <1>4, MoveType, Zenon DEF Pushed

\* The invariant holds when the first INIT has been read.
LEMMA InitInv == Init => IInv
<1> SUFFICES ASSUME Init PROVE IInv
  OBVIOUS
<1>1. <<0, 0>> \in [1..2 -> 0..(MaxScore - 1)]
  BY PacketAssumption
<1>2. state \in States
  BY <1>1, InitGameType DEF Init
<1>3. local = StateFrom(Got(PACKET_INIT, 0, state).data) /\ ssync = 0 /\ wire = <<>>
  BY Zenon DEF Init, Got
<1>4. local \in States /\ Mirrors(local, state)
  BY <1>2, <1>3, SyncType, InitRead, Zenon
<1>5. ssync \in Syncs
  BY <1>3, SyncType
<1>6. Len(wire) <= 1
  BY <1>3
<1>7. QED
  BY <1>2, <1>3, <1>4, <1>5, <1>6, Zenon DEF IInv, TypeOK

\* send_state keeps it: the packet it leaves on the wire is the state it leaves behind, and
\* a new score goes out in an INIT only.
LEMMA TickInv ==
  ASSUME IInv, NEW delta_time \in Ticks, ServerTick(delta_time)
  PROVE  IInv'
<1>1. /\ state \in States /\ local \in States /\ ssync \in Syncs
      /\ wire = <<>> /\ Mirrors(local, state)
  BY Zenon DEF IInv, TypeOK, ServerTick
<1>2. /\ state.player1 \in Objects /\ state.player2 \in Objects /\ state.ball \in Objects
      /\ state.score \in [1..2 -> 0..(MaxScore - 1)]
  BY <1>1 DEF States
<1>3. delta_time \in Int
  BY TimeAssumption
<1>4. PICK after \in Turned :
        after = ball_advance(wall, state.player1, state.player2, state.ball, delta_time)
  BY <1>2, <1>3, AdvanceType
<1>5. local' = local
  BY Zenon DEF ServerTick
<1>6. CASE after.scored_index # -1
  <2>1. /\ state' \in init_game([state.score EXCEPT ![after.scored_index + 1] = (@ + 1) % MaxScore])
        /\ ssync' = NextSync(ssync)
        /\ wire' = <<Packet(PACKET_INIT, ssync', state')>>
    BY <1>4, <1>6, Zenon DEF ServerTick
  <2>2. [state.score EXCEPT ![after.scored_index + 1] = (@ + 1) % MaxScore]
          \in [1..2 -> 0..(MaxScore - 1)]
    <3>1. PICK i \in 1..2 : i = after.scored_index + 1
      BY <1>6 DEF Turned
    <3>2. PICK v \in Nat : v = (state.score[i] + 1) % MaxScore /\ v < MaxScore
      <4>1. state.score[i] + 1 \in Int
        BY <1>2
      <4>2. QED
        BY <4>1, Division, PacketAssumption
    <3>3. v \in 0..(MaxScore - 1)
      BY <3>2, PacketAssumption
    <3>4. [state.score EXCEPT ![i] = v] \in [1..2 -> 0..(MaxScore - 1)]
      BY <1>2, <3>3
    <3>5. QED
      BY <3>1, <3>2, <3>4
  <2>3. state' \in States
    BY <2>1, <2>2, InitGameType
  <2>4. ssync' \in Syncs
    BY <1>1, <2>1, SyncType
  <2>5. Len(wire') <= 1 /\ wire' # <<>>
    BY <2>1
  <2>6. UnderWay'
    <3>1. PACKET_INIT \in {PACKET_INIT, PACKET_STATE} /\ PACKET_INIT # PACKET_STATE
      BY DEF PACKET_INIT, PACKET_STATE
    <3>2. QED
      BY <2>1, <3>1, Zenon DEF UnderWay
  <2>7. QED
    BY <1>1, <1>5, <2>3, <2>4, <2>5, <2>6, Zenon DEF IInv, TypeOK
<1>7. CASE after.scored_index = -1
  <2>1. /\ \E inputs \in Inputs :
             state' = [state EXCEPT !.player1 = Pushed(@, inputs[1]),
                                    !.player2 = Pushed(@, inputs[2]),
                                    !.ball = after.ball]
        /\ ssync' = ssync
        /\ wire' = <<Packet(PACKET_STATE, ssync', state')>>
    BY <1>4, <1>7, Zenon DEF ServerTick
  <2>2. PICK inputs \in Inputs :
             state' = [state EXCEPT !.player1 = Pushed(@, inputs[1]),
                                    !.player2 = Pushed(@, inputs[2]),
                                    !.ball = after.ball]
    BY <2>1
  <2>3. inputs[1] \in Int /\ inputs[2] \in Int
    BY FieldAssumption
  <2>4. PICK o1 \in Objects, o2 \in Objects :
          o1 = Pushed(state.player1, inputs[1]) /\ o2 = Pushed(state.player2, inputs[2])
    BY <1>2, <2>3, PushedType
  <2>5. PICK b \in Objects : b = after.ball
    BY DEF Turned
  <2>6. state' = [state EXCEPT !.player1 = o1, !.player2 = o2, !.ball = b]
    BY <1>1, <2>2, <2>4, <2>5 DEF States
  <2>7. state' \in States /\ state'.score = state.score
    BY <1>1, <2>6 DEF States
  <2>8. Len(wire') <= 1 /\ wire' # <<>>
    BY <2>1
  <2>9. UnderWay'
    <3>1. local'.score = state'.score
      BY <1>1, <1>5, <2>7 DEF Mirrors
    <3>2. QED
      BY <2>1, <3>1, Zenon DEF UnderWay
  <2>10. QED
    BY <1>1, <1>5, <2>1, <2>7, <2>8, <2>9, Zenon DEF IInv, TypeOK
<1>8. QED
  BY <1>6, <1>7

\* server_state_receive keeps it: the client mirrors what it has read.
LEMMA ReceiveInv ==
  ASSUME IInv, ClientReceives
  PROVE  IInv'
<1>1. /\ state \in States /\ local \in States /\ ssync \in Syncs /\ UnderWay
      /\ wire' = <<>> /\ state' = state /\ ssync' = ssync
  BY Zenon DEF IInv, TypeOK, ClientReceives
<1>2. PICK type \in {PACKET_INIT, PACKET_STATE} :
        /\ wire = <<Packet(type, ssync, state)>>
        /\ type = PACKET_STATE => local.score = state.score
  BY <1>1 DEF UnderWay
<1>3. PICK p : p = Packet(type, ssync, state)
  OBVIOUS
<1>4. Head(wire) = p
  BY <1>2, <1>3
<1>5. packet_deserialize(Head(wire)) = Got(type, ssync, state)
  BY <1>3, <1>4, Zenon DEF Got
<1>6. local' = IF Got(type, ssync, state).type = PACKET_INIT
               THEN StateFrom(Got(type, ssync, state).data)
               ELSE Snapped(Got(type, ssync, state).data)
  BY <1>5, Zenon DEF ClientReceives
<1>7. local' \in States /\ Mirrors(local', state)
  <2>1. CASE type = PACKET_INIT
    BY <1>1, <1>6, <2>1, InitRead, Zenon
  <2>2. CASE type = PACKET_STATE
    <3>1. PACKET_STATE # PACKET_INIT
      BY DEF PACKET_INIT, PACKET_STATE
    <3>2. /\ Got(PACKET_STATE, ssync, state).type = PACKET_STATE
          /\ Snapped(Got(PACKET_STATE, ssync, state).data) \in States
          /\ Mirrors(Snapped(Got(PACKET_STATE, ssync, state).data), state)
      BY <1>1, <1>2, <2>2, StateRead, Zenon
    <3>3. QED
      BY <1>6, <2>2, <3>1, <3>2, Zenon
  <2>3. QED
    BY <2>1, <2>2
<1>8. Len(wire') <= 1
  BY <1>1
<1>9. QED
  BY <1>1, <1>7, <1>8, Zenon DEF IInv, TypeOK

\* Every step keeps the invariant.
LEMMA StepInv == IInv /\ [Next]_vars => IInv'
<1> SUFFICES ASSUME IInv, [Next]_vars PROVE IInv'
  OBVIOUS
<1>1. CASE Server
  BY <1>1, TickInv DEF Server
<1>2. CASE ClientReceives
  BY <1>2, ReceiveInv
<1>3. CASE UNCHANGED vars
  BY <1>3, Zenon DEF IInv, TypeOK, UnderWay, vars
<1>4. QED
  BY <1>1, <1>2, <1>3 DEF Next

\* TypeOK holds in every field, with any paddles, ticks and inputs: no arithmetic of
\* ball_advance leaves the numbers, whatever is hit in whatever order, the sync stays in its
\* byte and the wire holds one packet at most.
THEOREM TypeCorrect == Spec => []TypeOK
<1>1. IInv => TypeOK
  BY Zenon DEF IInv
<1>2. QED
  BY InitInv, StepInv, <1>1, PTL DEF Spec

\* A client that mirrors the server sees it, as far as the numbers fit.
LEMMA InStepWhenFitting == IInv => ClientSeesServer
<1> SUFFICES ASSUME IInv, NumbersFit, wire = <<>>
             PROVE  /\ SeenVector(state.ball.pos, local.ball.pos)
                    /\ SeenVector(state.ball.velocity, local.ball.velocity)
                    /\ Seen(state.player2.pos.y, local.player2.pos.y)
                    /\ Seen(state.player2.velocity.y, local.player2.velocity.y)
                    /\ local.score = state.score
  BY DEF ClientSeesServer, InStep
<1>1. state \in States /\ Mirrors(local, state)
  BY Zenon DEF IInv, TypeOK
<1> DEFINE f == Fields(state)
<1>2. \A i \in 6..25 : Fits(ToScale(f[InitNames[i]]), IntBytes) /\ f[InitNames[i]] \in Int
  <2>1. \A i \in 6..25 : /\ i \in DOMAIN InitFields /\ i \in 1..25 /\ InitFields[i][2] # "i32"
                         /\ InitFields[i][1] = InitNames[i]
    <3>1. \A i \in 6..25 : i \in 1..25 /\ ~(i <= 5)
      OBVIOUS
    <3>2. \A i \in 6..25 : InitFields[i][2] = "float"
      BY <3>1, InitFieldsAre
    <3>3. \A i \in 6..25 : InitFields[i][2] # "i32"
      BY <3>2
    <3>4. QED
      BY <3>1, <3>3, InitFieldsAre, Zenon
  <2>2. QED
    BY <1>1, <2>1, FieldsTyped, Zenon DEF NumbersFit, Made
<1> HIDE DEF f
<1>3. \A i \in 6..25 : Seen(f[InitNames[i]], KeptFloat(f[InitNames[i]]))
  BY <1>2, FloatsSeen
<1>4. /\ Seen(f.ball_x, KeptFloat(f.ball_x)) /\ Seen(f.ball_y, KeptFloat(f.ball_y))
      /\ Seen(f.ball_vx, KeptFloat(f.ball_vx)) /\ Seen(f.ball_vy, KeptFloat(f.ball_vy))
      /\ Seen(f.p2_y, KeptFloat(f.p2_y)) /\ Seen(f.p2_vy, KeptFloat(f.p2_vy))
  BY <1>3 DEF InitNames
<1>5. /\ f.ball_x = state.ball.pos.x /\ f.ball_y = state.ball.pos.y
      /\ f.ball_vx = state.ball.velocity.x /\ f.ball_vy = state.ball.velocity.y
      /\ f.p2_y = state.player2.pos.y /\ f.p2_vy = state.player2.velocity.y
  BY DEF f, Fields
<1>6. QED
  BY <1>1, <1>4, <1>5, Zenon DEF Mirrors, SeenVector

\* ClientSeesServer, in every field: as long as no number of the game has outgrown the
\* int32_t it is sent as (then the conversion in binarr_append_float_n is undefined), the
\* client has the server's score between two packets, and the ball and the opponent's
\* paddle less than one unit of the wire off, wherever they are and however fast they go.
THEOREM ClientInStep == Spec => []ClientSeesServer
BY InitInv, StepInv, InStepWhenFitting, PTL DEF Spec

\* Which number is where, apart from how exact it is: between two packets the client has the
\* server's score, and of the ball and the opponent's paddle exactly what int32_t fields
\* can carry (of a number too large for its field, what wrapping around leaves of it).
THEOREM ClientMirrorsServer == Spec => [](wire = <<>> => Mirrors(local, state))
<1>1. IInv => (wire = <<>> => Mirrors(local, state))
  BY Zenon DEF IInv
<1>2. QED
  BY InitInv, StepInv, <1>1, PTL DEF Spec

\* Converting to int leaves a whole pixel as it is.
LEMMA WholePixel ==
  ASSUME NEW e \in Nat, e % PX = 0
  PROVE  ToInt(e) = e
<1>1. PICK q \in Int : q = e \div PX /\ e = PX * q
  BY GridAssumption, Division
<1>2. Abs(e) = e
  BY DEF Abs
<1>3. Sign(e) * q = q
  <2>1. CASE e = 0
    <3>1. q = 0
      BY <1>1, <2>1, GridAssumption
    <3>2. QED
      BY <2>1, <3>1 DEF Sign
  <2>2. CASE e > 0
    BY <1>1, <2>2 DEF Sign
  <2>3. QED
    BY <2>1, <2>2
<1>4. Quotient(e, PX) = q
  BY <1>1, <1>2, <1>3, Zenon DEF Quotient
<1>5. QED
  BY <1>1, <1>4, Zenon DEF ToInt

\* A paddle whose middle is at x.
InPlace(paddle, x) ==
  paddle.pos.x = x /\ paddle.velocity.x = 0 /\ paddle.half = PaddleHalf

\* The numbers of the sides, and the edges of the two paddles: both lie within the field.
LEMMA SideEdges ==
  /\ Box.x \in Nat /\ PaddleHalf.x \in Nat \ {0} /\ BallHalf.x \in Nat
  /\ 2 * PaddleHalf.x < Box.x /\ 2 * BallHalf.x <= Box.x
  /\ ToInt(0) = 0 /\ ToInt(2 * PaddleHalf.x) = 2 * PaddleHalf.x
  /\ ToInt(Box.x) = Box.x /\ ToInt(Box.x - 2 * PaddleHalf.x) = Box.x - 2 * PaddleHalf.x
<1>1. Box.x \in Int /\ PaddleHalf.x \in Int /\ BallHalf.x \in Int
  BY FieldAssumption DEF Vectors
<1>2. PICK h \in Int, r \in Nat : h = Box.x \div 2 /\ Box.x = 2 * h + r /\ r < 2
  <2>1. /\ Box.x \div 2 \in Int /\ Box.x % 2 \in Nat /\ Box.x % 2 < 2
        /\ Box.x = 2 * (Box.x \div 2) + (Box.x % 2)
    <3>1. 2 \in Nat /\ 2 > 0
      OBVIOUS
    <3>2. QED
      BY <1>1, <3>1, Division, Zenon
  <2>2. QED
    BY <2>1
<1>3. BallHalf.x >= 0 /\ BallHalf.x <= h /\ PaddleHalf.x > 0 /\ PaddleHalf.x < h
  BY <1>2, SideAssumption
<1>4. /\ Box.x \in Nat /\ PaddleHalf.x \in Nat \ {0} /\ BallHalf.x \in Nat
      /\ 2 * PaddleHalf.x < Box.x /\ 2 * BallHalf.x <= Box.x
  BY <1>1, <1>2, <1>3
<1>5. PICK p \in Nat : p = PX /\ p > 0
  BY GridAssumption
<1>6. PICK a \in Int : Box.x = p * a
  <2>1. Box.x \div p \in Int /\ Box.x % p = 0 /\ Box.x = p * (Box.x \div p) + (Box.x % p)
    BY <1>1, <1>5, SideAssumption, Division
  <2>2. p * (Box.x \div p) \in Int
    BY <2>1
  <2>3. Box.x = p * (Box.x \div p)
    BY <2>1, <2>2
  <2>4. QED
    BY <2>1, <2>3, Zenon
<1>7. PICK b \in Int : 2 * PaddleHalf.x = p * b
  <2>1. 2 * PaddleHalf.x \in Int
    BY <1>1
  <2>2. QED
    BY <2>1, <1>5, SideAssumption, Division
<1>8. (Box.x - 2 * PaddleHalf.x) % PX = 0
  <2>1. p * a - p * b = p * (a - b)
    OBVIOUS
  <2>2. Box.x - 2 * PaddleHalf.x = p * (a - b) + 0
    BY <1>6, <1>7, <2>1
  <2>3. Box.x - 2 * PaddleHalf.x \in Int /\ a - b \in Int /\ 0 \in Nat /\ 0 < p
    BY <1>1, <1>5
  <2>4. QED
    BY <1>5, <2>2, <2>3, DivisionUnique, Zenon
<1>9. 0 % PX = 0
  <2>1. 0 = p * 0 + 0 /\ 0 \in Int /\ 0 \in Nat /\ 0 < p
    BY <1>5
  <2>2. QED
    BY <1>5, <2>1, DivisionUnique, Zenon
<1>10. Box.x - 2 * PaddleHalf.x \in Nat /\ 2 * PaddleHalf.x \in Nat
  BY <1>4
<1>11. QED
  BY <1>4, <1>8, <1>9, <1>10, SideAssumption, WholePixel

\* How far the leading side of a ball is from an edge at e.
Distance(ball, e, dir) == dir * (e - ball.pos.x) - ball.half.x

\* A ball on a diagonal gets to an edge at e, if it gets there in time, exactly: nothing is
\* rounded.
LEMMA EdgeReached ==
  ASSUME NEW ball \in Objects, NEW e \in Int, NEW k \in Nat \ {0}, ball.velocity.x # 0,
         Abs(ball.velocity.x) = Abs(ball.velocity.y)
  PROVE  LET c == ball_x_collide(ball, e, k)
             dir == Sign(ball.velocity.x)
             gap == Distance(ball, e, dir)
             way == Abs(ball.velocity.x) * k
         IN /\ Hit(c) <=> 0 < gap /\ gap <= way
            /\ Hit(c) => /\ c.toi = [n |-> gap, d |-> way]
                         /\ c.normal.x = -dir
                         /\ c.pos.x = e - dir * ball.half.x
                         /\ c.pos.y = ball.pos.y + Sign(ball.velocity.y) * gap
<1> DEFINE c == ball_x_collide(ball, e, k)
<1>1. PICK vx \in Int, vy \in Int, px \in Int, py \in Int, hx \in Int :
        /\ vx = ball.velocity.x /\ vy = ball.velocity.y
        /\ px = ball.pos.x /\ py = ball.pos.y /\ hx = ball.half.x
  BY ObjectParts
<1>2. vx # 0 /\ Abs(vx) = Abs(vy)
  BY <1>1
<1>3. PICK dir \in {-1, 1} : dir = Sign(vx) /\ dir = IF ball.velocity.x > 0 THEN 1 ELSE -1
  BY <1>1, <1>2 DEF Sign
<1>4. PICK sy \in {-1, 1} : sy = Sign(vy) /\ vy = sy * Abs(vx)
  BY <1>2 DEF Sign, Abs
<1>5. PICK u \in Nat \ {0} : u = Abs(vx) /\ vx = dir * u
  BY <1>2, <1>3 DEF Abs, Sign
<1>6. PICK way \in Nat \ {0} : way = u * k
  OBVIOUS
<1>7. vx * k = dir * way /\ vy * k = sy * way
  <2>1. (dir * u) * k = dir * (u * k) /\ (sy * u) * k = sy * (u * k)
    OBVIOUS
  <2>2. QED
    BY <1>4, <1>5, <1>6, <2>1, Zenon
<1>8. PICK a \in Int : a = e - dir * ball.half.x - ball.pos.x
  BY <1>1
<1>9. PICK gap \in Int : gap = Distance(ball, e, dir) /\ gap = dir * a
  <2>1. a = e - dir * hx - px /\ Distance(ball, e, dir) = dir * (e - px) - hx
    BY <1>1, <1>8, Zenon DEF Distance
  <2>2. dir * (e - px) - hx = dir * (e - dir * hx - px)
    <3>1. CASE dir = 1
      BY <3>1
    <3>2. CASE dir = -1
      BY <3>2
    <3>3. QED
      BY <3>1, <3>2
  <2>3. QED
    BY <2>1, <2>2
<1>10. Ratio(a, dir * way) = [n |-> gap, d |-> way]
  BY <1>9 DEF Ratio, Sign, Abs
<1>11. PICK w : w = Times(ball.velocity, k) /\ w.x = dir * way /\ w.y = sy * way
  <2>1. Times(ball.velocity, k) = [x |-> dir * way, y |-> sy * way]
    BY <1>1, <1>7, Zenon DEF Times
  <2>2. QED
    BY <2>1
<1>12. PICK toi \in Fractions : toi = [n |-> gap, d |-> way]
  BY DEF Fractions
<1>13. c = Reached(ball, w, toi, [x |-> -dir, y |-> 0])
  BY <1>3, <1>8, <1>10, <1>11, <1>12, Zenon DEF ball_x_collide
<1>14. is_valid_toi(toi) <=> 0 < gap /\ gap <= way
  BY <1>12 DEF is_valid_toi
<1>15. CASE ~is_valid_toi(toi)
  <2>1. c = NoCollision
    BY <1>13, <1>15, Zenon DEF Reached
  <2>2. ~Hit(c)
    BY <2>1 DEF Hit, NoCollision, Never, is_valid_toi
  <2>3. QED
    BY <1>1, <1>3, <1>5, <1>6, <1>9, <1>14, <1>15, <2>2, Zenon
<1>16. CASE is_valid_toi(toi)
  <2>1. c = [toi |-> toi, normal |-> [x |-> -dir, y |-> 0],
             pos |-> linear_interpolate(ball.pos, w, toi)]
    BY <1>13, <1>16, Zenon DEF Reached
  <2>2. Hit(c) /\ c.toi = toi /\ c.normal.x = -dir
    BY <1>16, <2>1 DEF Hit
  <2>3. ASSUME NEW s \in {-1, 1} PROVE (gap * (s * way)) \div way = s * gap
    <3>1. gap * (s * way) = way * (s * gap) + 0
      OBVIOUS
    <3>2. gap * (s * way) \in Int /\ s * gap \in Int /\ 0 \in Nat /\ 0 < way /\ way \in Nat
      OBVIOUS
    <3>3. QED
      BY <3>1, <3>2, DivisionUnique, Zenon
  <2>4. /\ (toi.n * w.x) \div toi.d = dir * gap
        /\ (toi.n * w.y) \div toi.d = sy * gap
    <3>1. toi.n = gap /\ toi.d = way
      BY <1>12
    <3>2. QED
      BY <1>11, <2>3, <3>1, Zenon
  <2>5. linear_interpolate(ball.pos, w, toi) = Plus(ball.pos, [x |-> dir * gap, y |-> sy * gap])
    BY <2>4, Zenon DEF linear_interpolate
  <2>6. linear_interpolate(ball.pos, w, toi) = [x |-> px + dir * gap, y |-> py + sy * gap]
    BY <1>1, <2>5 DEF Plus
  <2>7. c.pos.x = px + dir * gap /\ c.pos.y = py + sy * gap
    BY <2>1, <2>6
  <2>8. px + dir * gap = e - dir * hx
    <3>1. gap = dir * (e - px) - hx
      BY <1>1, <1>9 DEF Distance
    <3>2. CASE dir = 1
      BY <3>1, <3>2
    <3>3. CASE dir = -1
      BY <3>1, <3>3
    <3>4. QED
      BY <3>2, <3>3
  <2>9. c.pos.x = e - dir * ball.half.x /\ c.pos.y = ball.pos.y + sy * gap
    BY <1>1, <2>7, <2>8, Zenon
  <2>10. QED
    BY <1>1, <1>3, <1>4, <1>5, <1>6, <1>9, <1>12, <1>14, <1>16, <2>2, <2>9, Zenon
<1>17. QED
  BY <1>15, <1>16

\* A ball that does not move sideways, or has no time to, meets no edge at a side.
LEMMA NoEdgeReached ==
  ASSUME NEW ball \in Objects, NEW e \in Int, NEW k \in Nat, ball.velocity.x = 0 \/ k = 0
  PROVE  ~Hit(ball_x_collide(ball, e, k))
<1>1. PICK w : w = Times(ball.velocity, k) /\ w.x = 0
  <2>1. Times(ball.velocity, k) = [x |-> ball.velocity.x * k, y |-> ball.velocity.y * k]
    BY Zenon DEF Times
  <2>2. ball.velocity.x * k = 0
    BY ObjectParts
  <2>3. QED
    BY <2>1, <2>2
<1>2. \A a : Ratio(a, w.x) = Never
  BY <1>1 DEF Ratio
<1>3. ~is_valid_toi(Never)
  BY DEF is_valid_toi, Never
<1>4. ball_x_collide(ball, e, k) = NoCollision
  BY <1>1, <1>2, <1>3, Zenon DEF ball_x_collide, Reached
<1>5. QED
  BY <1>3, <1>4 DEF Hit, NoCollision

\* The upper or lower edge of something turns no ball back sideways, and the ball has not gone
\* back by then.
LEMMA FlatReached ==
  ASSUME NEW ball \in Objects, NEW e \in Int, NEW k \in Nat \ {0},
         Hit(ball_y_collide(ball, e, k))
  PROVE  LET c == ball_y_collide(ball, e, k) IN
         /\ c.normal.x = 0
         /\ ball.velocity.x < 0 => c.pos.x <= ball.pos.x
         /\ ball.velocity.x > 0 => c.pos.x >= ball.pos.x
<1> DEFINE c == ball_y_collide(ball, e, k)
<1>1. PICK w \in Vectors : w = Times(ball.velocity, k)
  BY ObjectParts, ArithmeticType
<1>2. PICK vx \in Int, px \in Int, wx \in Int :
        vx = ball.velocity.x /\ px = ball.pos.x /\ wx = w.x /\ wx = vx * k
  BY <1>1, ObjectParts DEF Times
<1>3. PICK dir \in {-1, 1} : dir = IF ball.velocity.y > 0 THEN 1 ELSE -1
  OBVIOUS
<1>4. PICK toi \in Fractions : toi = Ratio(e - dir * ball.half.y - ball.pos.y, w.y)
  <2>1. e - dir * ball.half.y - ball.pos.y \in Int /\ w.y \in Int
    BY <1>1, ObjectParts DEF Vectors
  <2>2. QED
    BY <2>1, ArithmeticType
<1>5. c = Reached(ball, w, toi, [x |-> 0, y |-> -dir])
  BY <1>1, <1>3, <1>4, Zenon DEF ball_y_collide
<1>6. is_valid_toi(toi) /\ c = [toi |-> toi, normal |-> [x |-> 0, y |-> -dir],
                                pos |-> linear_interpolate(ball.pos, w, toi)]
  <2>1. ~Hit(NoCollision)
    BY DEF Hit, NoCollision, Never, is_valid_toi
  <2>2. Hit(c)
    OBVIOUS
  <2> HIDE DEF c
  <2>3. QED
    BY <1>5, <2>1, <2>2, Zenon DEF Reached
<1>7. PICK n \in Nat, d \in Nat : n = toi.n /\ d = toi.d /\ d > 0
  BY <1>6 DEF Fractions, is_valid_toi
<1>8. c.normal.x = 0 /\ c.pos = linear_interpolate(ball.pos, w, toi)
  BY <1>6
<1>9. linear_interpolate(ball.pos, w, toi).x = px + ((n * wx) \div d)
  <2>1. linear_interpolate(ball.pos, w, toi)
          = Plus(ball.pos, [x |-> (n * wx) \div d, y |-> (n * w.y) \div d])
    BY <1>2, <1>7, Zenon DEF linear_interpolate
  <2>2. QED
    BY <1>2, <2>1 DEF Plus
<1>10. PICK q \in Int, r \in Nat : q = (n * wx) \div d /\ r < d /\ n * wx = d * q + r
  <2>1. n * wx \in Int
    OBVIOUS
  <2>2. /\ (n * wx) \div d \in Int /\ (n * wx) % d \in Nat /\ (n * wx) % d < d
        /\ n * wx = d * ((n * wx) \div d) + ((n * wx) % d)
    BY <1>7, <2>1, Division, Zenon
  <2>3. QED
    BY <2>2, Zenon
<1>11. vx < 0 => q <= 0
  <2> SUFFICES ASSUME vx < 0, q >= 1 PROVE FALSE
    OBVIOUS
  <2>1. n * wx <= 0
    <3>1. wx <= 0
      <4>1. vx * k < 0 * k
        BY Grow
      <4>2. QED
        BY <1>2, <4>1
    <3>2. CASE n = 0
      BY <3>2
    <3>3. CASE n > 0
      <4>1. wx * n <= 0 * n
        BY <3>1, <3>3, Grow
      <4>2. QED
        BY <4>1
    <3>4. QED
      BY <3>2, <3>3
  <2>2. 1 * d <= q * d
    BY <1>7, Grow
  <2>3. d * q >= d
    BY <2>2
  <2>4. QED
    BY <1>7, <1>10, <2>1, <2>3
<1>12. vx > 0 => q >= 0
  <2> SUFFICES ASSUME vx > 0, q <= -1 PROVE FALSE
    OBVIOUS
  <2>1. n * wx >= 0
    BY <1>2
  <2>2. q * d <= (-1) * d
    BY <1>7, Grow
  <2>3. d * q <= -d
    BY <2>2
  <2>4. QED
    BY <1>7, <1>10, <2>1, <2>3
<1>13. c.pos.x = px + q
  BY <1>8, <1>9, <1>10, Zenon
<1> HIDE DEF c
<1>14. /\ vx < 0 => c.pos.x <= px
       /\ vx > 0 => c.pos.x >= px
  BY <1>11, <1>12, <1>13
<1>15. QED
  BY <1>2, <1>8, <1>14, Zenon DEF c

\* What get_first_collision returns: the first valid one of the list, if one is valid.
LEMMA FirstIs ==
  ASSUME NEW cs \in Seq(CollisionsType)
  PROVE  LET first == get_first_collision(cs) IN
         \/ /\ \A j \in DOMAIN cs : ~Hit(cs[j])
            /\ first = NoCollision
         \/ \E i \in DOMAIN cs :
              /\ first = cs[i] /\ Hit(cs[i])
              /\ \A j \in DOMAIN cs : Hit(cs[j]) => Before(cs, i, j)
<1> DEFINE hits == {i \in DOMAIN cs : is_valid_toi(cs[i].toi)}
           first == CHOOSE i \in hits : \A j \in hits :
                      \/ Less(cs[i].toi, cs[j].toi)
                      \/ Same(cs[i].toi, cs[j].toi) /\ i <= j
<1>1. get_first_collision(cs) = IF hits = {} THEN NoCollision ELSE cs[first]
  BY Zenon DEF get_first_collision
<1>2. CASE hits = {}
  <2>1. \A j \in DOMAIN cs : ~Hit(cs[j])
    BY <1>2 DEF Hit
  <2>2. QED
    BY <1>1, <1>2, <2>1, Zenon
<1>3. CASE hits # {}
  <2>1. hits \in SUBSET (DOMAIN cs)
    OBVIOUS
  <2>2. first \in hits /\ \A j \in hits : Before(cs, first, j)
    <3>1. \E i \in hits : \A j \in hits : Before(cs, i, j)
      <4> HIDE DEF hits
      <4> QED
        BY <1>3, <2>1, FirstExists, Zenon
    <3> HIDE DEF hits
    <3> QED
      BY <3>1, Zenon DEF Before
  <2>3. PICK i \in hits : i = first
    BY <2>2, Zenon
  <2>4. i \in DOMAIN cs /\ Hit(cs[i])
    BY Zenon DEF Hit
  <2>5. \A j \in DOMAIN cs : Hit(cs[j]) => Before(cs, i, j)
    BY <2>2, <2>3, Zenon DEF Hit
  <2>6. get_first_collision(cs) = cs[i]
    BY <1>1, <1>3, <2>3, Zenon
  <2>7. QED
    BY <2>4, <2>5, <2>6, Zenon
<1>4. QED
  BY <1>2, <1>3

\* What stands for no collision is none.
LEMMA NoHit == ~Hit(NoCollision)
BY DEF Hit, NoCollision, Never, is_valid_toi

\* Of two collisions, get_first_collision returns the earlier, the first if they are at the
\* same time.
LEMMA FirstOfTwo ==
  ASSUME NEW c \in CollisionsType, NEW d \in CollisionsType
  PROVE  LET first == get_first_collision(<<c, d>>) IN
         /\ first \in {c, d, NoCollision}
         /\ Hit(c) => Hit(first) /\ AtMost(first.toi, c.toi)
         /\ Hit(d) => Hit(first) /\ AtMost(first.toi, d.toi)
         /\ Hit(c) /\ (Hit(d) => Less(c.toi, d.toi)) => first = c
         /\ Hit(d) /\ (Hit(c) => Less(d.toi, c.toi)) => first = d
<1>1. PICK cs \in Seq(CollisionsType) :
        cs = <<c, d>> /\ DOMAIN cs = {1, 2} /\ cs[1] = c /\ cs[2] = d
  <2>1. <<c, d>> \in Seq(CollisionsType) /\ DOMAIN <<c, d>> = 1..2
        /\ <<c, d>>[1] = c /\ <<c, d>>[2] = d
    OBVIOUS
  <2>2. 1..2 = {1, 2}
    OBVIOUS
  <2>3. QED
    BY <2>1, <2>2, Zenon
<1>2. PICK first : first = get_first_collision(cs)
  OBVIOUS
<1>3. c.toi \in Fractions /\ d.toi \in Fractions
  BY DEF CollisionsType
<1>4. Same(c.toi, d.toi) <=> Same(d.toi, c.toi)
  BY DEF Same
<1>5. Less(c.toi, d.toi) => ~Less(d.toi, c.toi) /\ ~Same(c.toi, d.toi)
  BY <1>3 DEF Less, Same, Fractions
<1>6. Less(d.toi, c.toi) => ~Less(c.toi, d.toi) /\ ~Same(c.toi, d.toi)
  BY <1>3 DEF Less, Same, Fractions
<1>7. AtMost(c.toi, c.toi) /\ AtMost(d.toi, d.toi)
  BY <1>3 DEF AtMost, Fractions
<1>8. \A r, s \in Fractions : Less(r, s) \/ Same(r, s) => AtMost(r, s)
  BY LessOrder, Zenon
<1>9. CASE first = NoCollision /\ ~Hit(c) /\ ~Hit(d)
  BY <1>1, <1>2, <1>9, Zenon
<1>10. CASE first = c /\ Hit(c) /\ (Hit(d) => Less(c.toi, d.toi) \/ Same(c.toi, d.toi))
  BY <1>1, <1>2, <1>3, <1>5, <1>6, <1>7, <1>8, <1>10, Zenon
<1>11. CASE first = d /\ Hit(d) /\ (Hit(c) => Less(d.toi, c.toi) \/ Same(d.toi, c.toi))
  BY <1>1, <1>2, <1>3, <1>4, <1>5, <1>6, <1>7, <1>8, <1>11, Zenon
<1>12. \/ first = NoCollision /\ ~Hit(c) /\ ~Hit(d)
       \/ first = c /\ Hit(c) /\ (Hit(d) => Less(c.toi, d.toi) \/ Same(c.toi, d.toi))
       \/ first = d /\ Hit(d) /\ (Hit(c) => Less(d.toi, c.toi) \/ Same(d.toi, c.toi))
  <2>1. 1 \in DOMAIN cs /\ 2 \in DOMAIN cs
    BY <1>1, Zenon
  <2>2. CASE \A j \in DOMAIN cs : ~Hit(cs[j])
    <3>1. first = NoCollision
      BY <1>2, <2>2, FirstIs, Zenon
    <3>2. QED
      BY <1>1, <2>1, <2>2, <3>1, Zenon
  <2>3. CASE \E i \in DOMAIN cs : /\ first = cs[i] /\ Hit(cs[i])
                                  /\ \A j \in DOMAIN cs : Hit(cs[j]) => Before(cs, i, j)
    <3>1. PICK i \in {1, 2} : /\ first = cs[i] /\ Hit(cs[i])
                              /\ \A j \in DOMAIN cs : Hit(cs[j]) => Before(cs, i, j)
      BY <1>1, <2>3, Zenon
    <3>2. CASE i = 1
      BY <1>1, <2>1, <3>1, <3>2, Zenon DEF Before
    <3>3. CASE i = 2
      BY <1>1, <2>1, <3>1, <3>3, Zenon DEF Before
    <3>4. QED
      BY <3>2, <3>3
  <2>4. QED
    BY <1>2, <2>2, <2>3, FirstIs, Zenon
<1>13. QED
  BY <1>9, <1>10, <1>11, <1>12, Zenon

\* A ball goes on towards its side until it meets something, and what turns it back sideways
\* it meets within the field.
Met(ball, c) ==
  Hit(c) =>
    /\ ball.velocity.x < 0 => c.pos.x <= ball.pos.x
    /\ ball.velocity.x > 0 => c.pos.x >= ball.pos.x
    /\ c.normal.x # 0 => /\ ball.velocity.x < 0 => c.pos.x >= ball.half.x
                         /\ ball.velocity.x > 0 => c.pos.x + ball.half.x <= Box.x

\* The ball flies along a diagonal.
Diagonal(ball) == Abs(ball.velocity.x) = Abs(ball.velocity.y)

\* One of the two paddles, at its side.
AtSide(paddle) == InPlace(paddle, Box.x - PaddleHalf.x) \/ InPlace(paddle, PaddleHalf.x)

\* An edge within the field, an edge above or below, and the first of two.
LEMMA MetParts ==
  ASSUME NEW ball \in Objects, Diagonal(ball), NEW k \in Nat \ {0}
  PROVE  /\ \A e \in 0..Box.x : Met(ball, ball_x_collide(ball, e, k))
         /\ \A e \in Int : Met(ball, ball_y_collide(ball, e, k))
         /\ Met(ball, NoCollision)
         /\ \A c, d \in CollisionsType :
              Met(ball, c) /\ Met(ball, d) => Met(ball, get_first_collision(<<c, d>>))
<1>1. ASSUME NEW e \in 0..Box.x PROVE Met(ball, ball_x_collide(ball, e, k))
  <2>1. e \in Int /\ Box.x \in Nat
    BY SideEdges
  <2>2. CASE ball.velocity.x = 0
    BY <2>1, <2>2, NoEdgeReached, Zenon DEF Met
  <2>3. CASE ball.velocity.x # 0
    <3>1. PICK c : c = ball_x_collide(ball, e, k)
      OBVIOUS
    <3>2. PICK dir \in {-1, 1} : dir = Sign(ball.velocity.x)
      BY <2>3, ObjectParts DEF Sign
    <3>3. Hit(c) => /\ 0 < Distance(ball, e, dir)
                    /\ c.pos.x = e - dir * ball.half.x
      BY <2>1, <2>3, <3>1, <3>2, EdgeReached, Zenon DEF Diagonal
    <3>4. CASE dir = 1
      <4>1. ball.velocity.x > 0
        BY <3>2, <3>4, ObjectParts DEF Sign
      <4>2. Hit(c) => c.pos.x > ball.pos.x /\ c.pos.x + ball.half.x <= Box.x
        BY <2>1, <3>3, <3>4, ObjectParts DEF Distance
      <4>3. QED
        BY <2>1, <3>1, <4>1, <4>2, <3>3, <3>4, ObjectParts DEF Met
    <3>5. CASE dir = -1
      <4>1. ball.velocity.x < 0
        BY <2>3, <3>2, <3>5, ObjectParts DEF Sign
      <4>2. Hit(c) => c.pos.x < ball.pos.x /\ c.pos.x >= ball.half.x
        BY <2>1, <3>3, <3>5, ObjectParts DEF Distance
      <4>3. QED
        BY <2>1, <3>1, <4>1, <4>2, <3>3, <3>5, ObjectParts DEF Met
    <3>6. QED
      BY <3>4, <3>5
  <2>4. QED
    BY <2>2, <2>3
<1>2. ASSUME NEW e \in Int PROVE Met(ball, ball_y_collide(ball, e, k))
  BY FlatReached, Zenon DEF Met
<1>3. Met(ball, NoCollision)
  BY NoHit DEF Met
<1>4. ASSUME NEW c \in CollisionsType, NEW d \in CollisionsType, Met(ball, c), Met(ball, d)
      PROVE  Met(ball, get_first_collision(<<c, d>>))
  <2>1. get_first_collision(<<c, d>>) \in {c, d, NoCollision}
    BY FirstOfTwo, Zenon
  <2>2. QED
    BY <1>3, <1>4, <2>1, Zenon
<1>5. QED
  BY <1>1, <1>2, <1>3, <1>4, Zenon

\* The edges of a paddle at its side are where they are drawn, and within the field.
LEMMA PaddleEdges ==
  ASSUME NEW paddle \in Objects
  PROVE  LET edge == AABB_get_boundaries(paddle) IN
         /\ edge.up \in Int /\ edge.down \in Int
         /\ edge.up = paddle.pos.y + paddle.half.y /\ edge.down = paddle.pos.y - paddle.half.y
         /\ InPlace(paddle, Box.x - PaddleHalf.x) =>
              ToInt(edge.left) = Box.x - 2 * PaddleHalf.x /\ ToInt(edge.right) = Box.x
         /\ InPlace(paddle, PaddleHalf.x) =>
              ToInt(edge.left) = 0 /\ ToInt(edge.right) = 2 * PaddleHalf.x
<1>1. PICK edge : edge = AABB_get_boundaries(paddle)
  OBVIOUS
<1>2. /\ edge.up = paddle.pos.y + paddle.half.y /\ edge.down = paddle.pos.y - paddle.half.y
      /\ edge.left = paddle.pos.x - paddle.half.x /\ edge.right = paddle.pos.x + paddle.half.x
  BY <1>1 DEF AABB_get_boundaries
<1>3. edge.up \in Int /\ edge.down \in Int
  BY <1>2, ObjectParts
<1>4. PICK b \in Nat, h \in Nat : b = Box.x /\ h = PaddleHalf.x
  BY SideEdges
<1>5. InPlace(paddle, b - h) => edge.left = b - 2 * h /\ edge.right = b
  BY <1>2, <1>4 DEF InPlace
<1>6. InPlace(paddle, h) => edge.left = 0 /\ edge.right = 2 * h
  BY <1>2, <1>4 DEF InPlace
<1>7. QED
  BY <1>1, <1>2, <1>3, <1>4, <1>5, <1>6, SideEdges, Zenon

\* All that a ball may meet in one turn is Met.
LEMMA AllMet ==
  ASSUME NEW p1 \in Objects, NEW p2 \in Objects, AtSide(p1), AtSide(p2),
         NEW ball \in Objects, Diagonal(ball), NEW k \in Nat \ {0}, NEW left \in Nat
  PROVE  \A i \in 1..4 : Met(ball, Collisions(wall, p1, p2, ball, k, left)[i])
<1>a. /\ \A e \in 0..Box.x : Met(ball, ball_x_collide(ball, e, k))
      /\ \A e \in Int : Met(ball, ball_y_collide(ball, e, k))
  BY MetParts, Zenon
<1>b. \A e \in Int : /\ ball_x_collide(ball, e, k) \in CollisionsType
                     /\ ball_y_collide(ball, e, k) \in CollisionsType
  <2>1. k \in Int
    OBVIOUS
  <2>2. QED
    BY <2>1, EdgeType, Zenon
<1>c. \A c, d \in CollisionsType :
        /\ get_first_collision(<<c, d>>) \in CollisionsType
        /\ Met(ball, c) /\ Met(ball, d) => Met(ball, get_first_collision(<<c, d>>))
  <2>1. \A c, d \in CollisionsType :
          Met(ball, c) /\ Met(ball, d) => Met(ball, get_first_collision(<<c, d>>))
    BY MetParts, Zenon
  <2>2. \A c, d \in CollisionsType : get_first_collision(<<c, d>>) \in CollisionsType
    BY PairType, Zenon
  <2>3. QED
    BY <2>1, <2>2, Zenon
<1>1. ASSUME NEW paddle \in Objects, AtSide(paddle)
      PROVE  Met(ball, AABB_collide(ball, paddle, k))
  <2>1. PICK edge : edge = AABB_get_boundaries(paddle)
    OBVIOUS
  <2>2. ToInt(edge.left) \in 0..Box.x /\ ToInt(edge.right) \in 0..Box.x
    <3>1. /\ Box.x - 2 * PaddleHalf.x \in 0..Box.x /\ Box.x \in 0..Box.x
          /\ 0 \in 0..Box.x /\ 2 * PaddleHalf.x \in 0..Box.x
      BY SideEdges
    <3>2. QED
      BY <1>1, <2>1, <3>1, PaddleEdges, Zenon DEF AtSide
  <2>3. PICK l \in CollisionsType, r \in CollisionsType :
          /\ l = ball_x_collide(ball, ToInt(edge.left), k) /\ Met(ball, l)
          /\ r = ball_x_collide(ball, ToInt(edge.right), k) /\ Met(ball, r)
    <3>1. ToInt(edge.left) \in Int /\ ToInt(edge.right) \in Int
      BY <2>2
    <3>2. QED
      BY <1>a, <1>b, <2>2, <3>1, Zenon
  <2>4. PICK u \in CollisionsType, d \in CollisionsType :
          /\ u = ball_y_collide(ball, ToInt(edge.up), k) /\ Met(ball, u)
          /\ d = ball_y_collide(ball, ToInt(edge.down), k) /\ Met(ball, d)
    <3>1. ToInt(edge.up) \in Int /\ ToInt(edge.down) \in Int
      BY <2>1, PaddleEdges, ArithmeticType, Zenon
    <3>2. QED
      BY <1>a, <1>b, <3>1, Zenon
  <2>5. PICK xc \in CollisionsType : xc = get_first_collision(<<l, r>>) /\ Met(ball, xc)
    BY <1>c, <2>3, Zenon
  <2>6. PICK yc \in CollisionsType : yc = get_first_collision(<<u, d>>) /\ Met(ball, yc)
    BY <1>c, <2>4, Zenon
  <2>7. PICK xe \in CollisionsType, ye \in CollisionsType :
          /\ xe = UnlessBeside(xc, ball, edge) /\ Met(ball, xe)
          /\ ye = UnlessAbove(yc, ball, edge) /\ Met(ball, ye)
    BY <2>5, <2>6, NoCollisionType, MetParts, Zenon DEF UnlessBeside, UnlessAbove
  <2>8. Met(ball, get_first_collision(<<xe, ye>>))
    BY <1>c, <2>7, Zenon
  <2>9. QED
    BY <2>1, <2>3, <2>4, <2>5, <2>6, <2>7, <2>8, Zenon DEF AABB_collide
<1>2. Met(ball, ball_wall_collide(wall, ball, k))
  BY <1>a, <1>b, <1>c, WallType, Zenon DEF ball_wall_collide
<1>3. Met(ball, ball_score_collide(wall, ball, left))
  <2>1. wall.left \in 0..Box.x /\ wall.right \in 0..Box.x
    BY SideEdges DEF wall
  <2>2. /\ Met(ball, ball_x_collide(ball, wall.left, left))
        /\ Met(ball, ball_x_collide(ball, wall.right, left))
    <3>1. CASE left = 0
      <4>1. wall.left \in Int /\ wall.right \in Int
        BY WallType
      <4>2. QED
        BY <3>1, <4>1, NoEdgeReached, Zenon DEF Met
    <3>2. CASE left # 0
      <4>1. left \in Nat \ {0}
        BY <3>2
      <4>2. QED
        BY <2>1, <4>1, MetParts, Zenon
    <3>3. QED
      BY <3>1, <3>2
  <2>3. QED
    BY <2>2, Zenon DEF ball_score_collide, OrElse
<1>4. \A a, b, c, d : (\A x \in {a, b, c, d} : Met(ball, x)) =>
        \A i \in 1..4 : Met(ball, <<a, b, c, d>>[i])
  <2>1. \A i \in 1..4 : i = 1 \/ i = 2 \/ i = 3 \/ i = 4
    OBVIOUS
  <2>2. \A a, b, c, d : /\ <<a, b, c, d>>[1] = a /\ <<a, b, c, d>>[2] = b
                        /\ <<a, b, c, d>>[3] = c /\ <<a, b, c, d>>[4] = d
    OBVIOUS
  <2>3. QED
    BY <2>1, <2>2
<1>5. QED
  BY <1>1, <1>2, <1>3, <1>4, Zenon DEF Collisions

\* The ball is in front of the side it flies to, or beyond it.
OnCourse(ball) ==
  /\ ball.half = BallHalf /\ Diagonal(ball)
  /\ ball.velocity.x < 0 => ball.pos.x + ball.half.x <= Box.x
  /\ ball.velocity.x > 0 => ball.pos.x >= ball.half.x

\* A bounce turns the ball back sideways, or up and down, and it flies off along a diagonal.
LEMMA BounceTurns ==
  ASSUME NEW ball \in Objects, Diagonal(ball), NEW c \in CollisionsType
  PROVE  LET b == ball_bounce_on_collision([ball EXCEPT !.pos = c.pos], c.normal) IN
         /\ b.pos = c.pos /\ b.half = ball.half /\ Diagonal(b)
         /\ c.normal.x = 0 => /\ b.velocity.x < 0 <=> ball.velocity.x < 0
                              /\ b.velocity.x > 0 <=> ball.velocity.x > 0
                              /\ b.velocity.y < 0 <=> ball.velocity.y > 0
                              /\ b.velocity.y > 0 <=> ball.velocity.y < 0
         /\ c.normal.x # 0 => /\ b.velocity.x < 0 <=> ball.velocity.x > 0
                              /\ b.velocity.x > 0 <=> ball.velocity.x < 0
                              /\ b.velocity.y < 0 <=> ball.velocity.y < 0
                              /\ b.velocity.y > 0 <=> ball.velocity.y > 0
<1>1. PICK vx \in Int, vy \in Int : vx = ball.velocity.x /\ vy = ball.velocity.y
  BY ObjectParts
<1>2. PICK nx \in Int : nx = c.normal.x
  BY DEF CollisionsType, Vectors
<1>3. Abs(vx) = Abs(vy)
  BY <1>1, Zenon DEF Diagonal
<1>4. PICK v \in Vectors : /\ v = reflect_orthogonal(ball.velocity, c.normal)
                           /\ v.x = IF nx = 0 THEN vx ELSE -vx
                           /\ v.y = IF nx = 0 THEN -vy ELSE vy
  <2>1. PICK u \in Vectors : u = ball.velocity /\ u.x = vx /\ u.y = vy
    BY <1>1, ObjectParts
  <2>2. reflect_orthogonal(u, c.normal) = IF nx = 0 THEN [u EXCEPT !.y = -@] ELSE [u EXCEPT !.x = -@]
    BY <1>2, Zenon DEF reflect_orthogonal
  <2>3. [u EXCEPT !.y = -@] = [x |-> vx, y |-> -vy] /\ [u EXCEPT !.x = -@] = [x |-> -vx, y |-> vy]
    BY <2>1 DEF Vectors
  <2>4. [x |-> vx, y |-> -vy] \in Vectors /\ [x |-> -vx, y |-> vy] \in Vectors
    BY DEF Vectors
  <2>5. CASE nx = 0
    <3>1. reflect_orthogonal(u, c.normal) = [x |-> vx, y |-> -vy]
      BY <2>2, <2>3, <2>5
    <3>2. QED
      BY <2>1, <2>4, <2>5, <3>1
  <2>6. CASE nx # 0
    <3>1. reflect_orthogonal(u, c.normal) = [x |-> -vx, y |-> vy]
      BY <2>2, <2>3, <2>6
    <3>2. QED
      BY <2>1, <2>4, <2>6, <3>1
  <2>7. QED
    BY <2>5, <2>6
<1>5. PICK more \in Nat : more = IF Abs(v.x) > SpeedCap THEN 0 ELSE SpeedUp
  BY GridAssumption
<1>6. PICK ux \in Int, uy \in Int : ux = v.x /\ uy = v.y
  BY DEF Vectors
<1>7. PICK wx \in Int, wy \in Int : wx = ux + more * Sign(ux) /\ wy = uy + more * Sign(uy)
  BY DEF Sign
<1>8. Abs(ux) = Abs(uy)
  BY <1>3, <1>4, <1>6 DEF Abs
<1>9. \A a \in Int : more * Sign(a) = IF a > 0 THEN more ELSE IF a < 0 THEN -more ELSE 0
  BY DEF Sign
<1>10. /\ Abs(wx) = Abs(wy) /\ (wx < 0 <=> ux < 0) /\ (wx > 0 <=> ux > 0)
       /\ (wy < 0 <=> uy < 0) /\ (wy > 0 <=> uy > 0)
  BY <1>7, <1>8, <1>9 DEF Abs
<1>11. PICK b : b = ball_bounce_on_collision([ball EXCEPT !.pos = c.pos], c.normal)
  OBVIOUS
<1>12. Faster(v, more) = [x |-> wx, y |-> wy]
  BY <1>6, <1>7, Zenon DEF Faster
<1>13. b = [ball EXCEPT !.pos = c.pos, !.velocity = [x |-> wx, y |-> wy]]
  <2>1. PICK o : o = [ball EXCEPT !.pos = c.pos]
    OBVIOUS
  <2>2. o.velocity = ball.velocity /\ o \in Objects
    BY <2>1 DEF Objects, CollisionsType
  <2>3. b = [o EXCEPT !.velocity = [x |-> wx, y |-> wy]]
    BY <1>4, <1>5, <1>11, <1>12, <2>1, <2>2, Zenon DEF ball_bounce_on_collision
  <2>4. QED
    BY <2>1, <2>3 DEF Objects
<1>14. b.half = ball.half /\ b.pos = c.pos /\ b.velocity.x = wx /\ b.velocity.y = wy
  BY <1>13 DEF Objects
<1>15. /\ nx = 0 => (wx < 0 <=> vx < 0) /\ (wx > 0 <=> vx > 0) /\ (wy < 0 <=> vy > 0) /\ (wy > 0 <=> vy < 0)
       /\ nx # 0 => (wx < 0 <=> vx > 0) /\ (wx > 0 <=> vx < 0) /\ (wy < 0 <=> vy < 0) /\ (wy > 0 <=> vy > 0)
  <2>1. /\ nx = 0 => ux = vx /\ uy = -vy
        /\ nx # 0 => ux = -vx /\ uy = vy
    BY <1>4, <1>6, Zenon
  <2>2. QED
    BY <1>10, <2>1
<1>16. QED
  BY <1>1, <1>2, <1>10, <1>11, <1>14, <1>15, Zenon DEF Diagonal

\* A bounce leaves a ball on its course.
LEMMA BounceCourse ==
  ASSUME NEW ball \in Objects, OnCourse(ball), NEW c \in CollisionsType, Hit(c), Met(ball, c)
  PROVE  OnCourse(ball_bounce_on_collision([ball EXCEPT !.pos = c.pos], c.normal))
<1>1. PICK vx \in Int, px \in Int, hx \in Nat :
        vx = ball.velocity.x /\ px = ball.pos.x /\ hx = ball.half.x
  BY SideEdges, ObjectParts DEF OnCourse
<1>2. PICK cx \in Int, nx \in Int : cx = c.pos.x /\ nx = c.normal.x
  BY DEF CollisionsType, Vectors
<1>3. /\ vx < 0 => px + hx <= Box.x /\ cx <= px
      /\ vx > 0 => px >= hx /\ cx >= px
      /\ nx # 0 => (vx < 0 => cx >= hx) /\ (vx > 0 => cx + hx <= Box.x)
  BY <1>1, <1>2, Zenon DEF OnCourse, Met
<1>4. PICK b : b = ball_bounce_on_collision([ball EXCEPT !.pos = c.pos], c.normal)
  OBVIOUS
<1>5. /\ b.pos = c.pos /\ b.half = ball.half /\ Diagonal(b)
      /\ nx = 0 => (b.velocity.x < 0 <=> vx < 0) /\ (b.velocity.x > 0 <=> vx > 0)
      /\ nx # 0 => (b.velocity.x < 0 <=> vx > 0) /\ (b.velocity.x > 0 <=> vx < 0)
  BY <1>1, <1>2, <1>4, BounceTurns, Zenon DEF OnCourse
<1>6. Box.x \in Int
  BY SideEdges
<1>7. /\ b.velocity.x < 0 => cx + hx <= Box.x
      /\ b.velocity.x > 0 => cx >= hx
  <2>1. CASE nx = 0
    BY <1>3, <1>5, <1>6, <2>1
  <2>2. CASE nx # 0
    BY <1>3, <1>5, <1>6, <2>2
  <2>3. QED
    BY <2>1, <2>2
<1>8. QED
  BY <1>1, <1>2, <1>4, <1>5, <1>7, Zenon DEF OnCourse

\* Flying on leaves a ball on its course.
LEMMA MoveCourse ==
  ASSUME NEW ball \in Objects, OnCourse(ball), NEW left \in Nat
  PROVE  OnCourse(linear_move(ball, left))
<1>1. PICK vx \in Int, px \in Int, hx \in Int :
        vx = ball.velocity.x /\ px = ball.pos.x /\ hx = ball.half.x
  BY ObjectParts
<1>2. /\ vx < 0 => px + hx <= Box.x
      /\ vx > 0 => px >= hx
  BY <1>1, Zenon DEF OnCourse
<1>3. PICK p : p = Plus(ball.pos, Times(ball.velocity, left)) /\ p.x = px + vx * left
  <2>1. Times(ball.velocity, left) = [x |-> vx * left, y |-> ball.velocity.y * left]
    BY <1>1, Zenon DEF Times
  <2>2. Plus(ball.pos, Times(ball.velocity, left)).x = px + vx * left
    BY <1>1, <2>1 DEF Plus
  <2>3. QED
    BY <2>2
<1>4. linear_move(ball, left) = [ball EXCEPT !.pos = p]
  BY <1>3, Zenon DEF linear_move
<1>5. PICK b : b = linear_move(ball, left) /\ b.pos = p /\ b.half = ball.half
               /\ b.velocity = ball.velocity
  BY <1>4 DEF Objects
<1>6. (vx < 0 => vx * left <= 0) /\ (vx > 0 => vx * left >= 0)
  <2>1. CASE left = 0
    BY <2>1
  <2>2. CASE left > 0
    <3>1. (vx < 0 => vx * left < 0 * left) /\ (0 < vx => 0 * left < vx * left)
      BY <2>2, Grow
    <3>2. 0 * left = 0 /\ vx * left \in Int
      OBVIOUS
    <3>3. QED
      BY <3>1, <3>2
  <2>3. QED
    BY <2>1, <2>2
<1>7. PICK m \in Int : m = vx * left
  OBVIOUS
<1>8. Box.x \in Int
  BY SideEdges
<1>9. (vx < 0 => px + m + hx <= Box.x) /\ (vx > 0 => px + m >= hx)
  BY <1>2, <1>6, <1>7, <1>8
<1>10. QED
  BY <1>1, <1>3, <1>5, <1>7, <1>9, Zenon DEF OnCourse, Diagonal

\* While the loop of ball_advance goes on, there is time left and the ball is on its course.
Underway(s, k) ==
  /\ s.scored_index = -1 => OnCourse(s.ball)
  /\ ~s.done => s.scored_index = -1 /\ s.passed.n < k * s.passed.d

\* What one turn does, by the first collision: the ball flies on, or a point is made, or the
\* ball bounces.
AsTurned(s, t, k, left, cs, c) ==
  \/ /\ ~Hit(c)
     /\ t.ball = linear_move(s.ball, left) /\ t.done /\ t.hits = s.hits
     /\ t.scored_index = s.scored_index /\ t.passed = s.passed
  \/ /\ Hit(c) /\ Hit(cs[4]) /\ Same(c.toi, cs[4].toi)
     /\ t.done /\ t.hits = s.hits
     /\ t.scored_index = ScoredIndex(cs[4]) /\ t.passed = s.passed
  \/ /\ Hit(c) /\ ~(Hit(cs[4]) /\ Same(c.toi, cs[4].toi))
     /\ t.ball = ball_bounce_on_collision([s.ball EXCEPT !.pos = c.pos], c.normal)
     /\ t.hits = Append(s.hits, c) /\ t.passed = Sum2(s.passed, c.toi)
     /\ t.done = (k * t.passed.d <= t.passed.n)
     /\ t.scored_index = s.scored_index

\* The collisions of a turn, with the first of them.
TurnedBy(p1, p2, k, s, t) ==
  \E left \in Nat, cs \in Seq(CollisionsType), c \in CollisionsType :
    /\ left = IntLeft(k, s.passed) /\ cs = Collisions(wall, p1, p2, s.ball, k, left)
    /\ c = get_first_collision(cs)
    /\ AsTurned(s, t, k, left, cs, c)

\* A turn does this and nothing else.
LEMMA TurnIs ==
  ASSUME NEW p1 \in Objects, NEW p2 \in Objects, NEW k \in Nat \ {0},
         NEW s \in Turned, s.passed.n < k * s.passed.d,
         NEW t, t = Turn(wall, p1, p2, k, s)
  PROVE  TurnedBy(p1, p2, k, s, t)
<1>1. PICK ball \in Objects : ball = s.ball
  BY DEF Turned
<1>2. PICK n \in Int, d \in Nat \ {0} : n = s.passed.n /\ d = s.passed.d /\ n < k * d
  BY DEF Turned, Fractions
<1>3. PICK left \in Nat : left = IntLeft(k, s.passed)
  <2>1. k * d - n \in Nat
    BY <1>2
  <2>2. (k * d - n) \div d \in Nat
    BY <2>1, DivisionNat
  <2>3. QED
    BY <1>2, <2>2, Zenon DEF IntLeft
<1>4. PICK cs \in Seq(CollisionsType) : cs = Collisions(wall, p1, p2, ball, k, left)
                                       /\ cs[4] \in CollisionsType
  <2>1. k \in Int /\ left \in Int
    OBVIOUS
  <2>2. QED
    BY <2>1, CollisionsAreTyped, Zenon
<1>5. PICK c \in CollisionsType : c = get_first_collision(cs)
  BY FirstType
<1>6. t = AfterFirst(s, k, left, cs[4], c)
  BY <1>1, <1>3, <1>4, <1>5, Zenon DEF Turn, AfterAll
<1>7. CASE ~Hit(c)
  <2>1. t = [s EXCEPT !.ball = linear_move(@, left), !.done = TRUE]
    BY <1>6, <1>7, Zenon DEF AfterFirst
  <2>2. /\ t.ball = linear_move(s.ball, left) /\ t.done /\ t.hits = s.hits
        /\ t.scored_index = s.scored_index /\ t.passed = s.passed
    BY <2>1 DEF Turned
  <2>3. QED
    BY <1>1, <1>3, <1>4, <1>5, <1>6, <1>7, <2>2, Zenon DEF TurnedBy, AsTurned
<1>8. CASE Hit(c) /\ Hit(cs[4]) /\ Same(c.toi, cs[4].toi)
  <2>1. t = [s EXCEPT !.ball = Blank, !.scored_index = ScoredIndex(cs[4]), !.done = TRUE]
    BY <1>6, <1>8, Zenon DEF AfterFirst
  <2>2. /\ t.done /\ t.hits = s.hits
        /\ t.scored_index = ScoredIndex(cs[4]) /\ t.passed = s.passed
    BY <2>1 DEF Turned
  <2>3. QED
    BY <1>1, <1>3, <1>4, <1>5, <1>6, <1>8, <2>2, Zenon DEF TurnedBy, AsTurned
<1>9. CASE Hit(c) /\ ~(Hit(cs[4]) /\ Same(c.toi, cs[4].toi))
  <2>1. PICK p : p = Sum2(s.passed, c.toi)
    OBVIOUS
  <2>2. t = [s EXCEPT !.ball = ball_bounce_on_collision([@ EXCEPT !.pos = c.pos], c.normal),
                      !.passed = p, !.hits = Append(@, c), !.done = k * p.d <= p.n]
    BY <1>6, <1>9, <2>1, Zenon DEF AfterFirst
  <2>3. /\ t.ball = ball_bounce_on_collision([s.ball EXCEPT !.pos = c.pos], c.normal)
        /\ t.passed = p /\ t.hits = Append(s.hits, c) /\ t.done = (k * p.d <= p.n)
        /\ t.scored_index = s.scored_index
    BY <2>2 DEF Turned
  <2>4. QED
    BY <1>1, <1>3, <1>4, <1>5, <1>6, <1>9, <2>1, <2>3, Zenon DEF TurnedBy, AsTurned
<1>10. QED
  BY <1>7, <1>8, <1>9, Zenon

\* One turn keeps that, and it ends the loop or adds a hit.
LEMMA TurnCourse ==
  ASSUME NEW p1 \in Objects, NEW p2 \in Objects, AtSide(p1), AtSide(p2),
         NEW k \in Nat \ {0}, NEW s \in Turned, ~s.done, Underway(s, k)
  PROVE  LET t == Turn(wall, p1, p2, k, s) IN
         /\ Underway(t, k)
         /\ t.hits = <<>> => t.done /\ s.hits = <<>>
<1>1. PICK t \in Turned : t = Turn(wall, p1, p2, k, s)
  BY TurnType
<1>2. s.scored_index = -1 /\ OnCourse(s.ball) /\ s.passed.n < k * s.passed.d
  BY Zenon DEF Underway
<1>3. PICK left \in Nat, cs \in Seq(CollisionsType), c \in CollisionsType :
        /\ left = IntLeft(k, s.passed) /\ cs = Collisions(wall, p1, p2, s.ball, k, left)
        /\ c = get_first_collision(cs)
        /\ AsTurned(s, t, k, left, cs, c)
  <2>1. TurnedBy(p1, p2, k, s, t)
    BY <1>1, <1>2, TurnIs, Zenon
  <2>2. QED
    BY <2>1, Zenon DEF TurnedBy
<1>4. PICK ball \in Objects : ball = s.ball
  BY DEF Turned
<1>5. CASE t.ball = linear_move(s.ball, left) /\ t.done /\ t.hits = s.hits
  <2>1. OnCourse(t.ball)
    BY <1>2, <1>4, <1>5, MoveCourse
  <2>2. QED
    BY <1>1, <1>5, <2>1, Zenon DEF Underway
<1>6. CASE t.done /\ t.hits = s.hits /\ t.scored_index = ScoredIndex(cs[4])
  <2>1. t.scored_index # -1
    BY <1>6 DEF ScoredIndex
  <2>2. QED
    BY <1>1, <1>6, <2>1, Zenon DEF Underway
<1>7. CASE /\ Hit(c)
           /\ t.ball = ball_bounce_on_collision([s.ball EXCEPT !.pos = c.pos], c.normal)
           /\ t.hits = Append(s.hits, c)
           /\ t.done = (k * t.passed.d <= t.passed.n)
           /\ t.scored_index = s.scored_index
  <2>1. t.hits # <<>>
    BY <1>7 DEF Turned
  <2>2. ~t.done => t.passed.n < k * t.passed.d
    <3>1. PICK n \in Int, d \in Int : n = t.passed.n /\ d = t.passed.d
      <4>1. t.passed \in Fractions
        BY DEF Turned
      <4>2. \A r \in Fractions : r.n \in Int /\ r.d \in Int
        BY DEF Fractions
      <4>3. QED
        BY <4>1, <4>2, Zenon
    <3>2. k * d <= n \/ n < k * d
      OBVIOUS
    <3>3. QED
      BY <1>7, <3>1, <3>2, Zenon
  <2>3. Met(ball, c)
    <3>1. \A i \in 1..4 : Met(ball, cs[i])
      BY <1>2, <1>3, <1>4, AllMet, Zenon DEF OnCourse
    <3>2. DOMAIN cs = 1..4
      BY <1>3 DEF Collisions
    <3>3. PICK i \in DOMAIN cs : c = cs[i]
      BY <1>3, <1>7, FirstIs, NoHit, Zenon
    <3>4. QED
      BY <3>1, <3>2, <3>3, Zenon
  <2>4. OnCourse(t.ball)
    BY <1>2, <1>4, <1>7, <2>3, BounceCourse, Zenon
  <2>5. Underway(t, k)
    BY <1>2, <1>7, <2>2, <2>4, Zenon DEF Underway
  <2>6. QED
    BY <1>1, <2>1, <2>5, Zenon
<1>8. QED
  BY <1>3, <1>5, <1>6, <1>7, Zenon DEF AsTurned

\* A ball that has a paddle's front in its way meets it, or something of the paddle before.
LEMMA FrontIsMet ==
  ASSUME NEW ball \in Objects, Diagonal(ball), NEW k \in Nat \ {0}, NEW paddle \in Objects,
         NEW dir \in {-1, 1}, dir = Sign(ball.velocity.x), NEW front \in Int, NEW back \in Int,
         NEW edge, edge = AABB_get_boundaries(paddle),
         \/ dir = 1 /\ front = ToInt(edge.left) /\ back = ToInt(edge.right)
         \/ dir = -1 /\ front = ToInt(edge.right) /\ back = ToInt(edge.left),
         Distance(ball, front, dir) < Distance(ball, back, dir),
         NEW gap \in Int, gap = Distance(ball, front, dir),
         NEW way \in Nat, way = Abs(ball.velocity.x) * k,
         0 < gap, gap <= way,
         Abs((ball.pos.y + Sign(ball.velocity.y) * gap) - paddle.pos.y)
           <= paddle.half.y + ball.half.y
  PROVE  /\ Hit(AABB_collide(ball, paddle, k))
         /\ AtMost(AABB_collide(ball, paddle, k).toi, [n |-> gap, d |-> way])
<1>1. ball.velocity.x # 0
  BY DEF Sign
<1>2. PICK f \in CollisionsType, b \in CollisionsType :
        f = ball_x_collide(ball, front, k) /\ b = ball_x_collide(ball, back, k)
  BY EdgeType
<1>3. /\ Hit(f) /\ f.toi = [n |-> gap, d |-> way]
      /\ f.pos.y = ball.pos.y + Sign(ball.velocity.y) * gap
  BY <1>1, <1>2, EdgeReached, Zenon DEF Diagonal
<1>4. Hit(b) => b.toi = [n |-> Distance(ball, back, dir), d |-> way]
  BY <1>1, <1>2, EdgeReached, Zenon DEF Diagonal
<1>5. Hit(b) => Less(f.toi, b.toi)
  <2> SUFFICES ASSUME Hit(b) PROVE Less(f.toi, b.toi)
    OBVIOUS
  <2>1. PICK g \in Int : g = Distance(ball, back, dir) /\ gap < g
    BY ObjectParts DEF Distance
  <2>2. gap * way < g * way
    BY <2>1, Grow
  <2>3. QED
    BY <1>3, <1>4, <2>1, <2>2 DEF Less
<1>6. f = get_first_collision(<<ball_x_collide(ball, ToInt(edge.left), k),
                                ball_x_collide(ball, ToInt(edge.right), k)>>)
  <2>1. f = get_first_collision(<<f, b>>) /\ f = get_first_collision(<<b, f>>)
    BY <1>3, <1>5, FirstOfTwo, Zenon
  <2>2. QED
    BY <1>2, <2>1, Zenon
<1>7. UnlessBeside(f, ball, edge) = f
  <2>1. PICK o : o = [ball EXCEPT !.pos = f.pos]
    OBVIOUS
  <2>2. o.pos = f.pos /\ o.half = ball.half
    BY <2>1 DEF Objects
  <2>3. PICK y \in Int, h \in Int : y = f.pos.y /\ h = ball.half.y
    BY ObjectParts DEF CollisionsType, Vectors
  <2>4. PICK bounds : bounds = BoundariesAt(ball, f) /\ bounds.up = y + h /\ bounds.down = y - h
    <3>1. BoundariesAt(ball, f) = AABB_get_boundaries(o)
      BY <2>1, Zenon DEF BoundariesAt
    <3>2. o.pos.y = y /\ o.half.y = h
      BY <2>2, <2>3, Zenon
    <3>3. AABB_get_boundaries(o).up = y + h /\ AABB_get_boundaries(o).down = y - h
      BY <3>2 DEF AABB_get_boundaries
    <3>4. QED
      BY <3>1, <3>3
  <2>5. PICK py \in Int, ph \in Int : py = paddle.pos.y /\ ph = paddle.half.y
    BY ObjectParts
  <2>6. edge.up = py + ph /\ edge.down = py - ph
    BY <2>5, PaddleEdges
  <2>7. Abs(y - py) <= ph + h
    <3>1. y = ball.pos.y + Sign(ball.velocity.y) * gap
      BY <1>3, <2>3, Zenon
    <3>2. Abs(y - paddle.pos.y) <= paddle.half.y + ball.half.y
      BY <3>1
    <3>3. QED
      BY <2>3, <2>5, <3>2, Zenon
  <2>8. ~Beside(bounds, edge)
    BY <2>4, <2>6, <2>7 DEF Beside, Abs
  <2>9. QED
    BY <2>4, <2>8, Zenon DEF UnlessBeside
<1>8. PICK yc \in CollisionsType :
        yc = UnlessAbove(get_first_collision(<<ball_y_collide(ball, ToInt(edge.up), k),
                                               ball_y_collide(ball, ToInt(edge.down), k)>>),
                         ball, edge)
  <2>1. ToInt(edge.up) \in Int /\ ToInt(edge.down) \in Int
    BY PaddleEdges, ArithmeticType, Zenon
  <2>2. get_first_collision(<<ball_y_collide(ball, ToInt(edge.up), k),
                              ball_y_collide(ball, ToInt(edge.down), k)>>) \in CollisionsType
    BY <2>1, EdgeType, PairType
  <2>3. QED
    BY <2>2, NoCollisionType, Zenon DEF UnlessAbove
<1>9. AABB_collide(ball, paddle, k) = get_first_collision(<<f, yc>>)
  BY <1>6, <1>7, <1>8, Zenon DEF AABB_collide
<1>10. Hit(get_first_collision(<<f, yc>>)) /\ AtMost(get_first_collision(<<f, yc>>).toi, f.toi)
  BY <1>3, FirstOfTwo, Zenon
<1>11. QED
  BY <1>3, <1>9, <1>10, Zenon

\* What is first of a list is not as late as what comes after one of the list.
LEMMA FirstIsEarly ==
  ASSUME NEW cs \in Seq(CollisionsType), NEW i \in DOMAIN cs, Hit(cs[i]),
         NEW gap \in Int, NEW late \in Int, NEW way \in Nat \ {0}, gap < late,
         AtMost(cs[i].toi, [n |-> gap, d |-> way])
  PROVE  ~Same(get_first_collision(cs).toi, [n |-> late, d |-> way])
<1> DEFINE c == get_first_collision(cs)
<1> SUFFICES ASSUME Same(c.toi, [n |-> late, d |-> way]) PROVE FALSE
  OBVIOUS
<1>1. PICK j \in DOMAIN cs : c = cs[j] /\ Before(cs, j, i)
  BY FirstIs, Zenon
<1>2. PICK r \in Fractions, q \in Fractions : r = c.toi /\ q = cs[i].toi
  BY <1>1, CollisionTyped, Zenon
<1>3. PICK u \in Fractions, v \in Fractions :
        u = [n |-> gap, d |-> way] /\ v = [n |-> late, d |-> way]
  BY DEF Fractions
<1>4. AtMost(r, q)
  <2>1. Less(r, q) \/ Same(r, q)
    BY <1>1, <1>2, Zenon DEF Before
  <2>2. QED
    BY <2>1, LessOrder, Zenon
<1>5. AtMost(r, u)
  <2>1. AtMost(q, u)
    BY <1>2, <1>3, Zenon
  <2>2. \A x, y, z \in Fractions : AtMost(x, y) /\ AtMost(y, z) => AtMost(x, z)
    BY LessOrder, Zenon
  <2>3. QED
    BY <1>4, <2>1, <2>2, Zenon
<1>6. Same(r, v)
  BY <1>2, <1>3, Zenon
<1> HIDE DEF c
<1>7. AtMost(v, r)
  <2>1. \A x, y \in Fractions : x.n * y.d \in Int /\ y.n * x.d \in Int
    <3>1. \A x \in Fractions : x.n \in Int /\ x.d \in Int
      BY DEF Fractions
    <3>2. \A a, b \in Int : a * b \in Int
      OBVIOUS
    <3>3. QED
      BY <3>1, <3>2, Zenon
  <2>2. PICK a \in Int, b \in Int : a = r.n * v.d /\ b = v.n * r.d
    BY <2>1, Zenon
  <2>3. a = b => b <= a
    OBVIOUS
  <2>4. QED
    BY <1>6, <2>2, <2>3, Zenon DEF Same, AtMost
<1>8. AtMost(v, u)
  <2>1. \A x, y, z \in Fractions : AtMost(x, y) /\ AtMost(y, z) => AtMost(x, z)
    BY LessOrder, Zenon
  <2>2. QED
    BY <1>5, <1>7, <2>1, Zenon
<1>9. late * way <= gap * way
  BY <1>3, <1>8 DEF AtMost
<1>10. gap * way < late * way
  BY Grow
<1>11. QED
  BY <1>9, <1>10

\* The ball meets a paddle that is in its way, before it gets to the side behind that.
LEMMA WayIsMet ==
  ASSUME NEW ball \in Objects, Diagonal(ball), ball.half.x >= 0, NEW k \in Nat \ {0},
         NEW paddle \in Objects, paddle.half.x > 0, InTheWay(ball, paddle),
         NEW dir \in {-1, 1}, dir = Sign(ball.velocity.x),
         NEW front \in Int, front = paddle.pos.x - dir * paddle.half.x,
         NEW back \in Int, back = paddle.pos.x + dir * paddle.half.x,
         NEW edge, edge = AABB_get_boundaries(paddle),
         \/ dir = 1 /\ front = ToInt(edge.left) /\ back = ToInt(edge.right)
         \/ dir = -1 /\ front = ToInt(edge.right) /\ back = ToInt(edge.left),
         0 < Distance(ball, back, dir),
         Distance(ball, back, dir) <= Abs(ball.velocity.x) * k
  PROVE  \E gap \in Int :
           /\ gap < Distance(ball, back, dir)
           /\ Hit(AABB_collide(ball, paddle, k))
           /\ AtMost(AABB_collide(ball, paddle, k).toi,
                     [n |-> gap, d |-> Abs(ball.velocity.x) * k])
<1>a. PICK way \in Nat : way = Abs(ball.velocity.x) * k
  <2>1. Abs(ball.velocity.x) \in Nat
    BY ObjectParts DEF Abs
  <2>2. QED
    BY <2>1
<1>b. PICK late \in Int : late = Distance(ball, back, dir) /\ 0 < late /\ late <= way
  <2>1. Distance(ball, back, dir) \in Int
    BY ObjectParts DEF Distance
  <2>2. QED
    BY <1>a, <2>1, Zenon
<1>1. PICK px \in Int, hx \in Int, x \in Int, h \in Int :
        px = ball.pos.x /\ hx = ball.half.x /\ x = paddle.pos.x /\ h = paddle.half.x
  BY ObjectParts
<1>2. hx >= 0 /\ h > 0 /\ front = x - dir * h /\ back = x + dir * h
  BY <1>1
<1>3. \A e : Distance(ball, e, dir) = dir * (e - px) - hx
  BY <1>1, Zenon DEF Distance
<1>4. PICK gap \in Int : gap = Gap(ball, paddle) /\ gap = Abs(x - px) - h - hx /\ gap > 0
  <2>1. Gap(ball, paddle) = Abs(x - px) - h - hx
    BY <1>1, Zenon DEF Gap
  <2>2. Gap(ball, paddle) > 0
    BY Zenon DEF InTheWay
  <2>3. Abs(x - px) - h - hx \in Int
    BY DEF Abs
  <2>4. QED
    BY <2>1, <2>2, <2>3
<1>5. late = dir * (back - px) - hx
  BY <1>b, <1>3, Zenon
<1>6. gap = dir * (front - px) - hx /\ gap < late
  <2>1. CASE dir = 1
    BY <1>b, <1>2, <1>4, <1>5, <2>1 DEF Abs
  <2>2. CASE dir = -1
    BY <1>b, <1>2, <1>4, <1>5, <2>2 DEF Abs
  <2>3. QED
    BY <2>1, <2>2
<1>7. gap = Distance(ball, front, dir) /\ Distance(ball, front, dir) < Distance(ball, back, dir)
  <2>1. gap = Distance(ball, front, dir)
    BY <1>3, <1>6, Zenon
  <2>2. QED
    BY <1>b, <1>6, <2>1, Zenon
<1>8. gap <= way /\ 0 < gap
  BY <1>b, <1>4, <1>6
<1>9. Abs((ball.pos.y + Sign(ball.velocity.y) * gap) - paddle.pos.y)
        <= paddle.half.y + ball.half.y
  <2>1. Abs((ball.pos.y + Sign(ball.velocity.y) * Gap(ball, paddle)) - paddle.pos.y)
          <= paddle.half.y + ball.half.y
    BY Zenon DEF InTheWay
  <2>2. QED
    BY <1>4, <2>1
<1>10. /\ Hit(AABB_collide(ball, paddle, k))
       /\ AtMost(AABB_collide(ball, paddle, k).toi, [n |-> gap, d |-> way])
  BY <1>a, <1>7, <1>8, <1>9, FrontIsMet
<1>11. QED
  BY <1>a, <1>b, <1>6, <1>10, Zenon

\* What a ball meets at an edge, by the direction it flies in.
LEMMA EdgeMet ==
  ASSUME NEW ball \in Objects, Diagonal(ball), NEW k \in Nat \ {0}, NEW e \in Int,
         NEW dir \in {-1, 1}, dir = Sign(ball.velocity.x), Hit(ball_x_collide(ball, e, k))
  PROVE  /\ 0 < Distance(ball, e, dir)
         /\ Distance(ball, e, dir) <= Abs(ball.velocity.x) * k
         /\ ball_x_collide(ball, e, k).toi
              = [n |-> Distance(ball, e, dir), d |-> Abs(ball.velocity.x) * k]
         /\ ball_x_collide(ball, e, k).normal.x = -dir
<1>1. ball.velocity.x # 0
  BY DEF Sign
<1>2. QED
  BY <1>1, EdgeReached, Zenon DEF Diagonal

\* What a point in the first turn says of the collisions looked at.
LEMMA ScoredAtOnce ==
  ASSUME NEW p1 \in Objects, NEW p2 \in Objects, NEW ball \in Objects, NEW k \in Nat \ {0},
         NEW t, t = Turn(wall, p1, p2, k, Start(ball)), t.scored_index # -1
  PROVE  \E cs \in Seq(CollisionsType) :
           /\ DOMAIN cs = 1..4
           /\ cs[1] = AABB_collide(ball, p1, k) /\ cs[2] = AABB_collide(ball, p2, k)
           /\ cs[4] = ball_score_collide(wall, ball, k)
           /\ Hit(cs[4]) /\ Same(get_first_collision(cs).toi, cs[4].toi)
           /\ t.scored_index = ScoredIndex(cs[4])
<1>1. PICK s \in Turned : s = Start(ball) /\ s.ball = ball /\ s.passed = [n |-> 0, d |-> 1]
                          /\ s.scored_index = -1
  BY StartTurned, Zenon
<1>2. s.passed.n < k * s.passed.d
  BY <1>1
<1>3. IntLeft(k, s.passed) = k
  <2>1. s.passed.n = 0 /\ s.passed.d = 1
    BY <1>1
  <2>2. (k * 1 - 0) \div 1 = k
    OBVIOUS
  <2>3. QED
    BY <2>1, <2>2, Zenon DEF IntLeft
<1>4. t = Turn(wall, p1, p2, k, s)
  BY <1>1, Zenon
<1>5. PICK left \in Nat, cs \in Seq(CollisionsType), c \in CollisionsType :
        /\ left = IntLeft(k, s.passed) /\ cs = Collisions(wall, p1, p2, s.ball, k, left)
        /\ c = get_first_collision(cs)
        /\ AsTurned(s, t, k, left, cs, c)
  <2>1. TurnedBy(p1, p2, k, s, t)
    BY <1>2, <1>4, TurnIs, Zenon
  <2>2. QED
    BY <2>1, Zenon DEF TurnedBy
<1>6. cs = Collisions(wall, p1, p2, ball, k, k)
  BY <1>1, <1>3, <1>5, Zenon
<1>7. /\ DOMAIN cs = 1..4
      /\ cs[1] = AABB_collide(ball, p1, k) /\ cs[2] = AABB_collide(ball, p2, k)
      /\ cs[4] = ball_score_collide(wall, ball, k)
  BY <1>6 DEF Collisions
<1>8. QED
  BY <1>1, <1>5, <1>7, Zenon DEF AsTurned

\* A point in the first turn is the other's, and not past its paddle.
LEMMA EarnedAtOnce ==
  ASSUME NEW p1 \in Objects, NEW p2 \in Objects,
         InPlace(p1, Box.x - PaddleHalf.x), InPlace(p2, PaddleHalf.x),
         NEW ball \in Objects, OnCourse(ball), NEW k \in Nat \ {0},
         NEW t, t = Turn(wall, p1, p2, k, Start(ball)), t.scored_index # -1
  PROVE  LET loser == IF t.scored_index = 0 THEN p2 ELSE p1 IN
         /\ Sign(ball.velocity.x) = Sign(loser.pos.x - Box.x \div 2)
         /\ ~InTheWay(ball, loser)
<1>1. PICK cs \in Seq(CollisionsType) :
           /\ DOMAIN cs = 1..4
           /\ cs[1] = AABB_collide(ball, p1, k) /\ cs[2] = AABB_collide(ball, p2, k)
           /\ cs[4] = ball_score_collide(wall, ball, k)
           /\ Hit(cs[4]) /\ Same(get_first_collision(cs).toi, cs[4].toi)
           /\ t.scored_index = ScoredIndex(cs[4])
  BY ScoredAtOnce
<1>2. PICK w \in Nat \ {0}, h \in Nat \ {0}, m \in Int :
        w = Box.x /\ h = PaddleHalf.x /\ 2 * h < w /\ m = w \div 2 /\ h < m /\ h < w - m
  <2>1. PICK w \in Int, h \in Int : w = Box.x /\ h = PaddleHalf.x /\ h > 0 /\ 2 * h < w
    BY SideEdges
  <2>2. w \div 2 \in Int /\ w % 2 \in Nat /\ w = 2 * (w \div 2) + (w % 2)
    <3>1. 2 \in Nat /\ 2 > 0
      OBVIOUS
    <3>2. QED
      BY <3>1, Division, Zenon
  <2>3. h < w \div 2
    BY <2>1, SideAssumption, Zenon
  <2>4. PICK m \in Int, q \in Nat : m = w \div 2 /\ w = 2 * m + q /\ h < m
    BY <2>2, <2>3, Zenon
  <2>5. w \in Nat \ {0} /\ h \in Nat \ {0} /\ h < w - m
    <3>1. h > 0 /\ 2 * h < w /\ w = 2 * m + q /\ h < m
      BY <2>1, <2>4, Zenon
    <3>2. QED
      BY <3>1
  <2>6. QED
    BY <2>1, <2>4, <2>5, Zenon
<1>3. PICK px \in Int, hx \in Nat :
        px = ball.pos.x /\ hx = ball.half.x
        /\ (ball.velocity.x < 0 => px + hx <= w) /\ (ball.velocity.x > 0 => px >= hx)
  <2>1. ball.half.x = BallHalf.x
    BY Zenon DEF OnCourse
  <2>2. ball.half.x \in Nat /\ ball.pos.x \in Int
    BY <2>1, SideEdges, ObjectParts
  <2>3. QED
    BY <1>2, <2>2, Zenon DEF OnCourse
<1>4. Diagonal(ball)
  BY Zenon DEF OnCourse
<1>5. PICK l \in CollisionsType, r \in CollisionsType :
        /\ l = ball_x_collide(ball, 0, k) /\ r = ball_x_collide(ball, w, k)
        /\ cs[4] = IF Hit(l) THEN l ELSE r
  <2>1. wall.left = 0 /\ wall.right = w
    BY <1>2 DEF wall
  <2>2. 0 \in Int /\ w \in Int /\ k \in Int
    OBVIOUS
  <2>3. QED
    BY <1>1, <2>1, <2>2, EdgeType, Zenon DEF ball_score_collide, OrElse
<1>6. ball.velocity.x \in Int /\ ball.velocity.x # 0
  <2>1. w \in Int /\ 0 \in Int /\ k \in Nat
    OBVIOUS
  <2>2. QED
    BY <1>1, <1>5, <2>1, NoEdgeReached, ObjectParts, Zenon
<1>7. PICK way \in Nat \ {0} : way = Abs(ball.velocity.x) * k
  <2>1. Abs(ball.velocity.x) \in Nat \ {0}
    BY <1>6 DEF Abs
  <2>2. QED
    BY <2>1
<1>8. way \in Nat /\ 0 \in Int /\ w \in Int
  OBVIOUS
<1>9. CASE ball.velocity.x < 0
  <2>1. -1 \in {-1, 1} /\ -1 = Sign(ball.velocity.x) /\ px + hx <= w
    <3>1. px + hx <= w
      BY <1>3, <1>9, Zenon
    <3>2. Sign(ball.velocity.x) = -1
      BY <1>6, <1>9 DEF Sign
    <3>3. QED
      BY <3>1, <3>2
  <2>2. \A e : Distance(ball, e, -1) = (-1) * (e - px) - hx
    BY <1>3, Zenon DEF Distance
  <2>3. ~Hit(r)
    <3>1. (-1) * (w - px) - hx <= 0
      BY <2>1
    <3>2. Hit(r) => 0 < Distance(ball, w, -1)
      BY <1>4, <1>5, <1>8, <2>1, EdgeMet, Zenon
    <3>3. Hit(r) => 0 < (-1) * (w - px) - hx
      BY <2>2, <3>2, Zenon
    <3>4. QED
      BY <3>1, <3>3
  <2>4. cs[4] = l /\ Hit(l)
    BY <1>1, <1>5, <2>3, Zenon
  <2>5. /\ 0 < Distance(ball, 0, -1) /\ Distance(ball, 0, -1) <= way
        /\ l.toi = [n |-> Distance(ball, 0, -1), d |-> way] /\ l.normal.x = -(-1)
    <3>1. l = ball_x_collide(ball, 0, k) /\ Hit(ball_x_collide(ball, 0, k))
      BY <1>5, <2>4, Zenon
    <3>2. /\ 0 < Distance(ball, 0, -1)
          /\ Distance(ball, 0, -1) <= Abs(ball.velocity.x) * k
          /\ ball_x_collide(ball, 0, k).toi
               = [n |-> Distance(ball, 0, -1), d |-> Abs(ball.velocity.x) * k]
          /\ ball_x_collide(ball, 0, k).normal.x = -(-1)
      BY <1>4, <1>8, <2>1, <3>1, EdgeMet
    <3>3. QED
      BY <1>7, <3>1, <3>2, Zenon
  <2>6. t.scored_index = 0
    <3>1. l.normal.x > 0
      BY <2>5
    <3>2. QED
      BY <1>1, <2>4, <3>1, Zenon DEF ScoredIndex
  <2>7. p2.pos.x = h /\ p2.half.x = h
    BY <1>2, Zenon DEF InPlace
  <2>8. Sign(p2.pos.x - Box.x \div 2) = -1
    <3>1. p2.pos.x - Box.x \div 2 = h - m
      BY <1>2, <2>7, Zenon
    <3>2. h < m
      BY <1>2, Zenon
    <3>3. Sign(h - m) = -1
      BY <3>2 DEF Sign
    <3>4. QED
      BY <3>1, <3>3, Zenon
  <2>9. ~InTheWay(ball, p2)
    <3> SUFFICES ASSUME InTheWay(ball, p2) PROVE FALSE
      OBVIOUS
    <3>1. PICK front \in Int, back \in Int :
            /\ front = 2 * h /\ back = 0
            /\ front = ToInt(AABB_get_boundaries(p2).right)
            /\ back = ToInt(AABB_get_boundaries(p2).left)
      <4>1. /\ ToInt(AABB_get_boundaries(p2).right) = 2 * h
            /\ ToInt(AABB_get_boundaries(p2).left) = 0
        BY <1>2, PaddleEdges, Zenon
      <4>2. 2 * h \in Int /\ 0 \in Int
        OBVIOUS
      <4>3. QED
        BY <4>1, <4>2, Zenon
    <3>2. front = p2.pos.x - (-1) * p2.half.x /\ back = p2.pos.x + (-1) * p2.half.x
      BY <2>7, <3>1
    <3>3. p2.half.x > 0 /\ ball.half.x >= 0
      BY <1>3, <2>7
    <3>4. /\ 0 < Distance(ball, back, -1)
          /\ Distance(ball, back, -1) <= Abs(ball.velocity.x) * k
      BY <1>7, <2>5, <3>1, Zenon
    <3>5. PICK gap \in Int :
             /\ gap < Distance(ball, back, -1)
             /\ Hit(AABB_collide(ball, p2, k))
             /\ AtMost(AABB_collide(ball, p2, k).toi,
                       [n |-> gap, d |-> Abs(ball.velocity.x) * k])
      BY <1>4, <2>1, <3>1, <3>2, <3>3, <3>4, WayIsMet
    <3>6. gap < Distance(ball, 0, -1) /\ Distance(ball, 0, -1) \in Int
      <4>1. (-1) * (0 - px) - hx \in Int
        OBVIOUS
      <4>2. QED
        BY <2>2, <3>1, <3>5, <4>1, Zenon
    <3>7. Hit(cs[2]) /\ AtMost(cs[2].toi, [n |-> gap, d |-> way]) /\ 2 \in DOMAIN cs
      BY <1>1, <1>7, <3>5
    <3>8. ~Same(get_first_collision(cs).toi, [n |-> Distance(ball, 0, -1), d |-> way])
      BY <3>6, <3>7, FirstIsEarly, Zenon
    <3>9. QED
      BY <1>1, <2>4, <2>5, <3>8, Zenon
  <2>10. QED
    BY <2>1, <2>6, <2>8, <2>9, Zenon
<1>10. CASE ball.velocity.x > 0
  <2>1. 1 \in {-1, 1} /\ 1 = Sign(ball.velocity.x) /\ px >= hx
    <3>1. px >= hx
      BY <1>3, <1>10, Zenon
    <3>2. Sign(ball.velocity.x) = 1
      BY <1>6, <1>10 DEF Sign
    <3>3. QED
      BY <3>1, <3>2
  <2>2. \A e : Distance(ball, e, 1) = 1 * (e - px) - hx
    BY <1>3, Zenon DEF Distance
  <2>3. ~Hit(l)
    <3>1. 1 * (0 - px) - hx <= 0
      BY <2>1
    <3>2. Hit(l) => 0 < Distance(ball, 0, 1)
      BY <1>4, <1>5, <1>8, <2>1, EdgeMet, Zenon
    <3>3. Hit(l) => 0 < 1 * (0 - px) - hx
      BY <2>2, <3>2, Zenon
    <3>4. QED
      BY <3>1, <3>3
  <2>4. cs[4] = r /\ Hit(r)
    BY <1>1, <1>5, <2>3, Zenon
  <2>5. /\ 0 < Distance(ball, w, 1) /\ Distance(ball, w, 1) <= way
        /\ r.toi = [n |-> Distance(ball, w, 1), d |-> way] /\ r.normal.x = -(1)
    <3>1. r = ball_x_collide(ball, w, k) /\ Hit(ball_x_collide(ball, w, k))
      BY <1>5, <2>4, Zenon
    <3>2. /\ 0 < Distance(ball, w, 1)
          /\ Distance(ball, w, 1) <= Abs(ball.velocity.x) * k
          /\ ball_x_collide(ball, w, k).toi
               = [n |-> Distance(ball, w, 1), d |-> Abs(ball.velocity.x) * k]
          /\ ball_x_collide(ball, w, k).normal.x = -(1)
      BY <1>4, <1>8, <2>1, <3>1, EdgeMet
    <3>3. QED
      BY <1>7, <3>1, <3>2, Zenon
  <2>6. t.scored_index = 1
    <3>1. ~(r.normal.x > 0)
      BY <2>5
    <3>2. QED
      BY <1>1, <2>4, <3>1, Zenon DEF ScoredIndex
  <2>7. p1.pos.x = w - h /\ p1.half.x = h
    BY <1>2, Zenon DEF InPlace
  <2>8. Sign(p1.pos.x - Box.x \div 2) = 1
    <3>1. p1.pos.x - Box.x \div 2 = (w - h) - m
      BY <1>2, <2>7, Zenon
    <3>2. h < w - m
      BY <1>2, Zenon
    <3>3. Sign((w - h) - m) = 1
      BY <3>2 DEF Sign
    <3>4. QED
      BY <3>1, <3>3, Zenon
  <2>9. ~InTheWay(ball, p1)
    <3> SUFFICES ASSUME InTheWay(ball, p1) PROVE FALSE
      OBVIOUS
    <3>1. PICK front \in Int, back \in Int :
            /\ front = w - 2 * h /\ back = w
            /\ front = ToInt(AABB_get_boundaries(p1).left)
            /\ back = ToInt(AABB_get_boundaries(p1).right)
      <4>1. /\ ToInt(AABB_get_boundaries(p1).left) = w - 2 * h
            /\ ToInt(AABB_get_boundaries(p1).right) = w
        BY <1>2, PaddleEdges, Zenon
      <4>2. w - 2 * h \in Int /\ w \in Int
        OBVIOUS
      <4>3. QED
        BY <4>1, <4>2, Zenon
    <3>2. front = p1.pos.x - 1 * p1.half.x /\ back = p1.pos.x + 1 * p1.half.x
      BY <2>7, <3>1
    <3>3. p1.half.x > 0 /\ ball.half.x >= 0
      BY <1>3, <2>7
    <3>4. /\ 0 < Distance(ball, back, 1)
          /\ Distance(ball, back, 1) <= Abs(ball.velocity.x) * k
      BY <1>7, <2>5, <3>1, Zenon
    <3>5. PICK gap \in Int :
             /\ gap < Distance(ball, back, 1)
             /\ Hit(AABB_collide(ball, p1, k))
             /\ AtMost(AABB_collide(ball, p1, k).toi,
                       [n |-> gap, d |-> Abs(ball.velocity.x) * k])
      BY <1>4, <2>1, <3>1, <3>2, <3>3, <3>4, WayIsMet
    <3>6. gap < Distance(ball, w, 1) /\ Distance(ball, w, 1) \in Int
      <4>1. 1 * (w - px) - hx \in Int
        OBVIOUS
      <4>2. QED
        BY <2>2, <3>1, <3>5, <4>1, Zenon
    <3>7. Hit(cs[1]) /\ AtMost(cs[1].toi, [n |-> gap, d |-> way]) /\ 1 \in DOMAIN cs
      BY <1>1, <1>7, <3>5
    <3>8. ~Same(get_first_collision(cs).toi, [n |-> Distance(ball, w, 1), d |-> way])
      BY <3>6, <3>7, FirstIsEarly, Zenon
    <3>9. QED
      BY <1>1, <2>4, <2>5, <3>8, Zenon
  <2>10. QED
    <3>1. t.scored_index # 0
      BY <2>6
    <3>2. QED
      BY <2>1, <2>8, <2>9, <3>1, Zenon
<1>11. QED
  <2>1. ball.velocity.x < 0 \/ ball.velocity.x > 0
    BY <1>6
  <2>2. QED
    BY <1>9, <1>10, <2>1, Zenon

\* What a tick leaves of a ball on its course: a ball on its course, or a point; and a point
\* without a hit is made in the first turn.
LEMMA AdvanceCourse ==
  ASSUME NEW p1 \in Objects, NEW p2 \in Objects, AtSide(p1), AtSide(p2),
         NEW ball \in Objects, OnCourse(ball), NEW k \in Nat \ {0}
  PROVE  LET after == ball_advance(wall, p1, p2, ball, k) IN
         /\ after.scored_index = -1 => OnCourse(after.ball)
         /\ after.hits = <<>> => \/ after = Start(ball)
                                 \/ after = Turn(wall, p1, p2, k, Start(ball))
<1>1. k \in Int /\ MaxBounces \in 0..MaxBounces
  BY GridAssumption
<1>a. PICK turns : AreTurns(turns, p1, p2, ball, k)
  BY <1>1, AdvanceTurns, Zenon
<1>2. /\ \A i \in 0..MaxBounces : turns[i] \in Turned
      /\ turns[0] = Start(ball)
      /\ \A i \in 0..MaxBounces, j \in 1..MaxBounces : j = i + 1 =>
           turns[j] = IF turns[i].done THEN turns[i] ELSE Turn(wall, p1, p2, k, turns[i])
      /\ ball_advance(wall, p1, p2, ball, k) = turns[MaxBounces]
  BY <1>a, Zenon DEF AreTurns
<1> DEFINE Fine(s) ==
             /\ Underway(s, k)
             /\ s.hits = <<>> => \/ s = Start(ball)
                                 \/ s = Turn(wall, p1, p2, k, Start(ball)) /\ s.done
           At(m) == \A i \in 0..MaxBounces : i = m => Fine(turns[i])
           T == {m \in Nat : At(m)}
<1>3. Fine(Start(ball))
  <2>1. PICK s : s = Start(ball) /\ s.ball = ball /\ s.passed = [n |-> 0, d |-> 1]
                 /\ s.scored_index = -1 /\ s.done = FALSE
    BY StartTurned, Zenon
  <2>2. s.passed.n < k * s.passed.d
    BY <2>1
  <2>3. Underway(s, k)
    BY <2>1, <2>2, Zenon DEF Underway
  <2>4. Underway(Start(ball), k)
    BY <2>1, <2>3, Zenon
  <2>5. QED
    BY <2>4, Zenon
<1>4. ASSUME NEW s \in Turned, ~s.done, Fine(s) PROVE Fine(Turn(wall, p1, p2, k, s))
  <2>1. PICK t : t = Turn(wall, p1, p2, k, s)
    OBVIOUS
  <2>2. Underway(t, k) /\ (t.hits = <<>> => t.done /\ s.hits = <<>>)
    <3>1. Underway(s, k)
      BY <1>4, Zenon
    <3>2. QED
      BY <1>4, <2>1, <3>1, TurnCourse
  <2>3. QED
    BY <1>4, <2>1, <2>2, Zenon
<1> HIDE DEF Fine
<1>5. T = Nat
  <2>1. At(0)
    BY <1>2, <1>3, Zenon
  <2>2. ASSUME NEW m \in Nat, At(m), NEW j \in Nat, j = m + 1 PROVE At(j)
    <3> SUFFICES ASSUME NEW i \in 0..MaxBounces, i = j PROVE Fine(turns[i])
      OBVIOUS
    <3>1. m \in 0..MaxBounces /\ i \in 1..MaxBounces /\ i = m + 1
      BY <1>1, <2>2
    <3>2. turns[m] \in Turned /\ Fine(turns[m])
      BY <1>2, <2>2, <3>1, Zenon
    <3>3. turns[i] = IF turns[m].done THEN turns[m] ELSE Turn(wall, p1, p2, k, turns[m])
      BY <1>2, <3>1, Zenon
    <3>4. QED
      BY <1>4, <3>2, <3>3, Zenon
  <2> HIDE DEF At
  <2>3. T \in SUBSET Nat /\ 0 \in T /\ \A m \in T, j \in Nat : j = m + 1 => j \in T
    BY <2>1, <2>2
  <2> HIDE DEF T
  <2>4. QED
    BY <2>3, SetInduction
<1>6. Fine(turns[MaxBounces]) /\ turns[MaxBounces] \in Turned
  <2>1. MaxBounces \in T
    <3> HIDE DEF T
    <3> QED
      BY <1>5, GridAssumption
  <2>2. QED
    BY <1>1, <1>2, <2>1, Zenon
<1>7. QED
  BY <1>2, <1>6, Zenon DEF Fine, Underway

\* The paddles at their sides and the ball on its course.
CourseInv ==
  /\ OnCourse(state.ball)
  /\ InPlace(state.player1, Box.x - PaddleHalf.x) /\ InPlace(state.player2, PaddleHalf.x)

\* init_game puts the ball in the middle.
LEMMA InitCourse ==
  ASSUME NEW score, NEW st \in init_game(score)
  PROVE  /\ OnCourse(st.ball)
         /\ InPlace(st.player1, Box.x - PaddleHalf.x) /\ InPlace(st.player2, PaddleHalf.x)
<1>1. PICK ball \in InitBalls :
        st = [player1 |-> InitPlayer1, player2 |-> InitPlayer2, ball |-> ball, score |-> score]
  BY DEF init_game
<1>2. PICK dx \in {-1, 1}, dy \in {-1, 1} :
        ball = [pos |-> [x |-> Box.x \div 2, y |-> Box.y \div 2], half |-> BallHalf,
                velocity |-> Times([x |-> dx, y |-> dy], InitSpeed)]
  BY DEF InitBalls
<1>3. PICK v \in Int : v = InitSpeed
  BY FieldAssumption
<1>4. PICK mid \in Int, q \in Nat : mid = Box.x \div 2 /\ q < 2 /\ Box.x = 2 * mid + q
  <2>1. Box.x \in Int
    BY SideEdges
  <2>2. 2 \in Nat /\ 2 > 0
    OBVIOUS
  <2>3. QED
    BY <2>1, <2>2, Division, Zenon
<1>5. PICK b \in Int : b = BallHalf.x /\ b >= 0 /\ b <= mid
  BY <1>4, SideEdges, SideAssumption
<1>6. Times([x |-> dx, y |-> dy], InitSpeed) = [x |-> dx * v, y |-> dy * v]
  BY <1>3 DEF Times
<1>7. /\ ball.half = BallHalf /\ ball.pos.x = mid
      /\ ball.velocity.x = dx * v /\ ball.velocity.y = dy * v
  BY <1>2, <1>4, <1>6
<1>8. Abs(dx * v) = Abs(dy * v)
  BY DEF Abs
<1>9. mid + b <= Box.x /\ mid >= b
  BY <1>4, <1>5
<1>10. OnCourse(ball)
  BY <1>5, <1>7, <1>8, <1>9 DEF OnCourse, Diagonal
<1>11. \A x : InPlace(Paddle(x), x)
  BY DEF InPlace, Paddle, Zero
<1>12. st.ball = ball /\ st.player1 = InitPlayer1 /\ st.player2 = InitPlayer2
  BY <1>1
<1>13. QED
  BY <1>10, <1>11, <1>12, Zenon DEF InitPlayer1, InitPlayer2

\* Pushing a paddle does not move it sideways.
LEMMA PushedInPlace ==
  ASSUME NEW paddle \in Objects, NEW push \in Int, NEW x, InPlace(paddle, x)
  PROVE  InPlace(Pushed(paddle, push), x)
<1>1. PICK v \in Int : v = PaddleSpeed * Sign(push)
  BY ArithmeticType, FieldAssumption
<1>2. PICK left \in Int : left = Abs(push)
  BY ArithmeticType
<1>3. PICK px \in Int, py \in Int, hx \in Vectors :
        px = paddle.pos.x /\ py = paddle.pos.y /\ hx = paddle.half
        /\ paddle.velocity.x = 0
  BY ObjectParts, Zenon DEF InPlace
<1>4. PICK o : o = [paddle EXCEPT !.velocity.y = v]
  OBVIOUS
<1>5. o.pos = paddle.pos /\ o.half = paddle.half /\ o.velocity.x = 0 /\ o \in Objects
  BY <1>3, <1>4 DEF Objects, Vectors
<1>6. Pushed(paddle, push) = [o EXCEPT !.pos = Plus(o.pos, Times(o.velocity, left))]
  BY <1>1, <1>2, <1>4, Zenon DEF Pushed, linear_move
<1>7. Plus(o.pos, Times(o.velocity, left)).x = px
  <2>1. Times(o.velocity, left).x = 0
    BY <1>5 DEF Times
  <2>2. o.pos.x = px
    BY <1>3, <1>5, Zenon
  <2>3. QED
    BY <2>1, <2>2 DEF Plus
<1>8. PICK p : p = Plus(o.pos, Times(o.velocity, left)) /\ p.x = px
  BY <1>7
<1>9. PICK b : b = Pushed(paddle, push) /\ b.pos = p /\ b.velocity = o.velocity /\ b.half = o.half
  BY <1>5, <1>6, <1>8 DEF Objects
<1>10. QED
  BY <1>3, <1>5, <1>8, <1>9, Zenon DEF InPlace

\* send_state keeps the paddles at their sides and the ball on its course.
LEMMA TickCourse ==
  ASSUME TypeOK, CourseInv, NEW delta_time \in Ticks, ServerTick(delta_time)
  PROVE  CourseInv'
<1>1. state \in States
  BY Zenon DEF TypeOK
<1>2. state.player1 \in Objects /\ state.player2 \in Objects /\ state.ball \in Objects
  BY <1>1 DEF States
<1>3. delta_time \in Nat \ {0} /\ delta_time \in Int
  BY TimeAssumption
<1>4. PICK after \in Turned :
        after = ball_advance(wall, state.player1, state.player2, state.ball, delta_time)
  BY <1>2, <1>3, AdvanceType
<1>5. CASE after.scored_index # -1
  <2>1. PICK score : state' \in init_game(score)
    BY <1>4, <1>5, Zenon DEF ServerTick
  <2>2. QED
    BY <2>1, InitCourse, Zenon DEF CourseInv
<1>6. CASE after.scored_index = -1
  <2>1. PICK inputs \in Inputs :
             state' = [state EXCEPT !.player1 = Pushed(@, inputs[1]),
                                    !.player2 = Pushed(@, inputs[2]),
                                    !.ball = after.ball]
    BY <1>4, <1>6, Zenon DEF ServerTick
  <2>2. inputs[1] \in Int /\ inputs[2] \in Int
    BY FieldAssumption
  <2>3. /\ state'.player1 = Pushed(state.player1, inputs[1])
        /\ state'.player2 = Pushed(state.player2, inputs[2])
        /\ state'.ball = after.ball
    BY <1>1, <2>1 DEF States
  <2>4. OnCourse(after.ball)
    <3>1. AtSide(state.player1) /\ AtSide(state.player2) /\ OnCourse(state.ball)
      BY Zenon DEF AtSide, CourseInv
    <3>2. QED
      BY <1>2, <1>3, <1>4, <1>6, <3>1, AdvanceCourse
  <2>5. /\ InPlace(Pushed(state.player1, inputs[1]), Box.x - PaddleHalf.x)
        /\ InPlace(Pushed(state.player2, inputs[2]), PaddleHalf.x)
    BY <1>2, <2>2, PushedInPlace, Zenon DEF CourseInv
  <2>6. QED
    BY <2>3, <2>4, <2>5, Zenon DEF CourseInv
<1>7. QED
  BY <1>5, <1>6

\* So every step does.
LEMMA StepCourse == TypeOK /\ CourseInv /\ [Next]_vars => CourseInv'
<1> SUFFICES ASSUME TypeOK, CourseInv, [Next]_vars PROVE CourseInv'
  OBVIOUS
<1>1. CASE Server
  BY <1>1, TickCourse DEF Server
<1>2. CASE ClientReceives
  BY <1>2, Zenon DEF ClientReceives, CourseInv
<1>3. CASE UNCHANGED vars
  BY <1>3, Zenon DEF CourseInv, vars
<1>4. QED
  BY <1>1, <1>2, <1>3 DEF Next

\* On its course, a ball that scores has earned it.
LEMMA EarnedOnCourse == TypeOK /\ CourseInv => PointsAreEarned
<1> SUFFICES ASSUME TypeOK, CourseInv, NEW delta_time \in Ticks,
                    NEW after, after = Advanced(delta_time),
                    after.scored_index # -1, after.hits = <<>>
             PROVE  LET loser == IF after.scored_index = 0 THEN state.player2
                                 ELSE state.player1
                    IN /\ Sign(state.ball.velocity.x) = Sign(loser.pos.x - Box.x \div 2)
                       /\ ~InTheWay(state.ball, loser)
  BY Zenon DEF PointsAreEarned
<1>1. state \in States
  BY Zenon DEF TypeOK
<1>2. state.player1 \in Objects /\ state.player2 \in Objects /\ state.ball \in Objects
  BY <1>1 DEF States
<1>3. delta_time \in Nat \ {0}
  BY TimeAssumption
<1>4. /\ OnCourse(state.ball)
      /\ InPlace(state.player1, Box.x - PaddleHalf.x) /\ InPlace(state.player2, PaddleHalf.x)
      /\ AtSide(state.player1) /\ AtSide(state.player2)
  BY Zenon DEF CourseInv, AtSide
<1>5. after = ball_advance(wall, state.player1, state.player2, state.ball, delta_time)
  BY Zenon DEF Advanced
<1>6. \/ after = Start(state.ball)
      \/ after = Turn(wall, state.player1, state.player2, delta_time, Start(state.ball))
  BY <1>2, <1>3, <1>4, <1>5, AdvanceCourse
<1>7. Start(state.ball).scored_index = -1
  BY <1>2, StartTurned, Zenon
<1>8. after = Turn(wall, state.player1, state.player2, delta_time, Start(state.ball))
  BY <1>6, <1>7, Zenon
<1>9. QED
  BY <1>2, <1>3, <1>4, <1>8, EarnedAtOnce, Zenon

\* Who scores has put the ball past the other's paddle: in a field, with paddles, speeds and
\* ticks of any size and whatever the players do, ball_advance never takes the ball to a
\* side through the front of a paddle that is in its way.
THEOREM PointsEarned == Spec => []PointsAreEarned
<1>1. Init => CourseInv
  BY InitCourse, Zenon DEF Init, CourseInv
<1>2. IInv => TypeOK
  BY Zenon DEF IInv
<1>3. IInv /\ CourseInv /\ [Next]_vars => (IInv /\ CourseInv)'
  BY <1>2, StepInv, StepCourse, Zenon
<1>4. IInv /\ CourseInv => PointsAreEarned
  BY <1>2, EarnedOnCourse, Zenon
<1>5. QED
  BY InitInv, <1>1, <1>3, <1>4, PTL DEF Spec

\* How far the leading side of a ball is from something above or below, at e.
Height(ball, e, dir) == dir * (e - ball.pos.y) - ball.half.y

\* Up and down it is as with an edge at a side (EdgeReached).
LEMMA LevelReached ==
  ASSUME NEW ball \in Objects, NEW e \in Int, NEW k \in Nat \ {0}, ball.velocity.y # 0,
         Abs(ball.velocity.y) = Abs(ball.velocity.x)
  PROVE  LET c == ball_y_collide(ball, e, k)
             dir == Sign(ball.velocity.y)
             gap == Height(ball, e, dir)
             way == Abs(ball.velocity.y) * k
         IN /\ Hit(c) <=> 0 < gap /\ gap <= way
            /\ Hit(c) => /\ c.toi = [n |-> gap, d |-> way]
                         /\ c.normal.x = 0
                         /\ c.pos.y = e - dir * ball.half.y
                         /\ c.pos.x = ball.pos.x + Sign(ball.velocity.x) * gap
<1> DEFINE c == ball_y_collide(ball, e, k)
<1>1. PICK vy \in Int, vx \in Int, py \in Int, px \in Int, hy \in Int :
        /\ vy = ball.velocity.y /\ vx = ball.velocity.x
        /\ py = ball.pos.y /\ px = ball.pos.x /\ hy = ball.half.y
  BY ObjectParts
<1>2. vy # 0 /\ Abs(vy) = Abs(vx)
  BY <1>1
<1>3. PICK dir \in {-1, 1} : dir = Sign(vy) /\ dir = IF ball.velocity.y > 0 THEN 1 ELSE -1
  BY <1>1, <1>2 DEF Sign
<1>4. PICK sx \in {-1, 1} : sx = Sign(vx) /\ vx = sx * Abs(vy)
  BY <1>2 DEF Sign, Abs
<1>5. PICK u \in Nat \ {0} : u = Abs(vy) /\ vy = dir * u
  BY <1>2, <1>3 DEF Abs, Sign
<1>6. PICK way \in Nat \ {0} : way = u * k
  OBVIOUS
<1>7. vy * k = dir * way /\ vx * k = sx * way
  <2>1. (dir * u) * k = dir * (u * k) /\ (sx * u) * k = sx * (u * k)
    OBVIOUS
  <2>2. QED
    BY <1>4, <1>5, <1>6, <2>1, Zenon
<1>8. PICK a \in Int : a = e - dir * ball.half.y - ball.pos.y
  BY <1>1
<1>9. PICK gap \in Int : gap = Height(ball, e, dir) /\ gap = dir * a
  <2>1. a = e - dir * hy - py /\ Height(ball, e, dir) = dir * (e - py) - hy
    BY <1>1, <1>8, Zenon DEF Height
  <2>2. dir * (e - py) - hy = dir * (e - dir * hy - py)
    <3>1. CASE dir = 1
      BY <3>1
    <3>2. CASE dir = -1
      BY <3>2
    <3>3. QED
      BY <3>1, <3>2
  <2>3. QED
    BY <2>1, <2>2
<1>10. Ratio(a, dir * way) = [n |-> gap, d |-> way]
  BY <1>9 DEF Ratio, Sign, Abs
<1>11. PICK w : w = Times(ball.velocity, k) /\ w.y = dir * way /\ w.x = sx * way
  <2>1. Times(ball.velocity, k) = [x |-> sx * way, y |-> dir * way]
    BY <1>1, <1>7, Zenon DEF Times
  <2>2. QED
    BY <2>1
<1>12. PICK toi \in Fractions : toi = [n |-> gap, d |-> way]
  BY DEF Fractions
<1>13. c = Reached(ball, w, toi, [x |-> 0, y |-> -dir])
  BY <1>3, <1>8, <1>10, <1>11, <1>12, Zenon DEF ball_y_collide
<1>14. is_valid_toi(toi) <=> 0 < gap /\ gap <= way
  BY <1>12 DEF is_valid_toi
<1>15. CASE ~is_valid_toi(toi)
  <2>1. c = NoCollision
    BY <1>13, <1>15, Zenon DEF Reached
  <2>2. ~Hit(c)
    BY <2>1 DEF Hit, NoCollision, Never, is_valid_toi
  <2>3. QED
    BY <1>1, <1>3, <1>5, <1>6, <1>9, <1>14, <1>15, <2>2, Zenon
<1>16. CASE is_valid_toi(toi)
  <2>1. c = [toi |-> toi, normal |-> [x |-> 0, y |-> -dir],
             pos |-> linear_interpolate(ball.pos, w, toi)]
    BY <1>13, <1>16, Zenon DEF Reached
  <2>2. Hit(c) /\ c.toi = toi /\ c.normal.x = 0
    BY <1>16, <2>1 DEF Hit
  <2>3. ASSUME NEW s \in {-1, 1} PROVE (gap * (s * way)) \div way = s * gap
    <3>1. gap * (s * way) = way * (s * gap) + 0
      OBVIOUS
    <3>2. gap * (s * way) \in Int /\ s * gap \in Int /\ 0 \in Nat /\ 0 < way /\ way \in Nat
      OBVIOUS
    <3>3. QED
      BY <3>1, <3>2, DivisionUnique, Zenon
  <2>4. /\ (toi.n * w.y) \div toi.d = dir * gap
        /\ (toi.n * w.x) \div toi.d = sx * gap
    <3>1. toi.n = gap /\ toi.d = way
      BY <1>12
    <3>2. QED
      BY <1>11, <2>3, <3>1, Zenon
  <2>5. linear_interpolate(ball.pos, w, toi) = Plus(ball.pos, [x |-> sx * gap, y |-> dir * gap])
    BY <2>4, Zenon DEF linear_interpolate
  <2>6. linear_interpolate(ball.pos, w, toi) = [x |-> px + sx * gap, y |-> py + dir * gap]
    BY <1>1, <2>5 DEF Plus
  <2>7. c.pos.y = py + dir * gap /\ c.pos.x = px + sx * gap
    BY <2>1, <2>6
  <2>8. py + dir * gap = e - dir * hy
    <3>1. gap = dir * (e - py) - hy
      BY <1>1, <1>9 DEF Height
    <3>2. CASE dir = 1
      BY <3>1, <3>2
    <3>3. CASE dir = -1
      BY <3>1, <3>3
    <3>4. QED
      BY <3>2, <3>3
  <2>9. c.pos.y = e - dir * ball.half.y /\ c.pos.x = ball.pos.x + sx * gap
    BY <1>1, <2>7, <2>8, Zenon
  <2>10. QED
    BY <1>1, <1>3, <1>4, <1>5, <1>6, <1>9, <1>12, <1>14, <1>16, <2>2, <2>9, Zenon
<1>17. QED
  BY <1>15, <1>16

\* A ball that does not move up or down, or has no time to, meets nothing above or below.
LEMMA NoLevelReached ==
  ASSUME NEW ball \in Objects, NEW e \in Int, NEW k \in Nat, ball.velocity.y = 0 \/ k = 0
  PROVE  ~Hit(ball_y_collide(ball, e, k))
<1>1. PICK w : w = Times(ball.velocity, k) /\ w.y = 0
  <2>1. Times(ball.velocity, k) = [x |-> ball.velocity.x * k, y |-> ball.velocity.y * k]
    BY Zenon DEF Times
  <2>2. ball.velocity.y * k = 0
    BY ObjectParts
  <2>3. QED
    BY <2>1, <2>2
<1>2. \A a : Ratio(a, w.y) = Never
  BY <1>1 DEF Ratio
<1>3. ~is_valid_toi(Never)
  BY DEF is_valid_toi, Never
<1>4. ball_y_collide(ball, e, k) = NoCollision
  BY <1>1, <1>2, <1>3, Zenon DEF ball_y_collide, Reached
<1>5. QED
  BY <1>3, <1>4 DEF Hit, NoCollision

\* What a ball on a diagonal meets lies on that diagonal, where it is at the time of impact.
OnWay(ball, c, k) ==
  Hit(c) =>
    \E gap \in Nat \ {0} :
      /\ gap <= Abs(ball.velocity.x) * k
      /\ c.toi = [n |-> gap, d |-> Abs(ball.velocity.x) * k]
      /\ c.pos.x = ball.pos.x + Sign(ball.velocity.x) * gap
      /\ c.pos.y = ball.pos.y + Sign(ball.velocity.y) * gap

\* An edge at a side, an edge above or below, and the first of two.
LEMMA WayParts ==
  ASSUME NEW ball \in Objects, Diagonal(ball), NEW k \in Nat \ {0}
  PROVE  /\ \A e \in Int : OnWay(ball, ball_x_collide(ball, e, k), k)
         /\ \A e \in Int : OnWay(ball, ball_y_collide(ball, e, k), k)
         /\ OnWay(ball, NoCollision, k)
         /\ \A c, d \in CollisionsType :
              OnWay(ball, c, k) /\ OnWay(ball, d, k) => OnWay(ball, get_first_collision(<<c, d>>), k)
<1>1. PICK vx \in Int, vy \in Int, px \in Int, py \in Int, hx \in Int, hy \in Int :
        /\ vx = ball.velocity.x /\ vy = ball.velocity.y
        /\ px = ball.pos.x /\ py = ball.pos.y /\ hx = ball.half.x /\ hy = ball.half.y
  BY ObjectParts
<1>2. Abs(vx) = Abs(vy) /\ (vx = 0 <=> vy = 0)
  BY <1>1 DEF Diagonal, Abs
<1>3. PICK way \in Nat : way = Abs(vx) * k
  BY DEF Abs
<1>4. PICK dx \in {-1, 0, 1}, dy \in {-1, 0, 1} : dx = Sign(vx) /\ dy = Sign(vy)
  BY DEF Sign
<1>5. ASSUME NEW e \in Int PROVE OnWay(ball, ball_x_collide(ball, e, k), k)
  <2>1. CASE vx = 0
    BY <1>1, <2>1, NoEdgeReached, Zenon DEF OnWay
  <2>2. CASE vx # 0
    <3>1. PICK c : c = ball_x_collide(ball, e, k)
      OBVIOUS
    <3>2. PICK gap \in Int : gap = Distance(ball, e, dx)
      BY <1>1 DEF Distance
    <3>3. Hit(c) => /\ 0 < gap /\ gap <= way
                    /\ c.toi = [n |-> gap, d |-> way]
                    /\ c.pos.x = e - dx * hx
                    /\ c.pos.y = py + dy * gap
      <4>1. /\ Abs(ball.velocity.x) = Abs(ball.velocity.y) /\ ball.velocity.x # 0
            /\ dx = Sign(ball.velocity.x) /\ dy = Sign(ball.velocity.y)
            /\ way = Abs(ball.velocity.x) * k
        BY <1>1, <1>2, <1>3, <1>4, <2>2, Zenon
      <4>2. QED
        BY <1>1, <3>1, <3>2, <4>1, EdgeReached, Zenon
    <3>4. e - dx * hx = px + dx * gap
      <4>1. gap = dx * (e - px) - hx
        BY <1>1, <3>2, Zenon DEF Distance
      <4>2. dx = 1 \/ dx = -1
        BY <1>4, <2>2 DEF Sign
      <4>3. QED
        BY <4>1, <4>2
    <3>5. Hit(c) => gap \in Nat \ {0}
      BY <3>3
    <3>6. QED
      BY <1>1, <1>3, <1>4, <3>1, <3>3, <3>4, <3>5, Zenon DEF OnWay
  <2>3. QED
    BY <2>1, <2>2
<1>6. ASSUME NEW e \in Int PROVE OnWay(ball, ball_y_collide(ball, e, k), k)
  <2>1. CASE vy = 0
    BY <1>1, <2>1, NoLevelReached, Zenon DEF OnWay
  <2>2. CASE vy # 0
    <3>1. PICK c : c = ball_y_collide(ball, e, k)
      OBVIOUS
    <3>2. PICK gap \in Int : gap = Height(ball, e, dy)
      BY <1>1 DEF Height
    <3>3. Hit(c) => /\ 0 < gap /\ gap <= way
                    /\ c.toi = [n |-> gap, d |-> way]
                    /\ c.pos.y = e - dy * hy
                    /\ c.pos.x = px + dx * gap
      <4>1. /\ Abs(ball.velocity.y) = Abs(ball.velocity.x) /\ ball.velocity.y # 0
            /\ dy = Sign(ball.velocity.y) /\ dx = Sign(ball.velocity.x)
            /\ way = Abs(ball.velocity.y) * k
        BY <1>1, <1>2, <1>3, <1>4, <2>2, Zenon
      <4>2. QED
        BY <1>1, <3>1, <3>2, <4>1, LevelReached, Zenon
    <3>4. e - dy * hy = py + dy * gap
      <4>1. gap = dy * (e - py) - hy
        BY <1>1, <3>2, Zenon DEF Height
      <4>2. dy = 1 \/ dy = -1
        BY <1>4, <2>2 DEF Sign
      <4>3. QED
        BY <4>1, <4>2
    <3>5. Hit(c) => gap \in Nat \ {0}
      BY <3>3
    <3>6. QED
      BY <1>1, <1>3, <1>4, <3>1, <3>3, <3>4, <3>5, Zenon DEF OnWay
  <2>3. QED
    BY <2>1, <2>2
<1>7. OnWay(ball, NoCollision, k)
  BY NoHit, Zenon DEF OnWay
<1>8. ASSUME NEW c \in CollisionsType, NEW d \in CollisionsType, OnWay(ball, c, k), OnWay(ball, d, k)
      PROVE  OnWay(ball, get_first_collision(<<c, d>>), k)
  <2>1. get_first_collision(<<c, d>>) \in {c, d, NoCollision}
    BY FirstOfTwo, Zenon
  <2>2. QED
    BY <1>7, <1>8, <2>1, Zenon
<1>9. QED
  BY <1>5, <1>6, <1>7, <1>8, Zenon

\* All that a ball may meet in the first turn lies on its way.
LEMMA AllOnWay ==
  ASSUME NEW p1 \in Objects, NEW p2 \in Objects,
         NEW ball \in Objects, Diagonal(ball), NEW k \in Nat \ {0}
  PROVE  \A i \in 1..4 : OnWay(ball, Collisions(wall, p1, p2, ball, k, k)[i], k)
<1>a. /\ \A e \in Int : OnWay(ball, ball_x_collide(ball, e, k), k)
      /\ \A e \in Int : OnWay(ball, ball_y_collide(ball, e, k), k)
      /\ OnWay(ball, NoCollision, k)
  BY WayParts, Zenon
<1>b. \A e \in Int : /\ ball_x_collide(ball, e, k) \in CollisionsType
                     /\ ball_y_collide(ball, e, k) \in CollisionsType
  <2>1. k \in Int
    OBVIOUS
  <2>2. QED
    BY <2>1, EdgeType, Zenon
<1>c. \A c, d \in CollisionsType :
        /\ get_first_collision(<<c, d>>) \in CollisionsType
        /\ OnWay(ball, c, k) /\ OnWay(ball, d, k) => OnWay(ball, get_first_collision(<<c, d>>), k)
  <2>1. \A c, d \in CollisionsType :
          OnWay(ball, c, k) /\ OnWay(ball, d, k) => OnWay(ball, get_first_collision(<<c, d>>), k)
    BY WayParts, Zenon
  <2>2. \A c, d \in CollisionsType : get_first_collision(<<c, d>>) \in CollisionsType
    BY PairType, Zenon
  <2>3. QED
    BY <2>1, <2>2, Zenon
<1>1. ASSUME NEW paddle \in Objects
      PROVE  OnWay(ball, AABB_collide(ball, paddle, k), k)
  <2>1. PICK edge : edge = AABB_get_boundaries(paddle)
    OBVIOUS
  <2>2. /\ ToInt(edge.left) \in Int /\ ToInt(edge.right) \in Int
        /\ ToInt(edge.up) \in Int /\ ToInt(edge.down) \in Int
    <3>1. /\ edge.left \in Int /\ edge.right \in Int
          /\ edge.up \in Int /\ edge.down \in Int
      BY <2>1, ObjectParts DEF AABB_get_boundaries
    <3>2. QED
      BY <3>1, ArithmeticType, Zenon
  <2>3. PICK l \in CollisionsType, r \in CollisionsType :
          /\ l = ball_x_collide(ball, ToInt(edge.left), k) /\ OnWay(ball, l, k)
          /\ r = ball_x_collide(ball, ToInt(edge.right), k) /\ OnWay(ball, r, k)
    BY <1>a, <1>b, <2>2, Zenon
  <2>4. PICK u \in CollisionsType, d \in CollisionsType :
          /\ u = ball_y_collide(ball, ToInt(edge.up), k) /\ OnWay(ball, u, k)
          /\ d = ball_y_collide(ball, ToInt(edge.down), k) /\ OnWay(ball, d, k)
    BY <1>a, <1>b, <2>2, Zenon
  <2>5. PICK xc \in CollisionsType : xc = get_first_collision(<<l, r>>) /\ OnWay(ball, xc, k)
    BY <1>c, <2>3, Zenon
  <2>6. PICK yc \in CollisionsType : yc = get_first_collision(<<u, d>>) /\ OnWay(ball, yc, k)
    BY <1>c, <2>4, Zenon
  <2>7. PICK xe \in CollisionsType, ye \in CollisionsType :
          /\ xe = UnlessBeside(xc, ball, edge) /\ OnWay(ball, xe, k)
          /\ ye = UnlessAbove(yc, ball, edge) /\ OnWay(ball, ye, k)
    BY <1>a, <2>5, <2>6, NoCollisionType, Zenon DEF UnlessBeside, UnlessAbove
  <2>8. OnWay(ball, get_first_collision(<<xe, ye>>), k)
    BY <1>c, <2>7, Zenon
  <2>9. QED
    BY <2>1, <2>3, <2>4, <2>5, <2>6, <2>7, <2>8, Zenon DEF AABB_collide
<1>2. OnWay(ball, ball_wall_collide(wall, ball, k), k)
  BY <1>a, <1>b, <1>c, WallType, Zenon DEF ball_wall_collide
<1>3. OnWay(ball, ball_score_collide(wall, ball, k), k)
  BY <1>a, WallType, Zenon DEF ball_score_collide, OrElse
<1>4. \A a, b, c, d : (\A x \in {a, b, c, d} : OnWay(ball, x, k)) =>
        \A i \in 1..4 : OnWay(ball, <<a, b, c, d>>[i], k)
  <2>1. \A i \in 1..4 : i = 1 \/ i = 2 \/ i = 3 \/ i = 4
    OBVIOUS
  <2>2. \A a, b, c, d : /\ <<a, b, c, d>>[1] = a /\ <<a, b, c, d>>[2] = b
                        /\ <<a, b, c, d>>[3] = c /\ <<a, b, c, d>>[4] = d
    OBVIOUS
  <2>3. QED
    BY <2>1, <2>2
<1>5. QED
  BY <1>1, <1>2, <1>3, <1>4, Zenon DEF Collisions

\* A ball that gets to the side ahead of it in time meets it.
LEMMA SideMet ==
  ASSUME NEW ball \in Objects, OnCourse(ball), NEW k \in Nat \ {0},
         NEW dir \in {-1, 1}, dir = Sign(ball.velocity.x),
         NEW e \in Int, e = IF dir = 1 THEN Box.x ELSE 0,
         0 < Distance(ball, e, dir), Distance(ball, e, dir) <= Abs(ball.velocity.x) * k
  PROVE  /\ Hit(ball_score_collide(wall, ball, k))
         /\ ball_score_collide(wall, ball, k).toi
              = [n |-> Distance(ball, e, dir), d |-> Abs(ball.velocity.x) * k]
<1>1. ball.velocity.x # 0 /\ Diagonal(ball)
  BY DEF Sign, OnCourse
<1>2. /\ Hit(ball_x_collide(ball, e, k))
      /\ ball_x_collide(ball, e, k).toi
           = [n |-> Distance(ball, e, dir), d |-> Abs(ball.velocity.x) * k]
  BY <1>1, EdgeReached, Zenon DEF Diagonal
<1>3. wall.left = 0 /\ wall.right = Box.x
  BY DEF wall
<1>4. CASE dir = -1
  <2>1. e = 0
    BY <1>4
  <2>2. QED
    BY <1>2, <1>3, <2>1, Zenon DEF ball_score_collide, OrElse
<1>5. CASE dir = 1
  <2>1. e = Box.x /\ 0 \in Int
    BY <1>5
  <2>2. ~Hit(ball_x_collide(ball, 0, k))
    <3>1. PICK px \in Int, hx \in Nat : px = ball.pos.x /\ hx = ball.half.x /\ px >= hx
      <4>1. ball.velocity.x > 0
        BY <1>5, ObjectParts DEF Sign
      <4>2. QED
        BY <4>1, ObjectParts, SideEdges DEF OnCourse
    <3>2. Distance(ball, 0, 1) = 1 * (0 - px) - hx
      BY <3>1, Zenon DEF Distance
    <3>3. ~(0 < Distance(ball, 0, dir))
      BY <1>5, <3>1, <3>2
    <3>4. QED
      BY <1>1, <2>1, <3>3, EdgeReached, Zenon DEF Diagonal
  <2>3. QED
    BY <1>2, <1>3, <2>1, <2>2, Zenon DEF ball_score_collide, OrElse
<1>6. QED
  BY <1>4, <1>5

\* And the wall ahead, unless it meets the other one before that; a wall turns it back up or
\* down only.
LEMMA WallMet ==
  ASSUME NEW ball \in Objects, Diagonal(ball), NEW k \in Nat \ {0},
         NEW c, c = ball_wall_collide(wall, ball, k)
  PROVE  /\ Hit(c) => c.normal.x = 0
         /\ \A dir \in {-1, 1}, e \in Int :
              /\ dir = Sign(ball.velocity.y) /\ e = (IF dir = 1 THEN Box.y ELSE 0)
              /\ 0 < Height(ball, e, dir) /\ Height(ball, e, dir) <= Abs(ball.velocity.y) * k
              => /\ Hit(c)
                 /\ AtMost(c.toi, [n |-> Height(ball, e, dir), d |-> Abs(ball.velocity.y) * k])
<1>1. wall.up = Box.y /\ wall.down = 0 /\ wall.up \in Int /\ wall.down \in Int /\ k \in Int
  BY WallType DEF wall
<1>2. PICK u \in CollisionsType, d \in CollisionsType :
        /\ u = ball_y_collide(ball, wall.up, k) /\ d = ball_y_collide(ball, wall.down, k)
  BY <1>1, EdgeType, Zenon
<1>3. c = get_first_collision(<<u, d>>)
  BY <1>2, Zenon DEF ball_wall_collide
<1>4. /\ c \in {u, d, NoCollision}
      /\ Hit(u) => Hit(c) /\ AtMost(c.toi, u.toi)
      /\ Hit(d) => Hit(c) /\ AtMost(c.toi, d.toi)
  <2>1. LET first == get_first_collision(<<u, d>>) IN
        /\ first \in {u, d, NoCollision}
        /\ Hit(u) => Hit(first) /\ AtMost(first.toi, u.toi)
        /\ Hit(d) => Hit(first) /\ AtMost(first.toi, d.toi)
    BY FirstOfTwo, Zenon
  <2>2. QED
    BY <1>3, <2>1, Zenon
<1>5. (Hit(u) => u.normal.x = 0) /\ (Hit(d) => d.normal.x = 0)
  BY <1>1, <1>2, FlatReached, Zenon
<1>6. ASSUME NEW dir \in {-1, 1}, NEW e \in Int, dir = Sign(ball.velocity.y),
             e = IF dir = 1 THEN Box.y ELSE 0,
             0 < Height(ball, e, dir), Height(ball, e, dir) <= Abs(ball.velocity.y) * k
      PROVE  /\ Hit(c)
             /\ AtMost(c.toi, [n |-> Height(ball, e, dir), d |-> Abs(ball.velocity.y) * k])
  <2>1. ball.velocity.y # 0 /\ Abs(ball.velocity.y) = Abs(ball.velocity.x)
    BY <1>6 DEF Sign, Diagonal
  <2>2. /\ Hit(ball_y_collide(ball, e, k))
        /\ ball_y_collide(ball, e, k).toi
             = [n |-> Height(ball, e, dir), d |-> Abs(ball.velocity.y) * k]
    BY <1>6, <2>1, LevelReached, Zenon
  <2>3. e = wall.up \/ e = wall.down
    BY <1>1, <1>6
  <2>4. QED
    BY <1>2, <1>4, <2>2, <2>3, Zenon
<1>7. QED
  BY <1>4, <1>5, <1>6, NoHit, Zenon

\* A ball in play that goes less far than to the side ahead, and not beyond the wall ahead, is
\* in play still, if it turns back from a wall that it touches.
LEMMA StillInPlay ==
  ASSUME NEW ball \in Objects, NEW b \in Objects, NEW m \in Nat,
         InPlay(ball), b.half = ball.half,
         b.pos.x = ball.pos.x + Sign(ball.velocity.x) * m,
         b.pos.y = ball.pos.y + Sign(ball.velocity.y) * m,
         \A dir \in {-1, 1}, e \in Int :
           dir = Sign(ball.velocity.x) /\ e = (IF dir = 1 THEN Box.x ELSE 0)
           => m < Distance(ball, e, dir),
         \A dir \in {-1, 1}, e \in Int :
           dir = Sign(ball.velocity.y) /\ e = (IF dir = 1 THEN Box.y ELSE 0)
           => \/ m < Height(ball, e, dir)
              \/ m = Height(ball, e, dir) /\ Sign(b.velocity.y) = -dir,
         Sign(b.velocity.x) \in {Sign(ball.velocity.x), -Sign(ball.velocity.x)},
         Sign(b.velocity.y) \in {Sign(ball.velocity.y), -Sign(ball.velocity.y)},
         m > 0 \/ b.velocity = ball.velocity
  PROVE  InPlay(b)
<1>1. PICK vx \in Int, vy \in Int, px \in Int, py \in Int, hx \in Int, hy \in Int :
        /\ vx = ball.velocity.x /\ vy = ball.velocity.y
        /\ px = ball.pos.x /\ py = ball.pos.y /\ hx = ball.half.x /\ hy = ball.half.y
  BY ObjectParts
<1>2. PICK wx \in Int, wy \in Int, qx \in Int, qy \in Int :
        wx = b.velocity.x /\ wy = b.velocity.y /\ qx = b.pos.x /\ qy = b.pos.y
  BY ObjectParts
<1>3. PICK X \in Int, Y \in Int : X = Box.x /\ Y = Box.y
  BY WallType DEF wall
<1>4. /\ hy <= py /\ py <= Y - hy /\ hx <= px /\ px <= X - hx
      /\ vx < 0 => hx < px
      /\ vx > 0 => px < X - hx
      /\ vy < 0 => hy < py
      /\ vy > 0 => py < Y - hy
  BY <1>1, <1>3 DEF InPlay, BeyondSide
<1>5. qx = px + Sign(vx) * m /\ qy = py + Sign(vy) * m
  BY <1>1, <1>2, Zenon
<1>6. /\ Sign(wx) \in {Sign(vx), -Sign(vx)} /\ Sign(wy) \in {Sign(vy), -Sign(vy)}
      /\ m > 0 \/ (wx = vx /\ wy = vy)
  BY <1>1, <1>2
<1>7. hx <= qx /\ qx <= X - hx /\ (wx < 0 => hx < qx) /\ (wx > 0 => qx < X - hx)
  <2>1. CASE vx = 0
    BY <1>4, <1>5, <1>6, <2>1 DEF Sign
  <2>2. CASE vx > 0
    <3>1. m < X - px - hx
      <4>1. Sign(ball.velocity.x) = 1
        BY <1>1, <2>2 DEF Sign
      <4>2. m < Distance(ball, X, 1)
        BY <1>3, <4>1, Zenon
      <4>3. QED
        BY <1>1, <4>2 DEF Distance
    <3>2. qx = px + m
      BY <1>5, <2>2 DEF Sign
    <3>3. wx < 0 => m > 0
      BY <1>6, <2>2
    <3>4. QED
      BY <1>4, <2>2, <3>1, <3>2, <3>3
  <2>3. CASE vx < 0
    <3>1. m < px - hx
      <4>1. Sign(ball.velocity.x) = -1 /\ 0 \in Int /\ -1 # 1
        BY <1>1, <2>3 DEF Sign
      <4>2. m < Distance(ball, 0, -1)
        BY <1>3, <4>1, Zenon
      <4>3. QED
        BY <1>1, <4>2 DEF Distance
    <3>2. qx = px - m
      BY <1>5, <2>3 DEF Sign
    <3>3. wx > 0 => m > 0
      BY <1>6, <2>3
    <3>4. QED
      BY <1>4, <2>3, <3>1, <3>2, <3>3
  <2>4. QED
    BY <2>1, <2>2, <2>3
<1>8. hy <= qy /\ qy <= Y - hy /\ (wy < 0 => hy < qy) /\ (wy > 0 => qy < Y - hy)
  <2>1. CASE vy = 0
    BY <1>4, <1>5, <1>6, <2>1 DEF Sign
  <2>2. CASE vy > 0
    <3>1. m < Y - py - hy \/ (m = Y - py - hy /\ Sign(wy) = -1)
      <4>1. Sign(ball.velocity.y) = 1
        BY <1>1, <2>2 DEF Sign
      <4>2. m < Height(ball, Y, 1) \/ (m = Height(ball, Y, 1) /\ Sign(b.velocity.y) = -1)
        BY <1>3, <4>1, Zenon
      <4>3. QED
        BY <1>1, <1>2, <4>2 DEF Height
    <3>2. qy = py + m
      BY <1>5, <2>2 DEF Sign
    <3>3. (wy < 0 => m > 0) /\ (Sign(wy) = -1 => wy < 0)
      BY <1>6, <2>2 DEF Sign
    <3>4. QED
      BY <1>4, <2>2, <3>1, <3>2, <3>3
  <2>3. CASE vy < 0
    <3>1. m < py - hy \/ (m = py - hy /\ Sign(wy) = 1)
      <4>1. Sign(ball.velocity.y) = -1 /\ 0 \in Int /\ -1 # 1
        BY <1>1, <2>3 DEF Sign
      <4>2. PICK dir \in {-1, 1} : dir = Sign(ball.velocity.y) /\ dir = -1
        BY <4>1
      <4>3. m < Height(ball, 0, dir) \/ (m = Height(ball, 0, dir) /\ Sign(b.velocity.y) = -dir)
        BY <1>3, <4>1, <4>2, Zenon
      <4>4. QED
        BY <1>1, <1>2, <4>2, <4>3 DEF Height
    <3>2. qy = py - m
      BY <1>5, <2>3 DEF Sign
    <3>3. (wy > 0 => m > 0) /\ (Sign(wy) = 1 => wy > 0)
      BY <1>6, <2>3 DEF Sign
    <3>4. QED
      BY <1>4, <2>3, <3>1, <3>2, <3>3
  <2>4. QED
    BY <2>1, <2>2, <2>3
<1>9. b.half.x = hx /\ b.half.y = hy
  BY <1>1, Zenon
<1>10. QED
  <2>1. ~(b.pos.x < b.half.x) /\ ~(b.pos.x > Box.x - b.half.x)
    BY <1>2, <1>3, <1>7, <1>9
  <2>2. (b.velocity.x < 0 => b.half.x < b.pos.x) /\ (b.velocity.x > 0 => b.pos.x < Box.x - b.half.x)
    BY <1>2, <1>3, <1>7, <1>9, Zenon
  <2>3. /\ b.half.y <= b.pos.y /\ b.pos.y <= Box.y - b.half.y
        /\ b.velocity.y < 0 => b.half.y < b.pos.y
        /\ b.velocity.y > 0 => b.pos.y < Box.y - b.half.y
    BY <1>2, <1>3, <1>8, <1>9, Zenon
  <2>4. ~BeyondSide(b)
    BY <2>1, Zenon DEF BeyondSide
  <2>5. QED
    BY <2>2, <2>3, <2>4, Zenon DEF InPlay

\* A ball in play has some way to go to the side and to the wall ahead of it.
LEMMA WayAhead ==
  ASSUME NEW ball \in Objects, InPlay(ball)
  PROVE  /\ \A dir \in {-1, 1}, e \in Int :
              dir = Sign(ball.velocity.x) /\ e = (IF dir = 1 THEN Box.x ELSE 0)
              => 0 < Distance(ball, e, dir) /\ Distance(ball, e, dir) \in Int
         /\ \A dir \in {-1, 1}, e \in Int :
              dir = Sign(ball.velocity.y) /\ e = (IF dir = 1 THEN Box.y ELSE 0)
              => 0 < Height(ball, e, dir) /\ Height(ball, e, dir) \in Int
<1>1. PICK vx \in Int, vy \in Int, px \in Int, py \in Int, hx \in Int, hy \in Int :
        /\ vx = ball.velocity.x /\ vy = ball.velocity.y
        /\ px = ball.pos.x /\ py = ball.pos.y /\ hx = ball.half.x /\ hy = ball.half.y
  BY ObjectParts
<1>2. PICK X \in Int, Y \in Int : X = Box.x /\ Y = Box.y
  BY WallType DEF wall
<1>3. /\ vx < 0 => hx < px
      /\ vx > 0 => px < X - hx
      /\ vy < 0 => hy < py
      /\ vy > 0 => py < Y - hy
  BY <1>1, <1>2 DEF InPlay
<1>4. ASSUME NEW dir \in {-1, 1}, NEW e \in Int, dir = Sign(vx), e = IF dir = 1 THEN X ELSE 0
      PROVE  0 < dir * (e - px) - hx
  <2>1. CASE dir = 1
    BY <1>3, <1>4, <2>1 DEF Sign
  <2>2. CASE dir = -1
    BY <1>3, <1>4, <2>2 DEF Sign
  <2>3. QED
    BY <2>1, <2>2
<1>5. ASSUME NEW dir \in {-1, 1}, NEW e \in Int, dir = Sign(vy), e = IF dir = 1 THEN Y ELSE 0
      PROVE  0 < dir * (e - py) - hy
  <2>1. CASE dir = 1
    BY <1>3, <1>5, <2>1 DEF Sign
  <2>2. CASE dir = -1
    BY <1>3, <1>5, <2>2 DEF Sign
  <2>3. QED
    BY <2>1, <2>2
<1>6. QED
  BY <1>1, <1>2, <1>4, <1>5 DEF Distance, Height

\* In the time that is left a ball in play stays in play if it meets nothing ahead.
LEMMA MoveInPlay ==
  ASSUME NEW ball \in Objects, OnCourse(ball), InPlay(ball),
         NEW k \in Nat \ {0}, NEW left \in Nat, left <= k,
         ~Hit(ball_wall_collide(wall, ball, k)), ~Hit(ball_score_collide(wall, ball, left))
  PROVE  InPlay(linear_move(ball, left))
<1>1. PICK b \in Objects : b = linear_move(ball, left)
  BY MoveType
<1>2. PICK vx \in Int, vy \in Int, px \in Int, py \in Int :
        /\ vx = ball.velocity.x /\ vy = ball.velocity.y
        /\ px = ball.pos.x /\ py = ball.pos.y
  BY ObjectParts
<1>3. b.velocity = ball.velocity /\ b.half = ball.half /\ b.pos = Plus(ball.pos, Times(ball.velocity, left))
  BY <1>1 DEF linear_move, Objects
<1>4. Abs(vx) = Abs(vy)
  BY <1>2, Zenon DEF OnCourse, Diagonal
<1>5. PICK u \in Nat : u = Abs(vx) /\ vx = Sign(vx) * u /\ vy = Sign(vy) * u
  <2>1. /\ Abs(vx) \in Nat
        /\ vx = Sign(vx) * Abs(vx) /\ vy = Sign(vy) * Abs(vy)
    BY DEF Abs, Sign
  <2>2. QED
    BY <1>4, <2>1, Zenon
<1>6. PICK m \in Nat : m = u * left
  OBVIOUS
<1>7. b.pos.x = px + Sign(vx) * m /\ b.pos.y = py + Sign(vy) * m
  <2>1. Times(ball.velocity, left) = [x |-> vx * left, y |-> vy * left]
    BY <1>2, Zenon DEF Times
  <2>2. b.pos.x = px + vx * left /\ b.pos.y = py + vy * left
    BY <1>2, <1>3, <2>1 DEF Plus
  <2>3. PICK sx \in {-1, 0, 1}, sy \in {-1, 0, 1} : sx = Sign(vx) /\ sy = Sign(vy)
    BY DEF Sign
  <2>4. (sx * u) * left = sx * (u * left) /\ (sy * u) * left = sy * (u * left)
    OBVIOUS
  <2>5. QED
    BY <1>5, <1>6, <2>2, <2>3, <2>4, Zenon
<1>8. ASSUME NEW dir \in {-1, 1}, NEW e \in Int, dir = Sign(ball.velocity.x),
             e = IF dir = 1 THEN Box.x ELSE 0
      PROVE  m < Distance(ball, e, dir)
  <2>1. PICK gap \in Int : gap = Distance(ball, e, dir) /\ 0 < gap
    BY <1>8, WayAhead
  <2>2. CASE left = 0
    BY <1>6, <2>1, <2>2
  <2>3. CASE left # 0
    <3>1. left \in Nat \ {0}
      BY <2>3
    <3>2. ~(gap <= m)
      BY <1>2, <1>5, <1>6, <1>8, <2>1, <3>1, SideMet, Zenon
    <3>3. QED
      BY <2>1, <3>2
  <2>4. QED
    BY <2>2, <2>3
<1>9. ASSUME NEW dir \in {-1, 1}, NEW e \in Int, dir = Sign(ball.velocity.y),
             e = IF dir = 1 THEN Box.y ELSE 0
      PROVE  m < Height(ball, e, dir)
  <2>1. PICK gap \in Int : gap = Height(ball, e, dir) /\ 0 < gap
    BY <1>9, WayAhead
  <2>2. PICK way \in Nat : way = Abs(ball.velocity.y) * k /\ m <= way
    <3>1. u * left <= u * k
      <4>1. PICK d \in Nat : k = left + d
        <5>1. k - left \in Nat /\ k = left + (k - left)
          OBVIOUS
        <5>2. QED
          BY <5>1, Zenon
      <4>2. u * k = u * left + u * d /\ u * d \in Nat /\ u * left \in Nat
        BY <4>1
      <4>3. QED
        BY <4>2
    <3>2. u * k \in Nat /\ u = Abs(ball.velocity.y)
      BY <1>2, <1>4, <1>5
    <3>3. QED
      BY <1>6, <3>1, <3>2, Zenon
  <2>3. ~(gap <= way)
    BY <1>9, <2>1, <2>2, WallMet, Zenon DEF OnCourse
  <2>4. QED
    BY <2>1, <2>2, <2>3
<1>10. /\ Sign(b.velocity.x) \in {Sign(ball.velocity.x), -Sign(ball.velocity.x)}
       /\ Sign(b.velocity.y) \in {Sign(ball.velocity.y), -Sign(ball.velocity.y)}
       /\ b.pos.x = ball.pos.x + Sign(ball.velocity.x) * m
       /\ b.pos.y = ball.pos.y + Sign(ball.velocity.y) * m
  BY <1>2, <1>3, <1>7, Zenon
<1>11. InPlay(b)
  BY <1>3, <1>8, <1>9, <1>10, StillInPlay
<1>12. QED
  BY <1>1, <1>11, Zenon

\* Times on the same way compare as what has been gone of it.
LEMMA OnSameWay ==
  ASSUME NEW way \in Nat \ {0}
  PROVE  \A g, h \in Int :
           /\ AtMost([n |-> g, d |-> way], [n |-> h, d |-> way]) => g <= h
           /\ Less([n |-> g, d |-> way], [n |-> h, d |-> way]) => g < h
           /\ Same([n |-> g, d |-> way], [n |-> h, d |-> way]) => g = h
<1> SUFFICES ASSUME NEW g \in Int, NEW h \in Int
             PROVE  /\ AtMost([n |-> g, d |-> way], [n |-> h, d |-> way]) => g <= h
                    /\ Less([n |-> g, d |-> way], [n |-> h, d |-> way]) => g < h
                    /\ Same([n |-> g, d |-> way], [n |-> h, d |-> way]) => g = h
  OBVIOUS
<1>a. PICK r, q : r = [n |-> g, d |-> way] /\ q = [n |-> h, d |-> way]
  OBVIOUS
<1>1. r.n = g /\ r.d = way /\ q.n = h /\ q.d = way
  BY <1>a
<1>2. /\ g * way <= h * way => g <= h
      /\ g * way < h * way => g < h
      /\ h * way <= g * way => h <= g
  BY Cancel
<1>3. PICK a \in Int, b \in Int : a = g * way /\ b = h * way
  OBVIOUS
<1>4. (a <= b => g <= h) /\ (b <= a => h <= g)
  BY <1>2, <1>3, Zenon
<1>5. a = b => g = h
  BY <1>4
<1>6. QED
  BY <1>a, <1>1, <1>2, <1>3, <1>5, Zenon DEF AtMost, Less, Same

\* A ball in play that bounces in the first turn, and not in a corner, is in play then.
LEMMA BounceInPlay ==
  ASSUME NEW p1 \in Objects, NEW p2 \in Objects, NEW ball \in Objects, OnCourse(ball), InPlay(ball),
         NEW k \in Nat \ {0}, NEW cs \in Seq(CollisionsType), cs = Collisions(wall, p1, p2, ball, k, k),
         NEW c \in CollisionsType, c = get_first_collision(cs), Hit(c),
         ~(Hit(cs[4]) /\ Same(c.toi, cs[4].toi)),
         \A i \in {1, 2} : ~(Hit(cs[i]) /\ Hit(cs[3]) /\ Same(cs[i].toi, cs[3].toi))
  PROVE  /\ InPlay(ball_bounce_on_collision([ball EXCEPT !.pos = c.pos], c.normal))
         /\ c.toi.n >= 0
<1>1. /\ DOMAIN cs = 1..4
      /\ cs[3] = ball_wall_collide(wall, ball, k) /\ cs[4] = ball_score_collide(wall, ball, k)
  BY DEF Collisions
<1>2. PICK j \in 1..4 : /\ c = cs[j]
                        /\ \A i \in 1..4 : Hit(cs[i]) => Before(cs, j, i)
  BY <1>1, FirstIs, NoHit, Zenon
<1>3. Diagonal(ball)
  BY Zenon DEF OnCourse
<1>4. \A i \in 1..4 : OnWay(ball, cs[i], k)
  BY <1>3, AllOnWay, Zenon
<1>5. PICK gap \in Nat \ {0} :
        /\ gap <= Abs(ball.velocity.x) * k
        /\ c.toi = [n |-> gap, d |-> Abs(ball.velocity.x) * k]
        /\ c.pos.x = ball.pos.x + Sign(ball.velocity.x) * gap
        /\ c.pos.y = ball.pos.y + Sign(ball.velocity.y) * gap
  BY <1>2, <1>4, Zenon DEF OnWay
<1>6. PICK way \in Nat \ {0} : way = Abs(ball.velocity.x) * k /\ way = Abs(ball.velocity.y) * k
                               /\ gap <= way
  <2>1. Abs(ball.velocity.x) * k \in Nat
    <3>1. PICK u \in Nat : u = Abs(ball.velocity.x)
      BY ObjectParts, ArithmeticType
    <3>2. u * k \in Nat
      OBVIOUS
    <3>3. QED
      BY <3>1, <3>2, Zenon
  <2>2. Abs(ball.velocity.x) * k \in Nat \ {0}
    BY <1>5, <2>1
  <2>3. QED
    BY <1>3, <1>5, <2>2, Zenon DEF Diagonal
<1>7. j # 4
  BY <1>2 DEF Same
<1>8. ASSUME NEW dir \in {-1, 1}, NEW e \in Int, dir = Sign(ball.velocity.x),
             e = IF dir = 1 THEN Box.x ELSE 0
      PROVE  gap < Distance(ball, e, dir)
  <2>1. PICK late \in Int : late = Distance(ball, e, dir) /\ 0 < late
    BY <1>8, WayAhead
  <2>2. ASSUME late <= way PROVE gap < late
    <3>1. Hit(cs[4]) /\ cs[4].toi = [n |-> late, d |-> way]
      <4>1. 0 < Distance(ball, e, dir) /\ Distance(ball, e, dir) <= Abs(ball.velocity.x) * k
        BY <1>6, <2>1, <2>2, Zenon
      <4>2. /\ Hit(ball_score_collide(wall, ball, k))
            /\ ball_score_collide(wall, ball, k).toi
                 = [n |-> Distance(ball, e, dir), d |-> Abs(ball.velocity.x) * k]
        BY <1>8, <4>1, SideMet
      <4>3. QED
        BY <1>1, <1>6, <2>1, <4>2, Zenon
    <3>2. Before(cs, j, 4)
      BY <1>2, <3>1
    <3>3. Less(c.toi, cs[4].toi)
      BY <1>2, <3>1, <3>2, Zenon DEF Before
    <3>4. c.toi = [n |-> gap, d |-> way] /\ gap \in Int
      <4>1. gap \in Int
        OBVIOUS
      <4>2. QED
        BY <1>5, <1>6, <4>1, Zenon
    <3>5. QED
      BY <3>1, <3>3, <3>4, OnSameWay, Zenon
  <2>3. QED
    BY <1>6, <2>1, <2>2
<1>9. ASSUME NEW dir \in {-1, 1}, NEW e \in Int, dir = Sign(ball.velocity.y),
             e = IF dir = 1 THEN Box.y ELSE 0
      PROVE  \/ gap < Height(ball, e, dir)
             \/ gap = Height(ball, e, dir) /\ c.normal.x = 0
  <2>1. PICK late \in Int : late = Height(ball, e, dir) /\ 0 < late
    BY <1>9, WayAhead
  <2>2. ASSUME late <= gap PROVE gap = late /\ c.normal.x = 0
    <3>1. late <= way
      BY <1>6, <2>2
    <3>2. /\ Hit(cs[3]) => cs[3].normal.x = 0
          /\ Hit(cs[3]) /\ AtMost(cs[3].toi, [n |-> late, d |-> way])
      BY <1>1, <1>3, <1>6, <1>9, <2>1, <3>1, WallMet, Zenon
    <3>3. PICK at \in Nat \ {0} : cs[3].toi = [n |-> at, d |-> way]
      <4>1. OnWay(ball, cs[3], k)
        BY <1>4
      <4>2. QED
        BY <1>6, <3>2, <4>1, Zenon DEF OnWay
    <3>4. at <= late
      <4>1. at \in Int
        OBVIOUS
      <4>2. QED
        BY <3>2, <3>3, <4>1, OnSameWay, Zenon
    <3>5. Before(cs, j, 3)
      BY <1>2, <3>2
    <3>6. Less(c.toi, cs[3].toi) \/ (Same(c.toi, cs[3].toi) /\ j <= 3)
      BY <1>2, <3>5, Zenon DEF Before
    <3>7. ~(gap < at)
      BY <2>2, <3>4
    <3>8. Same(c.toi, cs[3].toi) /\ gap = at /\ j <= 3
      <4>1. gap \in Int /\ at \in Int
        OBVIOUS
      <4>2. c.toi = [n |-> gap, d |-> way]
        BY <1>5, <1>6, Zenon
      <4>3. QED
        BY <3>3, <3>6, <3>7, <4>1, <4>2, OnSameWay, Zenon
    <3>9. j = 3
      <4>1. j \in {1, 2} \/ j = 3
        BY <1>7
      <4>2. QED
        BY <1>2, <3>2, <3>8, <4>1, Zenon
    <3>10. QED
      BY <1>2, <2>2, <3>2, <3>4, <3>8, <3>9
  <2>3. QED
    BY <2>1, <2>2
<1>10. PICK b : b = ball_bounce_on_collision([ball EXCEPT !.pos = c.pos], c.normal)
  OBVIOUS
<1>11. b \in Objects
  <2>1. [ball EXCEPT !.pos = c.pos] \in Objects /\ c.normal \in Vectors
    BY DEF Objects, CollisionsType
  <2>2. QED
    BY <1>10, <2>1, BounceType, Zenon
<1>12. /\ b.pos = c.pos /\ b.half = ball.half
       /\ c.normal.x = 0 => /\ b.velocity.x < 0 <=> ball.velocity.x < 0
                            /\ b.velocity.x > 0 <=> ball.velocity.x > 0
                            /\ b.velocity.y < 0 <=> ball.velocity.y > 0
                            /\ b.velocity.y > 0 <=> ball.velocity.y < 0
       /\ c.normal.x # 0 => /\ b.velocity.x < 0 <=> ball.velocity.x > 0
                            /\ b.velocity.x > 0 <=> ball.velocity.x < 0
                            /\ b.velocity.y < 0 <=> ball.velocity.y < 0
                            /\ b.velocity.y > 0 <=> ball.velocity.y > 0
  BY <1>3, <1>10, BounceTurns
<1>13. /\ Sign(b.velocity.x) \in {Sign(ball.velocity.x), -Sign(ball.velocity.x)}
       /\ Sign(b.velocity.y) \in {Sign(ball.velocity.y), -Sign(ball.velocity.y)}
       /\ c.normal.x = 0 => Sign(b.velocity.y) = -Sign(ball.velocity.y)
  <2>1. PICK vx \in Int, vy \in Int, wx \in Int, wy \in Int :
          /\ vx = ball.velocity.x /\ vy = ball.velocity.y
          /\ wx = b.velocity.x /\ wy = b.velocity.y
    BY <1>11, ObjectParts
  <2>2. /\ c.normal.x = 0 => Sign(wx) = Sign(vx) /\ Sign(wy) = -Sign(vy)
        /\ c.normal.x # 0 => Sign(wx) = -Sign(vx) /\ Sign(wy) = Sign(vy)
    BY <1>12, <2>1 DEF Sign
  <2>3. QED
    BY <2>1, <2>2
<1>14. /\ b.pos.x = ball.pos.x + Sign(ball.velocity.x) * gap
       /\ b.pos.y = ball.pos.y + Sign(ball.velocity.y) * gap
  BY <1>5, <1>12, Zenon
<1>15. ASSUME NEW dir \in {-1, 1}, NEW e \in Int, dir = Sign(ball.velocity.y),
              e = IF dir = 1 THEN Box.y ELSE 0
       PROVE  \/ gap < Height(ball, e, dir)
              \/ gap = Height(ball, e, dir) /\ Sign(b.velocity.y) = -dir
  BY <1>9, <1>13, <1>15, Zenon
<1>16. gap > 0
  OBVIOUS
<1>17. InPlay(b)
  BY <1>8, <1>11, <1>12, <1>13, <1>14, <1>15, <1>16, StillInPlay
<1>18. c.toi.n >= 0
  BY <1>5
<1>19. QED
  BY <1>10, <1>17, <1>18, Zenon

\* In the turns of a tick, up to its second bounce: the ball is in play, unless a point is made.
Playing(s) ==
  s.scored_index = -1 /\ Len(s.hits) < 2 => InPlay(s.ball) /\ s.passed.n >= 0

\* What a ball in the first turn meets, a paddle and a wall, it does not meet at once.
NoCorner(cs) == \A i \in {1, 2} : ~(Hit(cs[i]) /\ Hit(cs[3]) /\ Same(cs[i].toi, cs[3].toi))

\* A time that is not negative stays so, and leaves no more than the whole step.
LEMMA TimeLeft ==
  ASSUME NEW r \in Fractions, r.n >= 0
  PROVE  /\ \A k \in Nat \ {0} : IntLeft(k, r) <= k
         /\ \A s \in Fractions : s.n >= 0 => Sum2(r, s).n >= 0
<1>1. PICK a \in Nat, b \in Nat : a = r.n /\ b = r.d /\ b > 0
  BY DEF Fractions
<1>2. ASSUME NEW k \in Nat \ {0} PROVE IntLeft(k, r) <= k
  <2>1. PICK v \in Int : v = k * b - a
    OBVIOUS
  <2>2. PICK q \in Int, m \in Nat : q = v \div b /\ v = b * q + m
    <3>1. /\ v \div b \in Int /\ v % b \in Nat
          /\ v = b * (v \div b) + (v % b)
      BY <1>1, Division
    <3>2. QED
      BY <3>1, Zenon
  <2>3. b * q <= b * k
    <3>1. PICK x \in Int, y \in Int : x = b * k /\ y = b * q /\ v = x - a
      BY <2>1
    <3>2. QED
      BY <2>2, <3>1
  <2>4. q <= k
    <3>1. q * b <= k * b
      BY <2>3
    <3>2. QED
      BY <1>1, <3>1, Cancel
  <2>5. QED
    BY <1>1, <2>1, <2>2, <2>4, Zenon DEF IntLeft
<1>3. ASSUME NEW s \in Fractions, s.n >= 0 PROVE Sum2(r, s).n >= 0
  <2>1. PICK c \in Nat, d \in Nat : c = s.n /\ d = s.d /\ d > 0
    BY <1>3 DEF Fractions
  <2>2. PICK q \in Nat : q = b \div d
    BY <1>1, <2>1, DivisionNat
  <2>3. a + c * q >= 0 /\ a * d + c * b >= 0
    <3>1. c * q \in Nat /\ a * d \in Nat /\ c * b \in Nat
      OBVIOUS
    <3>2. QED
      BY <3>1
  <2>4. \/ Sum2(r, s) = [n |-> a + c * q, d |-> b]
        \/ Sum2(r, s) = [n |-> a * d + c * b, d |-> b * d]
    BY <1>1, <2>1, <2>2, Zenon DEF Sum2
  <2>5. QED
    BY <2>3, <2>4
<1>4. QED
  BY <1>2, <1>3

\* A turn keeps the ball in play.
LEMMA TurnInPlay ==
  ASSUME NEW p1 \in Objects, NEW p2 \in Objects, NEW ball \in Objects, NEW k \in Nat \ {0},
         NoCorner(Collisions(wall, p1, p2, ball, k, k)),
         NEW s \in Turned, ~s.done, Underway(s, k), Playing(s), s.hits = <<>> => s = Start(ball)
  PROVE  Playing(Turn(wall, p1, p2, k, s))
<1>1. PICK t \in Turned : t = Turn(wall, p1, p2, k, s)
  BY TurnType
<1>2. s.scored_index = -1 /\ OnCourse(s.ball) /\ s.passed.n < k * s.passed.d
  BY Zenon DEF Underway
<1>3. PICK left \in Nat, cs \in Seq(CollisionsType), c \in CollisionsType :
        /\ left = IntLeft(k, s.passed) /\ cs = Collisions(wall, p1, p2, s.ball, k, left)
        /\ c = get_first_collision(cs)
        /\ AsTurned(s, t, k, left, cs, c)
  <2>1. TurnedBy(p1, p2, k, s, t)
    BY <1>1, <1>2, TurnIs, Zenon
  <2>2. QED
    BY <2>1, Zenon DEF TurnedBy
<1>4. s.ball \in Objects /\ s.passed \in Fractions /\ s.hits \in Seq(CollisionsType)
  BY DEF Turned
<1> SUFFICES ASSUME t.scored_index = -1, Len(t.hits) < 2
             PROVE  InPlay(t.ball) /\ t.passed.n >= 0
  BY <1>1, Zenon DEF Playing
<1>5. CASE ~Hit(c) /\ t.ball = linear_move(s.ball, left) /\ t.hits = s.hits /\ t.passed = s.passed
  <2>1. InPlay(s.ball) /\ s.passed.n >= 0
    BY <1>2, <1>5, Zenon DEF Playing
  <2>2. left <= k
    BY <1>3, <1>4, <2>1, TimeLeft, Zenon
  <2>3. /\ DOMAIN cs = 1..4
        /\ cs[3] = ball_wall_collide(wall, s.ball, k)
        /\ cs[4] = ball_score_collide(wall, s.ball, left)
    BY <1>3 DEF Collisions
  <2>4. ~Hit(cs[3]) /\ ~Hit(cs[4])
    <3>1. \A j \in DOMAIN cs : ~Hit(cs[j])
      BY <1>3, <1>5, FirstIs, Zenon
    <3>2. 3 \in DOMAIN cs /\ 4 \in DOMAIN cs
      BY <2>3
    <3>3. QED
      BY <3>1, <3>2, Zenon
  <2>5. InPlay(linear_move(s.ball, left))
    BY <1>2, <1>4, <2>1, <2>2, <2>3, <2>4, MoveInPlay
  <2>6. QED
    BY <1>5, <2>1, <2>5, Zenon
<1>6. CASE t.scored_index = ScoredIndex(cs[4])
  BY <1>6 DEF ScoredIndex
<1>7. CASE /\ Hit(c) /\ ~(Hit(cs[4]) /\ Same(c.toi, cs[4].toi))
           /\ t.ball = ball_bounce_on_collision([s.ball EXCEPT !.pos = c.pos], c.normal)
           /\ t.hits = Append(s.hits, c) /\ t.passed = Sum2(s.passed, c.toi)
  <2>1. s.hits = <<>>
    BY <1>4, <1>7
  <2>2. s.ball = ball /\ s.passed = [n |-> 0, d |-> 1]
    BY <2>1, StartTurned, Zenon
  <2>3. InPlay(ball) /\ OnCourse(ball)
    <3>1. Len(s.hits) < 2
      BY <2>1
    <3>2. QED
      BY <1>2, <2>2, <3>1, Zenon DEF Playing
  <2>4. left = k
    <3>1. s.passed.n = 0 /\ s.passed.d = 1
      BY <2>2
    <3>2. (k * 1 - 0) \div 1 = k
      OBVIOUS
    <3>3. QED
      BY <1>3, <3>1, <3>2, Zenon DEF IntLeft
  <2>5. cs = Collisions(wall, p1, p2, ball, k, k)
    BY <1>3, <2>2, <2>4, Zenon
  <2>6. \A i \in {1, 2} : ~(Hit(cs[i]) /\ Hit(cs[3]) /\ Same(cs[i].toi, cs[3].toi))
    BY <2>5, Zenon DEF NoCorner
  <2>7. /\ InPlay(ball_bounce_on_collision([ball EXCEPT !.pos = c.pos], c.normal))
        /\ c.toi.n >= 0
    BY <1>3, <1>7, <2>3, <2>5, <2>6, BounceInPlay
  <2>8. c.toi \in Fractions /\ s.passed.n >= 0
    BY <2>2 DEF CollisionsType
  <2>9. t.passed.n >= 0
    BY <1>4, <1>7, <2>7, <2>8, TimeLeft, Zenon
  <2>10. QED
    BY <1>7, <2>2, <2>7, <2>9, Zenon
<1>8. QED
  BY <1>3, <1>5, <1>6, <1>7, Zenon DEF AsTurned

\* And so does a tick, unless the ball bounces in it twice.
LEMMA AdvanceInPlay ==
  ASSUME NEW p1 \in Objects, NEW p2 \in Objects, AtSide(p1), AtSide(p2),
         NEW ball \in Objects, OnCourse(ball), InPlay(ball), NEW k \in Nat \ {0},
         NoCorner(Collisions(wall, p1, p2, ball, k, k))
  PROVE  Playing(ball_advance(wall, p1, p2, ball, k))
<1>1. k \in Int /\ MaxBounces \in 0..MaxBounces
  BY GridAssumption
<1>a. PICK turns : AreTurns(turns, p1, p2, ball, k)
  BY <1>1, AdvanceTurns, Zenon
<1>2. /\ \A i \in 0..MaxBounces : turns[i] \in Turned
      /\ turns[0] = Start(ball)
      /\ \A i \in 0..MaxBounces, j \in 1..MaxBounces : j = i + 1 =>
           turns[j] = IF turns[i].done THEN turns[i] ELSE Turn(wall, p1, p2, k, turns[i])
      /\ ball_advance(wall, p1, p2, ball, k) = turns[MaxBounces]
  BY <1>a, Zenon DEF AreTurns
<1> DEFINE Fine(s) == /\ Underway(s, k) /\ Playing(s)
                      /\ ~s.done /\ s.hits = <<>> => s = Start(ball)
           At(m) == \A i \in 0..MaxBounces : i = m => Fine(turns[i])
           T == {m \in Nat : At(m)}
<1>3. Fine(Start(ball))
  <2>1. PICK s : s = Start(ball) /\ s.ball = ball /\ s.passed = [n |-> 0, d |-> 1]
                 /\ s.scored_index = -1 /\ s.done = FALSE
    BY StartTurned, Zenon
  <2>2. s.passed.n < k * s.passed.d /\ s.passed.n >= 0
    BY <2>1
  <2>3. Underway(s, k) /\ Playing(s)
    BY <2>1, <2>2, Zenon DEF Underway, Playing
  <2>4. Underway(Start(ball), k) /\ Playing(Start(ball))
    BY <2>1, <2>3, Zenon
  <2>5. QED
    BY <2>4, Zenon
<1>4. ASSUME NEW s \in Turned, ~s.done, Fine(s) PROVE Fine(Turn(wall, p1, p2, k, s))
  <2>1. PICK t : t = Turn(wall, p1, p2, k, s)
    OBVIOUS
  <2>2. Underway(s, k) /\ Playing(s) /\ (s.hits = <<>> => s = Start(ball))
    BY <1>4, Zenon
  <2>3. Underway(t, k) /\ (t.hits = <<>> => t.done)
    BY <1>4, <2>1, <2>2, TurnCourse
  <2>4. Playing(t)
    BY <1>4, <2>1, <2>2, TurnInPlay
  <2>5. QED
    BY <2>1, <2>3, <2>4, Zenon
<1> HIDE DEF Fine
<1>5. T = Nat
  <2>1. At(0)
    BY <1>2, <1>3, Zenon
  <2>2. ASSUME NEW m \in Nat, At(m), NEW j \in Nat, j = m + 1 PROVE At(j)
    <3> SUFFICES ASSUME NEW i \in 0..MaxBounces, i = j PROVE Fine(turns[i])
      OBVIOUS
    <3>1. m \in 0..MaxBounces /\ i \in 1..MaxBounces /\ i = m + 1
      BY <1>1, <2>2
    <3>2. turns[m] \in Turned /\ Fine(turns[m])
      BY <1>2, <2>2, <3>1, Zenon
    <3>3. turns[i] = IF turns[m].done THEN turns[m] ELSE Turn(wall, p1, p2, k, turns[m])
      BY <1>2, <3>1, Zenon
    <3>4. QED
      BY <1>4, <3>2, <3>3, Zenon
  <2> HIDE DEF At
  <2>3. T \in SUBSET Nat /\ 0 \in T /\ \A m \in T, j \in Nat : j = m + 1 => j \in T
    BY <2>1, <2>2
  <2> HIDE DEF T
  <2>4. QED
    BY <2>3, SetInduction
<1>6. Fine(turns[MaxBounces])
  <2>1. MaxBounces \in T
    <3> HIDE DEF T
    <3> QED
      BY <1>5, GridAssumption
  <2>2. QED
    BY <1>1, <2>1, Zenon
<1>7. QED
  BY <1>2, <1>6, Zenon DEF Fine

\* On its course, a ball in play stays in play or scores.
LEMMA InPlayOnCourse == TypeOK /\ CourseInv => StaysInField
<1> SUFFICES ASSUME TypeOK, CourseInv, InPlay(state.ball), NEW delta_time \in Ticks,
                    NEW after, after = Advanced(delta_time), ~InCorner(delta_time),
                    after.scored_index = -1, ~(Len(after.hits) >= 2)
             PROVE  InPlay(after.ball)
  BY Zenon DEF StaysInField
<1>1. state \in States
  BY Zenon DEF TypeOK
<1>2. PICK p1 \in Objects, p2 \in Objects, ball \in Objects :
        p1 = state.player1 /\ p2 = state.player2 /\ ball = state.ball
  BY <1>1 DEF States
<1>3. delta_time \in Nat \ {0} /\ delta_time \in Int
  BY TimeAssumption
<1>4. OnCourse(ball) /\ AtSide(p1) /\ AtSide(p2) /\ InPlay(ball)
  BY <1>2, Zenon DEF CourseInv, AtSide
<1>5. after = ball_advance(wall, p1, p2, ball, delta_time)
  BY <1>2, Zenon DEF Advanced
<1>6. NoCorner(Collisions(wall, p1, p2, ball, delta_time, delta_time))
  BY <1>2, Zenon DEF InCorner, NoCorner
<1>7. Playing(ball_advance(wall, p1, p2, ball, delta_time))
  BY <1>3, <1>4, <1>6, AdvanceInPlay
<1>8. Len(after.hits) < 2
  <2>1. after \in Turned
    BY <1>3, <1>5, AdvanceType, Zenon
  <2>2. Len(after.hits) \in Nat
    BY <2>1 DEF Turned
  <2>3. QED
    BY <2>2
<1>9. QED
  BY <1>5, <1>7, <1>8, Zenon DEF Playing

\* A ball in play stays in play or scores, in a field of any size and however fast it is, also
\* though points and collisions are looked for over different times; only a second bounce in
\* one tick, or one in a corner, may take it out of the field.
THEOREM InPlayOrScored == Spec => []StaysInField
<1>1. Init => CourseInv
  BY InitCourse, Zenon DEF Init, CourseInv
<1>2. IInv => TypeOK
  BY Zenon DEF IInv
<1>3. IInv /\ CourseInv /\ [Next]_vars => (IInv /\ CourseInv)'
  BY <1>2, StepInv, StepCourse, Zenon
<1>4. IInv /\ CourseInv => StaysInField
  BY <1>2, InPlayOnCourse, Zenon
<1>5. QED
  BY InitInv, <1>1, <1>3, <1>4, PTL DEF Spec
===============================================================================
