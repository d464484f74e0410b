---------------------------- MODULE SequenceFacts ----------------------------
(***************************************************************************)
(* What the proofs of several modules need of numbers and of sequences.    *)
(***************************************************************************)
EXTENDS Naturals, Sequences, SequencesExt, SequenceTheorems, WellFoundedInduction, TLAPS

\* The pairs of natural numbers whose first is the less.
LessThan == {pair \in Nat \X Nat : pair[1] < pair[2]}

\* Induction, for a set of numbers: it has no least number left out.
LEMMA SetInduction ==
  ASSUME NEW T \in SUBSET Nat, 0 \in T, \A m \in T, n \in Nat : n = m + 1 => n \in T
  PROVE  T = Nat
<1>1. SUFFICES ASSUME Nat \ T # {} PROVE FALSE
  OBVIOUS
<1>2. IsWellFoundedOn(LessThan, Nat)
  BY NatLessThanWellFounded DEF OpToRel, LessThan
<1>3. PICK least \in Nat \ T : \A n \in Nat \ T : <<n, least>> \notin LessThan
  BY <1>1, <1>2, WFMin
<1>4. least # 0 /\ least - 1 \in Nat /\ <<least - 1, least>> \in LessThan
  BY <1>3 DEF LessThan
<1>5. least - 1 \in T
  BY <1>3, <1>4
<1>6. QED
  BY <1>3, <1>4, <1>5

\* A set of numbers up to n has a greatest one, unless it is empty.
LEMMA GreatestOne ==
  ASSUME NEW n \in Nat, NEW T \in SUBSET (1..n), T # {}
  PROVE  \E x \in T : \A y \in T : x >= y
<1> DEFINE Bounds == {h \in Nat : \A y \in T : y <= h}
<1>1. n \in Bounds
  OBVIOUS
<1>2. IsWellFoundedOn(LessThan, Nat)
  BY NatLessThanWellFounded DEF OpToRel, LessThan
<1>3. PICK h \in Bounds : \A g \in Bounds : <<g, h>> \notin LessThan
  BY <1>1, <1>2, WFMin
<1>4. ASSUME h \notin T PROVE FALSE
  <2>1. \A y \in T : y \in Nat /\ y >= 1 /\ y <= h /\ y # h
    BY <1>3, <1>4
  <2>2. h - 1 \in Nat /\ \A y \in T : y <= h - 1
    <3>1. h \in Nat /\ h # 0
      <4>1. PICK y \in T : TRUE
        OBVIOUS
      <4>2. y \in Nat /\ y >= 1 /\ y <= h /\ h \in Nat
        BY <1>3, <2>1, <4>1
      <4>3. QED
        BY <4>2
    <3>2. \A y \in Nat : y <= h /\ y # h => y <= h - 1
      BY <3>1
    <3>3. QED
      BY <2>1, <3>1, <3>2
  <2>3. h - 1 \in Bounds /\ <<h - 1, h>> \in LessThan
    BY <1>3, <2>2 DEF LessThan
  <2>4. QED
    BY <1>3, <2>3
<1>5. QED
  BY <1>3, <1>4

\* Appending to a sequence keeps its old elements and adds one at the end.
LEMMA AppendFacts ==
  ASSUME NEW S, NEW s \in Seq(S), NEW e \in S
  PROVE  /\ Append(s, e) \in Seq(S) /\ Append(s, e) # <<>>
         /\ Len(s) \in Nat /\ Len(Append(s, e)) = Len(s) + 1
         /\ DOMAIN s = 1..Len(s)
         /\ DOMAIN Append(s, e) = 1..(Len(s) + 1)
         /\ \A i \in 1..Len(s) : Append(s, e)[i] = s[i] /\ s[i] \in S
         /\ Append(s, e)[Len(s) + 1] = e
<1>1. Len(s) \in Nat /\ DOMAIN s = 1..Len(s) /\ \A i \in 1..Len(s) : s[i] \in S
  BY LenProperties, ElementOfSeq
<1>2. QED
  BY <1>1, AppendProperties, LenProperties

\* Taking the first element off a sequence shifts the others by one.
LEMMA TailFacts ==
  ASSUME NEW S, NEW s \in Seq(S), s # <<>>
  PROVE  /\ Tail(s) \in Seq(S)
         /\ Len(s) \in Nat /\ Len(s) >= 1 /\ Len(Tail(s)) = Len(s) - 1
         /\ DOMAIN s = 1..Len(s)
         /\ DOMAIN Tail(s) = 1..(Len(s) - 1)
         /\ \A i \in 1..(Len(s) - 1) : Tail(s)[i] = s[i + 1]
         /\ Head(s) = s[1] /\ Head(s) \in S
<1>1. Len(s) \in Nat /\ DOMAIN s = 1..Len(s) /\ \A i \in 1..Len(s) : s[i] \in S
  BY LenProperties, ElementOfSeq
<1>2. Len(s) >= 1
  BY <1>1, EmptySeq, LenProperties
<1>3. /\ Tail(s) \in Seq(S) /\ Len(Tail(s)) = Len(s) - 1
      /\ \A i \in 1..(Len(s) - 1) : Tail(s)[i] = s[i + 1]
      /\ Head(s) = s[1]
  BY HeadTailProperties
<1>4. DOMAIN Tail(s) = 1..(Len(s) - 1)
  BY <1>3, LenProperties
<1>5. QED
  BY <1>1, <1>2, <1>3, <1>4

\* Two counts that range over the same numbers are the same.
LEMMA SameCount ==
  ASSUME NEW a \in Nat, NEW b \in Nat, 1..a = 1..b
  PROVE  a = b
<1>1. a \in 1..a \/ a = 0
  OBVIOUS
<1>2. b \in 1..b \/ b = 0
  OBVIOUS
<1>3. QED
  BY <1>1, <1>2

\* A sequence without a length has no elements.
LEMMA NoElements ==
  ASSUME NEW S, NEW s \in Seq(S), Len(s) = 0
  PROVE  s = <<>>
BY EmptySeq

\* The first m elements of a sequence and the rest of it make it up.
LEMMA CutFacts ==
  ASSUME NEW S, NEW s \in Seq(S), NEW m \in 0..Len(s)
  PROVE  /\ SubSeq(s, 1, m) \in Seq(S) /\ Len(SubSeq(s, 1, m)) = m
         /\ SubSeq(s, m + 1, Len(s)) \in Seq(S)
         /\ Len(SubSeq(s, m + 1, Len(s))) = Len(s) - m
         /\ SubSeq(s, 1, m) \o SubSeq(s, m + 1, Len(s)) = s
<1>1. Len(s) \in Nat /\ \A i \in 1..Len(s) : s[i] \in S
  BY LenProperties, ElementOfSeq
<1>2. SubSeq(s, 1, m) \in Seq(S) /\ Len(SubSeq(s, 1, m)) = m
  BY <1>1, SubSeqProperties
<1>3. SubSeq(s, m + 1, Len(s)) \in Seq(S) /\ Len(SubSeq(s, m + 1, Len(s))) = Len(s) - m
  BY <1>1, SubSeqProperties
<1>4. SubSeq(s, 1, m) \o SubSeq(s, m + 1, Len(s)) = s
  <2>1. 1 \in 1..(Len(s) + 1) /\ m \in 0..Len(s) /\ m \in (1 - 1)..Len(s) /\ Len(s) \in m..Len(s)
    BY <1>1
  <2>2. SubSeq(s, 1, m) \o SubSeq(s, m + 1, Len(s)) = SubSeq(s, 1, Len(s))
    BY <2>1, ConcatAdjacentSubSeq
  <2>3. QED
    BY <2>2, SubSeqFull
<1>5. QED
  BY <1>2, <1>3, <1>4

\* Concatenation is associative.
LEMMA ConcatThree == \A S : \A a, b, c \in Seq(S) : (a \o b) \o c = a \o (b \o c)
BY ConcatAssociative

\* Two ways to put a sequence together agree in their first part when that is as
\* long in both.
LEMMA SamePrefix ==
  ASSUME NEW S, NEW a \in Seq(S), NEW b \in Seq(S), NEW c \in Seq(S), NEW d \in Seq(S),
         a \o b = c \o d, Len(a) = Len(c)
  PROVE  a = c /\ b = d
<1>1. Len(a) \in Nat /\ Len(b) \in Nat /\ Len(d) \in Nat
  BY LenProperties
<1>2. \A i \in 1..Len(a) : a[i] = c[i]
  BY <1>1, ConcatProperties
<1>3. a = c
  BY <1>2, SeqEqual
<1>4. QED
  BY <1>3, ConcatSimplifications

-----------------------------------------------------------------------------
(* What FlattenSeq of the community modules returns: it is defined by        *)
(* recursion, and these are the facts of it that need induction.             *)

\* Concatenation, under a name of its own for the provers.
Cat(a, b) == a \o b

\* Joining two sequences puts the second behind the first.
LEMMA CatFacts ==
  /\ \A S : \A a, b \in Seq(S) : Cat(a, b) \in Seq(S) /\ Len(Cat(a, b)) = Len(a) + Len(b)
  /\ \A S : \A a, b, c \in Seq(S) : Cat(Cat(a, b), c) = Cat(a, Cat(b, c))
BY ConcatThree, ConcatProperties DEF Cat

\* f joins up the first elements of ss, one after the other.
Joins(f, ss, n) == f = [i \in 1..n |-> IF i = 1 THEN ss[i] ELSE Cat(f[i - 1], ss[i])]

\* The same without the recursion: where it starts, and how it goes on.
JoinsUp(f, ss, n) ==
  /\ \A i \in 1..n : i = 1 => f[i] = ss[i]
  /\ \A i, j \in 1..n : j = i + 1 => f[j] = Cat(f[i], ss[j])

\* What JoinsUp says at each length: the join so far, and one sequence more.
LEMMA JoinsAre ==
  ASSUME NEW ss, NEW n \in Nat, NEW f
  PROVE  Joins(f, ss, n) <=> JoinsUp(f, ss, n) /\ f = [i \in 1..n |-> f[i]]
<1>1. ASSUME Joins(f, ss, n) PROVE JoinsUp(f, ss, n) /\ f = [i \in 1..n |-> f[i]]
  <2>1. \A i \in 1..n : f[i] = IF i = 1 THEN ss[i] ELSE Cat(f[i - 1], ss[i])
    BY <1>1, Zenon DEF Joins
  <2>2. f = [i \in 1..n |-> f[i]]
    <3>1. f = [i \in 1..n |-> IF i = 1 THEN ss[i] ELSE Cat(f[i - 1], ss[i])]
      BY <1>1, Zenon DEF Joins
    <3>2. QED
      BY <2>1, <3>1, Zenon
  <2>3. ASSUME NEW i \in 1..n, NEW j \in 1..n, j = i + 1 PROVE f[j] = Cat(f[i], ss[j])
    <3>1. j # 1 /\ j - 1 = i
      BY <2>3
    <3>2. f[j] = Cat(f[j - 1], ss[j])
      BY <2>1, <3>1, Zenon
    <3>3. QED
      BY <3>1, <3>2, Zenon
  <2>4. QED
    BY <2>1, <2>2, <2>3, Zenon DEF JoinsUp
<1>2. ASSUME JoinsUp(f, ss, n), f = [i \in 1..n |-> f[i]] PROVE Joins(f, ss, n)
  <2>1. ASSUME NEW i \in 1..n PROVE f[i] = IF i = 1 THEN ss[i] ELSE Cat(f[i - 1], ss[i])
    <3>1. CASE i = 1
      BY <1>2, <3>1, Zenon DEF JoinsUp
    <3>2. CASE i # 1
      <4>1. PICK h \in 1..n : h = i - 1 /\ i = h + 1
        BY <3>2
      <4>2. f[i] = Cat(f[h], ss[i])
        BY <1>2, <4>1, Zenon DEF JoinsUp
      <4>3. QED
        BY <3>2, <4>1, <4>2, Zenon
    <3>3. QED
      BY <3>1, <3>2, Zenon
  <2>2. QED
    BY <1>2, <2>1, Zenon DEF Joins
<1>3. QED
  BY <1>1, <1>2, Zenon

\* Every sequence of sequences can be joined from the front, one by one.
LEMMA JoinsExists ==
  ASSUME NEW ss
  PROVE  \A n \in Nat : \E f : Joins(f, ss, n)
<1> DEFINE T == {n \in Nat : \E f : Joins(f, ss, n)}
<1>1. 0 \in T
  <2>1. Joins([i \in 1..0 |-> ss[i]], ss, 0)
    BY DEF Joins
  <2>2. QED
    BY <2>1
<1>2. ASSUME NEW m \in T, NEW n \in Nat, n = m + 1 PROVE n \in T
  <2>1. PICK f : Joins(f, ss, m)
    OBVIOUS
  <2>2. JoinsUp(f, ss, m)
    BY <2>1, JoinsAre
  <2> DEFINE next == IF n = 1 THEN ss[n] ELSE Cat(f[m], ss[n])
             g == [i \in 1..n |-> IF i = n THEN next ELSE f[i]]
  <2>3. /\ \A i \in 1..n : i # n => i \in 1..m /\ g[i] = f[i]
        /\ n \in 1..n /\ g[n] = next
    BY <1>2
  <2>4. g = [i \in 1..n |-> g[i]]
    OBVIOUS
  <2>5. JoinsUp(g, ss, n)
    <3> HIDE DEF g
    <3>1. ASSUME NEW i \in 1..n, i = 1 PROVE g[i] = ss[i]
      <4>1. CASE i = n
        BY <2>3, <3>1, <4>1, Zenon
      <4>2. CASE i # n
        BY <2>2, <2>3, <3>1, <4>2, Zenon DEF JoinsUp
      <4>3. QED
        BY <4>1, <4>2
    <3>2. ASSUME NEW i \in 1..n, NEW j \in 1..n, j = i + 1 PROVE g[j] = Cat(g[i], ss[j])
      <4>0. i # n /\ j # 1
        BY <3>2
      <4>1. CASE j = n
        <5>1. i = m /\ n # 1
          BY <1>2, <3>2, <4>0, <4>1
        <5>2. QED
          BY <2>3, <4>0, <4>1, <5>1, Zenon
      <4>2. CASE j # n
        BY <2>2, <2>3, <3>2, <4>0, <4>2, Zenon DEF JoinsUp
      <4>3. QED
        BY <4>1, <4>2
    <3>3. QED
      BY <3>1, <3>2, Zenon DEF JoinsUp
  <2>6. Joins(g, ss, n)
    <3> HIDE DEF g
    <3> QED
      BY <2>4, <2>5, JoinsAre
  <2>7. QED
    BY <2>6
<1>3. T \in SUBSET Nat
  OBVIOUS
<1>4. T = Nat
  <2> HIDE DEF T
  <2> QED
    BY <1>1, <1>2, <1>3, SetInduction
<1>5. QED
  BY <1>4

\* FlattenSeq joins up all of them.
LEMMA FlattenJoins ==
  ASSUME NEW ss, Len(ss) \in Nat, Len(ss) # 0
  PROVE  \E f : JoinsUp(f, ss, Len(ss)) /\ FlattenSeq(ss) = f[Len(ss)]
<1> DEFINE F == CHOOSE f : Joins(f, ss, Len(ss))
<1>1. Joins(F, ss, Len(ss))
  BY JoinsExists, Zenon
<1>2. FlattenSeq(ss) = F[Len(ss)]
  BY Zenon DEF FlattenSeq, Joins, Cat
<1> HIDE DEF F
<1>3. JoinsUp(F, ss, Len(ss))
  BY <1>1, JoinsAre
<1>4. QED
  BY <1>2, <1>3

\* What has been joined up is a sequence.
LEMMA JoinsType ==
  ASSUME NEW S, NEW ss, NEW n \in Nat, \A i \in 1..n : ss[i] \in Seq(S),
         NEW f, JoinsUp(f, ss, n)
  PROVE  \A i \in 1..n : f[i] \in Seq(S)
<1> DEFINE Typed(k) == \A i \in 1..n : i = k => f[i] \in Seq(S)
           T == {k \in Nat : Typed(k)}
<1>1. Typed(0)
  OBVIOUS
<1>2. ASSUME NEW k \in Nat, Typed(k), NEW l \in Nat, l = k + 1 PROVE Typed(l)
  <2> SUFFICES ASSUME NEW j \in 1..n, j = l PROVE f[j] \in Seq(S)
    OBVIOUS
  <2>1. CASE j = 1
    BY <2>1, Zenon DEF JoinsUp
  <2>2. CASE j # 1
    <3>1. PICK i \in 1..n : j = i + 1 /\ i = k
      BY <1>2, <2>2
    <3>2. f[j] = Cat(f[i], ss[j]) /\ f[i] \in Seq(S) /\ ss[j] \in Seq(S)
      BY <1>2, <3>1, Zenon DEF JoinsUp
    <3>3. QED
      BY <3>2, CatFacts
  <2>3. QED
    BY <2>1, <2>2
<1>3. T = Nat
  <2> HIDE DEF Typed
  <2>1. T \in SUBSET Nat /\ 0 \in T /\ \A m \in T, l \in Nat : l = m + 1 => l \in T
    BY <1>1, <1>2
  <2> HIDE DEF T
  <2>2. QED
    BY <2>1, SetInduction
<1>4. ASSUME NEW i \in 1..n PROVE f[i] \in Seq(S)
  <2>1. i \in T
    BY <1>3
  <2>2. QED
    BY <2>1, Zenon
<1>5. QED
  BY <1>4

\* Two that start and go on alike are alike.
LEMMA JoinsSame ==
  ASSUME NEW ss, NEW tt, NEW n \in Nat, \A i \in 1..n : ss[i] = tt[i],
         NEW f, JoinsUp(f, ss, n), NEW g, JoinsUp(g, tt, n)
  PROVE  \A i \in 1..n : f[i] = g[i]
<1> DEFINE Same(k) == \A i \in 1..n : i = k => f[i] = g[i]
           T == {k \in Nat : Same(k)}
<1>1. Same(0)
  OBVIOUS
<1>2. ASSUME NEW k \in Nat, Same(k), NEW l \in Nat, l = k + 1 PROVE Same(l)
  <2> SUFFICES ASSUME NEW j \in 1..n, j = l PROVE f[j] = g[j]
    OBVIOUS
  <2>1. CASE j = 1
    BY <2>1, Zenon DEF JoinsUp
  <2>2. CASE j # 1
    <3>1. PICK i \in 1..n : j = i + 1 /\ i = k
      BY <1>2, <2>2
    <3>2. f[j] = Cat(f[i], ss[j]) /\ g[j] = Cat(g[i], tt[j])
      BY <3>1, Zenon DEF JoinsUp
    <3>3. f[i] = g[i] /\ ss[j] = tt[j]
      BY <1>2, <3>1, Zenon
    <3>4. QED
      BY <3>2, <3>3, Zenon
  <2>3. QED
    BY <2>1, <2>2
<1>3. T = Nat
  <2> HIDE DEF Same
  <2>1. T \in SUBSET Nat /\ 0 \in T /\ \A m \in T, l \in Nat : l = m + 1 => l \in T
    BY <1>1, <1>2
  <2> HIDE DEF T
  <2>2. QED
    BY <2>1, SetInduction
<1>4. ASSUME NEW i \in 1..n PROVE f[i] = g[i]
  <2>1. i \in T
    BY <1>3
  <2>2. QED
    BY <2>1, Zenon
<1>5. QED
  BY <1>4

\* One more element is one more piece at the end.
LEMMA JoinsAppend ==
  ASSUME NEW ss, NEW tt, NEW m \in Nat \ {0}, NEW n \in Nat, n - m = 1,
         \A i \in 1..m : ss[i] = tt[i],
         NEW f, JoinsUp(f, ss, m), NEW g, JoinsUp(g, tt, n)
  PROVE  g[n] = Cat(f[m], tt[n])
<1>1. m \in 1..m /\ m \in 1..n /\ n \in 1..n /\ 1..m \subseteq 1..n
  OBVIOUS
<1>2. JoinsUp(g, tt, m)
  BY <1>1, Zenon DEF JoinsUp
<1>3. \A i \in 1..m : f[i] = g[i]
  BY <1>2, JoinsSame
<1>4. g[n] = Cat(g[m], tt[n])
  <2>1. n = m + 1
    OBVIOUS
  <2>2. QED
    BY <1>1, <2>1, Zenon DEF JoinsUp
<1>5. QED
  BY <1>1, <1>3, <1>4, Zenon

\* One element of ss precedes those of tt.
Precedes(S, ss, tt, m) ==
  ss[1] \in Seq(S) /\ \A i \in 1..m : tt[i] = ss[i + 1] /\ tt[i] \in Seq(S)

\* One more element in front is one more piece in front.
LEMMA JoinsFirst ==
  ASSUME NEW S, NEW ss, NEW tt, NEW m \in Nat \ {0}, NEW n \in Nat, n - m = 1,
         Precedes(S, ss, tt, m),
         NEW f, JoinsUp(f, ss, n), NEW g, JoinsUp(g, tt, m)
  PROVE  f[n] = Cat(ss[1], g[m])
<1>1. f[1] = ss[1]
  <2>1. 1 \in 1..n
    OBVIOUS
  <2>2. QED
    BY <2>1, Zenon DEF JoinsUp
<1>0. /\ ss[1] \in Seq(S)
      /\ \A i \in 1..m : tt[i] = ss[i + 1] /\ tt[i] \in Seq(S)
  BY Zenon DEF Precedes
<1>2. \A i \in 1..m : g[i] \in Seq(S)
  BY <1>0, JoinsType
<1> DEFINE Same(k) == \A i \in 1..m, j \in 1..n : (i = k /\ j = i + 1) => f[j] = Cat(ss[1], g[i])
           T == {k \in Nat : Same(k)}
<1>3. Same(0)
  OBVIOUS
<1>4. ASSUME NEW k \in Nat, Same(k), NEW l \in Nat, l = k + 1 PROVE Same(l)
  <2> SUFFICES ASSUME NEW i \in 1..m, NEW j \in 1..n, i = l, j = i + 1
               PROVE  f[j] = Cat(ss[1], g[i])
    OBVIOUS
  <2>1. i \in 1..n /\ f[j] = Cat(f[i], ss[j]) /\ tt[i] = ss[j]
    <3>1. i \in 1..n
      OBVIOUS
    <3>2. f[j] = Cat(f[i], ss[j])
      BY <3>1, Zenon DEF JoinsUp
    <3>3. QED
      BY <1>0, <3>1, <3>2, Zenon
  <2>2. CASE i = 1
    <3>1. f[i] = ss[1] /\ g[i] = tt[i]
      BY <1>1, <2>2, Zenon DEF JoinsUp
    <3>2. QED
      BY <2>1, <3>1, Zenon
  <2>3. CASE i # 1
    <3>1. PICK h \in 1..m : i = h + 1 /\ h = k
      BY <1>4, <2>3
    <3>2. g[i] = Cat(g[h], tt[i])
      BY <3>1, Zenon DEF JoinsUp
    <3>3. f[i] = Cat(ss[1], g[h])
      BY <1>4, <2>1, <3>1, Zenon
    <3>4. Cat(Cat(ss[1], g[h]), tt[i]) = Cat(ss[1], Cat(g[h], tt[i]))
      <4>1. PICK a, b, c \in Seq(S) : a = ss[1] /\ b = g[h] /\ c = tt[i]
        BY <1>0, <1>2, <3>1, Zenon
      <4>2. Cat(Cat(a, b), c) = Cat(a, Cat(b, c))
        BY CatFacts
      <4>3. QED
        BY <4>1, <4>2, Zenon
    <3>5. QED
      BY <2>1, <3>2, <3>3, <3>4, Zenon
  <2>4. QED
    BY <2>2, <2>3
<1>5. T = Nat
  <2> HIDE DEF Same
  <2>1. T \in SUBSET Nat /\ 0 \in T /\ \A k \in T, l \in Nat : l = k + 1 => l \in T
    BY <1>3, <1>4
  <2> HIDE DEF T
  <2>2. QED
    BY <2>1, SetInduction
<1>6. m \in 1..m /\ n \in 1..n
  OBVIOUS
<1>7. Same(m)
  <2> HIDE DEF Same
  <2>1. m \in T
    BY <1>5
  <2>2. QED
    BY <2>1
<1>8. QED
  <2>1. n = m + 1
    OBVIOUS
  <2>2. QED
    BY <1>6, <1>7, <2>1, Zenon

\* Flattening sequences over S gives a sequence over S.
LEMMA FlattenType ==
  ASSUME NEW S, NEW ss \in Seq(Seq(S))
  PROVE  FlattenSeq(ss) \in Seq(S)
<1>1. Len(ss) \in Nat /\ \A i \in 1..Len(ss) : ss[i] \in Seq(S)
  BY LenProperties, ElementOfSeq
<1>2. CASE Len(ss) = 0
  <2>1. ss = <<>>
    BY <1>2, EmptySeq
  <2>2. QED
    BY <1>2, <2>1, EmptySeq DEF FlattenSeq
<1>3. CASE Len(ss) # 0
  <2>1. PICK f : JoinsUp(f, ss, Len(ss)) /\ FlattenSeq(ss) = f[Len(ss)]
    BY <1>1, <1>3, FlattenJoins
  <2>2. Len(ss) \in 1..Len(ss)
    BY <1>1, <1>3
  <2>3. \A i \in 1..Len(ss) : f[i] \in Seq(S)
    BY <1>1, <2>1, JoinsType
  <2>4. QED
    BY <2>1, <2>2, <2>3
<1>4. QED
  BY <1>2, <1>3

\* What FlattenSeq does with one more element, at either end.
LEMMA FlattenLonger ==
  ASSUME NEW ss, NEW tt, NEW m \in Nat \ {0}, NEW n \in Nat, n - m = 1, Len(ss) = m, Len(tt) = n
  PROVE  /\ (\A i \in 1..m : ss[i] = tt[i]) => FlattenSeq(tt) = Cat(FlattenSeq(ss), tt[n])
         /\ \A S : tt[1] \in Seq(S) /\ (\A i \in 1..m : ss[i] = tt[i + 1] /\ ss[i] \in Seq(S))
                    => FlattenSeq(tt) = Cat(tt[1], FlattenSeq(ss))
<1>0. n \in Nat /\ n # 0
  OBVIOUS
<1>1. PICK f : JoinsUp(f, ss, m) /\ FlattenSeq(ss) = f[m]
  BY FlattenJoins
<1>2. PICK g : JoinsUp(g, tt, n) /\ FlattenSeq(tt) = g[n]
  BY <1>0, FlattenJoins
<1>3. ASSUME \A i \in 1..m : ss[i] = tt[i] PROVE g[n] = Cat(f[m], tt[n])
  <2>1. JoinsUp(f, ss, m) /\ JoinsUp(g, tt, n)
    BY <1>1, <1>2
  <2>2. QED
    BY <1>3, <2>1, JoinsAppend, SMTT(30)
<1>4. ASSUME NEW S, tt[1] \in Seq(S), \A i \in 1..m : ss[i] = tt[i + 1] /\ ss[i] \in Seq(S)
      PROVE  g[n] = Cat(tt[1], f[m])
  <2>1. JoinsUp(f, ss, m) /\ JoinsUp(g, tt, n)
    BY <1>1, <1>2
  <2>2. Precedes(S, tt, ss, m)
    BY <1>4, Zenon DEF Precedes
  <2>3. QED
    BY <2>1, <2>2, JoinsFirst
<1>5. QED
  BY <1>1, <1>2, <1>3, <1>4, Zenon

\* One sequence more at the end is joined at the end.
LEMMA FlattenAppend ==
  ASSUME NEW S, NEW ss \in Seq(Seq(S)), NEW e \in Seq(S), NEW tt, tt = Append(ss, e)
  PROVE  FlattenSeq(tt) = FlattenSeq(ss) \o e
<1>1. /\ tt \in Seq(Seq(S)) /\ Len(ss) \in Nat /\ Len(tt) = Len(ss) + 1
      /\ tt[Len(ss) + 1] = e
      /\ \A i \in 1..Len(ss) : ss[i] = tt[i]
  BY AppendFacts
<1>2. CASE Len(ss) = 0
  <2>1. ss = <<>> /\ FlattenSeq(ss) = <<>>
    BY <1>2, NoElements, EmptySeq DEF FlattenSeq
  <2>2. PICK g : JoinsUp(g, tt, Len(tt)) /\ FlattenSeq(tt) = g[Len(tt)]
    <3>1. Len(tt) \in Nat /\ Len(tt) # 0
      BY <1>1
    <3>2. QED
      BY <3>1, FlattenJoins, Zenon
  <2>3. Len(tt) = 1 /\ 1 \in 1..Len(tt) /\ tt[1] = e
    BY <1>1, <1>2
  <2>4. FlattenSeq(tt) = e
    BY <2>2, <2>3, Zenon DEF JoinsUp
  <2>5. QED
    BY <2>1, <2>4, ConcatEmptySeq
<1>3. CASE Len(ss) # 0
  <2>1. PICK m \in Nat \ {0}, n \in Nat :
          n - m = 1 /\ Len(ss) = m /\ Len(tt) = n /\ tt[n] = e
    BY <1>1, <1>3
  <2>2. \A i \in 1..m : ss[i] = tt[i]
    BY <1>1, <2>1, Zenon
  <2>3. FlattenSeq(tt) = Cat(FlattenSeq(ss), tt[n])
    BY <2>1, <2>2, FlattenLonger, ZenonT(30)
  <2>4. QED
    BY <2>1, <2>3, Zenon DEF Cat
<1>4. QED
  BY <1>2, <1>3

\* The first sequence stands in front of what the others flatten to.
LEMMA FlattenFirst ==
  ASSUME NEW S, NEW tt \in Seq(Seq(S)), tt # <<>>, NEW ss, ss = Tail(tt)
  PROVE  tt[1] \in Seq(S) /\ FlattenSeq(tt) = tt[1] \o FlattenSeq(ss)
<1>1. /\ ss \in Seq(Seq(S)) /\ Len(tt) \in Nat /\ Len(tt) >= 1 /\ Len(ss) = Len(tt) - 1
      /\ \A i \in 1..(Len(tt) - 1) : ss[i] = tt[i + 1]
      /\ tt[1] \in Seq(S)
  BY TailFacts
<1>2. Len(ss) \in Nat /\ \A i \in 1..Len(ss) : ss[i] \in Seq(S)
  BY <1>1, ElementOfSeq
<1>3. CASE Len(ss) = 0
  <2>1. ss = <<>>
    BY <1>1, <1>3, NoElements
  <2>2. FlattenSeq(ss) = <<>>
    BY <2>1, EmptySeq DEF FlattenSeq
  <2>3. PICK g : JoinsUp(g, tt, Len(tt)) /\ FlattenSeq(tt) = g[Len(tt)]
    <3>1. Len(tt) \in Nat /\ Len(tt) # 0
      BY <1>1
    <3>2. QED
      BY <3>1, FlattenJoins, Zenon
  <2>4. Len(tt) = 1 /\ 1 \in 1..Len(tt)
    BY <1>1, <1>3
  <2>5. FlattenSeq(tt) = tt[1]
    BY <2>3, <2>4, Zenon DEF JoinsUp
  <2>6. QED
    BY <1>1, <2>2, <2>5, ConcatEmptySeq
<1>4. CASE Len(ss) # 0
  <2>1. PICK m \in Nat \ {0}, n \in Nat : n - m = 1 /\ Len(ss) = m /\ Len(tt) = n
    <3>1. Len(ss) \in Nat \ {0} /\ Len(tt) \in Nat /\ Len(tt) - Len(ss) = 1
      BY <1>1, <1>2, <1>4
    <3>2. QED
      BY <3>1
  <2>2. \A i \in 1..m : ss[i] = tt[i + 1] /\ ss[i] \in Seq(S)
    BY <1>1, <1>2, <2>1
  <2>3. FlattenSeq(tt) = Cat(tt[1], FlattenSeq(ss))
    BY <1>1, <2>1, <2>2, FlattenLonger, Zenon
  <2>4. QED
    BY <1>1, <2>3, Zenon DEF Cat
<1>5. QED
  BY <1>2, <1>3, <1>4
=============================================================================
