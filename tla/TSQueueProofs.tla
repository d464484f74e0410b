----------------------------- MODULE TSQueueProofs -----------------------------
(***************************************************************************)
(* What TSQueue promises, for every number of threads, cells and items:    *)
(* its types, WellLinked, and that the data behave like FifoQueue's line.  *)
(*                                                                         *)
(* The first part is about the list alone: what walking it meets, and what *)
(* adding and unlinking a node make of an arrangement.  The invariant is   *)
(* that there is an arrangement of the cells in use.                       *)
(***************************************************************************)
EXTENDS TSQueue, SequenceFacts, FiniteSetTheorems, TLAPS

-----------------------------------------------------------------------------
(* Sequences that lose an element, and how many elements one has.          *)

\* s without the element at k.
Without(s, k) == [j \in 1..(Len(s) - 1) |-> IF j < k THEN s[j] ELSE s[j + 1]]

\* RemoveAt takes out the element at k and moves up the ones behind it.
LEMMA RemoveAtFacts ==
  ASSUME NEW S, NEW s \in Seq(S), NEW k \in 1..Len(s)
  PROVE  RemoveAt(s, k) = Without(s, k)
<1>1. Len(s) \in Nat /\ \A i \in 1..Len(s) : s[i] \in S
  BY LenProperties, ElementOfSeq
<1> DEFINE front == SubSeq(s, 1, k - 1)
           back == SubSeq(s, k + 1, Len(s))
<1>2. /\ front \in Seq(S) /\ Len(front) = k - 1
      /\ \A i \in 1..(k - 1) : front[i] = s[i]
  BY <1>1, SubSeqProperties
<1>3. /\ back \in Seq(S) /\ Len(back) = Len(s) - k
      /\ \A i \in 1..(Len(s) - k) : back[i] = s[i + k]
  BY <1>1, SubSeqProperties
<1> DEFINE both == front \o back
<1>4. RemoveAt(s, k) = both
  BY DEF RemoveAt
<1> HIDE DEF front, back
<1>5. /\ both \in Seq(S) /\ Len(both) = Len(s) - 1
      /\ \A i \in 1..(Len(s) - 1) :
           both[i] = IF i < k THEN front[i] ELSE back[i - (k - 1)]
  <2>1. /\ both \in Seq(S) /\ Len(both) = Len(front) + Len(back)
        /\ \A i \in 1..(Len(front) + Len(back)) :
             both[i] = IF i <= Len(front) THEN front[i] ELSE back[i - Len(front)]
    BY <1>2, <1>3, ConcatProperties, Zenon
  <2> HIDE DEF both
  <2>2. Len(front) + Len(back) = Len(s) - 1 /\ Len(front) = k - 1
    BY <1>1, <1>2, <1>3
  <2>3. \A i \in 1..(Len(s) - 1) : i <= k - 1 <=> i < k
    BY <1>1
  <2>4. QED
    BY <2>1, <2>2, <2>3
<1> HIDE DEF both
<1>6. ASSUME NEW i \in 1..(Len(s) - 1)
      PROVE  both[i] = IF i < k THEN s[i] ELSE s[i + 1]
  <2>1. CASE i < k
    BY <1>1, <1>2, <1>5, <2>1
  <2>2. CASE ~(i < k)
    <3>1. PICK j \in 1..(Len(s) - k) : j = i - (k - 1) /\ j + k = i + 1
      BY <1>1, <2>2
    <3>2. back[j] = s[i + 1]
      BY <1>3, <3>1
    <3>3. QED
      BY <1>5, <2>2, <3>1, <3>2
  <2>3. QED
    BY <2>1, <2>2
<1>7. both = [j \in 1..(Len(s) - 1) |-> both[j]]
  BY <1>5, LenProperties
<1>8. QED
  BY <1>4, <1>6, <1>7 DEF Without

\* It is a sequence too, one shorter; an element behind k is met one earlier.
LEMMA WithoutFacts ==
  ASSUME NEW S, NEW s \in Seq(S), NEW k \in 1..Len(s)
  PROVE  /\ Without(s, k) \in Seq(S)
         /\ Len(s) \in Nat /\ Len(s) - 1 \in Nat /\ Len(Without(s, k)) = Len(s) - 1
         /\ DOMAIN Without(s, k) = 1..(Len(s) - 1)
         /\ \A j \in 1..(Len(s) - 1) :
              Without(s, k)[j] = IF j < k THEN s[j] ELSE s[j + 1]
<1>1. Len(s) \in Nat /\ \A i \in 1..Len(s) : s[i] \in S
  BY LenProperties, ElementOfSeq
<1>2. Len(s) - 1 \in Nat
  BY <1>1
<1>3. \A j \in 1..(Len(s) - 1) : (IF j < k THEN s[j] ELSE s[j + 1]) \in S
  BY <1>1
<1>4. Without(s, k) \in [1..(Len(s) - 1) -> S]
  BY <1>3 DEF Without
<1>5. Without(s, k) \in Seq(S)
  BY <1>2, <1>4
<1>6. DOMAIN Without(s, k) = 1..(Len(s) - 1)
  BY DEF Without
<1>7. QED
  BY <1>1, <1>2, <1>5, <1>6, LenProperties DEF Without

\* s names every member of the set, and each of them once.
Lists(s, set) ==
  /\ \A k \in 1..Len(s) : s[k] \in set
  /\ \A n \in set : \E k \in 1..Len(s) : s[k] = n
  /\ \A j, k \in 1..Len(s) : s[j] = s[k] => j = k

\* Then it is as long as the set is large.
LEMMA ListsAll ==
  ASSUME NEW S, NEW s \in Seq(S), NEW set, Lists(s, set), IsFiniteSet(set)
  PROVE  Len(s) = Cardinality(set) /\ s \in SetToSeqs(set)
<1>1. Len(s) \in Nat /\ s = [i \in 1..Len(s) |-> s[i]]
  BY LenProperties
<1>2. s \in Bijection(1..Len(s), set)
  BY <1>1 DEF Lists, Bijection, Injection, Surjection, IsInjective
<1>3. IsFiniteSet(1..Len(s)) /\ Cardinality(1..Len(s)) = Len(s)
  BY <1>1, FS_Interval
<1>4. Cardinality(set) = Len(s)
  BY <1>2, <1>3, FS_Bijection DEF ExistsBijection
<1>5. s \in [1..Cardinality(set) -> set]
  BY <1>1, <1>4 DEF Lists
<1>6. QED
  BY <1>4, <1>5 DEF Lists, SetToSeqs

-----------------------------------------------------------------------------
(* Walking the list.                                                       *)

\* f holds the first cells met from head along next, and Null behind them.
Walks(f, head, next, count) ==
  f = [k \in 1..count |->
         IF k = 1 THEN head ELSE IF f[k - 1] = Null THEN Null ELSE next[f[k - 1]]]

\* l has the cells s lists, head first: LinkedAs, for any list.
Arranges(l, s) ==
  /\ l.size = Len(s)
  /\ l.head = IF s = <<>> THEN Null ELSE s[1]
  /\ l.tail = IF s = <<>> THEN Null ELSE s[Len(s)]
  /\ \A k \in 1..Len(s) :
       /\ l.next[s[k]] = IF k = Len(s) THEN Null ELSE s[k + 1]
       /\ l.prev[s[k]] = IF k = 1 THEN Null ELSE s[k - 1]

\* One walk there is: over s, and no further.
LEMMA WalkExists ==
  ASSUME NEW l, NEW s \in Seq(Nodes), Arranges(l, s), NEW count \in Nat, Len(s) <= count
  PROVE  \E f : Walks(f, l.head, l.next, count)
<1>1. Len(s) \in Nat /\ \A i \in 1..Len(s) : s[i] \in Nodes /\ s[i] # Null
  BY LenProperties, ElementOfSeq, NullAssumption
<1> DEFINE f == [k \in 1..count |-> IF k <= Len(s) THEN s[k] ELSE Null]
<1>2. ASSUME NEW k \in 1..count
      PROVE  f[k] = IF k = 1 THEN l.head
                    ELSE IF f[k - 1] = Null THEN Null ELSE l.next[f[k - 1]]
  <2>1. CASE k = 1
    <3>1. Len(s) = 0 <=> s = <<>>
      BY EmptySeq, NoElements
    <3>2. QED
      BY <1>1, <2>1, <3>1 DEF Arranges
  <2>2. CASE k # 1
    <3>1. PICK j \in 1..count : j = k - 1 /\ k = j + 1
      BY <2>2
    <3>2. CASE j <= Len(s)
      <4>1. j \in 1..Len(s) /\ f[j] = s[j] /\ s[j] # Null
        BY <1>1, <3>1, <3>2
      <4>2. l.next[s[j]] = IF j = Len(s) THEN Null ELSE s[k]
        BY <3>1, <4>1 DEF Arranges
      <4>3. f[k] = IF j = Len(s) THEN Null ELSE s[k]
        BY <1>1, <3>1, <3>2
      <4>4. QED
        BY <2>2, <3>1, <4>1, <4>2, <4>3
    <3>3. CASE ~(j <= Len(s))
      <4>1. f[j] = Null /\ f[k] = Null
        BY <1>1, <3>1, <3>3
      <4>2. QED
        BY <2>2, <3>1, <4>1
    <3>4. QED
      BY <3>2, <3>3
  <2>3. QED
    BY <2>1, <2>2
<1>3. f = [k \in 1..count |-> f[k]]
  OBVIOUS
<1> HIDE DEF f
<1>4. Walks(f, l.head, l.next, count)
  BY <1>2, <1>3, Zenon DEF Walks
<1>5. QED
  BY <1>4

\* Every walk meets what s lists, and Null from there on.
LEMMA WalkMeets ==
  ASSUME NEW l, NEW s \in Seq(Nodes), Arranges(l, s), NEW count \in Nat, Len(s) <= count,
         NEW f, Walks(f, l.head, l.next, count)
  PROVE  \A k \in 1..count : f[k] = IF k <= Len(s) THEN s[k] ELSE Null
<1>1. Len(s) \in Nat /\ \A i \in 1..Len(s) : s[i] \in Nodes /\ s[i] # Null
  BY LenProperties, ElementOfSeq, NullAssumption
<1>2. \A k \in 1..count :
        f[k] = IF k = 1 THEN l.head
               ELSE IF f[k - 1] = Null THEN Null ELSE l.next[f[k - 1]]
  BY Zenon DEF Walks
<1> DEFINE Meets(m) == \A k \in 1..count : k = m => f[k] = IF k <= Len(s) THEN s[k] ELSE Null
           T == {m \in Nat : Meets(m)}
<1>3. Meets(0)
  OBVIOUS
<1>4. ASSUME NEW m \in Nat, Meets(m), NEW n \in Nat, n = m + 1 PROVE Meets(n)
  <2> SUFFICES ASSUME NEW k \in 1..count, k = n
               PROVE  f[k] = IF k <= Len(s) THEN s[k] ELSE Null
    OBVIOUS
  <2>1. CASE k = 1
    <3>1. Len(s) = 0 <=> s = <<>>
      BY EmptySeq, NoElements
    <3>2. f[k] = l.head
      BY <1>2, <2>1, Zenon
    <3>3. QED
      BY <1>1, <2>1, <3>1, <3>2 DEF Arranges
  <2>2. CASE k # 1
    <3>1. PICK j \in 1..count : j = m /\ j = k - 1 /\ k = j + 1
      BY <1>4, <2>2
    <3>2. f[k] = IF f[j] = Null THEN Null ELSE l.next[f[j]]
      BY <1>2, <2>2, <3>1, Zenon
    <3>3. f[j] = IF j <= Len(s) THEN s[j] ELSE Null
      BY <1>4, <3>1
    <3>4. CASE j <= Len(s)
      <4>1. j \in 1..Len(s) /\ f[j] = s[j] /\ s[j] # Null
        BY <1>1, <3>1, <3>3, <3>4
      <4>2. l.next[s[j]] = IF j = Len(s) THEN Null ELSE s[k]
        BY <3>1, <4>1 DEF Arranges
      <4>3. j = Len(s) <=> ~(k <= Len(s))
        BY <1>1, <3>1, <3>4
      <4>4. QED
        BY <3>2, <4>1, <4>2, <4>3
    <3>5. CASE ~(j <= Len(s))
      <4>1. ~(k <= Len(s))
        BY <1>1, <3>1, <3>5
      <4>2. QED
        BY <3>2, <3>3, <3>5, <4>1
    <3>6. QED
      BY <3>4, <3>5
  <2>3. QED
    BY <2>1, <2>2
<1>5. T = Nat
  <2> HIDE DEF Meets
  <2>1. T \in SUBSET Nat /\ 0 \in T /\ \A m \in T, n \in Nat : n = m + 1 => n \in T
    BY <1>3, <1>4
  <2> HIDE DEF T
  <2>2. QED
    BY <2>1, SetInduction
<1>6. ASSUME NEW k \in 1..count PROVE f[k] = IF k <= Len(s) THEN s[k] ELSE Null
  <2>1. k \in Nat
    OBVIOUS
  <2>2. k \in T
    BY <1>5, <2>1, Zenon
  <2>3. QED
    BY <2>2
<1>7. QED
  BY <1>6

\* What is met of a list, up to its end: the walk's cells.
CellsMet(f) == [k \in {j \in DOMAIN f : f[j] # Null} |-> f[k]]

\* They are those of the arrangement, in order.
LEMMA WalkGives ==
  ASSUME NEW l, NEW s \in Seq(Nodes), Arranges(l, s), NEW count \in Nat, Len(s) <= count
  PROVE  CellsMet(CHOOSE f : Walks(f, l.head, l.next, count)) = s
<1> DEFINE F == CHOOSE f : Walks(f, l.head, l.next, count)
<1>1. Walks(F, l.head, l.next, count)
  BY WalkExists, Zenon
<1> HIDE DEF F
<1>2. DOMAIN F = 1..count
  BY <1>1, Zenon DEF Walks
<1>3. \A k \in 1..count : F[k] = IF k <= Len(s) THEN s[k] ELSE Null
  BY <1>1, WalkMeets
<1>4. Len(s) \in Nat /\ s = [i \in 1..Len(s) |-> s[i]] /\ \A i \in 1..Len(s) : s[i] # Null
  BY LenProperties, ElementOfSeq, NullAssumption
<1>5. {j \in DOMAIN F : F[j] # Null} = 1..Len(s)
  BY <1>2, <1>3, <1>4
<1>6. \A k \in 1..Len(s) : F[k] = s[k]
  BY <1>3, <1>4
<1>7. CellsMet(F) = [k \in 1..Len(s) |-> F[k]]
  BY <1>5 DEF CellsMet
<1>8. CellsMet(F) = s
  BY <1>4, <1>6, <1>7
<1>9. QED
  BY <1>8 DEF F

-----------------------------------------------------------------------------
(* What the list operations make of an arrangement.                        *)

\* A list l whose cells, exactly those of the set, s lists from head to tail.
Shaped(l, set, s) ==
  /\ l \in List /\ set \subseteq Nodes /\ s \in Seq(Nodes)
  /\ Arranges(l, s)
  /\ Lists(s, set)

\* s with one element more.
Longer(s, e) == Append(s, e)

\* The fields after a new cell has been put into an empty list, or behind the tail.
LEMMA QueuedFields ==
  ASSUME NEW l \in List, NEW n \in Nodes, NEW x \in Items,
         NEW m, m = Add(NewNode(l, n, x), l.tail, Null, n)
  PROVE  /\ l.head = Null =>
              m = [head |-> n, tail |-> n, size |-> l.size + 1,
                   data |-> [l.data EXCEPT ![n] = x],
                   next |-> [l.next EXCEPT ![n] = Null],
                   prev |-> [l.prev EXCEPT ![n] = Null]]
         /\ (l.head # Null /\ l.tail # Null) =>
              m = [head |-> l.head, tail |-> n, size |-> l.size + 1,
                   data |-> [l.data EXCEPT ![n] = x],
                   next |-> [[l.next EXCEPT ![n] = Null] EXCEPT ![l.tail] = n],
                   prev |-> [[l.prev EXCEPT ![n] = Null] EXCEPT ![n] = l.tail]]
<1> DEFINE new == NewNode(l, n, x)
<1>1. new = [head |-> l.head, tail |-> l.tail, size |-> l.size,
             data |-> [l.data EXCEPT ![n] = x],
             next |-> [l.next EXCEPT ![n] = Null],
             prev |-> [l.prev EXCEPT ![n] = Null]]
  <2>1. l = [head |-> l.head, tail |-> l.tail, size |-> l.size,
             data |-> l.data, next |-> l.next, prev |-> l.prev]
    BY DEF List
  <2>2. new = [[[l EXCEPT !.data[n] = x] EXCEPT !.next[n] = Null] EXCEPT !.prev[n] = Null]
    BY DEF NewNode
  <2>3. [l EXCEPT !.data[n] = x] =
          [head |-> l.head, tail |-> l.tail, size |-> l.size,
           data |-> [l.data EXCEPT ![n] = x], next |-> l.next, prev |-> l.prev]
    BY <2>1
  <2>4. QED
    BY <2>2, <2>3
<1>2. m = Add(new, l.tail, Null, n)
  OBVIOUS
<1> HIDE DEF new
<1>3. ASSUME l.head = Null
      PROVE  m = [head |-> n, tail |-> n, size |-> l.size + 1,
                  data |-> [l.data EXCEPT ![n] = x],
                  next |-> [l.next EXCEPT ![n] = Null],
                  prev |-> [l.prev EXCEPT ![n] = Null]]
  <2>1. m = [[new EXCEPT !.size = @ + 1] EXCEPT !.head = n, !.tail = n]
    BY <1>1, <1>2, <1>3 DEF Add
  <2>2. QED
    BY <1>1, <2>1
<1>4. ASSUME l.head # Null, l.tail # Null
      PROVE  m = [head |-> l.head, tail |-> n, size |-> l.size + 1,
                  data |-> [l.data EXCEPT ![n] = x],
                  next |-> [[l.next EXCEPT ![n] = Null] EXCEPT ![l.tail] = n],
                  prev |-> [[l.prev EXCEPT ![n] = Null] EXCEPT ![n] = l.tail]]
  <2>1. m = Behind([new EXCEPT !.size = @ + 1], l.tail, n)
    BY <1>1, <1>2, <1>4 DEF Add
  <2>2. QED
    BY <1>1, <2>1 DEF Behind
<1>5. QED
  BY <1>3, <1>4

\* ts_queue_enqueue puts a cell that is not in use behind all the others, and
\* writes only its own item.
LEMMA QueuedShape ==
  ASSUME NEW l, NEW set, NEW s, Shaped(l, set, s),
         NEW n \in Nodes \ set, NEW x \in Items,
         NEW m, m = Add(NewNode(l, n, x), l.tail, Null, n)
  PROVE  /\ Shaped(m, set \cup {n}, Longer(s, n))
         /\ \A c \in Nodes : m.data[c] = IF c = n THEN x ELSE l.data[c]
<1>1. /\ l \in List /\ set \subseteq Nodes /\ s \in Seq(Nodes) /\ n \in Nodes
      /\ Arranges(l, s) /\ Lists(s, set)
  BY DEF Shaped
<1> DEFINE t == Longer(s, n)
<1>2. /\ t \in Seq(Nodes) /\ t # <<>>
      /\ Len(s) \in Nat /\ Len(t) = Len(s) + 1
      /\ \A i \in 1..Len(s) : t[i] = s[i] /\ s[i] \in Nodes
      /\ t[Len(s) + 1] = n
  BY <1>1, AppendFacts DEF Longer
<1> HIDE DEF t
<1>3. \A i \in 1..Len(s) : s[i] # n /\ s[i] # Null
  BY <1>1, <1>2, NullAssumption DEF Lists
<1>4. n # Null
  BY <1>1, NullAssumption
<1>5. Lists(t, set \cup {n})
  <2>1. ASSUME NEW k \in 1..Len(t) PROVE t[k] \in set \cup {n}
    BY <1>1, <1>2 DEF Lists
  <2>2. ASSUME NEW c \in set \cup {n} PROVE \E k \in 1..Len(t) : t[k] = c
    BY <1>1, <1>2 DEF Lists
  <2>3. ASSUME NEW j \in 1..Len(t), NEW k \in 1..Len(t), t[j] = t[k] PROVE j = k
    BY <1>1, <1>2, <1>3, <2>3 DEF Lists
  <2>4. QED
    BY <2>1, <2>2, <2>3 DEF Lists
<1>6. CASE s = <<>>
  <2>1. l.head = Null /\ l.size = 0 /\ Len(s) = 0
    BY <1>1, <1>6 DEF Arranges
  <2>2. m = [head |-> n, tail |-> n, size |-> l.size + 1,
             data |-> [l.data EXCEPT ![n] = x],
             next |-> [l.next EXCEPT ![n] = Null],
             prev |-> [l.prev EXCEPT ![n] = Null]]
    BY <1>1, <2>1, QueuedFields
  <2>3. m \in List
    BY <1>1, <2>2 DEF List, Pointer
  <2>4. m.next[n] = Null /\ m.prev[n] = Null
    BY <1>1, <2>2 DEF List
  <2>5. Arranges(m, t)
    BY <1>2, <2>1, <2>2, <2>4 DEF Arranges
  <2>6. Shaped(m, set \cup {n}, t)
    BY <1>1, <1>2, <1>5, <2>3, <2>5 DEF Shaped
  <2>7. \A c \in Nodes : m.data[c] = IF c = n THEN x ELSE l.data[c]
    BY <1>1, <2>2 DEF List
  <2>8. QED
    BY <2>6, <2>7, Zenon DEF t
<1>7. CASE s # <<>>
  <2>1. Len(s) \in 1..Len(s)
    BY <1>1, <1>2, <1>7, NoElements
  <2>2. /\ l.head = s[1] /\ l.tail = s[Len(s)] /\ l.size = Len(s)
        /\ l.head # Null /\ l.tail # Null
    BY <1>1, <1>2, <1>3, <1>7, <2>1 DEF Arranges
  <2>3. m = [head |-> l.head, tail |-> n, size |-> l.size + 1,
             data |-> [l.data EXCEPT ![n] = x],
             next |-> [[l.next EXCEPT ![n] = Null] EXCEPT ![l.tail] = n],
             prev |-> [[l.prev EXCEPT ![n] = Null] EXCEPT ![n] = l.tail]]
    BY <1>1, <2>2, QueuedFields
  <2>4. m \in List
    BY <1>1, <2>2, <2>3 DEF List, Pointer
  <2>5. /\ m.next[n] = Null /\ m.prev[n] = s[Len(s)] /\ m.next[s[Len(s)]] = n
        /\ \A c \in Nodes : c # n => m.prev[c] = l.prev[c]
        /\ \A c \in Nodes : c # n /\ c # s[Len(s)] => m.next[c] = l.next[c]
    BY <1>1, <1>2, <1>3, <2>1, <2>2, <2>3 DEF List
  <2>6. ASSUME NEW k \in 1..Len(t)
        PROVE  /\ m.next[t[k]] = IF k = Len(t) THEN Null ELSE t[k + 1]
               /\ m.prev[t[k]] = IF k = 1 THEN Null ELSE t[k - 1]
    <3>1. CASE k = Len(s) + 1
      BY <1>2, <2>1, <2>5, <3>1
    <3>2. CASE k \in 1..Len(s)
      <4>1. t[k] = s[k] /\ s[k] \in Nodes /\ s[k] # n /\ k # Len(t)
        BY <1>2, <1>3, <3>2
      <4>2. m.prev[s[k]] = IF k = 1 THEN Null ELSE s[k - 1]
        BY <1>1, <2>5, <3>2, <4>1 DEF Arranges
      <4>3. k # 1 => t[k - 1] = s[k - 1]
        BY <1>2, <3>2
      <4>4. CASE k = Len(s)
        BY <1>2, <2>5, <4>1, <4>2, <4>3, <4>4
      <4>5. CASE k # Len(s)
        <5>1. s[k] # s[Len(s)]
          BY <1>1, <2>1, <3>2, <4>5 DEF Lists
        <5>2. m.next[s[k]] = s[k + 1] /\ t[k + 1] = s[k + 1]
          <6>1. k + 1 \in 1..Len(s)
            BY <1>2, <3>2, <4>5
          <6>2. m.next[s[k]] = l.next[s[k]]
            BY <2>5, <4>1, <5>1
          <6>3. l.next[s[k]] = s[k + 1]
            BY <1>1, <3>2, <4>5 DEF Arranges
          <6>4. QED
            BY <1>2, <6>1, <6>2, <6>3
        <5>3. QED
          BY <4>1, <4>2, <4>3, <5>2
      <4>6. QED
        BY <4>4, <4>5
    <3>3. QED
      BY <1>2, <3>1, <3>2
  <2>7. Arranges(m, t)
    BY <1>2, <2>1, <2>2, <2>3, <2>6 DEF Arranges
  <2>8. Shaped(m, set \cup {n}, t)
    BY <1>1, <1>2, <1>5, <2>4, <2>7 DEF Shaped
  <2>9. \A c \in Nodes : m.data[c] = IF c = n THEN x ELSE l.data[c]
    BY <1>1, <2>3 DEF List
  <2>10. QED
    BY <2>8, <2>9, Zenon DEF t
<1>8. QED
  BY <1>6, <1>7

\* The fields after a node has been unlinked from between its neighbours.
LEMMA UnlinkFields ==
  ASSUME NEW l \in List, NEW before \in Pointer, NEW after \in Pointer
  PROVE  Unlink(l, before, after) =
           [head |-> IF before = Null THEN after ELSE l.head,
            tail |-> IF after = Null THEN before ELSE l.tail,
            size |-> l.size - 1,
            data |-> l.data,
            next |-> [n \in Nodes |-> IF n = before THEN after ELSE l.next[n]],
            prev |-> [n \in Nodes |-> IF n = after THEN before ELSE l.prev[n]]]
<1>1. l = [head |-> l.head, tail |-> l.tail, size |-> l.size,
           data |-> l.data, next |-> l.next, prev |-> l.prev]
  BY DEF List
<1> DEFINE next == [n \in Nodes |-> IF n = before THEN after ELSE l.next[n]]
           prev == [n \in Nodes |-> IF n = after THEN before ELSE l.prev[n]]
<1>2. Unlink(l, before, after) =
        [l EXCEPT !.size = l.size - 1,
                  !.head = IF before = Null THEN after ELSE l.head,
                  !.tail = IF after = Null THEN before ELSE l.tail,
                  !.next = next, !.prev = prev]
  BY Zenon DEF Unlink, OneLess
<1> HIDE DEF next, prev
<1>3. Unlink(l, before, after) =
        [head |-> IF before = Null THEN after ELSE l.head,
         tail |-> IF after = Null THEN before ELSE l.tail,
         size |-> l.size - 1, data |-> l.data, next |-> next, prev |-> prev]
  BY <1>1, <1>2
<1>4. QED
  BY <1>3 DEF next, prev

\* l after a node has been unlinked from between its own neighbours.
Unlinked(l, n) == Unlink(l, l.prev[n], l.next[n])

\* __ts_queue_remove_nolock takes the node it is asked for out of the arrangement,
\* frees that one, and leaves the data alone.
LEMMA UnlinkShape ==
  ASSUME NEW l, NEW set, NEW s, Shaped(l, set, s), NEW k \in 1..Len(s),
         NEW n \in Nodes, n = s[k]
  PROVE  /\ l.head # Null
         /\ Between(l, l.prev[n], l.next[n]) = n
         /\ Shaped(Unlinked(l, n), set \ {n}, Without(s, k))
         /\ Unlinked(l, n).data = l.data
<1> PICK m : m = Unlinked(l, s[k])
  OBVIOUS
<1> PICK before : before = l.prev[s[k]]
  OBVIOUS
<1> PICK after : after = l.next[s[k]]
  OBVIOUS
<1>1. /\ l \in List /\ set \subseteq Nodes /\ s \in Seq(Nodes)
      /\ Arranges(l, s) /\ Lists(s, set)
  BY DEF Shaped
<1>2. Len(s) \in Nat /\ \A i \in 1..Len(s) : s[i] \in Nodes /\ s[i] # Null
  BY <1>1, LenProperties, ElementOfSeq, NullAssumption
<1>3. s # <<>> /\ l.head = s[1] /\ l.tail = s[Len(s)] /\ l.size = Len(s)
  BY <1>1, <1>2, EmptySeq DEF Arranges
<1>4. /\ before = IF k = 1 THEN Null ELSE s[k - 1]
      /\ after = IF k = Len(s) THEN Null ELSE s[k + 1]
  BY <1>1 DEF Arranges
<1>5. /\ k # 1 => k - 1 \in 1..Len(s)
      /\ k # Len(s) => k + 1 \in 1..Len(s)
      /\ 1 \in 1..Len(s) /\ Len(s) \in 1..Len(s)
  BY <1>2
<1>6. /\ before \in Pointer /\ after \in Pointer
      /\ before = Null <=> k = 1
      /\ after = Null <=> k = Len(s)
  BY <1>2, <1>4, <1>5 DEF Pointer
<1>7. m = [head |-> IF before = Null THEN after ELSE l.head,
           tail |-> IF after = Null THEN before ELSE l.tail,
           size |-> l.size - 1,
           data |-> l.data,
           next |-> [c \in Nodes |-> IF c = before THEN after ELSE l.next[c]],
           prev |-> [c \in Nodes |-> IF c = after THEN before ELSE l.prev[c]]]
  <2>1. m = Unlink(l, before, after)
    BY <1>1, Zenon DEF Unlinked
  <2>2. l \in List /\ before \in Pointer /\ after \in Pointer
    BY <1>1, <1>6
  <2>3. QED
    BY <2>1, <2>2, UnlinkFields, ZenonT(30)
<1>8. m \in List /\ m.size = Len(s) - 1 /\ m.data = l.data
  <2>1. l.size - 1 \in Nat
    BY <1>2, <1>3
  <2>2. QED
    BY <1>1, <1>3, <1>6, <1>7, <2>1 DEF List, Pointer
<1>9. Between(l, before, after) = s[k]
  <2>1. CASE k # Len(s)
    <3>1. l.prev[s[k + 1]] = s[k]
      BY <1>1, <1>2, <1>5, <2>1 DEF Arranges
    <3>2. QED
      BY <1>4, <1>6, <2>1, <3>1 DEF Between
  <2>2. CASE k = Len(s) /\ k # 1
    <3>1. l.next[s[k - 1]] = s[k]
      BY <1>1, <1>2, <1>5, <2>2 DEF Arranges
    <3>2. QED
      BY <1>4, <1>6, <2>2, <3>1 DEF Between
  <2>3. CASE k = Len(s) /\ k = 1
    BY <1>3, <1>6, <2>3 DEF Between
  <2>4. QED
    BY <2>1, <2>2, <2>3
<1> DEFINE t == Without(s, k)
<1>10. /\ t \in Seq(Nodes) /\ Len(s) - 1 \in Nat /\ Len(t) = Len(s) - 1
       /\ \A j \in 1..(Len(s) - 1) : t[j] = IF j < k THEN s[j] ELSE s[j + 1]
  BY <1>1, WithoutFacts
<1> HIDE DEF t
<1>11. Lists(t, set \ {s[k]})
  <2>1. ASSUME NEW j \in 1..Len(t)
        PROVE  \E i \in 1..Len(s) : /\ i # k /\ t[j] = s[i]
                                     /\ i = IF j < k THEN j ELSE j + 1
    BY <1>2, <1>10
  <2>2. ASSUME NEW i \in 1..Len(s), i # k PROVE \E j \in 1..Len(t) : t[j] = s[i]
    <3>1. CASE i < k
      BY <1>2, <1>10, <3>1
    <3>2. CASE i > k
      <4>1. PICK j \in 1..Len(t) : i = j + 1 /\ ~(j < k)
        BY <1>2, <1>10, <3>2
      <4>2. QED
        BY <1>10, <4>1
    <3>3. QED
      BY <2>2, <3>1, <3>2
  <2>3. ASSUME NEW j \in 1..Len(t) PROVE t[j] \in set \ {s[k]}
    BY <1>1, <2>1 DEF Lists
  <2>4. ASSUME NEW c \in set \ {s[k]} PROVE \E j \in 1..Len(t) : t[j] = c
    BY <1>1, <2>2 DEF Lists
  <2>5. ASSUME NEW i \in 1..Len(t), NEW j \in 1..Len(t), t[i] = t[j] PROVE i = j
    <3>1. PICK a \in 1..Len(s) : t[i] = s[a] /\ a = IF i < k THEN i ELSE i + 1
      BY <2>1
    <3>2. PICK b \in 1..Len(s) : t[j] = s[b] /\ b = IF j < k THEN j ELSE j + 1
      BY <2>1
    <3>3. a = b
      BY <1>1, <2>5, <3>1, <3>2 DEF Lists
    <3>4. QED
      BY <1>2, <1>10, <3>1, <3>2, <3>3
  <2>6. QED
    BY <2>3, <2>4, <2>5 DEF Lists
<1>12. /\ \A c \in Nodes : m.next[c] = IF c = before THEN after ELSE l.next[c]
       /\ \A c \in Nodes : m.prev[c] = IF c = after THEN before ELSE l.prev[c]
  BY <1>7
<1>13. /\ \A i \in 1..Len(s) : s[i] = before <=> k # 1 /\ i = k - 1
       /\ \A i \in 1..Len(s) : s[i] = after <=> k # Len(s) /\ i = k + 1
  BY <1>1, <1>2, <1>4, <1>5 DEF Lists
<1>14. ASSUME NEW j \in 1..Len(t)
       PROVE  m.next[t[j]] = IF j = Len(t) THEN Null ELSE t[j + 1]
  <2>1. CASE j < k
    <3>1. j \in 1..Len(s) /\ t[j] = s[j] /\ j # Len(s)
      BY <1>2, <1>10, <2>1
    <3>2. CASE j = k - 1
      <4>1. m.next[t[j]] = after
        BY <1>2, <1>12, <1>13, <2>1, <3>1, <3>2
      <4>2. j = Len(t) <=> k = Len(s)
        BY <1>2, <1>10, <3>2
      <4>3. k # Len(s) => t[j + 1] = s[k + 1]
        BY <1>2, <1>10, <3>2
      <4>4. QED
        BY <1>4, <4>1, <4>2, <4>3
    <3>3. CASE j # k - 1
      <4>1. m.next[t[j]] = l.next[s[j]]
        BY <1>2, <1>12, <1>13, <3>1, <3>3
      <4>2. l.next[s[j]] = s[j + 1]
        BY <1>1, <3>1 DEF Arranges
      <4>3. j # Len(t) /\ t[j + 1] = s[j + 1]
        BY <1>2, <1>10, <2>1, <3>3
      <4>4. QED
        BY <4>1, <4>2, <4>3
    <3>4. QED
      BY <3>2, <3>3
  <2>2. CASE ~(j < k)
    <3>1. PICK i \in 1..Len(s) : i = j + 1 /\ i > k /\ t[j] = s[i]
      BY <1>2, <1>10, <2>2
    <3>2. m.next[t[j]] = l.next[s[i]]
      BY <1>2, <1>12, <1>13, <3>1
    <3>3. l.next[s[i]] = IF i = Len(s) THEN Null ELSE s[i + 1]
      BY <1>1 DEF Arranges
    <3>4. i # Len(s) => t[i] = s[i + 1]
      BY <1>2, <1>10, <3>1
    <3>5. QED
      BY <1>2, <1>10, <3>1, <3>2, <3>3, <3>4
  <2>3. QED
    BY <2>1, <2>2
<1>15. ASSUME NEW j \in 1..Len(t)
       PROVE  m.prev[t[j]] = IF j = 1 THEN Null ELSE t[j - 1]
  <2>1. CASE j < k
    <3>1. j \in 1..Len(s) /\ t[j] = s[j]
      BY <1>2, <1>10, <2>1
    <3>2. m.prev[t[j]] = l.prev[s[j]]
      BY <1>2, <1>12, <1>13, <2>1, <3>1
    <3>3. l.prev[s[j]] = IF j = 1 THEN Null ELSE s[j - 1]
      BY <1>1, <3>1 DEF Arranges
    <3>4. j # 1 => t[j - 1] = s[j - 1]
      BY <1>2, <1>10, <2>1
    <3>5. QED
      BY <3>2, <3>3, <3>4
  <2>2. CASE ~(j < k)
    <3>1. PICK i \in 1..Len(s) : i = j + 1 /\ i > k /\ i # 1 /\ t[j] = s[i]
      BY <1>2, <1>10, <2>2
    <3>2. CASE j = k
      <4>1. m.prev[t[j]] = before
        BY <1>2, <1>12, <1>13, <3>1, <3>2
      <4>2. k # 1 => t[k - 1] = s[k - 1]
        BY <1>2, <1>10, <3>2
      <4>3. QED
        BY <1>4, <3>2, <4>1, <4>2
    <3>3. CASE j # k
      <4>1. m.prev[t[j]] = l.prev[s[i]]
        BY <1>2, <1>12, <1>13, <3>1, <3>3
      <4>2. l.prev[s[i]] = s[i - 1]
        BY <1>1, <3>1 DEF Arranges
      <4>3. i - 1 = j /\ j # 1
        BY <1>2, <2>2, <3>1, <3>3
      <4>4. PICK h \in 1..(Len(s) - 1) : h = j - 1 /\ h + 1 = j /\ ~(h < k)
        BY <1>2, <1>10, <2>2, <3>3, <4>3
      <4>5. t[h] = s[j]
        BY <1>10, <4>4
      <4>6. QED
        BY <4>1, <4>2, <4>3, <4>4, <4>5
    <3>4. QED
      BY <3>2, <3>3
  <2>3. QED
    BY <2>1, <2>2
<1>16. /\ m.head = IF t = <<>> THEN Null ELSE t[1]
       /\ m.tail = IF t = <<>> THEN Null ELSE t[Len(t)]
  <2>1. t = <<>> <=> Len(s) = 1
    BY <1>2, <1>10, EmptySeq, NoElements
  <2>2. CASE Len(s) = 1
    BY <1>4, <1>6, <1>7, <2>1, <2>2
  <2>3. CASE Len(s) # 1
    <3>1. t[1] = IF k = 1 THEN s[2] ELSE s[1]
      BY <1>2, <1>10, <2>3
    <3>2. t[Len(t)] = IF k = Len(s) THEN s[Len(s) - 1] ELSE s[Len(s)]
      BY <1>2, <1>10, <2>3
    <3>3. /\ m.head = IF before = Null THEN after ELSE l.head
          /\ m.tail = IF after = Null THEN before ELSE l.tail
      BY <1>7
    <3>4. k = 1 => k # Len(s) /\ after = s[2]
      BY <1>2, <1>4, <2>3
    <3>5. k = Len(s) => k # 1 /\ before = s[Len(s) - 1]
      BY <1>2, <1>4, <2>3
    <3>6. m.head = t[1]
      BY <1>3, <1>6, <3>1, <3>3, <3>4
    <3>7. m.tail = t[Len(t)]
      BY <1>3, <1>6, <3>2, <3>3, <3>5
    <3>8. QED
      BY <2>1, <2>3, <3>6, <3>7
  <2>4. QED
    BY <2>2, <2>3
<1>17. Arranges(m, t)
  BY <1>8, <1>10, <1>14, <1>15, <1>16 DEF Arranges
<1>18. Shaped(m, set \ {s[k]}, t)
  BY <1>1, <1>8, <1>10, <1>11, <1>17 DEF Shaped
<1>19. QED
  BY <1>2, <1>3, <1>5, <1>8, <1>9, <1>18 DEF t

-----------------------------------------------------------------------------
(* The items along the list.                                               *)

\* The items in the cells that s lists.
ItemsOf(l, s) == [k \in DOMAIN s |-> l.data[s[k]]]

\* They are as many as the cells, and items of the queue.
LEMMA ItemsFacts ==
  ASSUME NEW l, NEW set, NEW s, Shaped(l, set, s)
  PROVE  /\ ItemsOf(l, s) \in Seq(Items) /\ Len(ItemsOf(l, s)) = Len(s)
         /\ Len(s) \in Nat /\ DOMAIN s = 1..Len(s) /\ DOMAIN ItemsOf(l, s) = 1..Len(s)
         /\ \A k \in 1..Len(s) : ItemsOf(l, s)[k] = l.data[s[k]] /\ s[k] \in Nodes
<1>1. l.data \in [Nodes -> Items] /\ s \in Seq(Nodes)
  BY DEF Shaped, List
<1>2. Len(s) \in Nat /\ DOMAIN s = 1..Len(s) /\ \A k \in 1..Len(s) : s[k] \in Nodes
  BY <1>1, LenProperties, ElementOfSeq
<1>3. ItemsOf(l, s) = [k \in 1..Len(s) |-> l.data[s[k]]]
  BY <1>2 DEF ItemsOf
<1>4. ItemsOf(l, s) \in [1..Len(s) -> Items]
  BY <1>1, <1>2, <1>3
<1>5. ItemsOf(l, s) \in Seq(Items)
  BY <1>2, <1>4
<1>6. Len(ItemsOf(l, s)) = Len(s)
  <2>1. 1..Len(ItemsOf(l, s)) = 1..Len(s) /\ Len(ItemsOf(l, s)) \in Nat
    BY <1>3, <1>5, LenProperties
  <2>2. QED
    BY <1>2, <2>1, SameCount
<1>7. QED
  BY <1>2, <1>3, <1>5, <1>6

\* A cell queued behind the others puts its item behind theirs.
LEMMA ItemsQueued ==
  ASSUME NEW l, NEW set, NEW s, Shaped(l, set, s),
         NEW n \in Nodes \ set, NEW x \in Items,
         NEW m, \A c \in Nodes : m.data[c] = IF c = n THEN x ELSE l.data[c],
         Shaped(m, set \cup {n}, Longer(s, n))
  PROVE  ItemsOf(m, Longer(s, n)) = Longer(ItemsOf(l, s), x)
<1>1. /\ ItemsOf(l, s) \in Seq(Items) /\ Len(ItemsOf(l, s)) = Len(s) /\ Len(s) \in Nat
      /\ \A k \in 1..Len(s) : ItemsOf(l, s)[k] = l.data[s[k]] /\ s[k] \in Nodes
  BY ItemsFacts
<1> DEFINE t == Longer(s, n)
           before == ItemsOf(l, s)
           after == ItemsOf(m, t)
           longer == Longer(before, x)
<1>2. /\ Len(t) = Len(s) + 1 /\ t[Len(s) + 1] = n
      /\ \A k \in 1..Len(s) : t[k] = s[k]
  BY AppendFacts DEF Shaped, Longer
<1>3. /\ after \in Seq(Items) /\ Len(after) = Len(t)
      /\ \A k \in 1..Len(t) : after[k] = m.data[t[k]]
  BY ItemsFacts
<1>4. /\ longer \in Seq(Items) /\ Len(longer) = Len(s) + 1
      /\ \A k \in 1..Len(s) : longer[k] = before[k]
      /\ longer[Len(s) + 1] = x
  BY <1>1, AppendFacts DEF Longer
<1>5. l.data \in [Nodes -> Items] /\ \A k \in 1..Len(s) : s[k] # n
  BY <1>1 DEF Shaped, List, Lists
<1> HIDE DEF t, before, after, longer
<1>6. ASSUME NEW k \in 1..(Len(s) + 1) PROVE after[k] = longer[k]
  <2>1. CASE k \in 1..Len(s)
    <3>1. after[k] = m.data[s[k]]
      <4>1. k \in 1..Len(t) /\ t[k] = s[k]
        BY <1>1, <1>2, <2>1
      <4>2. QED
        BY <1>3, <4>1
    <3>2. m.data[s[k]] = l.data[s[k]]
      BY <1>1, <1>5, <2>1
    <3>3. longer[k] = l.data[s[k]]
      BY <1>1, <1>4, <2>1 DEF before
    <3>4. QED
      BY <3>1, <3>2, <3>3
  <2>2. CASE k = Len(s) + 1
    BY <1>2, <1>3, <1>4, <1>5, <2>2
  <2>3. QED
    BY <1>1, <2>1, <2>2
<1>7. after = longer
  BY <1>2, <1>3, <1>4, <1>6, SeqEqual
<1>8. QED
  BY <1>7 DEF after, longer, before, t

\* A cell that is unlinked takes its item along.
LEMMA ItemsUnlinked ==
  ASSUME NEW l, NEW set, NEW s, Shaped(l, set, s), NEW k \in 1..Len(s),
         NEW m, m.data = l.data, Shaped(m, set \ {s[k]}, Without(s, k))
  PROVE  ItemsOf(m, Without(s, k)) = RemoveAt(ItemsOf(l, s), k)
<1>1. /\ ItemsOf(l, s) \in Seq(Items) /\ Len(ItemsOf(l, s)) = Len(s) /\ Len(s) \in Nat
      /\ \A j \in 1..Len(s) : ItemsOf(l, s)[j] = l.data[s[j]]
  BY ItemsFacts
<1> DEFINE t == Without(s, k)
           before == ItemsOf(l, s)
           after == ItemsOf(m, t)
           shorter == Without(before, k)
<1>2. /\ Len(t) = Len(s) - 1
      /\ \A j \in 1..(Len(s) - 1) : t[j] = IF j < k THEN s[j] ELSE s[j + 1]
  BY WithoutFacts DEF Shaped
<1>3. /\ after \in Seq(Items) /\ Len(after) = Len(t)
      /\ \A j \in 1..Len(t) : after[j] = m.data[t[j]]
  BY ItemsFacts
<1>4. /\ before \in Seq(Items) /\ k \in 1..Len(before)
  BY <1>1
<1>5. RemoveAt(before, k) = shorter
  BY <1>4, RemoveAtFacts
<1>6. /\ shorter \in Seq(Items) /\ Len(shorter) = Len(s) - 1
      /\ \A j \in 1..(Len(s) - 1) : shorter[j] = IF j < k THEN before[j] ELSE before[j + 1]
  BY <1>1, <1>4, WithoutFacts
<1> HIDE DEF t, after, shorter
<1>7. ASSUME NEW j \in 1..(Len(s) - 1) PROVE after[j] = shorter[j]
  <2>1. j \in 1..Len(s) /\ j + 1 \in 1..Len(s)
    BY <1>1
  <2>2. after[j] = l.data[t[j]]
    BY <1>2, <1>3
  <2>3. QED
    BY <1>1, <1>2, <1>6, <2>1, <2>2
<1>8. after = shorter
  BY <1>1, <1>2, <1>3, <1>6, <1>7, SeqEqual
<1>9. QED
  BY <1>5, <1>8 DEF after, t

-----------------------------------------------------------------------------
(* The specification.                                                      *)

\* The cells in use are the ones met from head to tail.
Arranged == \E s : Shaped(list, allocated, s)

ListInv == TypeOK /\ Arranged

\* What FifoQueue calls its line.
Line == [k \in DOMAIN Order |-> list.data[Order[k]]]

\* A walk meets the cells in use, whatever the list.
LEMMA MetInOrder ==
  ASSUME NEW l, NEW set, NEW s, Shaped(l, set, s)
  PROVE  CellsMet(CHOOSE f : Walks(f, l.head, l.next, Cardinality(Nodes))) = s
<1>1. s \in Seq(Nodes) /\ Arranges(l, s) /\ Lists(s, set) /\ set \subseteq Nodes
  BY DEF Shaped
<1>2. /\ IsFiniteSet(set) /\ Cardinality(set) <= Cardinality(Nodes)
      /\ Cardinality(Nodes) \in Nat
  BY <1>1, NodesAssumption, FS_Subset, FS_CardinalityType
<1>3. Len(s) = Cardinality(set)
  BY <1>1, <1>2, ListsAll
<1>4. QED
  BY <1>1, <1>2, <1>3, WalkGives

\* Order is the arrangement, and so Line is its items.
LEMMA OrderIs ==
  ASSUME NEW s, Shaped(list, allocated, s)
  PROVE  Order = s /\ Line = ItemsOf(list, s)
<1>1. CellsMet(CHOOSE f : Walks(f, list.head, list.next, Cardinality(Nodes))) = s
  BY MetInOrder
<1>2. Order = s
  BY <1>1, Zenon DEF Order, Walk, CellsMet, Walks
<1>3. QED
  BY <1>2 DEF Line, ItemsOf

\* The same of the next state.
LEMMA OrderBecomes ==
  ASSUME NEW s, Shaped(list', allocated', s)
  PROVE  Line' = ItemsOf(list', s)
<1>1. CellsMet(CHOOSE f : Walks(f, (list').head, (list').next, Cardinality(Nodes))) = s
  BY MetInOrder
<1>2. Order' = s
  BY <1>1, Zenon DEF Order, Walk, CellsMet, Walks
<1>3. QED
  BY <1>2 DEF Line, ItemsOf

\* A step that leaves the list alone leaves the line alone.
LEMMA ListStays ==
  ASSUME ListInv, UNCHANGED <<list, allocated>>
  PROVE  Arranged' /\ Line' = Line
<1>1. PICK s : Shaped(list, allocated, s)
  BY DEF ListInv, Arranged
<1>2. Shaped(list', allocated', s) /\ list' = list
  BY <1>1
<1>3. Line = ItemsOf(list, s) /\ Line' = ItemsOf(list', s)
  BY <1>1, <1>2, OrderIs, OrderBecomes
<1>4. QED
  BY <1>2, <1>3 DEF Arranged

\* Removing the node at some place of the order.
LEMMA NodeGoes ==
  ASSUME ListInv, NEW s, Shaped(list, allocated, s), NEW k \in 1..Len(s),
         RemoveNolock(list.prev[s[k]], list.next[s[k]])
  PROVE  /\ Arranged'
         /\ k \in DOMAIN Line /\ Line[k] = list.data[s[k]]
         /\ Line' = RemoveAt(Line, k)
<1> DEFINE n == s[k]
<1>1. /\ list.head # Null
      /\ Between(list, list.prev[n], list.next[n]) = n
      /\ Shaped(Unlinked(list, n), allocated \ {n}, Without(s, k))
      /\ Unlinked(list, n).data = list.data
  <2>1. n \in Nodes /\ n = s[k]
    BY ItemsFacts
  <2> HIDE DEF n
  <2>2. QED
    BY <2>1, UnlinkShape
<1>2. list' = Unlinked(list, s[k]) /\ allocated' = allocated \ {s[k]}
  BY <1>1, Zenon DEF RemoveNolock, Unlinked
<1>3. Shaped(list', allocated', Without(s, k))
  BY <1>1, <1>2
<1>4. Line' = ItemsOf(list', Without(s, k))
  BY <1>3, OrderBecomes
<1>5. Line = ItemsOf(list, s)
  BY OrderIs
<1>6. ItemsOf(list', Without(s, k)) = RemoveAt(ItemsOf(list, s), k)
  BY <1>1, <1>2, ItemsUnlinked
<1>7. k \in DOMAIN Line /\ Line[k] = list.data[s[k]]
  BY <1>5, ItemsFacts
<1>8. QED
  BY <1>3, <1>4, <1>5, <1>6, <1>7 DEF Arranged

\* Queueing a cell that was not in use.
LEMMA NodeComes ==
  ASSUME ListInv, NEW n \in Nodes \ allocated, NEW x \in Items,
         list' = Queued(n, x), allocated' = allocated \cup {n}
  PROVE  Arranged' /\ Line' = Append(Line, x)
<1>1. PICK s : Shaped(list, allocated, s)
  BY DEF ListInv, Arranged
<1>2. list' = Add(NewNode(list, n, x), list.tail, Null, n)
  BY DEF Queued
<1>3. /\ Shaped(list', allocated \cup {n}, Longer(s, n))
      /\ \A c \in Nodes : (list').data[c] = IF c = n THEN x ELSE list.data[c]
  BY <1>1, <1>2, QueuedShape
<1>4. Shaped(list', allocated', Longer(s, n))
  BY <1>3
<1>5. Line' = ItemsOf(list', Longer(s, n)) /\ Line = ItemsOf(list, s)
  BY <1>1, <1>4, OrderIs, OrderBecomes
<1>6. ItemsOf(list', Longer(s, n)) = Longer(ItemsOf(list, s), x)
  BY <1>1, <1>3, ItemsQueued
<1>7. QED
  BY <1>4, <1>5, <1>6 DEF Arranged, Longer

\* The parts of the state a call has for itself stay in their types.
LEMMA CallTypes ==
  ASSUME ListInv, NEW t \in Threads, NEW f \in {"idle", "enqueue", "dequeue", "drop", "remove", "relock"},
         pc' = [pc EXCEPT ![t] = f], NEW x \in Items, arg' = [arg EXCEPT ![t] = x],
         mutex' \in {mutex, t}, Arranged'
  PROVE  ListInv'
<1>1. list' \in List /\ allocated' \subseteq Nodes
  BY DEF Arranged, Shaped
<1>2. pc' \in [Threads -> {"idle", "enqueue", "dequeue", "drop", "remove", "relock"}]
  BY DEF ListInv, TypeOK
<1>3. arg' \in [Threads -> Items] /\ mutex' \in Threads \cup {Nobody}
  BY DEF ListInv, TypeOK
<1>4. QED
  BY <1>1, <1>2, <1>3 DEF ListInv, TypeOK

\* ts_queue_new makes an empty list.
LEMMA StartsEmpty == Init => ListInv /\ Line = <<>>
<1> SUFFICES ASSUME Init PROVE ListInv /\ Line = <<>>
  OBVIOUS
<1>1. AnyItem \in Items
  BY ItemsAssumption DEF AnyItem
<1>2. TypeOK
  BY <1>1 DEF Init, TypeOK, List, Pointer
<1>3. Shaped(list, allocated, <<>>)
  BY <1>2 DEF Init, TypeOK, Shaped, Arranges, Lists
<1>4. Line = ItemsOf(list, <<>>)
  BY <1>3, OrderIs
<1>5. ItemsOf(list, <<>>) = <<>>
  BY <1>3, ItemsFacts, NoElements
<1>6. QED
  BY <1>2, <1>3, <1>4, <1>5 DEF ListInv, Arranged

\* A call that begins touches no list.
LEMMA CallKeeps ==
  ASSUME ListInv, NEW t \in Threads, NEW f \in Calls, NEW x \in Items, Call(t, f, x)
  PROVE  ListInv' /\ Line' = Line
<1>1. Arranged' /\ Line' = Line
  BY ListStays DEF Call
<1>2. f \in {"idle", "enqueue", "dequeue", "drop", "remove", "relock"}
  BY CallsAssumption
<1>3. QED
  BY <1>1, <1>2, CallTypes DEF Call

\* ts_queue_enqueue puts the item at the end of the line.
LEMMA EnqueueAppends ==
  ASSUME ListInv, NEW t \in Threads, Enqueue(t)
  PROVE  ListInv' /\ arg[t] \in Items /\ Line' = Append(Line, arg[t])
<1>1. arg[t] \in Items /\ AnyItem \in Items
  BY ItemsAssumption DEF ListInv, TypeOK, AnyItem
<1>2. PICK n \in Nodes \ allocated : list' = Queued(n, arg[t]) /\ allocated' = allocated \cup {n}
  BY DEF Enqueue
<1>3. Arranged' /\ Line' = Append(Line, arg[t])
  BY <1>1, <1>2, NodeComes
<1>4. ListInv'
  BY <1>1, <1>3, CallTypes DEF Enqueue, Locked, Returns
<1>5. QED
  BY <1>1, <1>3, <1>4

\* ts_queue_dequeue takes the front of the line, when there is one.
LEMMA DequeueTakesFront ==
  ASSUME ListInv, NEW t \in Threads, Dequeue(t)
  PROVE  ListInv' /\ (Line' = Line \/ (Line # <<>> /\ Line' = RemoveAt(Line, 1)))
<1>1. AnyItem \in Items
  BY ItemsAssumption DEF AnyItem
<1>2. PICK s : Shaped(list, allocated, s)
  BY DEF ListInv, Arranged
<1>3. CASE list.head = Null
  <2>1. Arranged' /\ Line' = Line
    BY <1>3, ListStays DEF Dequeue
  <2>2. QED
    BY <1>1, <2>1, CallTypes DEF Dequeue, Locked, Returns
<1>4. CASE list.head # Null
  <2>1. 1 \in 1..Len(s) /\ list.head = s[1] /\ list.prev[s[1]] = Null
    <3>1. s \in Seq(Nodes) /\ Arranges(list, s)
      BY <1>2 DEF Shaped
    <3>2. s # <<>>
      BY <1>4, <3>1 DEF Arranges
    <3>3. 1 \in 1..Len(s)
      BY <3>1, <3>2, TailFacts
    <3>4. QED
      BY <3>1, <3>2, <3>3 DEF Arranges
  <2>2. RemoveNolock(list.prev[s[1]], list.next[s[1]])
    BY <1>4, <2>1 DEF Dequeue
  <2>3. Arranged' /\ 1 \in DOMAIN Line /\ Line' = RemoveAt(Line, 1)
    BY <1>2, <2>1, <2>2, NodeGoes
  <2>4. ListInv'
    BY <1>1, <2>3, CallTypes DEF Dequeue, Locked, Returns
  <2>5. Line # <<>>
    BY <2>3
  <2>6. QED
    BY <2>3, <2>4, <2>5
<1>5. QED
  BY <1>3, <1>4

\* server_handle_disconnection gives up one place where the item stands, or
\* leaves the line alone.
LEMMA DropTakesOne ==
  ASSUME ListInv, NEW t \in Threads, Drop(t)
  PROVE  /\ ListInv' /\ arg[t] \in Items
         /\ \/ Line' = Line
            \/ \E k \in DOMAIN Line : Line[k] = arg[t] /\ Line' = RemoveAt(Line, k)
<1>1. arg[t] \in Items /\ AnyItem \in Items
  BY ItemsAssumption DEF ListInv, TypeOK, AnyItem
<1>2. PICK s : Shaped(list, allocated, s)
  BY DEF ListInv, Arranged
<1>3. Order = s /\ DOMAIN s = 1..Len(s)
  BY <1>2, OrderIs, ItemsFacts
<1>4. CASE UNCHANGED <<list, allocated>>
  <2>1. Arranged' /\ Line' = Line
    BY <1>4, ListStays
  <2>2. QED
    BY <1>1, <2>1, CallTypes DEF Drop, Locked, Returns
<1>5. CASE \E k \in DOMAIN Order : /\ list.data[Order[k]] = arg[t]
                                  /\ RemoveNolock(list.prev[Order[k]], list.next[Order[k]])
  <2>1. PICK k \in 1..Len(s) : /\ list.data[s[k]] = arg[t]
                               /\ RemoveNolock(list.prev[s[k]], list.next[s[k]])
    BY <1>3, <1>5
  <2>2. /\ Arranged' /\ k \in DOMAIN Line /\ Line[k] = list.data[s[k]]
        /\ Line' = RemoveAt(Line, k)
    BY <1>2, <2>1, NodeGoes
  <2>3. ListInv'
    BY <1>1, <2>2, CallTypes DEF Drop, Locked, Returns
  <2>4. QED
    BY <1>1, <2>1, <2>2, <2>3
<1>6. QED
  BY <1>4, <1>5 DEF Drop

\* ts_queue_remove, as far as it gets, gives up the place of the node it is given.
LEMMA RemoveTakesOne ==
  ASSUME ListInv, NEW t \in Threads, RemoveRelocking(t)
  PROVE  /\ ListInv'
         /\ \/ Line' = Line
            \/ \E x \in Items : \E k \in DOMAIN Line : Line[k] = x /\ Line' = RemoveAt(Line, k)
<1>1. AnyItem \in Items
  BY ItemsAssumption DEF AnyItem
<1>2. PICK s : Shaped(list, allocated, s)
  BY DEF ListInv, Arranged
<1>3. CASE allocated = {} /\ RemoveNolock(Null, Null)
  <2>1. Len(s) = 0
    <3>1. s \in Seq(Nodes) /\ Lists(s, {})
      BY <1>2, <1>3 DEF Shaped
    <3>2. QED
      BY <3>1, LenProperties DEF Lists
  <2>2. list.head = Null
    BY <1>2, <2>1, NoElements DEF Shaped, Arranges
  <2>3. Arranged' /\ Line' = Line
    BY <1>3, <2>2, ListStays DEF RemoveNolock
  <2>4. QED
    BY <1>1, <2>3, CallTypes DEF RemoveRelocking, Locked
<1>4. CASE \E n \in allocated : RemoveNolock(list.prev[n], list.next[n])
  <2>1. PICK n \in allocated : RemoveNolock(list.prev[n], list.next[n])
    BY <1>4
  <2>2. PICK k \in 1..Len(s) : s[k] = n
    BY <1>2, <2>1 DEF Shaped, Lists
  <2>3. /\ Arranged' /\ k \in DOMAIN Line /\ Line[k] = list.data[s[k]]
        /\ Line' = RemoveAt(Line, k)
    BY <1>2, <2>1, <2>2, NodeGoes
  <2>4. list.data[s[k]] \in Items
    BY <1>2, <2>2, ItemsFacts DEF Shaped, List
  <2>5. ListInv'
    BY <1>1, <2>3, CallTypes DEF RemoveRelocking, Locked
  <2>6. QED
    BY <2>3, <2>4, <2>5
<1>5. QED
  BY <1>3, <1>4 DEF RemoveRelocking

-----------------------------------------------------------------------------
(* The theorems.                                                           *)

\* Taking the front is removing at the first place.
LEMMA FrontIsFirst ==
  ASSUME NEW s \in Seq(Items), s # <<>>
  PROVE  RemoveAt(s, 1) = Tail(s)
<1>1. /\ Tail(s) \in Seq(Items) /\ Len(Tail(s)) = Len(s) - 1
      /\ Len(s) \in Nat /\ 1 \in 1..Len(s)
      /\ \A i \in 1..(Len(s) - 1) : Tail(s)[i] = s[i + 1]
  BY TailFacts
<1>2. /\ Without(s, 1) \in Seq(Items) /\ Len(Without(s, 1)) = Len(s) - 1
      /\ \A j \in 1..(Len(s) - 1) : Without(s, 1)[j] = s[j + 1]
  <2>1. /\ Without(s, 1) \in Seq(Items) /\ Len(Without(s, 1)) = Len(s) - 1
        /\ \A j \in 1..(Len(s) - 1) : Without(s, 1)[j] = IF j < 1 THEN s[j] ELSE s[j + 1]
    BY <1>1, WithoutFacts
  <2>2. \A j \in 1..(Len(s) - 1) : ~(j < 1)
    BY <1>1
  <2>3. QED
    BY <2>1, <2>2, Zenon
<1> DEFINE u == Without(s, 1)
           v == Tail(s)
<1>3. RemoveAt(s, 1) = u
  BY <1>1, RemoveAtFacts
<1>4. /\ u \in Seq(Items) /\ v \in Seq(Items) /\ Len(u) = Len(v)
      /\ \A i \in 1..Len(u) : u[i] = v[i]
  BY <1>1, <1>2, Zenon
<1> HIDE DEF u, v
<1>5. u = v
  BY <1>4, SeqEqual
<1>6. QED
  BY <1>3, <1>5 DEF v

\* Every step keeps the invariant, and is a step of FifoQueue or none at all.
LEMMA StepKeeps ==
  ASSUME ListInv, [Next]_vars
  PROVE  ListInv' /\ (Fifo!Next \/ Line' = Line)
<1>1. Line \in Seq(Items)
  <2>1. PICK s : Shaped(list, allocated, s)
    BY DEF ListInv, Arranged
  <2>2. QED
    BY <2>1, OrderIs, ItemsFacts
<1>2. ASSUME NEW t \in Threads, NEW f \in Calls, NEW x \in Items, Call(t, f, x)
      PROVE  ListInv' /\ Line' = Line
  BY <1>2, CallKeeps
<1>3. ASSUME NEW t \in Threads, Enqueue(t) PROVE ListInv' /\ Fifo!Next
  <2>1. ListInv' /\ arg[t] \in Items /\ Line' = Append(Line, arg[t])
    BY <1>3, EnqueueAppends
  <2>2. QED
    BY <2>1, Zenon DEF Fifo!Next, Fifo!Enqueue, Line
<1>4. ASSUME NEW t \in Threads, Dequeue(t) PROVE ListInv' /\ (Fifo!Next \/ Line' = Line)
  <2>1. ListInv' /\ (Line' = Line \/ (Line # <<>> /\ Line' = RemoveAt(Line, 1)))
    BY <1>4, DequeueTakesFront
  <2>2. Line # <<>> => RemoveAt(Line, 1) = Tail(Line)
    BY <1>1, FrontIsFirst
  <2>3. QED
    BY <2>1, <2>2, Zenon DEF Fifo!Next, Fifo!Dequeue, Line
<1>5. ASSUME NEW t \in Threads, Drop(t) PROVE ListInv' /\ (Fifo!Next \/ Line' = Line)
  <2>1. /\ ListInv' /\ arg[t] \in Items
        /\ \/ Line' = Line
           \/ \E k \in DOMAIN Line : Line[k] = arg[t] /\ Line' = RemoveAt(Line, k)
    BY <1>5, DropTakesOne
  <2>2. QED
    BY <2>1, Zenon DEF Fifo!Next, Fifo!Drop, Line, RemoveAt, Fifo!RemoveAt
<1>6. ASSUME NEW t \in Threads, RemoveRelocking(t) PROVE ListInv' /\ (Fifo!Next \/ Line' = Line)
  <2>1. /\ ListInv'
        /\ \/ Line' = Line
           \/ \E x \in Items : \E k \in DOMAIN Line : Line[k] = x /\ Line' = RemoveAt(Line, k)
    BY <1>6, RemoveTakesOne
  <2>2. QED
    BY <2>1, Zenon DEF Fifo!Next, Fifo!Drop, Line, RemoveAt, Fifo!RemoveAt
<1>7. ASSUME UNCHANGED vars PROVE ListInv' /\ Line' = Line
  <2>1. Arranged' /\ Line' = Line
    BY <1>7, ListStays DEF vars
  <2>2. QED
    BY <1>7, <2>1 DEF ListInv, TypeOK, vars
<1>8. QED
  BY <1>2, <1>3, <1>4, <1>5, <1>6, <1>7 DEF Next, Body

\* Every reachable state is in the invariant.
LEMMA AlwaysArranged == Spec => []ListInv
<1>1. Init => ListInv
  BY StartsEmpty
<1>2. ListInv /\ [Next]_vars => ListInv'
  BY StepKeeps
<1>3. QED
  BY <1>1, <1>2, PTL DEF Spec

\* TypeOK of TSQueue: in particular size never drops below zero, and a pointer is
\* a cell or null, whichever functions the threads call.
THEOREM TypeCorrect == Spec => []TypeOK
<1>1. ListInv => TypeOK
  BY DEF ListInv
<1>2. QED
  BY <1>1, AlwaysArranged, PTL

\* WellLinked of TSQueue: head, tail, size, next and prev agree on one arrangement
\* of exactly the cells in use, for any number of threads and cells, in whatever
\* order freed cells are handed out again.
THEOREM AlwaysLinked == Spec => []WellLinked
<1>1. ListInv => WellLinked
  <2> SUFFICES ASSUME ListInv PROVE WellLinked
    OBVIOUS
  <2>1. PICK s : Shaped(list, allocated, s)
    BY DEF ListInv, Arranged
  <2>2. /\ s \in Seq(Nodes) /\ Arranges(list, s) /\ Lists(s, allocated)
        /\ allocated \subseteq Nodes
    BY <2>1 DEF Shaped
  <2>3. IsFiniteSet(allocated)
    BY <2>2, NodesAssumption, FS_Subset
  <2>4. s \in SetToSeqs(allocated)
    BY <2>2, <2>3, ListsAll
  <2>5. DOMAIN s = 1..Len(s)
    BY <2>1, ItemsFacts
  <2>6. LinkedAs(s)
    BY <2>2, <2>5 DEF LinkedAs, Arranges
  <2>7. QED
    BY <2>4, <2>6 DEF WellLinked
<1>2. QED
  BY <1>1, AlwaysArranged, PTL

\* ActsAsFifo of TSQueue, the refinement of FifoQueue: whatever the threads call and
\* however cells are reused, the items along the list change only as those of a
\* first-in-first-out line do ("Thread safe FIFO queue", ts_queue.h).
THEOREM IsFifo == Spec => ActsAsFifo
<1>1. Init => Fifo!Init
  BY StartsEmpty, Zenon DEF Fifo!Init, Line
<1>2. ListInv /\ [Next]_vars => [Fifo!Next]_Line
  BY StepKeeps
<1>3. ListInv /\ [Next]_vars => [Fifo!Next]_([k \in DOMAIN Order |-> list.data[Order[k]]])
  BY <1>2, Zenon DEF Line
<1>4. QED
  BY <1>1, <1>3, AlwaysArranged, PTL DEF Spec, ActsAsFifo, Fifo!Spec
=============================================================================
