-------------------------- MODULE MatchmakingProofs --------------------------
(***************************************************************************)
(* Theorems about Matchmaking, for any set of clients and any faults:      *)
(* type correctness, one place per client, no lost wakeup, and that the    *)
(* threads together implement FifoPairing.                                 *)
(***************************************************************************)
EXTENDS Matchmaking, SequenceTheorems, TLAPS

-----------------------------------------------------------------------------
(* The queue and the room list after one step, stated once.                *)

\* Appending to a sequence keeps its old elements and adds one at the end.
LEMMA AppendFacts ==
  ASSUME NEW S, NEW s \in Seq(S), NEW e \in S
  PROVE  /\ Append(s, e) \in Seq(S)
         /\ Len(Append(s, e)) = Len(s) + 1
         /\ DOMAIN s = 1..Len(s)
         /\ DOMAIN Append(s, e) = 1..(Len(s) + 1)
         /\ \A i \in 1..Len(s) : Append(s, e)[i] = s[i]
         /\ Append(s, e)[Len(s) + 1] = e
BY AppendProperties, LenProperties

\* Taking the first two elements off a sequence shifts the others by two.
LEMMA DropTwoFacts ==
  ASSUME NEW S, NEW s \in Seq(S), Len(s) >= 2
  PROVE  /\ SubSeq(s, 3, Len(s)) \in Seq(S)
         /\ Len(SubSeq(s, 3, Len(s))) = Len(s) - 2
         /\ DOMAIN s = 1..Len(s)
         /\ DOMAIN SubSeq(s, 3, Len(s)) = 1..(Len(s) - 2)
         /\ \A i \in 1..(Len(s) - 2) : SubSeq(s, 3, Len(s))[i] = s[i + 2]
         /\ s[1] \in S /\ s[2] \in S
<1>1. Len(s) \in Nat /\ DOMAIN s = 1..Len(s) /\ \A i \in 1..Len(s) : s[i] \in S
  BY LenProperties, ElementOfSeq
<1>2. /\ SubSeq(s, 3, Len(s)) \in Seq(S)
      /\ Len(SubSeq(s, 3, Len(s))) = IF 3 <= Len(s) THEN Len(s) - 3 + 1 ELSE 0
      /\ \A i \in 1..(Len(s) - 3 + 1) : SubSeq(s, 3, Len(s))[i] = s[3 + i - 1]
  <2>1. \A i \in 3..Len(s) : s[i] \in S
    BY <1>1
  <2>2. QED
    BY <1>1, <2>1, SubSeqProperties
<1>3. Len(SubSeq(s, 3, Len(s))) = Len(s) - 2
  BY <1>1, <1>2
<1>4. DOMAIN SubSeq(s, 3, Len(s)) = 1..(Len(s) - 2)
  BY <1>2, <1>3, LenProperties
<1>5. \A i \in 1..(Len(s) - 2) : SubSeq(s, 3, Len(s))[i] = s[i + 2]
  BY <1>1, <1>2
<1>6. QED
  BY <1>1, <1>2, <1>3, <1>4, <1>5

\* The room CreateRoom builds is a room.
LEMMA NewRoomType ==
  ASSUME NEW a \in Clients, NEW b \in Clients
  PROVE  /\ <<a, b>> \in [Seats -> Clients]
         /\ [id |-> a, clients |-> <<a, b>>, is_disbanded |-> FALSE] \in Room
<1>1. <<a, b>> \in [Seats -> Clients]
  BY DEF Seats, ROOM_SIZE
<1>2. QED
  BY <1>1 DEF Room

\* Removing one element of a queue leaves a queue, one shorter.
LEMMA RemoveAtFacts ==
  ASSUME NEW S, NEW s \in Seq(S), NEW n \in DOMAIN s
  PROVE  /\ RemoveAt(s, n) \in Seq(S)
         /\ Len(RemoveAt(s, n)) = Len(s) - 1
<1>1. Len(s) \in Nat /\ n \in 1..Len(s) /\ \A i \in 1..Len(s) : s[i] \in S
  BY LenProperties, ElementOfSeq
<1>2. SubSeq(s, 1, n - 1) \in Seq(S) /\ Len(SubSeq(s, 1, n - 1)) = n - 1
  <2>1. \A i \in 1..(n - 1) : s[i] \in S
    BY <1>1
  <2>2. QED
    BY <1>1, <2>1, SubSeqProperties
<1>3. /\ SubSeq(s, n + 1, Len(s)) \in Seq(S)
      /\ Len(SubSeq(s, n + 1, Len(s))) = Len(s) - n
  <2>1. \A i \in (n + 1)..Len(s) : s[i] \in S
    BY <1>1
  <2>2. QED
    BY <1>1, <2>1, SubSeqProperties
<1>4. DEFINE front == SubSeq(s, 1, n - 1)
             back == SubSeq(s, n + 1, Len(s))
<1>5. front \o back \in Seq(S) /\ Len(front \o back) = Len(front) + Len(back)
  <2> HIDE DEF front, back
  <2>1. front \in Seq(S) /\ back \in Seq(S)
    BY <1>2, <1>3 DEF front, back
  <2>2. QED
    BY <2>1, ConcatProperties
<1>6. RemoveAt(s, n) = front \o back
  BY DEF RemoveAt
<1>7. Len(front) = n - 1 /\ Len(back) = Len(s) - n
  BY <1>2, <1>3
<1>8. QED
  <2> HIDE DEF front, back
  <2>1. QED
    BY <1>1, <1>5, <1>6, <1>7, SMTT(30)

-----------------------------------------------------------------------------
(* Type correctness.                                                       *)

\* Every variable keeps its type, whatever fails and whoever is scheduled.
THEOREM TypeCorrect == Spec => []TypeOK
<1>1. Init => TypeOK
  <2>1. ASSUME Init PROVE conn \in Clients
    BY <2>1, ClientsAssumption DEF Init
  <2>2. QED
    BY <2>1, EmptySeq DEF Init, TypeOK
<1>2. TypeOK /\ [Next]_vars => TypeOK'
  <2> SUFFICES ASSUME TypeOK, [Next]_vars PROVE TypeOK'
    OBVIOUS
  <2> USE DEF TypeOK, acceptorVars, gameVars
  <2>1. ASSUME NEW c \in Clients, Accept(c) PROVE TypeOK'
    BY <2>1 DEF Accept
  <2>2. CASE Enqueue
    BY <2>2, AppendFacts DEF Enqueue, Queued
  <2>3. CASE PrintQueue
    BY <2>3 DEF PrintQueue
  <2>4. CASE SpawnConnThread
    BY <2>4 DEF SpawnConnThread
  <2>5. CASE ConnMallocFails
    BY <2>5 DEF ConnMallocFails
  <2>6. ASSUME NEW c \in Clients, Signal(c) PROVE TypeOK'
    BY <2>6 DEF Signal, Woken
  <2>7. CASE MatcherLock
    BY <2>7 DEF MatcherLock
  <2>8. CASE MatcherTest
    BY <2>8 DEF MatcherTest, MustWait
  <2>9. CASE MatcherReacquire
    BY <2>9 DEF MatcherReacquire
  <2>10. CASE CreateRoom
    <3>1. Len(clientsQ) >= 2
      BY <2>10 DEF CreateRoom, NewRoom, Unmatched, ROOM_SIZE
    <3>2. /\ clientsQ[1] \in Clients /\ clientsQ[2] \in Clients
          /\ SubSeq(clientsQ, 3, Len(clientsQ)) \in Seq(Clients)
      BY <3>1, DropTwoFacts
    <3>3. rooms' \in Seq(Room)
      BY <2>10, <3>2, NewRoomType, AppendFacts DEF CreateRoom, NewRoom
    <3>4. clientsQ' \in Seq(Clients)
      BY <2>10, <3>2 DEF CreateRoom, NewRoom, Unmatched, ROOM_SIZE
    <3>5. QED
      BY <2>10, <3>3, <3>4 DEF CreateRoom
  <2>11. CASE RoomMallocFails
    BY <2>11 DEF RoomMallocFails
  <2>12. CASE MatcherUnlock
    BY <2>12 DEF MatcherUnlock
  <2>13. CASE SpuriousWakeup
    BY <2>13 DEF SpuriousWakeup
  <2>14. ASSUME NEW i \in DOMAIN rooms, NEW c \in Clients, SendFails(i, c)
         PROVE  TypeOK'
    BY <2>14 DEF SendFails
  <2>15. ASSUME NEW i \in DOMAIN rooms, NEW c \in Clients, NEW b \in BOOLEAN,
                HandleDisconnection(i, c, b)
         PROVE  TypeOK'
    <3>1. clientsQ' \in Seq(Clients)
      BY <2>15, RemoveAtFacts DEF HandleDisconnection
    <3>2. rooms' \in Seq(Room)
      <4>1. rooms[i] \in Room /\ i \in 1..Len(rooms)
        BY LenProperties, ElementOfSeq
      <4>2. [rooms[i] EXCEPT !.is_disbanded = @ \/ b] \in Room
        BY <4>1 DEF Room
      <4>3. rooms' = [rooms EXCEPT ![i] = [rooms[i] EXCEPT !.is_disbanded = @ \/ b]]
        BY <2>15, <4>1 DEF HandleDisconnection
      <4>4. QED
        BY <4>1, <4>2, <4>3, ExceptSeq
    <3>3. QED
      BY <2>15, <3>1, <3>2 DEF HandleDisconnection
  <2>16. CASE UNCHANGED vars
    BY <2>16 DEF vars
  <2>17. QED
    BY <2>1, <2>2, <2>3, <2>4, <2>5, <2>6, <2>7, <2>8, <2>9, <2>10, <2>11,
       <2>12, <2>13, <2>14, <2>15, <2>16
       DEF Next, Acceptor, Matcher, GameThread
<1>3. QED
  BY <1>1, <1>2, PTL DEF Spec

-----------------------------------------------------------------------------
(* No lost wakeup.                                                         *)

\* Whatever fails, the matcher never sleeps on a full room without a signalling
\* thread on its way, unless the client queued last got no such thread.  The
\* invariant is inductive: the signal is sent after the enqueue, and the test
\* and the start of the wait are one step under the mutex.
THEOREM WakeupNotLost == Spec => []NoLostWakeup
<1>1. Init => NoLostWakeup
  BY DEF Init, NoLostWakeup
<1>2. TypeOK /\ NoLostWakeup /\ [Next]_vars => NoLostWakeup'
  <2> SUFFICES ASSUME TypeOK, NoLostWakeup, [Next]_vars PROVE NoLostWakeup'
    OBVIOUS
  <2> USE DEF NoLostWakeup, SignalOnItsWay, acceptorVars, gameVars
  <2>1. ASSUME NEW c \in Clients, Accept(c) PROVE NoLostWakeup'
    BY <2>1 DEF Accept
  <2>2. CASE Enqueue
    BY <2>2 DEF Enqueue
  <2>3. CASE PrintQueue
    BY <2>3 DEF PrintQueue
  <2>4. CASE SpawnConnThread
    BY <2>4 DEF SpawnConnThread
  <2>5. CASE ConnMallocFails
    BY <2>5 DEF ConnMallocFails
  <2>6. ASSUME NEW c \in Clients, Signal(c) PROVE NoLostWakeup'
    BY <2>6 DEF Signal, Woken
  <2>7. CASE MatcherLock
    BY <2>7 DEF MatcherLock
  <2>8. CASE MatcherTest
    <3>1. Len(clientsQ) \in Nat
      BY LenProperties DEF TypeOK
    <3>2. QED
      BY <2>8, <3>1 DEF MatcherTest, MustWait, ROOM_SIZE
  <2>9. CASE MatcherReacquire
    BY <2>9 DEF MatcherReacquire
  <2>10. CASE CreateRoom
    BY <2>10 DEF CreateRoom
  <2>11. CASE RoomMallocFails
    BY <2>11 DEF RoomMallocFails
  <2>12. CASE MatcherUnlock
    BY <2>12 DEF MatcherUnlock
  <2>13. CASE SpuriousWakeup
    BY <2>13 DEF SpuriousWakeup
  <2>14. ASSUME NEW i \in DOMAIN rooms, NEW c \in Clients, SendFails(i, c)
         PROVE  NoLostWakeup'
    BY <2>14 DEF SendFails
  <2>15. ASSUME NEW i \in DOMAIN rooms, NEW c \in Clients, NEW b \in BOOLEAN,
                HandleDisconnection(i, c, b)
         PROVE  NoLostWakeup'
    <3>1. Len(clientsQ) \in Nat /\ Len(clientsQ') <= Len(clientsQ)
      <4>1. Len(clientsQ) \in Nat
        BY LenProperties DEF TypeOK
      <4>2. CASE UNCHANGED clientsQ
        BY <4>1, <4>2
      <4>3. CASE \E n \in DOMAIN clientsQ : clientsQ' = RemoveAt(clientsQ, n)
        BY <4>1, <4>3, RemoveAtFacts DEF TypeOK
      <4>4. QED
        BY <2>15, <4>2, <4>3 DEF HandleDisconnection
    <3>2. Len(clientsQ') \in Nat
      BY <2>15, RemoveAtFacts, LenProperties DEF HandleDisconnection, TypeOK
    <3>3. QED
      BY <2>15, <3>1, <3>2 DEF HandleDisconnection, ROOM_SIZE
  <2>16. CASE UNCHANGED vars
    BY <2>16 DEF vars
  <2>17. QED
    BY <2>1, <2>2, <2>3, <2>4, <2>5, <2>6, <2>7, <2>8, <2>9, <2>10, <2>11,
       <2>12, <2>13, <2>14, <2>15, <2>16
       DEF Next, Acceptor, Matcher, GameThread
<1>3. QED
  BY <1>1, <1>2, TypeCorrect, PTL DEF Spec

-----------------------------------------------------------------------------
(* One place per client.                                                   *)

\* EachClientOnce is not inductive alone: a client may only be queued if it is
\* nowhere yet.  What makes it so is that accept returns a connection once, and
\* that everything queued or seated has been accepted before.
Placed == \A c \in Clients :
  \/ \E n \in DOMAIN clientsQ : clientsQ[n] = c
  \/ \E i \in DOMAIN rooms, k \in Seats : rooms[i].clients[k] = c
  => c \in accepted

InHandIsNowhere ==
  apc = "enqueue" =>
    /\ conn \in accepted
    /\ \A n \in DOMAIN clientsQ : clientsQ[n] # conn
    /\ \A i \in DOMAIN rooms, k \in Seats : rooms[i].clients[k] # conn

OnceInv == EachClientOnce /\ Placed /\ InHandIsNowhere

\* A client some game thread reports as lost sits in a room, so the search of
\* server_handle_disconnection never finds it in the queue, and the queue is
\* left alone.
LEMMA LostIsNotQueued ==
  ASSUME TypeOK, EachClientOnce,
         NEW i \in DOMAIN rooms, NEW c, NEW b \in BOOLEAN,
         HandleDisconnection(i, c, b)
  PROVE  UNCHANGED clientsQ
<1>1. PICK k \in Seats : rooms[i].clients[k] = c
  BY DEF HandleDisconnection, PlayersOf
<1>2. \A n \in DOMAIN clientsQ : clientsQ[n] # c
  BY <1>1 DEF EachClientOnce
<1>3. QED
  BY <1>2 DEF HandleDisconnection

\* Disbanding a room leaves its seats as they are.
LEMMA DisbandKeepsSeats ==
  ASSUME TypeOK, NEW i \in DOMAIN rooms, NEW c, NEW b \in BOOLEAN,
         HandleDisconnection(i, c, b)
  PROVE  /\ DOMAIN rooms' = DOMAIN rooms
         /\ \A j \in DOMAIN rooms : rooms'[j].clients = rooms[j].clients
<1>1. rooms' = [rooms EXCEPT ![i] = [rooms[i] EXCEPT !.is_disbanded = @ \/ b]]
  BY DEF HandleDisconnection
<1>2. \A j \in DOMAIN rooms : rooms[j] \in Room
  BY LenProperties, ElementOfSeq DEF TypeOK
<1>3. DOMAIN rooms' = DOMAIN rooms
  BY <1>1
<1>4. ASSUME NEW j \in DOMAIN rooms PROVE rooms'[j].clients = rooms[j].clients
  <2>1. CASE j = i
    <3>1. rooms'[i] = [rooms[i] EXCEPT !.is_disbanded = @ \/ b]
      BY <1>1
    <3>2. [rooms[i] EXCEPT !.is_disbanded = @ \/ b].clients = rooms[i].clients
      BY <1>2 DEF Room
    <3>3. QED
      BY <2>1, <3>1, <3>2
  <2>2. CASE j # i
    BY <1>1, <2>2
  <2>3. QED
    BY <2>1, <2>2
<1>5. QED
  BY <1>3, <1>4

\* Creating a room moves the two clients at the front of the queue to the two
\* seats of a new room at the end of the list, and shifts the queue by two.
LEMMA CreateRoomFacts ==
  ASSUME TypeOK, CreateRoom
  PROVE  /\ Len(clientsQ) >= 2 /\ Len(clientsQ) \in Nat /\ Len(rooms) \in Nat
         /\ DOMAIN clientsQ = 1..Len(clientsQ)
         /\ DOMAIN clientsQ' = 1..(Len(clientsQ) - 2)
         /\ \A n \in DOMAIN clientsQ' : clientsQ'[n] = clientsQ[n + 2]
         /\ DOMAIN rooms = 1..Len(rooms)
         /\ DOMAIN rooms' = 1..(Len(rooms) + 1)
         /\ \A i \in DOMAIN rooms : rooms'[i].clients = rooms[i].clients
         /\ rooms'[Len(rooms) + 1].clients = <<clientsQ[1], clientsQ[2]>>
<1>1. Len(clientsQ) >= 2 /\ Len(clientsQ) \in Nat /\ Len(rooms) \in Nat
  BY LenProperties DEF CreateRoom, NewRoom, Unmatched, ROOM_SIZE, TypeOK
<1>2. /\ DOMAIN clientsQ = 1..Len(clientsQ)
      /\ DOMAIN SubSeq(clientsQ, 3, Len(clientsQ)) = 1..(Len(clientsQ) - 2)
      /\ \A n \in 1..(Len(clientsQ) - 2) :
           SubSeq(clientsQ, 3, Len(clientsQ))[n] = clientsQ[n + 2]
      /\ clientsQ[1] \in Clients /\ clientsQ[2] \in Clients
  BY <1>1, DropTwoFacts DEF TypeOK
<1>3. clientsQ' = SubSeq(clientsQ, 3, Len(clientsQ))
  BY DEF CreateRoom, NewRoom, Unmatched, ROOM_SIZE
<1>4. DEFINE room == [id |-> clientsQ[1], clients |-> <<clientsQ[1], clientsQ[2]>>,
                      is_disbanded |-> FALSE]
<1>5. room \in Room /\ room.clients = <<clientsQ[1], clientsQ[2]>>
  BY <1>2, NewRoomType
<1>6. rooms' = Append(rooms, room)
  BY DEF CreateRoom, NewRoom
<1>7. /\ DOMAIN rooms = 1..Len(rooms)
      /\ DOMAIN rooms' = 1..(Len(rooms) + 1)
      /\ \A i \in 1..Len(rooms) : rooms'[i] = rooms[i]
      /\ rooms'[Len(rooms) + 1] = room
  <2> HIDE DEF room
  <2>1. QED
    BY <1>5, <1>6, AppendFacts DEF TypeOK
<1>8. QED
  BY <1>1, <1>2, <1>3, <1>5, <1>7

\* Enqueue puts the connection in hand behind everybody else.
LEMMA EnqueueFacts ==
  ASSUME TypeOK, Enqueue
  PROVE  /\ Len(clientsQ) \in Nat
         /\ DOMAIN clientsQ = 1..Len(clientsQ)
         /\ DOMAIN clientsQ' = 1..(Len(clientsQ) + 1)
         /\ \A n \in 1..Len(clientsQ) : clientsQ'[n] = clientsQ[n]
         /\ clientsQ'[Len(clientsQ) + 1] = conn
BY AppendFacts, LenProperties DEF TypeOK, Enqueue, Queued

\* The strengthening of EachClientOnce is an invariant of the threads.
LEMMA OnceInvariant == Spec => []OnceInv
<1>1. Init => OnceInv
  BY DEF Init, OnceInv, EachClientOnce, Placed, InHandIsNowhere
<1>2. TypeOK /\ OnceInv /\ [Next]_vars => OnceInv'
  <2> SUFFICES ASSUME TypeOK, OnceInv, [Next]_vars PROVE OnceInv'
    OBVIOUS
  <2>a. ASSUME UNCHANGED <<clientsQ, rooms>>, accepted \subseteq accepted',
               apc' = "enqueue" => apc = "enqueue" /\ UNCHANGED <<conn, accepted>>
        PROVE  OnceInv'
    BY <2>a DEF OnceInv, EachClientOnce, Placed, InHandIsNowhere
  <2> USE DEF acceptorVars, gameVars
  <2>1. ASSUME NEW c \in Clients, Accept(c) PROVE OnceInv'
    <3>1. EachClientOnce'
      BY <2>1 DEF Accept, OnceInv, EachClientOnce
    <3>2. Placed'
      BY <2>1 DEF Accept, OnceInv, Placed
    <3>3. InHandIsNowhere'
      BY <2>1 DEF Accept, OnceInv, Placed, InHandIsNowhere
    <3>4. QED
      BY <3>1, <3>2, <3>3 DEF OnceInv
  <2>2. CASE Enqueue
    <3>1. /\ conn \in accepted /\ UNCHANGED <<conn, accepted, rooms>> /\ apc' = "print"
          /\ \A n \in DOMAIN clientsQ : clientsQ[n] # conn
          /\ \A i \in DOMAIN rooms, k \in Seats : rooms[i].clients[k] # conn
      BY <2>2 DEF Enqueue, OnceInv, InHandIsNowhere
    <3>2. EachClientOnce'
      BY <2>2, <3>1, EnqueueFacts DEF OnceInv, EachClientOnce
    <3>3. Placed'
      BY <2>2, <3>1, EnqueueFacts DEF OnceInv, Placed
    <3>4. InHandIsNowhere'
      BY <3>1 DEF InHandIsNowhere
    <3>5. QED
      BY <3>2, <3>3, <3>4 DEF OnceInv
  <2>3. CASE PrintQueue
    BY <2>3, <2>a DEF PrintQueue
  <2>4. CASE SpawnConnThread
    BY <2>4, <2>a DEF SpawnConnThread
  <2>5. CASE ConnMallocFails
    BY <2>5, <2>a DEF ConnMallocFails
  <2>6. ASSUME NEW c \in Clients, Signal(c) PROVE OnceInv'
    BY <2>6, <2>a DEF Signal
  <2>7. CASE MatcherLock
    BY <2>7, <2>a DEF MatcherLock
  <2>8. CASE MatcherTest
    BY <2>8, <2>a DEF MatcherTest
  <2>9. CASE MatcherReacquire
    BY <2>9, <2>a DEF MatcherReacquire
  <2>10. CASE CreateRoom
    <3> DEFINE last == Len(rooms) + 1
    <3>1. /\ UNCHANGED <<apc, conn, accepted>>
          /\ Len(clientsQ) >= 2 /\ Len(clientsQ) \in Nat /\ Len(rooms) \in Nat
          /\ DOMAIN clientsQ = 1..Len(clientsQ)
          /\ DOMAIN clientsQ' = 1..(Len(clientsQ) - 2)
          /\ \A n \in DOMAIN clientsQ' : clientsQ'[n] = clientsQ[n + 2]
          /\ DOMAIN rooms = 1..Len(rooms)
          /\ DOMAIN rooms' = 1..last
          /\ \A i \in DOMAIN rooms : rooms'[i].clients = rooms[i].clients
          /\ rooms'[last].clients = <<clientsQ[1], clientsQ[2]>>
      BY <2>10, CreateRoomFacts DEF CreateRoom
    <3>2. \A k \in Seats : rooms'[last].clients[k] = clientsQ[k] /\ k \in DOMAIN clientsQ
      BY <3>1 DEF Seats, ROOM_SIZE
    <3> HIDE DEF last
    <3>3. last = Len(rooms) + 1
      BY DEF last
    <3>4. EachClientOnce'
      <4>1. \A m, n \in DOMAIN clientsQ' : clientsQ'[m] = clientsQ'[n] => m = n
        BY <3>1, SMTT(30) DEF OnceInv, EachClientOnce
      <4>2. ASSUME NEW i \in DOMAIN rooms', NEW j \in DOMAIN rooms',
                   NEW k \in Seats, NEW l \in Seats,
                   rooms'[i].clients[k] = rooms'[j].clients[l]
            PROVE  i = j /\ k = l
        <5>1. CASE i # last /\ j # last
          BY <3>1, <3>3, <4>2, <5>1 DEF OnceInv, EachClientOnce
        <5>2. CASE i = last /\ j # last
          <6>1. j \in DOMAIN rooms /\ rooms'[j].clients[l] = rooms[j].clients[l]
            BY <3>1, <3>3, <5>2
          <6>2. k \in DOMAIN clientsQ /\ rooms'[i].clients[k] = clientsQ[k]
            BY <3>2, <5>2
          <6>3. rooms[j].clients[l] # clientsQ[k]
            BY <6>1, <6>2 DEF OnceInv, EachClientOnce
          <6>4. QED
            BY <4>2, <6>1, <6>2, <6>3
        <5>3. CASE i # last /\ j = last
          <6>1. i \in DOMAIN rooms /\ rooms'[i].clients[k] = rooms[i].clients[k]
            BY <3>1, <3>3, <5>3
          <6>2. l \in DOMAIN clientsQ /\ rooms'[j].clients[l] = clientsQ[l]
            BY <3>2, <5>3
          <6>3. rooms[i].clients[k] # clientsQ[l]
            BY <6>1, <6>2 DEF OnceInv, EachClientOnce
          <6>4. QED
            BY <4>2, <6>1, <6>2, <6>3
        <5>4. CASE i = last /\ j = last
          <6>1. /\ k \in DOMAIN clientsQ /\ rooms'[i].clients[k] = clientsQ[k]
                /\ l \in DOMAIN clientsQ /\ rooms'[j].clients[l] = clientsQ[l]
            BY <3>2, <5>4
          <6>2. clientsQ[k] = clientsQ[l]
            BY <4>2, <6>1
          <6>3. k = l
            BY <6>1, <6>2 DEF OnceInv, EachClientOnce
          <6>4. QED
            BY <5>4, <6>3
        <5>5. QED
          BY <5>1, <5>2, <5>3, <5>4
      <4>3. ASSUME NEW i \in DOMAIN rooms', NEW k \in Seats, NEW n \in DOMAIN clientsQ'
            PROVE  rooms'[i].clients[k] # clientsQ'[n]
        <5>1. n + 2 \in DOMAIN clientsQ /\ clientsQ'[n] = clientsQ[n + 2]
          BY <3>1
        <5>2. CASE i # last
          BY <3>1, <3>3, <5>1, <5>2 DEF OnceInv, EachClientOnce
        <5>3. CASE i = last
          <6>1. k # n + 2
            BY <3>1 DEF Seats, ROOM_SIZE
          <6>2. QED
            BY <3>2, <5>1, <5>3, <6>1 DEF OnceInv, EachClientOnce
        <5>4. QED
          BY <5>2, <5>3
      <4>4. QED
        BY <4>1, <4>2, <4>3 DEF EachClientOnce
    <3>5. Placed'
      <4>1. ASSUME NEW c \in Clients, NEW n \in DOMAIN clientsQ', clientsQ'[n] = c
            PROVE  c \in accepted
        BY <3>1, <4>1 DEF OnceInv, Placed
      <4>2. ASSUME NEW c \in Clients, NEW i \in DOMAIN rooms', NEW k \in Seats,
                   rooms'[i].clients[k] = c
            PROVE  c \in accepted
        <5>1. CASE i # last
          BY <3>1, <3>3, <4>2, <5>1 DEF OnceInv, Placed
        <5>2. CASE i = last
          BY <3>2, <4>2, <5>2 DEF OnceInv, Placed
        <5>3. QED
          BY <5>1, <5>2
      <4>3. QED
        BY <3>1, <4>1, <4>2 DEF Placed
    <3>6. InHandIsNowhere'
      <4>1. SUFFICES ASSUME apc = "enqueue"
                     PROVE  /\ \A n \in DOMAIN clientsQ' : clientsQ'[n] # conn
                            /\ \A i \in DOMAIN rooms', k \in Seats :
                                 rooms'[i].clients[k] # conn
        BY <3>1 DEF OnceInv, InHandIsNowhere
      <4>2. \A n \in DOMAIN clientsQ' : clientsQ'[n] # conn
        BY <3>1, <4>1 DEF OnceInv, InHandIsNowhere
      <4>3. ASSUME NEW i \in DOMAIN rooms', NEW k \in Seats
            PROVE  rooms'[i].clients[k] # conn
        <5>1. CASE i # last
          BY <3>1, <3>3, <4>1, <5>1 DEF OnceInv, InHandIsNowhere
        <5>2. CASE i = last
          BY <3>2, <4>1, <5>2 DEF OnceInv, InHandIsNowhere
        <5>3. QED
          BY <5>1, <5>2
      <4>4. QED
        BY <4>2, <4>3
    <3>7. QED
      BY <3>4, <3>5, <3>6 DEF OnceInv
  <2>11. CASE RoomMallocFails
    BY <2>11, <2>a DEF RoomMallocFails
  <2>12. CASE MatcherUnlock
    BY <2>12, <2>a DEF MatcherUnlock
  <2>13. CASE SpuriousWakeup
    BY <2>13, <2>a DEF SpuriousWakeup
  <2>14. ASSUME NEW i \in DOMAIN rooms, NEW c \in Clients, SendFails(i, c)
         PROVE  OnceInv'
    BY <2>14, <2>a DEF SendFails
  <2>15. ASSUME NEW i \in DOMAIN rooms, NEW c \in Clients, NEW b \in BOOLEAN,
                HandleDisconnection(i, c, b)
         PROVE  OnceInv'
    <3>1. /\ UNCHANGED <<clientsQ, apc, conn, accepted>>
          /\ DOMAIN rooms' = DOMAIN rooms
          /\ \A j \in DOMAIN rooms : rooms'[j].clients = rooms[j].clients
      BY <2>15, LostIsNotQueued, DisbandKeepsSeats DEF HandleDisconnection, OnceInv
    <3>2. EachClientOnce'
      BY <3>1 DEF OnceInv, EachClientOnce
    <3>3. Placed'
      BY <3>1 DEF OnceInv, Placed
    <3>4. InHandIsNowhere'
      BY <3>1 DEF OnceInv, InHandIsNowhere
    <3>5. QED
      BY <3>2, <3>3, <3>4 DEF OnceInv
  <2>16. CASE UNCHANGED vars
    BY <2>16, <2>a DEF vars
  <2>17. QED
    BY <2>1, <2>2, <2>3, <2>4, <2>5, <2>6, <2>7, <2>8, <2>9, <2>10, <2>11,
       <2>12, <2>13, <2>14, <2>15, <2>16
       DEF Next, Acceptor, Matcher, GameThread
<1>3. QED
  BY <1>1, <1>2, TypeCorrect, PTL DEF Spec

\* No client is ever in two seats, twice in the queue, or seated and queued.
THEOREM SeatedOnce == Spec => []EachClientOnce
<1>1. OnceInv => EachClientOnce
  BY DEF OnceInv
<1>2. QED
  BY <1>1, OnceInvariant, PTL

-----------------------------------------------------------------------------
(* The threads implement FifoPairing.                                      *)

\* A step that keeps the queue and the seats is a stutter of FifoPairing.
LEMMA SameSeatsStutter ==
  ASSUME UNCHANGED clientsQ, DOMAIN rooms' = DOMAIN rooms,
         \A i \in DOMAIN rooms : rooms'[i].clients = rooms[i].clients
  PROVE  UNCHANGED Pairing!pairingVars
BY DEF Pairing!pairingVars

\* Clients are seated in the order in which they were queued: every step of
\* the threads is a step of FifoPairing or changes nothing it can see.
THEOREM ImplementsFifoPairing == Spec => PairsInOrder
<1>1. Init => Pairing!Init
  BY DEF Init, Pairing!Init
<1>2. TypeOK /\ OnceInv /\ [Next]_vars => [Pairing!Next]_(Pairing!pairingVars)
  <2> SUFFICES ASSUME TypeOK, OnceInv, [Next]_vars
               PROVE  Pairing!Next \/ UNCHANGED Pairing!pairingVars
    OBVIOUS
  <2> USE DEF acceptorVars, gameVars
  <2>a. ASSUME UNCHANGED <<clientsQ, rooms>> PROVE UNCHANGED Pairing!pairingVars
    BY <2>a DEF Pairing!pairingVars
  <2>1. ASSUME NEW c \in Clients, Accept(c) PROVE UNCHANGED Pairing!pairingVars
    BY <2>1, <2>a DEF Accept
  <2>2. ASSUME Enqueue PROVE Pairing!Join(conn) /\ conn \in Clients
    <3>1. /\ \A n \in DOMAIN clientsQ : clientsQ[n] # conn
          /\ \A i \in DOMAIN rooms, k \in Seats : rooms[i].clients[k] # conn
      BY <2>2 DEF Enqueue, OnceInv, InHandIsNowhere
    <3>2. conn \notin Pairing!Joined
      BY <3>1 DEF Pairing!Joined, Seats, ROOM_SIZE
    <3>3. QED
      BY <2>2, <3>2 DEF Enqueue, Queued, Pairing!Join, TypeOK
  <2>3. CASE PrintQueue
    BY <2>3, <2>a DEF PrintQueue
  <2>4. CASE SpawnConnThread
    BY <2>4, <2>a DEF SpawnConnThread
  <2>5. CASE ConnMallocFails
    BY <2>5, <2>a DEF ConnMallocFails
  <2>6. ASSUME NEW c \in Clients, Signal(c) PROVE UNCHANGED Pairing!pairingVars
    BY <2>6, <2>a DEF Signal
  <2>7. CASE MatcherLock
    BY <2>7, <2>a DEF MatcherLock
  <2>8. CASE MatcherTest
    BY <2>8, <2>a DEF MatcherTest
  <2>9. CASE MatcherReacquire
    BY <2>9, <2>a DEF MatcherReacquire
  <2>10. ASSUME CreateRoom PROVE Pairing!Pair
    <3> DEFINE seats == [i \in DOMAIN rooms |-> rooms[i].clients]
               seatsAfter == [i \in DOMAIN rooms' |-> rooms'[i].clients]
               pair == <<clientsQ[1], clientsQ[2]>>
    <3>1. /\ Len(clientsQ) >= 2
          /\ clientsQ' = SubSeq(clientsQ, 3, Len(clientsQ))
      BY <2>10 DEF CreateRoom, NewRoom, Unmatched, ROOM_SIZE
    <3>2. /\ Len(rooms) \in Nat
          /\ DOMAIN rooms = 1..Len(rooms)
          /\ DOMAIN rooms' = 1..(Len(rooms) + 1)
          /\ \A i \in DOMAIN rooms : rooms'[i].clients = rooms[i].clients
          /\ rooms'[Len(rooms) + 1].clients = pair
      BY <2>10, CreateRoomFacts
    <3>3. pair \in [Seats -> Clients]
      BY <3>1, NewRoomType, DropTwoFacts DEF TypeOK
    <3>4. seats \in Seq([Seats -> Clients]) /\ Len(seats) = Len(rooms)
      <4>1. \A i \in DOMAIN rooms : rooms[i] \in Room
        BY <3>2, ElementOfSeq DEF TypeOK
      <4>2. seats \in [1..Len(rooms) -> [Seats -> Clients]]
        BY <3>2, <4>1 DEF Room
      <4>3. QED
        <5> HIDE DEF seats
        <5>1. QED
          BY <3>2, <4>2, SeqDef, LenProperties
    <3>5. seatsAfter = Append(seats, pair)
      <4>1. /\ Append(seats, pair) \in Seq([Seats -> Clients])
            /\ Len(Append(seats, pair)) = Len(rooms) + 1
            /\ \A i \in 1..Len(rooms) : Append(seats, pair)[i] = seats[i]
            /\ Append(seats, pair)[Len(rooms) + 1] = pair
        <5> HIDE DEF seats, pair
        <5>1. QED
          BY <3>3, <3>4, AppendFacts
      <4>2. \A i \in DOMAIN rooms : rooms[i].clients \in [Seats -> Clients]
        <5>1. \A i \in DOMAIN rooms : rooms[i] \in Room
          BY <3>2, ElementOfSeq DEF TypeOK
        <5>2. QED
          BY <5>1 DEF Room
      <4>3. seatsAfter \in [1..(Len(rooms) + 1) -> [Seats -> Clients]]
        <5> HIDE DEF pair
        <5>1. QED
          BY <3>2, <3>3, <4>2
      <4>4. seatsAfter \in Seq([Seats -> Clients]) /\ Len(seatsAfter) = Len(rooms) + 1
        <5> HIDE DEF seatsAfter
        <5>1. QED
          BY <3>2, <4>3, SeqDef, LenProperties
      <4>5. \A i \in 1..(Len(rooms) + 1) : seatsAfter[i] = Append(seats, pair)[i]
        BY <3>2, <4>1
      <4>6. QED
        <5> HIDE DEF seats, pair, seatsAfter
        <5>1. QED
          BY <4>1, <4>4, <4>5, SeqEqual
    <3>6. QED
      BY <3>1, <3>5 DEF Pairing!Pair
  <2>11. CASE RoomMallocFails
    BY <2>11, <2>a DEF RoomMallocFails
  <2>12. CASE MatcherUnlock
    BY <2>12, <2>a DEF MatcherUnlock
  <2>13. CASE SpuriousWakeup
    BY <2>13, <2>a DEF SpuriousWakeup
  <2>14. ASSUME NEW i \in DOMAIN rooms, NEW c \in Clients, SendFails(i, c)
         PROVE  UNCHANGED Pairing!pairingVars
    BY <2>14, <2>a DEF SendFails
  <2>15. ASSUME NEW i \in DOMAIN rooms, NEW c \in Clients, NEW b \in BOOLEAN,
                HandleDisconnection(i, c, b)
         PROVE  UNCHANGED Pairing!pairingVars
    <3>1. /\ UNCHANGED clientsQ
          /\ DOMAIN rooms' = DOMAIN rooms
          /\ \A j \in DOMAIN rooms : rooms'[j].clients = rooms[j].clients
      BY <2>15, LostIsNotQueued, DisbandKeepsSeats DEF HandleDisconnection, OnceInv
    <3>2. QED
      BY <3>1, SameSeatsStutter
  <2>16. CASE UNCHANGED vars
    BY <2>16, <2>a DEF vars
  <2>17. QED
    BY <2>1, <2>2, <2>3, <2>4, <2>5, <2>6, <2>7, <2>8, <2>9, <2>10, <2>11,
       <2>12, <2>13, <2>14, <2>15, <2>16
       DEF Next, Acceptor, Matcher, GameThread, Pairing!Next
<1>3. QED
  BY <1>1, <1>2, OnceInvariant, TypeCorrect, PTL DEF Spec, PairsInOrder, Pairing!SafeSpec
=============================================================================
