--------------------------- MODULE PongServerProofs ---------------------------
(***************************************************************************)
(* Theorems about PongServer, for any number of rooms, rounds and packets  *)
(* under way: type correctness, what the packets on a connection tell a    *)
(* player, and the promise of RoundAnnouncer; and, where no two matches    *)
(* share the statics, that sync numbers agree and inputs find their way.   *)
(***************************************************************************)
EXTENDS PongServer, SequenceFacts

-----------------------------------------------------------------------------
(* Type correctness.                                                       *)

\* The least of some seats is one of them.
LEMMA MinSeat ==
  ASSUME NEW seats \in SUBSET Seats, seats # {}
  PROVE  Min(seats) \in seats
<1>1. \E x \in seats : \A y \in seats : x <= y
  <2>1. CASE 1 \in seats
    BY <2>1 DEF Seats
  <2>2. CASE 1 \notin seats
    <3>1. seats = {2}
      <4>1. \A x \in seats : x = 2
        BY <2>2 DEF Seats
      <4>2. QED
        BY <4>1
    <3>2. QED
      BY <3>1
  <2>3. QED
    BY <2>1, <2>2
<1>2. QED
  BY <1>1 DEF Min

\* The values the initial state and the resets assign have their types.
LEMMA Constants ==
  /\ 0 \in Rounds /\ 1 \in Rounds /\ Rounds \subseteq Nat
  /\ 0 \in Syncs /\ Syncs \subseteq Nat
  /\ 1 \in Seats /\ 2 \in Seats
  /\ Capacity \in Nat /\ Capacity >= 1
  /\ NothingOut \in StatePacket
  /\ <<>> \in Seq(StatePacket) /\ <<>> \in Seq(InputPacket) /\ Len(<<>>) = 0
<1>1. 0 \in Rounds /\ 1 \in Rounds /\ Rounds \subseteq Nat /\ 0 \in Syncs /\ Syncs \subseteq Nat
  BY BoundAssumption DEF Rounds, Syncs
<1>2. 1 \in Seats /\ 2 \in Seats
  BY DEF Seats
<1>3. NothingOut \in StatePacket
  BY <1>1, <1>2 DEF NothingOut, StatePacket
<1>4. QED
  BY <1>1, <1>2, <1>3, BoundAssumption, EmptySeq

\* The player on a seat of a room.
LEMMA SeatedPlayer ==
  ASSUME NEW r \in Rooms, NEW i \in Seats
  PROVE  <<r, i>> \in Players
BY DEF Players

\* What TypeOK says of the connections.
ConnTypes ==
  /\ conn \in [Players -> {"open", "fin", "poked", "reset", "dead"}]
  /\ up \in [Players -> Seq(InputPacket)]
  /\ down \in [Players -> Seq(StatePacket)]
  /\ \A p \in Players : Len(up[p]) <= Capacity /\ Len(down[p]) <= Capacity

\* Putting a packet at the end of a connection with room.
LEMMA DownAppended ==
  ASSUME ConnTypes, NEW p \in Players, NEW packet \in StatePacket, Len(down[p]) < Capacity,
         down' = [down EXCEPT ![p] = Append(@, packet)]
  PROVE  /\ down' \in [Players -> Seq(StatePacket)]
         /\ \A q \in Players : Len(down'[q]) <= Capacity
<1>1. down[p] \in Seq(StatePacket)
  BY DEF ConnTypes
<1>2. Append(down[p], packet) \in Seq(StatePacket) /\ Len(Append(down[p], packet)) <= Capacity
  BY <1>1, AppendFacts, BoundAssumption
<1>3. QED
  BY <1>2 DEF ConnTypes

\* Sending changes nothing but the connection, whether it succeeds or fails.
LEMMA SendTypes ==
  ASSUME ConnTypes, NEW p \in Players, NEW packet \in StatePacket,
         SendSucceeds(p, packet) \/ SendFails(p)
  PROVE  ConnTypes'
<1>1. CASE /\ Len(down[p]) < Capacity
           /\ down' = [down EXCEPT ![p] = Append(@, packet)]
           /\ UNCHANGED <<conn, up>>
  BY <1>1, DownAppended DEF ConnTypes
<1>2. CASE conn' = [conn EXCEPT ![p] = "poked"] /\ UNCHANGED <<down, up>>
  BY <1>2 DEF ConnTypes
<1>3. CASE conn' = [conn EXCEPT ![p] = "dead"] /\ UNCHANGED <<down, up>>
  BY <1>3 DEF ConnTypes
<1>4. QED
  BY <1>1, <1>2, <1>3 DEF SendSucceeds, SendFails

\* The receiver has a packet in hand whenever it looks at one.
HasPacket == \A r \in Rooms : rpc[r] \in {"check", "apply"} => inHand[r] \in InputPacket

TypeInv == TypeOK /\ HasPacket

\* At the start every variable has its type.
LEMMA TypesInit == Init => TypeInv
<1> SUFFICES ASSUME Init PROVE TypeInv
  OBVIOUS
<1>1. view \in [Players -> [round : Rounds, sync : Syncs, own : Seats]]
  BY Constants DEF Init
<1>2. QED
  BY <1>1, Constants DEF Init, TypeInv, TypeOK, HasPacket, NoInput

\* The steps of the game thread.
LEMMA TypesGame ==
  ASSUME TypeInv, NEW r \in Rooms, GameThread(r)
  PROVE  TypeInv'
<1> USE DEF statics, gameVars, senderVars, receiverVars, netVars
<1>0. TypeOK /\ HasPacket
  BY DEF TypeInv
<1>1. CASE StartGame(r)
  <2>1. [type |-> "INIT", sync |-> ssync, round |-> 1, own |-> 1] \in StatePacket
    BY <1>0, Constants DEF TypeOK, StatePacket
  <2>2. [i \in Seats |-> <<r, i>>] \in [Seats -> Players \cup {NoPlayer}]
    BY SeatedPlayer
  <2>3. TypeOK'
    BY <1>0, <1>1, <2>1, <2>2, Constants DEF StartGame, TypeOK
  <2>4. QED
    BY <1>0, <1>1, <2>3 DEF StartGame, HasPacket, TypeInv
<1>2. CASE SendInit(r)
  <2>1. <<r, seat[r]>> \in Players /\ out[r] \in StatePacket /\ seat[r] \in Seats
    BY <1>0, SeatedPlayer DEF TypeOK
  <2>2. [out[r] EXCEPT !.own = seat[r]] \in StatePacket
    BY <2>1 DEF StatePacket
  <2>3. ConnTypes'
    BY <1>0, <1>2, <2>1, <2>2, SendTypes DEF SendInit, TypeOK, ConnTypes
  <2>4. /\ gpc' \in [Rooms -> {"waiting", "init", "playing", "failed"}]
        /\ seat' \in [Rooms -> Seats]
        /\ spc' \in [Rooms -> {"off", "tick", "sync", "pack", "send", "done"}]
        /\ out' \in [Rooms -> StatePacket]
        /\ rpc' \in [Rooms -> {"off", "scan", "poll", "check", "apply", "done"}]
    <3>1. CASE seat' = [seat EXCEPT ![r] = 2] /\ UNCHANGED <<gpc, spc, out, rpc>>
      BY <1>0, <3>1, Constants DEF TypeOK
    <3>2. CASE /\ gpc' = [gpc EXCEPT ![r] = "playing"]
               /\ seat' = [seat EXCEPT ![r] = 1]
               /\ spc' = [spc EXCEPT ![r] = "tick"]
               /\ rpc' = [rpc EXCEPT ![r] = "scan"]
               /\ out' = [out EXCEPT ![r] = NothingOut]
      BY <1>0, <3>2, Constants DEF TypeOK
    <3>3. CASE gpc' = [gpc EXCEPT ![r] = "failed"] /\ UNCHANGED <<seat, spc, out, rpc>>
      BY <1>0, <3>3 DEF TypeOK
    <3>4. QED
      BY <1>2, <3>1, <3>2, <3>3 DEF SendInit
  <2>5. TypeOK'
    BY <1>0, <1>2, <2>3, <2>4 DEF SendInit, TypeOK, ConnTypes
  <2>6. QED
    BY <1>0, <1>2, <2>5 DEF SendInit, HasPacket, TypeInv, TypeOK
<1>3. QED
  BY <1>1, <1>2 DEF GameThread

\* The steps of the state sender.
LEMMA TypesSender ==
  ASSUME TypeInv, NEW r \in Rooms, Sender(r)
  PROVE  TypeInv'
<1> USE DEF statics, gameVars, senderVars, receiverVars, netVars
<1>0. TypeOK /\ HasPacket
  BY DEF TypeInv
<1>1. CASE Tick(r)
  <2>1. round' \in [Rooms -> Rounds]
    <3>1. round[r] < MaxRound => round[r] + 1 \in Rounds
      BY <1>0, BoundAssumption DEF TypeOK, Rounds
    <3>2. QED
      BY <1>0, <1>1, <3>1 DEF Tick, TypeOK
  <2>2. out' \in [Rooms -> StatePacket]
    <3>1. out[r] \in StatePacket
      BY <1>0 DEF TypeOK
    <3>2. \A scored \in BOOLEAN : [out[r] EXCEPT !.type = TypeOfPacket(scored)] \in StatePacket
      BY <3>1 DEF TypeOfPacket, StatePacket
    <3>3. \E scored \in BOOLEAN :
            out' = [out EXCEPT ![r] = [out[r] EXCEPT !.type = TypeOfPacket(scored)]]
      BY <1>0, <1>1 DEF Tick, TypeOK
    <3>4. PICK e \in StatePacket : out' = [out EXCEPT ![r] = e]
      BY <3>2, <3>3
    <3>5. QED
      BY <1>0, <3>4 DEF TypeOK
  <2>3. TypeOK'
    BY <1>0, <1>1, <2>1, <2>2 DEF Tick, TypeOK, NoInput
  <2>4. QED
    BY <1>0, <1>1, <2>3 DEF Tick, HasPacket, TypeInv
<1>2. CASE BumpSync(r)
  <2>1. NextSync \in Syncs
    BY <1>0, BoundAssumption DEF NextSync, TypeOK, Syncs
  <2>2. TypeOK'
    BY <1>0, <1>2, <2>1 DEF BumpSync, TypeOK
  <2>3. QED
    BY <1>0, <1>2, <2>2 DEF BumpSync, HasPacket, TypeInv
<1>3. CASE MakePacket(r)
  <2>1. out' \in [Rooms -> StatePacket]
    <3>1. [type |-> out[r].type, sync |-> ssync, round |-> round[r], own |-> 1] \in StatePacket
      BY <1>0, Constants DEF TypeOK, StatePacket
    <3>2. QED
      BY <1>0, <1>3, <3>1 DEF MakePacket, TypeOK
  <2>2. TypeOK'
    BY <1>0, <1>3, <2>1, Constants DEF MakePacket, TypeOK
  <2>3. QED
    BY <1>0, <1>3, <2>2 DEF MakePacket, HasPacket, TypeInv
<1>4. CASE Broadcast(r)
  <2>1. <<r, target[r]>> \in Players /\ out[r] \in StatePacket
    BY <1>0, SeatedPlayer DEF TypeOK
  <2>2. ConnTypes'
    BY <1>0, <1>4, <2>1, SendTypes DEF Broadcast, TypeOK, ConnTypes
  <2>3. /\ spc' \in [Rooms -> {"off", "tick", "sync", "pack", "send", "done"}]
        /\ is_disbanded' \in [Rooms -> BOOLEAN]
    BY <1>0, <1>4 DEF Broadcast, TypeOK, Disband
  <2>4. out' \in [Rooms -> StatePacket] /\ target' \in [Rooms -> Seats]
    BY <1>0, <1>4, Constants DEF Broadcast, TypeOK
  <2>5. TypeOK'
    BY <1>0, <1>4, <2>2, <2>3, <2>4 DEF Broadcast, TypeOK, ConnTypes
  <2>6. QED
    BY <1>0, <1>4, <2>5 DEF Broadcast, HasPacket, TypeInv
<1>5. QED
  BY <1>1, <1>2, <1>3, <1>4 DEF Sender

\* Taking the first packet off what a player has sent.
LEMMA UpTaken ==
  ASSUME TypeOK, NEW p \in Players, up[p] # <<>>, up' = [up EXCEPT ![p] = Tail(@)]
  PROVE  /\ up' \in [Players -> Seq(InputPacket)] /\ Head(up[p]) \in InputPacket
         /\ \A q \in Players : Len(up'[q]) <= Capacity
<1>1. up[p] \in Seq(InputPacket)
  BY DEF TypeOK
<1>2. /\ Tail(up[p]) \in Seq(InputPacket) /\ Head(up[p]) \in InputPacket
      /\ Len(Tail(up[p])) <= Capacity
  BY <1>1, TailFacts, BoundAssumption DEF TypeOK
<1>3. QED
  BY <1>2 DEF TypeOK

\* What recv_packet puts in the hand of the receiver.
LEMMA RecvPacket ==
  ASSUME TypeOK, NEW r \in Rooms, Recv(r)
  PROVE  \E p \in Players :
           /\ p = <<r, Min(ready[r])>>
           /\ \/ /\ up[p] # <<>>
                 /\ inHand' = [inHand EXCEPT ![r] = Head(up[p])]
                 /\ up' = [up EXCEPT ![p] = Tail(@)]
                 /\ rpc' = [rpc EXCEPT ![r] = "check"]
                 /\ UNCHANGED <<conn, down>>
              \/ /\ rpc' = [rpc EXCEPT ![r] = "done"]
                 /\ UNCHANGED <<inHand, conn, up, down>>
              \/ /\ conn[p] = "reset"
                 /\ conn' = [conn EXCEPT ![p] = "dead"]
                 /\ rpc' = [rpc EXCEPT ![r] = "check"]
                 /\ UNCHANGED <<up, down>>
                 /\ \E fake \in InputPacket :
                      /\ fake.tag = [by |-> p, round |-> 0]
                      /\ inHand' = [inHand EXCEPT ![r] = fake]
<1> DEFINE p == <<r, Min(ready[r])>>
<1>1. p \in Players
  BY MinSeat, SeatedPlayer DEF Recv, TypeOK
<1>2. \A sync \in Syncs : [sync |-> sync, tag |-> [by |-> p, round |-> 0]] \in InputPacket
  BY <1>1, Constants DEF InputPacket, Tags
<1>3. QED
  BY <1>1, <1>2 DEF Recv, netVars

\* The steps of the input receiver.
LEMMA TypesReceiver ==
  ASSUME TypeInv, NEW r \in Rooms, Receiver(r)
  PROVE  TypeInv'
<1> USE DEF statics, gameVars, senderVars, receiverVars, netVars
<1>0. TypeOK /\ HasPacket
  BY DEF TypeInv
<1>1. CASE LoopTest(r)
  BY <1>0, <1>1 DEF LoopTest, TypeOK, HasPacket, TypeInv
<1>2. CASE Poll(r)
  BY <1>0, <1>2 DEF Poll, TypeOK, HasPacket, TypeInv
<1>3. CASE Recv(r)
  <2>1. PICK p \in Players :
           \/ /\ up[p] # <<>>
              /\ inHand' = [inHand EXCEPT ![r] = Head(up[p])]
              /\ up' = [up EXCEPT ![p] = Tail(@)]
              /\ rpc' = [rpc EXCEPT ![r] = "check"]
              /\ UNCHANGED <<conn, down>>
           \/ /\ rpc' = [rpc EXCEPT ![r] = "done"]
              /\ UNCHANGED <<inHand, conn, up, down>>
           \/ /\ conn' = [conn EXCEPT ![p] = "dead"]
              /\ rpc' = [rpc EXCEPT ![r] = "check"]
              /\ UNCHANGED <<up, down>>
              /\ \E fake \in InputPacket : inHand' = [inHand EXCEPT ![r] = fake]
    BY <1>0, <1>3, RecvPacket
  <2>2. /\ ready' \in [Rooms -> SUBSET Seats]
        /\ UNCHANGED <<statics, gameVars, senderVars, view>>
    BY <1>0, <1>3 DEF Recv, TypeOK, StillReady
  <2>3. CASE /\ up[p] # <<>>
             /\ inHand' = [inHand EXCEPT ![r] = Head(up[p])]
             /\ up' = [up EXCEPT ![p] = Tail(@)]
             /\ rpc' = [rpc EXCEPT ![r] = "check"]
             /\ UNCHANGED <<conn, down>>
    BY <1>0, <2>2, <2>3, UpTaken DEF TypeOK, HasPacket, TypeInv
  <2>4. CASE rpc' = [rpc EXCEPT ![r] = "done"] /\ UNCHANGED <<inHand, conn, up, down>>
    BY <1>0, <2>2, <2>4 DEF TypeOK, HasPacket, TypeInv
  <2>5. CASE /\ conn' = [conn EXCEPT ![p] = "dead"]
             /\ rpc' = [rpc EXCEPT ![r] = "check"]
             /\ UNCHANGED <<up, down>>
             /\ \E fake \in InputPacket : inHand' = [inHand EXCEPT ![r] = fake]
    BY <1>0, <2>2, <2>5 DEF TypeOK, HasPacket, TypeInv
  <2>6. QED
    BY <2>1, <2>3, <2>4, <2>5
<1>4. CASE CheckSync(r)
  <2>1. /\ rpc[r] = "check"
        /\ \/ rpc' = [rpc EXCEPT ![r] = "apply"] /\ inHand' = inHand
           \/ /\ rpc' = [rpc EXCEPT ![r] = "scan"]
              /\ inHand' = [inHand EXCEPT ![r] = NothingInHand]
        /\ UNCHANGED <<statics, gameVars, senderVars, ready, netVars, view>>
    BY <1>4 DEF CheckSync
  <2>2. TypeOK'
    BY <1>0, <2>1 DEF TypeOK
  <2>3. HasPacket'
    <3>1. ASSUME NEW q \in Rooms, rpc'[q] \in {"check", "apply"}
          PROVE  inHand'[q] \in InputPacket
      <4>1. DOMAIN rpc = Rooms /\ DOMAIN inHand = Rooms
        BY <1>0 DEF TypeOK
      <4>2. rpc[q] \in {"check", "apply"} /\ inHand'[q] = inHand[q]
        BY <2>1, <3>1, <4>1
      <4>3. QED
        BY <1>0, <4>2 DEF HasPacket
    <3>2. QED
      BY <3>1 DEF HasPacket
  <2>4. QED
    BY <2>2, <2>3 DEF TypeInv
<1>5. CASE ApplyInput(r)
  <2>1. inHand[r].tag \in Tags
    BY <1>0, <1>5 DEF ApplyInput, HasPacket, InputPacket
  <2>2. input' \in [Seats -> SUBSET Tags]
    BY <1>0, <1>5, <2>1 DEF ApplyInput, TypeOK
  <2>3. TypeOK'
    BY <1>0, <1>5, <2>2 DEF ApplyInput, TypeOK
  <2>4. QED
    BY <1>0, <1>5, <2>3 DEF ApplyInput, HasPacket, TypeInv, TypeOK
<1>6. QED
  BY <1>1, <1>2, <1>3, <1>4, <1>5 DEF Receiver

\* What a client does to the packets it is sent.
LEMMA DownTaken ==
  ASSUME TypeOK, NEW p \in Players, down[p] # <<>>, down' = [down EXCEPT ![p] = Tail(@)]
  PROVE  /\ down' \in [Players -> Seq(StatePacket)] /\ Head(down[p]) \in StatePacket
         /\ \A q \in Players : Len(down'[q]) <= Capacity
<1>1. down[p] \in Seq(StatePacket)
  BY DEF TypeOK
<1>2. /\ Tail(down[p]) \in Seq(StatePacket) /\ Head(down[p]) \in StatePacket
      /\ Len(Tail(down[p])) <= Capacity
  BY <1>1, TailFacts, BoundAssumption DEF TypeOK
<1>3. QED
  BY <1>2 DEF TypeOK

\* The steps of the clients and of the network.
ClientStep(p) ==
  ClientReceives(p) \/ ClientSends(p) \/ ClientLeaves(p) \/ RstArrives(p) \/ Abort(p)

\* They keep the types.
LEMMA TypesClient ==
  ASSUME TypeInv, NEW p \in Players, ClientStep(p)
  PROVE  TypeInv'
<1> USE DEF statics, gameVars, senderVars, receiverVars, netVars
<1>0. TypeOK /\ HasPacket
  BY DEF TypeInv
<1>1. CASE ClientReceives(p)
  <2>1. /\ down' \in [Players -> Seq(StatePacket)] /\ Head(down[p]) \in StatePacket
        /\ \A q \in Players : Len(down'[q]) <= Capacity
    BY <1>0, <1>1, DownTaken DEF ClientReceives
  <2>2. view' \in [Players -> [round : Rounds, sync : Syncs, own : Seats]]
    <3> DEFINE packet == Head(down[p])
    <3>1. /\ view[p] \in [round : Rounds, sync : Syncs, own : Seats]
          /\ packet.round \in Rounds /\ packet.sync \in Syncs /\ packet.own \in Seats
      BY <1>0, <2>1 DEF TypeOK, StatePacket
    <3>2. /\ [round |-> packet.round, sync |-> SyncOf(p, packet), own |-> Own(p, packet)]
               \in [round : Rounds, sync : Syncs, own : Seats]
      BY <3>1 DEF SyncOf, Own
    <3>3. \/ view' = [view EXCEPT ![p] = [round |-> packet.round, sync |-> SyncOf(p, packet),
                                          own |-> Own(p, packet)]]
          \/ view' = view
      BY <1>1 DEF ClientReceives
    <3> HIDE DEF packet
    <3>4. QED
      BY <1>0, <3>2, <3>3 DEF TypeOK
  <2>3. conn' \in [Players -> {"open", "fin", "poked", "reset", "dead"}]
    <3>1. conn' = conn \/ conn' = [conn EXCEPT ![p] = "fin"]
      BY <1>1 DEF ClientReceives
    <3>2. QED
      BY <1>0, <3>1 DEF TypeOK
  <2>4. TypeOK'
    BY <1>0, <1>1, <2>1, <2>2, <2>3 DEF ClientReceives, TypeOK
  <2>5. QED
    BY <1>0, <1>1, <2>4 DEF ClientReceives, HasPacket, TypeInv
<1>2. CASE ClientSends(p)
  <2> DEFINE e == [sync |-> view[p].sync, tag |-> [by |-> p, round |-> view[p].round]]
  <2>1. e \in InputPacket /\ up[p] \in Seq(InputPacket)
    BY <1>0 DEF TypeOK, InputPacket, Tags
  <2>2. Append(up[p], e) \in Seq(InputPacket) /\ Len(Append(up[p], e)) <= Capacity
    BY <1>2, <2>1, AppendFacts, BoundAssumption DEF ClientSends
  <2>3. /\ up' \in [Players -> Seq(InputPacket)]
        /\ \A q \in Players : Len(up'[q]) <= Capacity
    BY <1>0, <1>2, <2>2 DEF ClientSends, TypeOK
  <2>4. TypeOK'
    BY <1>0, <1>2, <2>3 DEF ClientSends, TypeOK
  <2>5. QED
    BY <1>0, <1>2, <2>4 DEF ClientSends, HasPacket, TypeInv
<1>3. CASE ClientLeaves(p)
  BY <1>0, <1>3, Constants DEF ClientLeaves, TypeOK, HasPacket, TypeInv
<1>4. CASE RstArrives(p)
  BY <1>0, <1>4 DEF RstArrives, TypeOK, HasPacket, TypeInv
<1>5. CASE Abort(p)
  BY <1>0, <1>5, Constants DEF Abort, TypeOK, HasPacket, TypeInv
<1>6. QED
  BY <1>1, <1>2, <1>3, <1>4, <1>5 DEF ClientStep

\* Every step is one of a room's threads, of a client or of the network.
LEMMA StepsOf ==
  ASSUME [Next]_vars
  PROVE  \/ \E r \in Rooms : GameThread(r) \/ Sender(r) \/ Receiver(r)
         \/ \E p \in Players : ClientStep(p)
         \/ UNCHANGED vars
BY DEF Next, ClientStep

\* Every step keeps the types.
LEMMA TypesStep == TypeInv /\ [Next]_vars => TypeInv'
<1> SUFFICES ASSUME TypeInv, [Next]_vars PROVE TypeInv'
  OBVIOUS
<1>1. CASE UNCHANGED vars
  BY <1>1 DEF vars, statics, gameVars, senderVars, receiverVars, netVars, TypeInv, TypeOK,
              HasPacket
<1>2. QED
  BY <1>1, StepsOf, TypesGame, TypesSender, TypesReceiver, TypesClient

\* The invariant behind the types, for the theorems below.
LEMMA AlwaysTyped == Spec => []TypeInv
BY TypesInit, TypesStep, PTL DEF Spec

\* Every variable keeps its type, whatever threads, clients and network do.
THEOREM TypeCorrect == Spec => []TypeOK
<1>1. TypeInv => TypeOK
  BY DEF TypeInv
<1>2. QED
  BY <1>1, AlwaysTyped, PTL
-----------------------------------------------------------------------------
(* What the packets on a connection tell a player.                         *)

\* A packet that follows on round n: the next INIT, or a STATE of n itself.
Follows(n, packet) == packet.round = IF packet.type = "INIT" THEN n + 1 ELSE n

\* The packets s lead from round `first' on, one after the other, none left out.
Chain(first, s) ==
  /\ s # <<>> => Follows(first, s[1])
  /\ \A k, m \in 1..Len(s) : m = k + 1 => Follows(s[k].round, s[m])

\* The round they lead to.
LeadsTo(first, s) == IF s = <<>> THEN first ELSE s[Len(s)].round

\* The packets are of rounds up to n, and seat i finds its number in the first INIT.
Fits(s, i, n) ==
  \A k \in 1..Len(s) :
    /\ s[k].round >= 1 /\ s[k].round <= n
    /\ s[k].type = "INIT" /\ s[k].round = 1 => s[k].own = i

\* Seat i has still to be sent the INIT of the round its room is in.
Owing(r, i) == (gpc[r] = "init" /\ seat[r] <= i) \/ InitOwed(r, i)

\* The round seat i has been sent the INIT of.
Due(r, i) == IF Owing(r, i) THEN round[r] - 1 ELSE round[r]

\* Where the threads of a room are, and what that says of its round and its packet.
PhaseInv(r) ==
  /\ spc[r] # "off" => gpc[r] = "playing"
  /\ gpc[r] = "playing" => spc[r] # "off" /\ round[r] >= 1
  /\ gpc[r] = "waiting" => round[r] = 0 /\ seat[r] = 1
  /\ gpc[r] = "init" => round[r] = 1 /\ out[r].type = "INIT" /\ out[r].round = 1
  /\ gpc[r] = "failed" => round[r] = 1
  /\ spc[r] = "sync" => out[r].type = "INIT"
  /\ spc[r] \in {"sync", "pack", "send"} /\ out[r].type = "INIT" => round[r] >= 2
  /\ spc[r] = "send" => out[r].round = round[r]

\* What seat i of room r knows, and what is on the way to it, is in order and leads to
\* the round it has been sent the INIT of, as long as the match goes on.
PlayerInv(r, i) ==
  LET p == <<r, i>> IN
  /\ ~Here(p) => down[p] = <<>>
  /\ Chain(view[p].round, down[p])
  /\ Fits(down[p], i, Due(r, i))
  /\ view[p].round <= Due(r, i)
  /\ Joined(p) => view[p].own = i
  /\ Here(p) /\ ~Ended(r) => LeadsTo(view[p].round, down[p]) = Due(r, i)

RoundInv ==
  /\ \A r \in Rooms : PhaseInv(r)
  /\ \A r \in Rooms : \A i \in Seats : PlayerInv(r, i)

\* A packet that follows on what is under way goes on with the order.
LEMMA ChainAppend ==
  ASSUME NEW first \in Nat, NEW s \in Seq(StatePacket), NEW e \in StatePacket,
         Chain(first, s), Follows(LeadsTo(first, s), e)
  PROVE  Chain(first, Append(s, e)) /\ LeadsTo(first, Append(s, e)) = e.round
<1> DEFINE t == Append(s, e)
<1>1. /\ t # <<>> /\ Len(s) \in Nat /\ Len(t) = Len(s) + 1 /\ t[Len(t)] = e
      /\ \A k \in 1..Len(s) : t[k] = s[k]
  BY AppendFacts
<1> HIDE DEF t
<1>2. s = <<>> <=> Len(s) = 0
  BY EmptySeq
<1>3. Follows(first, t[1])
  <2>1. CASE Len(s) = 0
    BY <1>1, <1>2, <2>1 DEF LeadsTo
  <2>2. CASE Len(s) # 0
    BY <1>1, <1>2, <2>2 DEF Chain
  <2>3. QED
    BY <2>1, <2>2
<1>4. ASSUME NEW k \in 1..Len(t), NEW m \in 1..Len(t), m = k + 1
      PROVE  Follows(t[k].round, t[m])
  <2>1. k \in 1..Len(s) /\ t[k] = s[k]
    BY <1>1, <1>4
  <2>2. CASE k = Len(s)
    <3>1. s # <<>> /\ m = Len(t)
      BY <1>1, <1>2, <1>4, <2>1, <2>2
    <3>2. LeadsTo(first, s) = t[k].round
      BY <2>1, <2>2, <3>1 DEF LeadsTo
    <3>3. QED
      BY <1>1, <3>1, <3>2
  <2>3. CASE k # Len(s)
    <3>1. m \in 1..Len(s) /\ t[m] = s[m]
      BY <1>1, <1>4, <2>1, <2>3
    <3>2. Follows(s[k].round, s[m])
      BY <1>4, <2>1, <3>1 DEF Chain
    <3>3. QED
      BY <2>1, <3>1, <3>2
  <2>4. QED
    BY <2>2, <2>3
<1>5. Chain(first, t)
  BY <1>3, <1>4 DEF Chain
<1>6. LeadsTo(first, t) = e.round
  BY <1>1 DEF LeadsTo
<1>7. QED
  BY <1>5, <1>6 DEF t

\* Behind the first packet the order goes on from that packet's round.
LEMMA ChainTail ==
  ASSUME NEW first \in Nat, NEW s \in Seq(StatePacket), s # <<>>, Chain(first, s)
  PROVE  /\ Follows(first, Head(s)) /\ Chain(Head(s).round, Tail(s))
         /\ LeadsTo(Head(s).round, Tail(s)) = LeadsTo(first, s)
<1> DEFINE t == Tail(s)
<1>1. /\ Len(s) \in Nat /\ Len(s) >= 1 /\ Len(t) = Len(s) - 1 /\ Head(s) = s[1]
      /\ \A k \in 1..(Len(s) - 1) : t[k] = s[k + 1]
      /\ t \in Seq(StatePacket)
  BY TailFacts
<1> HIDE DEF t
<1>2. t = <<>> <=> Len(t) = 0
  BY <1>1, EmptySeq
<1>3. \A k \in 1..Len(t), m \in 1..Len(s) : m = k + 1 => t[k] = s[m]
  BY <1>1
<1>4. Len(t) # 0 => Follows(s[1].round, t[1])
  <2>1. ASSUME Len(t) # 0 PROVE Follows(s[1].round, s[2]) /\ t[1] = s[2]
    BY <1>1, <1>3, <2>1 DEF Chain
  <2>2. QED
    BY <2>1
<1>5. ASSUME NEW k \in 1..Len(t), NEW m \in 1..Len(t), m = k + 1
      PROVE  Follows(t[k].round, t[m])
  <2>1. PICK n \in 1..Len(s) : n = m + 1
    BY <1>1
  <2>2. m \in 1..Len(s) /\ Follows(s[m].round, s[n])
    BY <1>1, <2>1 DEF Chain
  <2>3. t[k] = s[m] /\ t[m] = s[n]
    BY <1>3, <1>5, <2>1, <2>2
  <2>4. QED
    BY <2>2, <2>3
<1>6. LeadsTo(s[1].round, t) = LeadsTo(first, s)
  <2>1. CASE Len(t) = 0
    <3>1. t = <<>> /\ Len(s) = 1
      BY <1>1, <1>2, <2>1
    <3>2. QED
      BY <3>1, Zenon DEF LeadsTo
  <2>2. CASE Len(t) # 0
    <3>1. t[Len(t)] = s[Len(s)]
      BY <1>1, <1>3, <2>2
    <3>2. t # <<>>
      BY <1>2, <2>2
    <3>3. QED
      BY <3>1, <3>2, Zenon DEF LeadsTo
  <2>3. QED
    BY <2>1, <2>2
<1>7. Chain(s[1].round, t)
  BY <1>2, <1>4, <1>5 DEF Chain
<1>8. Follows(first, s[1])
  BY DEF Chain
<1>9. QED
  BY <1>1, <1>6, <1>7, <1>8 DEF t

\* The rounds of packets are numbers.
LEMMA RoundsOfPackets == \A e \in StatePacket : e.round \in Nat
BY Constants DEF StatePacket

\* Packets within a bound, and one more within it, are within it together.
LEMMA FitsAppend ==
  ASSUME NEW s \in Seq(StatePacket), NEW e \in StatePacket, NEW i, NEW m \in Int, NEW n \in Int,
         Fits(s, i, m), m <= n, e.round >= 1, e.round <= n,
         e.type = "INIT" /\ e.round = 1 => e.own = i
  PROVE  Fits(Append(s, e), i, n)
<1> DEFINE t == Append(s, e)
<1>1. /\ Len(s) \in Nat /\ Len(t) = Len(s) + 1 /\ t[Len(t)] = e
      /\ \A k \in 1..Len(s) : t[k] = s[k] /\ s[k] \in StatePacket
  BY AppendFacts
<1> HIDE DEF t
<1>2. \A k \in 1..Len(s) : s[k].round \in Int
  BY <1>1, RoundsOfPackets
<1>3. ASSUME NEW k \in 1..Len(t)
      PROVE  /\ t[k].round >= 1 /\ t[k].round <= n
             /\ t[k].type = "INIT" /\ t[k].round = 1 => t[k].own = i
  <2>1. CASE k = Len(t)
    BY <1>1, <2>1
  <2>2. CASE k # Len(t)
    <3>1. k \in 1..Len(s) /\ t[k] = s[k]
      BY <1>1, <2>2
    <3>2. QED
      BY <1>2, <3>1 DEF Fits
  <2>3. QED
    BY <2>1, <2>2
<1>4. QED
  BY <1>3 DEF Fits, t

\* So do those behind the first, and the first is within them.
LEMMA FitsTail ==
  ASSUME NEW s \in Seq(StatePacket), s # <<>>, NEW i, NEW n, Fits(s, i, n)
  PROVE  /\ Fits(Tail(s), i, n) /\ Head(s).round >= 1 /\ Head(s).round <= n
         /\ Head(s).type = "INIT" /\ Head(s).round = 1 => Head(s).own = i
<1> DEFINE t == Tail(s)
<1>1. /\ Len(s) \in Nat /\ Len(s) >= 1 /\ Len(t) = Len(s) - 1 /\ Head(s) = s[1]
      /\ \A k \in 1..(Len(s) - 1) : t[k] = s[k + 1]
  BY TailFacts
<1> HIDE DEF t
<1>2. ASSUME NEW k \in 1..Len(t)
      PROVE  /\ t[k].round >= 1 /\ t[k].round <= n
             /\ t[k].type = "INIT" /\ t[k].round = 1 => t[k].own = i
  <2>1. PICK m \in 1..Len(s) : t[k] = s[m]
    BY <1>1
  <2>2. QED
    BY <2>1 DEF Fits
<1>3. QED
  BY <1>1, <1>2 DEF Fits, t

\* A wider bound is kept to as well.
LEMMA FitsMore ==
  ASSUME NEW s \in Seq(StatePacket), NEW i, NEW m \in Int, NEW n \in Int, Fits(s, i, m), m <= n
  PROVE  Fits(s, i, n)
<1>1. \A k \in 1..Len(s) : s[k].round \in Int
  BY ElementOfSeq, RoundsOfPackets
<1>2. QED
  BY <1>1 DEF Fits

-----------------------------------------------------------------------------
(* A step keeps the order.                                                 *)

\* A step that leaves alone where the threads of room r are and what they send.
RoomKept(r) ==
  /\ round'[r] = round[r] /\ gpc'[r] = gpc[r] /\ seat'[r] = seat[r]
  /\ spc'[r] = spc[r] /\ out'[r] = out[r] /\ target'[r] = target[r]

\* A step that leaves alone what player p knows and is about to hear.
PlayerKept(p) ==
  down'[p] = down[p] /\ view'[p] = view[p] /\ (conn'[p] = "open" <=> conn[p] = "open")

\* What is due is a number.
LEMMA DueIsInt ==
  ASSUME TypeOK, NEW r \in Rooms, NEW i \in Seats
  PROVE  Due(r, i) \in Int /\ round[r] \in Nat /\ Due(r, i) <= round[r]
<1>1. round[r] \in Nat
  BY Constants DEF TypeOK
<1>2. QED
  BY <1>1 DEF Due

\* What RoomKept keeps.
LEMMA RoomFrame ==
  ASSUME NEW r \in Rooms, RoomKept(r)
  PROVE  /\ PhaseInv(r) => PhaseInv(r)'
         /\ \A i \in Seats : Due(r, i)' = Due(r, i)
         /\ Ended(r)' <=> Ended(r)
<1>1. PhaseInv(r) => PhaseInv(r)'
  BY DEF RoomKept, PhaseInv
<1>2. \A i \in Seats : Due(r, i)' = Due(r, i)
  BY DEF RoomKept, Due, Owing, InitOwed
<1>3. Ended(r)' <=> Ended(r)
  BY DEF RoomKept, Ended
<1>4. QED
  BY <1>1, <1>2, <1>3

\* The types a player's part of the invariant is about.
LEMMA PlayerTypes ==
  ASSUME TypeOK, NEW r \in Rooms, NEW i \in Seats
  PROVE  /\ <<r, i>> \in Players /\ down[<<r, i>>] \in Seq(StatePacket)
         /\ view[<<r, i>>] \in [round : Rounds, sync : Syncs, own : Seats]
         /\ view[<<r, i>>].round \in Nat
<1>1. <<r, i>> \in Players
  BY SeatedPlayer
<1>2. view[<<r, i>>] \in [round : Rounds, sync : Syncs, own : Seats]
  BY <1>1 DEF TypeOK
<1>3. QED
  BY <1>1, <1>2, Constants DEF TypeOK

\* A player who hears nothing new stays in order, while nothing more falls due to it.
LEMMA PlayerFrame ==
  ASSUME TypeOK, TypeOK', NEW r \in Rooms, NEW i \in Seats, PlayerInv(r, i),
         PlayerKept(<<r, i>>), Due(r, i) <= Due(r, i)',
         Here(<<r, i>>) /\ ~Ended(r)' => ~Ended(r) /\ Due(r, i)' = Due(r, i)
  PROVE  PlayerInv(r, i)'
<1> DEFINE p == <<r, i>>
<1>1. /\ down[p] \in Seq(StatePacket) /\ view[p].round \in Nat
      /\ Due(r, i) \in Int /\ Due(r, i)' \in Int
  <2>1. Due(r, i)' \in Int
    <3>1. round' \in [Rooms -> Rounds]
      BY DEF TypeOK
    <3>2. round'[r] \in Nat
      BY <3>1, Constants
    <3>3. QED
      BY <3>2 DEF Due
  <2>2. QED
    BY <2>1, PlayerTypes, DueIsInt
<1>2. down'[p] = down[p] /\ view'[p] = view[p] /\ (Here(p)' <=> Here(p))
  BY DEF PlayerKept, Here
<1>3. Fits(down[p], i, Due(r, i)')
  BY <1>1, FitsMore DEF PlayerInv
<1>4. /\ ~Here(p)' => down'[p] = <<>>
      /\ Joined(p)' => view'[p].own = i
      /\ Chain(view'[p].round, down'[p])
  BY <1>2 DEF PlayerInv, Joined
<1>5. view'[p].round <= Due(r, i)'
  BY <1>1, <1>2 DEF PlayerInv
<1>6. Here(p)' /\ ~Ended(r)' => LeadsTo(view'[p].round, down'[p]) = Due(r, i)'
  BY <1>2 DEF PlayerInv
<1>7. Fits(down'[p], i, Due(r, i)')
  BY <1>2, <1>3
<1>8. QED
  BY <1>4, <1>5, <1>6, <1>7 DEF PlayerInv, Chain, Fits, LeadsTo, Joined

\* A packet that follows on what has been due is sent in order.
LEMMA PlayerSent ==
  ASSUME TypeOK, TypeOK', NEW r \in Rooms, NEW i \in Seats, NEW e \in StatePacket,
         PlayerInv(r, i), Here(<<r, i>>), ~Ended(r),
         down'[<<r, i>>] = Append(down[<<r, i>>], e),
         view'[<<r, i>>] = view[<<r, i>>], conn'[<<r, i>>] = conn[<<r, i>>],
         Follows(Due(r, i), e), e.round = Due(r, i)', e.round >= 1,
         e.type = "INIT" /\ e.round = 1 => e.own = i
  PROVE  PlayerInv(r, i)'
<1> DEFINE p == <<r, i>>
<1>1. /\ down[p] \in Seq(StatePacket) /\ view[p].round \in Nat
      /\ Due(r, i) \in Int /\ Due(r, i)' \in Int /\ Due(r, i) <= Due(r, i)'
  <2>1. Due(r, i)' \in Int
    <3>1. round'[r] \in Nat
      BY Constants DEF TypeOK
    <3>2. QED
      BY <3>1 DEF Due
  <2>2. Due(r, i) <= Due(r, i)'
    BY <2>1, DueIsInt DEF Follows
  <2>3. QED
    BY <2>1, <2>2, PlayerTypes, DueIsInt
<1>2. LeadsTo(view[p].round, down[p]) = Due(r, i) /\ Chain(view[p].round, down[p])
  BY DEF PlayerInv
<1>3. /\ Chain(view[p].round, Append(down[p], e))
      /\ LeadsTo(view[p].round, Append(down[p], e)) = e.round
  BY <1>1, <1>2, ChainAppend
<1>4. Fits(Append(down[p], e), i, Due(r, i)')
  <2>1. Fits(down[p], i, Due(r, i)) /\ e.round <= Due(r, i)'
    BY <1>1 DEF PlayerInv
  <2>2. QED
    BY <1>1, <2>1, FitsAppend
<1>5. Here(p)' /\ view'[p].round <= Due(r, i)' /\ (Joined(p)' => view'[p].own = i)
  BY <1>1 DEF PlayerInv, Here, Joined
<1>6. /\ Chain(view'[p].round, down'[p]) /\ Fits(down'[p], i, Due(r, i)')
      /\ LeadsTo(view'[p].round, down'[p]) = Due(r, i)'
  BY <1>3, <1>4
<1>7. QED
  BY <1>5, <1>6 DEF PlayerInv, Chain, Fits, LeadsTo, Joined

\* What a send does to the player it is to, and to the others.
LEMMA SendDoes ==
  ASSUME TypeOK, NEW p \in Players, NEW e
  PROVE  /\ SendSucceeds(p, e) \/ SendFails(p) =>
              \A q \in Players : q # p => down'[q] = down[q] /\ conn'[q] = conn[q]
         /\ SendSucceeds(p, e) /\ Here(p) =>
              down'[p] = Append(down[p], e) /\ conn'[p] = conn[p]
         /\ SendSucceeds(p, e) /\ ~Here(p) => down'[p] = down[p] /\ conn'[p] # "open"
         /\ SendFails(p) => ~Here(p) /\ down'[p] = down[p] /\ conn'[p] # "open"
BY DEF SendSucceeds, SendFails, Here, TypeOK

\* An error that recv reports is of a connection that was not open any more.
LEMMA RecvLeaves ==
  ASSUME TypeOK, NEW r \in Rooms, Recv(r), NEW q \in Rooms, NEW i \in Seats
  PROVE  RoomKept(q) /\ PlayerKept(<<q, i>>)
<1>1. PICK p \in Players :
         /\ UNCHANGED conn \/ (conn[p] = "reset" /\ conn' = [conn EXCEPT ![p] = "dead"])
         /\ UNCHANGED down
  BY RecvPacket
<1>2. conn'[<<q, i>>] = "open" <=> conn[<<q, i>>] = "open"
  BY <1>1, SeatedPlayer DEF TypeOK
<1>3. QED
  BY <1>1, <1>2 DEF Recv, RoomKept, PlayerKept, statics, gameVars, senderVars

\* The threads of a room leave the other rooms and their players alone.
LEMMA OtherRooms ==
  ASSUME TypeOK, NEW r \in Rooms, NEW q \in Rooms, q # r, NEW i \in Seats,
         GameThread(r) \/ Sender(r) \/ Receiver(r)
  PROVE  RoomKept(q) /\ PlayerKept(<<q, i>>)
<1> USE DEF statics, gameVars, senderVars, receiverVars, netVars
<1>1. <<q, i>> \in Players /\ \A j \in Seats : <<r, j>> \in Players /\ <<r, j>> # <<q, i>>
  BY SeatedPlayer
<1>2. CASE StartGame(r)
  BY <1>2 DEF StartGame, RoomKept, PlayerKept, TypeOK
<1>3. CASE SendInit(r)
  <2>1. seat[r] \in Seats
    BY DEF TypeOK
  <2>2. PlayerKept(<<q, i>>)
    BY <1>1, <1>3, <2>1, SendDoes DEF SendInit, PlayerKept
  <2>3. RoomKept(q)
    BY <1>3 DEF SendInit, RoomKept, TypeOK
  <2>4. QED
    BY <2>2, <2>3
<1>4. CASE Tick(r)
  BY <1>4 DEF Tick, RoomKept, PlayerKept, TypeOK
<1>5. CASE BumpSync(r)
  BY <1>5 DEF BumpSync, RoomKept, PlayerKept, TypeOK
<1>6. CASE MakePacket(r)
  BY <1>6 DEF MakePacket, RoomKept, PlayerKept, TypeOK
<1>7. CASE Broadcast(r)
  <2>1. target[r] \in Seats
    BY DEF TypeOK
  <2>2. PlayerKept(<<q, i>>)
    BY <1>1, <1>7, <2>1, SendDoes DEF Broadcast, PlayerKept
  <2>3. RoomKept(q)
    BY <1>7 DEF Broadcast, Disband, RoomKept, TypeOK
  <2>4. QED
    BY <2>2, <2>3
<1>8. CASE LoopTest(r)
  BY <1>8 DEF LoopTest, RoomKept, PlayerKept
<1>9. CASE Poll(r)
  BY <1>9 DEF Poll, RoomKept, PlayerKept
<1>10. CASE Recv(r)
  BY <1>10, RecvLeaves
<1>11. CASE CheckSync(r)
  BY <1>11 DEF CheckSync, RoomKept, PlayerKept
<1>12. CASE ApplyInput(r)
  BY <1>12 DEF ApplyInput, RoomKept, PlayerKept
<1>13. QED
  BY <1>2, <1>3, <1>4, <1>5, <1>6, <1>7, <1>8, <1>9, <1>10, <1>11, <1>12
  DEF GameThread, Sender, Receiver

\* The receiver of a room, too, leaves alone what its players know and hear.
LEMMA ReceiverKeeps ==
  ASSUME TypeOK, NEW r \in Rooms, NEW i \in Seats, Receiver(r)
  PROVE  RoomKept(r) /\ PlayerKept(<<r, i>>)
<1> USE DEF statics, gameVars, senderVars, receiverVars, netVars
<1>1. CASE LoopTest(r)
  BY <1>1 DEF LoopTest, RoomKept, PlayerKept
<1>2. CASE Poll(r)
  BY <1>2 DEF Poll, RoomKept, PlayerKept
<1>3. CASE Recv(r)
  BY <1>3, RecvLeaves
<1>4. CASE CheckSync(r)
  BY <1>4 DEF CheckSync, RoomKept, PlayerKept
<1>5. CASE ApplyInput(r)
  BY <1>5 DEF ApplyInput, RoomKept, PlayerKept
<1>6. QED
  BY <1>1, <1>2, <1>3, <1>4, <1>5 DEF Receiver

\* A room's own part of the invariant.
RoomInv(r) == PhaseInv(r) /\ \A i \in Seats : PlayerInv(r, i)

\* The start of a match: the players of the room know of nothing, and nothing is due.
LEMMA RoundStart ==
  ASSUME TypeOK, TypeOK', NEW r \in Rooms, RoomInv(r), StartGame(r)
  PROVE  RoomInv(r)'
<1>1. /\ gpc[r] = "waiting" /\ round[r] = 0 /\ seat[r] = 1 /\ spc[r] = "off"
      /\ gpc'[r] = "init" /\ round'[r] = 1 /\ seat'[r] = 1 /\ spc'[r] = "off"
      /\ out'[r].type = "INIT" /\ out'[r].round = 1
      /\ UNCHANGED <<conn, down, view>>
  BY DEF StartGame, RoomInv, PhaseInv, TypeOK, netVars
<1>2. PhaseInv(r)'
  BY <1>1 DEF PhaseInv
<1>3. ASSUME NEW i \in Seats PROVE PlayerInv(r, i)'
  <2>1. Due(r, i) = 0 /\ Due(r, i)' = 0 /\ ~Ended(r)
    BY <1>1 DEF Due, Owing, InitOwed, Ended, Seats
  <2>2. PlayerKept(<<r, i>>) /\ PlayerInv(r, i)
    BY <1>1, <1>3 DEF PlayerKept, RoomInv
  <2>3. QED
    BY <2>1, <2>2, PlayerFrame
<1>4. QED
  BY <1>2, <1>3 DEF RoomInv

\* An INIT is sent to seat j, and there is no more to come or the next seat is on.
LEMMA RoundSendInit ==
  ASSUME TypeOK, TypeOK', NEW r \in Rooms, RoomInv(r), SendInit(r)
  PROVE  RoomInv(r)'
<1> DEFINE j == seat[r]
<1> DEFINE e == [out[r] EXCEPT !.own = j]
<1>1. /\ gpc[r] = "init" /\ round[r] = 1 /\ spc[r] = "off"
      /\ out[r].type = "INIT" /\ out[r].round = 1 /\ round'[r] = 1 /\ view' = view
      /\ j \in Seats /\ out[r] \in StatePacket /\ <<r, j>> \in Players
  BY SeatedPlayer DEF SendInit, RoomInv, PhaseInv, TypeOK, statics
<1>2. e \in StatePacket /\ e.type = "INIT" /\ e.round = 1 /\ e.own = j
  BY <1>1 DEF StatePacket
<1>3. \/ /\ SendSucceeds(<<r, j>>, e)
         /\ \/ /\ j = 1 /\ gpc'[r] = "init" /\ seat'[r] = 2 /\ spc'[r] = "off"
               /\ out'[r] = out[r]
            \/ /\ j = 2 /\ gpc'[r] = "playing" /\ seat'[r] = 1 /\ spc'[r] = "tick"
      \/ /\ SendFails(<<r, j>>)
         /\ gpc'[r] = "failed" /\ spc'[r] = "off"
  BY <1>1 DEF SendInit, BothTold, Seats, TypeOK
<1> HIDE DEF e
<1>4. PhaseInv(r)'
  BY <1>1, <1>3 DEF PhaseInv
<1>5. ~Ended(r)
  BY <1>1 DEF Ended
<1>6. ASSUME NEW i \in Seats PROVE PlayerInv(r, i)'
  <2>1. PlayerInv(r, i) /\ <<r, i>> \in Players
    BY <1>6, SeatedPlayer DEF RoomInv
  <2>2. Due(r, i) = IF j <= i THEN 0 ELSE 1
    BY <1>1 DEF Due, Owing, InitOwed
  <2>3. CASE i = j /\ SendSucceeds(<<r, j>>, e) /\ Here(<<r, j>>)
    <3>1. Due(r, i)' = 1
      BY <1>1, <1>3, <2>3 DEF Due, Owing, InitOwed, SendFails, Here
    <3>2. down'[<<r, i>>] = Append(down[<<r, i>>], e) /\ conn'[<<r, i>>] = conn[<<r, i>>]
      BY <1>1, <2>3, SendDoes
    <3>3. Follows(Due(r, i), e)
      BY <1>1, <1>2, <2>2, <2>3 DEF Follows, Seats
    <3>4. QED
      BY <1>1, <1>2, <1>5, <2>1, <2>3, <3>1, <3>2, <3>3, PlayerSent
  <2>4. CASE i = j /\ ~Here(<<r, j>>)
    <3>1. PlayerKept(<<r, i>>)
      BY <1>1, <1>3, <2>4, SendDoes DEF PlayerKept, Here
    <3>2. Due(r, i) <= Due(r, i)'
      <4>1. Due(r, i)' \in {0, 1} /\ Due(r, i) = 0
        BY <1>1, <2>2, <2>4 DEF Due, Seats
      <4>2. QED
        BY <4>1
    <3>3. QED
      BY <2>1, <2>4, <3>1, <3>2, PlayerFrame
  <2>5. CASE i # j
    <3>1. PlayerKept(<<r, i>>)
      BY <1>1, <1>3, <2>1, <2>5, SendDoes DEF PlayerKept
    <3>2. Due(r, i) <= Due(r, i)' /\ (~Ended(r)' => Due(r, i)' = Due(r, i))
      BY <1>1, <1>3, <2>2, <2>5 DEF Due, Owing, InitOwed, Ended, Seats
    <3>3. QED
      BY <1>5, <2>1, <3>1, <3>2, PlayerFrame
  <2>6. QED
    BY <1>3, <2>3, <2>4, <2>5, SendDoes, <1>1
<1>7. QED
  BY <1>4, <1>6 DEF RoomInv

\* What the sender does by itself, up to the packet, leaves what is due as it was.
LEMMA RoundAhead ==
  ASSUME TypeOK, TypeOK', NEW r \in Rooms, RoomInv(r),
         Tick(r) \/ BumpSync(r) \/ MakePacket(r)
  PROVE  RoomInv(r)'
<1> USE DEF statics, gameVars, senderVars, receiverVars, netVars
<1>1. round[r] \in Nat /\ PhaseInv(r)
  BY Constants DEF TypeOK, RoomInv
<1>2. /\ spc[r] \in {"tick", "sync", "pack"} /\ gpc[r] = "playing" /\ gpc' = gpc
      /\ UNCHANGED <<seat, conn, down, view>>
  BY <1>1 DEF Tick, BumpSync, MakePacket, PhaseInv
<1>3. /\ PhaseInv(r)' /\ spc'[r] \in {"sync", "pack", "send"}
      /\ \A i \in Seats : Due(r, i)' = Due(r, i)
  <2>1. CASE Tick(r)
    <3>1. CASE spc'[r] = "pack" /\ out'[r].type = "STATE" /\ round'[r] = round[r]
      <4>1. \A i \in Seats : Due(r, i)' = round[r] /\ Due(r, i) = round[r]
        BY <1>2, <2>1, <3>1 DEF Tick, Due, Owing, InitOwed
      <4>2. QED
        BY <1>1, <1>2, <3>1, <4>1 DEF PhaseInv
    <3>2. CASE spc'[r] = "sync" /\ out'[r].type = "INIT" /\ round'[r] = round[r] + 1
      <4>1. \A i \in Seats : Due(r, i)' = round'[r] - 1 /\ Due(r, i) = round[r]
        BY <1>2, <2>1, <3>2 DEF Tick, Due, Owing, InitOwed
      <4>2. round[r] + 1 - 1 = round[r]
        BY <1>1
      <4>3. QED
        BY <1>1, <1>2, <3>2, <4>1, <4>2 DEF PhaseInv
    <3>3. QED
      BY <2>1, <3>1, <3>2 DEF Tick, TypeOfPacket, TypeOK, StatePacket
  <2>2. CASE BumpSync(r)
    <3>1. spc[r] = "sync" /\ spc'[r] = "pack" /\ UNCHANGED <<round, out, target>>
      BY <2>2 DEF BumpSync, TypeOK
    <3>2. \A i \in Seats : Due(r, i)' = Due(r, i)
      BY <1>2, <3>1 DEF Due, Owing, InitOwed
    <3>3. QED
      BY <1>1, <1>2, <3>1, <3>2 DEF PhaseInv
  <2>3. CASE MakePacket(r)
    <3>1. /\ spc[r] = "pack" /\ spc'[r] = "send" /\ round' = round
          /\ out'[r].type = out[r].type /\ out'[r].round = round[r] /\ target'[r] = 1
      BY <2>3 DEF MakePacket, TypeOK
    <3>2. QED
      BY <1>1, <1>2, <3>1 DEF PhaseInv, Due, Owing, InitOwed, Seats
  <2>4. QED
    BY <2>1, <2>2, <2>3
<1>4. ASSUME NEW i \in Seats PROVE PlayerInv(r, i)'
  <2>1. ~Ended(r)
    BY <1>2 DEF Ended
  <2>2. PlayerKept(<<r, i>>) /\ PlayerInv(r, i) /\ Due(r, i) <= Due(r, i)'
    BY <1>2, <1>3, <1>4, DueIsInt DEF PlayerKept, RoomInv
  <2>3. QED
    BY <1>3, <2>1, <2>2, PlayerFrame
<1>5. QED
  BY <1>3, <1>4 DEF RoomInv

\* A packet goes to one seat after the other.
LEMMA RoundBroadcast ==
  ASSUME TypeOK, TypeOK', NEW r \in Rooms, RoomInv(r), Broadcast(r)
  PROVE  RoomInv(r)'
<1> DEFINE j == target[r]
<1> DEFINE e == out[r]
<1>1. /\ spc[r] = "send" /\ gpc[r] = "playing" /\ round'[r] = round[r] /\ round[r] \in Nat
      /\ round[r] >= 1 /\ e.round = round[r] /\ gpc' = gpc /\ view' = view
      /\ e.type = "INIT" => round[r] >= 2
      /\ j \in Seats /\ e \in StatePacket /\ <<r, j>> \in Players
  BY SeatedPlayer, Constants
  DEF Broadcast, RoomInv, PhaseInv, TypeOK, statics, gameVars
<1>2. \/ /\ SendSucceeds(<<r, j>>, e)
         /\ \/ /\ j = 1 /\ target'[r] = 2 /\ spc'[r] = "send" /\ out'[r] = e
            \/ /\ j = 2 /\ spc'[r] \in {"tick", "done"}
      \/ /\ SendFails(<<r, j>>)
         /\ spc'[r] = "done"
  BY <1>1 DEF Broadcast, BothSent, Disband, Seats, TypeOK
<1>3. PhaseInv(r)'
  BY <1>1, <1>2 DEF PhaseInv
<1>4. ~Ended(r)
  BY <1>1 DEF Ended
<1>5. ASSUME NEW i \in Seats PROVE PlayerInv(r, i)'
  <2>1. PlayerInv(r, i) /\ <<r, i>> \in Players
    BY <1>5, SeatedPlayer DEF RoomInv
  <2>2. Due(r, i) = IF e.type = "INIT" /\ j <= i THEN round[r] - 1 ELSE round[r]
    BY <1>1 DEF Due, Owing, InitOwed
  <2>3. CASE i = j /\ SendSucceeds(<<r, j>>, e) /\ Here(<<r, j>>)
    <3>1. Due(r, i)' = round[r]
      BY <1>1, <1>2, <2>3 DEF Due, Owing, InitOwed, SendFails, Here
    <3>2. down'[<<r, i>>] = Append(down[<<r, i>>], e) /\ conn'[<<r, i>>] = conn[<<r, i>>]
      BY <1>1, <2>3, SendDoes
    <3>3. Follows(Due(r, i), e)
      BY <1>1, <2>2, <2>3 DEF Follows, Seats
    <3>4. e.round >= 1 /\ ~(e.type = "INIT" /\ e.round = 1)
      BY <1>1
    <3>5. QED
      BY <1>1, <1>4, <2>1, <2>3, <3>1, <3>2, <3>3, <3>4, PlayerSent
  <2>4. CASE i = j /\ ~Here(<<r, j>>)
    <3>1. PlayerKept(<<r, i>>)
      BY <1>1, <1>2, <2>4, SendDoes DEF PlayerKept, Here
    <3>2. Due(r, i) <= Due(r, i)'
      <4>1. Due(r, i)' \in {round[r] - 1, round[r]}
        BY <1>1 DEF Due
      <4>2. Due(r, i)' # round[r] - 1 \/ Due(r, i) = round[r] - 1
        BY <1>1, <1>2, <2>2, <2>4 DEF Due, Owing, InitOwed, Seats
      <4>3. QED
        BY <1>1, <2>2, <4>1, <4>2
    <3>3. QED
      BY <2>1, <2>4, <3>1, <3>2, PlayerFrame
  <2>5. CASE i # j
    <3>1. PlayerKept(<<r, i>>)
      BY <1>1, <1>2, <2>1, <2>5, SendDoes DEF PlayerKept
    <3>2. Due(r, i) <= Due(r, i)' /\ (~Ended(r)' => Due(r, i)' = Due(r, i))
      BY <1>1, <1>2, <2>2, <2>5 DEF Due, Owing, InitOwed, Ended, Seats
    <3>3. QED
      BY <1>4, <2>1, <3>1, <3>2, PlayerFrame
  <2>6. QED
    BY <1>1, <1>2, <2>3, <2>4, <2>5, SendDoes
<1>6. QED
  BY <1>3, <1>5 DEF RoomInv

\* What a client does leaves its room alone, and keeps it in order.
LEMMA RoundClient ==
  ASSUME TypeOK, TypeOK', NEW r \in Rooms, NEW i \in Seats, RoomInv(r), ClientStep(<<r, i>>)
  PROVE  PlayerInv(r, i)'
<1> USE DEF statics, gameVars, senderVars, receiverVars, netVars
<1> DEFINE p == <<r, i>>
<1>1. /\ PlayerInv(r, i) /\ p \in Players /\ down[p] \in Seq(StatePacket)
      /\ view[p].round \in Nat /\ Due(r, i) \in Int
  BY PlayerTypes, DueIsInt DEF RoomInv
<1>2. RoomKept(r)
  BY DEF ClientStep, ClientReceives, ClientSends, ClientLeaves, RstArrives, Abort, RoomKept
<1>3. Due(r, i)' = Due(r, i) /\ (Ended(r)' <=> Ended(r))
  BY <1>2, RoomFrame
<1>4. CASE ClientReceives(p)
  <2> DEFINE packet == Head(down[p])
  <2>1. /\ Here(p) /\ down[p] # <<>> /\ down'[p] = Tail(down[p])
    BY <1>1, <1>4 DEF ClientReceives, Here, TypeOK
  <2>2. /\ Follows(view[p].round, packet) /\ Chain(packet.round, Tail(down[p]))
        /\ LeadsTo(packet.round, Tail(down[p])) = LeadsTo(view[p].round, down[p])
    BY <1>1, <2>1, ChainTail DEF PlayerInv
  <2>3. /\ Fits(Tail(down[p]), i, Due(r, i)) /\ packet.round >= 1 /\ packet.round <= Due(r, i)
        /\ packet.type = "INIT" /\ packet.round = 1 => packet.own = i
    BY <1>1, <2>1, FitsTail DEF PlayerInv
  <2>4. packet \in StatePacket /\ packet.round \in Nat
    BY <1>1, <2>1, TailFacts, RoundsOfPackets
  <2>5. /\ view'[p].round = packet.round /\ (Joined(p)' => view'[p].own = i)
        /\ Here(p)'
    <3>1. CASE /\ packet.type = "INIT"
               /\ view' = [view EXCEPT ![p] = [round |-> packet.round, sync |-> SyncOf(p, packet),
                                               own |-> Own(p, packet)]]
               /\ UNCHANGED conn
      <4>1. view'[p].round = packet.round /\ view'[p].own = Own(p, packet)
        BY <1>1, <3>1 DEF TypeOK
      <4>2. ~Joined(p) => packet.round = 1
        BY <1>1, <2>2, <3>1 DEF Joined, Follows
      <4>3. Own(p, packet) = i
        BY <1>1, <2>3, <3>1, <4>2 DEF Own, PlayerInv
      <4>4. QED
        BY <2>1, <3>1, <4>1, <4>3 DEF Here
    <3>2. CASE /\ packet.type = "STATE"
               /\ conn' = IF Joined(p) THEN conn ELSE [conn EXCEPT ![p] = "fin"]
               /\ UNCHANGED view
      <4>1. packet.round = view[p].round /\ Joined(p)
        BY <1>1, <2>2, <2>3, <2>4, <3>2 DEF Follows, Joined
      <4>2. QED
        BY <1>1, <2>1, <3>2, <4>1 DEF Here, PlayerInv, Joined
    <3>3. QED
      BY <1>4, <3>1, <3>2 DEF ClientReceives
  <2>6. Here(p) /\ ~Ended(r) => LeadsTo(view[p].round, down[p]) = Due(r, i)
    BY <1>1 DEF PlayerInv
  <2> HIDE DEF packet
  <2>7. /\ Chain(view'[p].round, down'[p]) /\ Fits(down'[p], i, Due(r, i)')
        /\ view'[p].round <= Due(r, i)'
        /\ Here(p)' /\ ~Ended(r)' => LeadsTo(view'[p].round, down'[p]) = Due(r, i)'
    BY <1>3, <2>1, <2>2, <2>3, <2>5, <2>6
  <2>8. QED
    BY <2>5, <2>7 DEF PlayerInv, Chain, Fits, LeadsTo, Joined
<1>5. CASE ClientSends(p) \/ RstArrives(p)
  <2>1. PlayerKept(p)
    BY <1>1, <1>5 DEF ClientSends, RstArrives, PlayerKept, TypeOK
  <2>2. QED
    BY <1>1, <1>3, <2>1, PlayerFrame
<1>6. CASE ClientLeaves(p) \/ Abort(p)
  <2>1. ~Here(p)' /\ down'[p] = <<>> /\ view' = view
    BY <1>1, <1>6 DEF ClientLeaves, Abort, Here, TypeOK
  <2>2. Chain(view'[p].round, down'[p]) /\ Fits(down'[p], i, Due(r, i)')
    BY <2>1, Constants DEF Chain, Fits
  <2>3. view'[p].round <= Due(r, i)' /\ (Joined(p)' => view'[p].own = i)
    BY <1>1, <1>3, <2>1 DEF PlayerInv, Joined
  <2>4. QED
    BY <2>1, <2>2, <2>3 DEF PlayerInv, Chain, Fits, Joined
<1>7. QED
  BY <1>4, <1>5, <1>6 DEF ClientStep

\* A client leaves alone the rooms, and the players that are not it.
LEMMA OtherPlayers ==
  ASSUME TypeOK, NEW p \in Players, ClientStep(p), NEW r \in Rooms, NEW i \in Seats
  PROVE  RoomKept(r) /\ (<<r, i>> # p => PlayerKept(<<r, i>>))
<1> USE DEF statics, gameVars, senderVars, receiverVars, netVars
<1>1. RoomKept(r)
  BY DEF ClientStep, ClientReceives, ClientSends, ClientLeaves, RstArrives, Abort, RoomKept
<1>2. ASSUME <<r, i>> # p PROVE PlayerKept(<<r, i>>)
  <2>1. <<r, i>> \in Players
    BY SeatedPlayer
  <2>2. /\ down' = down \/ \E s : down' = [down EXCEPT ![p] = s]
        /\ conn' = conn \/ \E s : conn' = [conn EXCEPT ![p] = s]
        /\ view' = view \/ \E s : view' = [view EXCEPT ![p] = s]
    BY DEF ClientStep, ClientReceives, ClientSends, ClientLeaves, RstArrives, Abort
  <2>3. QED
    BY <1>2, <2>1, <2>2 DEF PlayerKept, TypeOK
<1>3. QED
  BY <1>1, <1>2

\* A room nothing happens to keeps its part of the invariant.
LEMMA RoundFrame ==
  ASSUME TypeOK, TypeOK', NEW r \in Rooms, RoomInv(r), RoomKept(r)
  PROVE  /\ PhaseInv(r)'
         /\ \A i \in Seats : PlayerKept(<<r, i>>) => PlayerInv(r, i)'
<1>1. ASSUME NEW i \in Seats, PlayerKept(<<r, i>>) PROVE PlayerInv(r, i)'
  <2>1. /\ PlayerInv(r, i) /\ Due(r, i)' = Due(r, i) /\ Due(r, i) <= Due(r, i)
        /\ (Ended(r)' <=> Ended(r))
    BY RoomFrame, DueIsInt DEF RoomInv
  <2>2. QED
    BY <1>1, <2>1, PlayerFrame
<1>2. QED
  BY <1>1, RoomFrame DEF RoomInv

\* Before the first match nobody has been told of anything.
LEMMA RoundInit == Init => RoundInv
<1> SUFFICES ASSUME Init PROVE RoundInv
  OBVIOUS
<1>1. ASSUME NEW r \in Rooms PROVE PhaseInv(r)
  BY DEF Init, PhaseInv
<1>2. ASSUME NEW r \in Rooms, NEW i \in Seats PROVE PlayerInv(r, i)
  <2>1. <<r, i>> \in Players
    BY SeatedPlayer
  <2>2. /\ down[<<r, i>>] = <<>> /\ view[<<r, i>>].round = 0
        /\ Due(r, i) = 0
    BY <2>1 DEF Init, Due, Owing, InitOwed
  <2>3. Chain(0, <<>>) /\ Fits(<<>>, i, 0) /\ LeadsTo(0, <<>>) = 0
    BY Constants DEF Chain, Fits, LeadsTo
  <2>4. QED
    BY <2>2, <2>3 DEF PlayerInv, Joined
<1>3. QED
  BY <1>1, <1>2 DEF RoundInv

\* Every step of every thread, client and of the network keeps the rounds in order.
LEMMA RoundStep == TypeInv /\ RoundInv /\ [Next]_vars => RoundInv'
<1> SUFFICES ASSUME TypeInv, RoundInv, [Next]_vars PROVE RoundInv'
  OBVIOUS
<1>1. TypeOK /\ TypeOK'
  BY TypesStep DEF TypeInv
<1>2. SUFFICES ASSUME NEW q \in Rooms PROVE RoomInv(q)'
  BY DEF RoundInv, RoomInv
<1>3. RoomInv(q)
  BY DEF RoundInv, RoomInv
<1>4. ASSUME NEW r \in Rooms, GameThread(r) \/ Sender(r) \/ Receiver(r)
      PROVE  RoomInv(q)'
  <2>1. CASE q # r
    BY <1>1, <1>3, <1>4, <2>1, OtherRooms, RoundFrame, Constants DEF RoomInv
  <2>2. CASE q = r /\ Receiver(r)
    BY <1>1, <1>3, <2>2, ReceiverKeeps, RoundFrame, Constants DEF RoomInv
  <2>3. CASE q = r /\ (GameThread(r) \/ Sender(r))
    BY <1>1, <1>3, <2>3, RoundStart, RoundSendInit, RoundAhead, RoundBroadcast
    DEF GameThread, Sender
  <2>4. QED
    BY <1>4, <2>1, <2>2, <2>3
<1>5. ASSUME NEW p \in Players, ClientStep(p) PROVE RoomInv(q)'
  <2>1. RoomKept(q)
    BY <1>1, <1>5, OtherPlayers, Constants
  <2>2. ASSUME NEW i \in Seats PROVE PlayerInv(q, i)'
    <3>1. CASE <<q, i>> = p
      BY <1>1, <1>3, <1>5, <3>1, RoundClient
    <3>2. CASE <<q, i>> # p
      BY <1>1, <1>3, <1>5, <2>1, <3>2, OtherPlayers, RoundFrame
    <3>3. QED
      BY <3>1, <3>2
  <2>3. QED
    BY <1>1, <1>3, <2>1, <2>2, RoundFrame DEF RoomInv
<1>6. CASE UNCHANGED vars
  <2>1. RoomKept(q) /\ \A i \in Seats : PlayerKept(<<q, i>>)
    BY <1>6 DEF vars, statics, gameVars, senderVars, netVars, RoomKept, PlayerKept
  <2>2. QED
    BY <1>1, <1>3, <2>1, RoundFrame DEF RoomInv
<1>7. QED
  BY <1>4, <1>5, <1>6, StepsOf

\* The rounds are always in order, for the theorems below.
LEMMA AlwaysInOrder == Spec => [](TypeInv /\ RoundInv)
BY TypesInit, TypesStep, RoundInit, RoundStep, PTL DEF Spec

\* In every stream from the server the INIT of a round comes before the STATEs of that
\* round, and no round is left out: whichever rooms play, whoever leaves in between.
THEOREM StateComesAfterInit == Spec => []StateFollowsInit
<1>1. TypeInv /\ RoundInv => StateFollowsInit
  <2> SUFFICES ASSUME TypeInv, RoundInv, NEW p \in Players, NEW k \in DOMAIN down[p],
                      NEW before,
                      before = IF k = 1 THEN view[p].round ELSE down[p][k - 1].round
               PROVE  Follows(before, down[p][k])
    BY DEF StateFollowsInit, Follows
  <2>1. PICK r \in Rooms, i \in Seats : p = <<r, i>>
    BY DEF Players
  <2>2. Chain(view[p].round, down[p])
    BY <2>1 DEF RoundInv, PlayerInv
  <2>3. /\ down[p] \in Seq(StatePacket) /\ Len(down[p]) \in Nat
        /\ DOMAIN down[p] = 1..Len(down[p])
    BY LenProperties DEF TypeInv, TypeOK
  <2>4. CASE k = 1
    <3>1. down[p] # <<>>
      BY <2>3, <2>4, EmptySeq
    <3>2. QED
      BY <2>2, <2>4, <3>1 DEF Chain
  <2>5. CASE k # 1
    <3>1. PICK h \in 1..Len(down[p]) : h = k - 1 /\ k = h + 1
      BY <2>3, <2>5
    <3>2. k \in 1..Len(down[p]) /\ Follows(down[p][h].round, down[p][k])
      BY <2>2, <2>3, <3>1 DEF Chain
    <3>3. QED
      BY <2>5, <3>1, <3>2
  <2>6. QED
    BY <2>4, <2>5
<1>2. QED
  BY <1>1, AlwaysInOrder, PTL

\* Whoever has read an INIT knows its own seat, although later INITs carry the first seat
\* for everybody.
THEOREM SeatIsKnown == Spec => []KnowsOwnSeat
<1>1. TypeInv /\ RoundInv => KnowsOwnSeat
  <2> SUFFICES ASSUME RoundInv, NEW p \in Players, Joined(p) PROVE view[p].own = p[2]
    BY DEF KnowsOwnSeat
  <2>1. PICK r \in Rooms, i \in Seats : p = <<r, i>>
    BY DEF Players
  <2>2. QED
    BY <2>1 DEF RoundInv, PlayerInv
<1>2. QED
  BY <1>1, AlwaysInOrder, PTL

-----------------------------------------------------------------------------
(* The promise of RoundAnnouncer.                                          *)

\* The round each player knows of, and the rooms somebody has left.
Seen == [p \in Players |-> view[p].round]
Over == {r \in Rooms : \E p \in SeatsOf(r) : ~Here(p)}

\* Whoever is away stays away, and knows no more.
LEMMA AwayFrame ==
  ASSUME TypeOK, \A r \in Rooms : \A i \in Seats : PlayerKept(<<r, i>>)
  PROVE  Over' = Over
<1>1. \A r \in Rooms : \A i \in Seats : Here(<<r, i>>)' <=> Here(<<r, i>>)
  BY DEF PlayerKept, Here
<1>2. QED
  BY <1>1 DEF Over, SeatsOf

\* The threads of a room begin a round, or the announcer sees nothing of what they do.
LEMMA AnnounceRoom ==
  ASSUME TypeOK, NEW r \in Rooms, GameThread(r) \/ Sender(r) \/ Receiver(r), PhaseInv(r)
  PROVE  \/ round' = [round EXCEPT ![r] = @ + 1] /\ Seen' = Seen /\ Over' = Over
         \/ round' = round /\ Seen' = Seen /\ Over' = Over
<1> USE DEF statics, gameVars, senderVars, receiverVars, netVars
<1>1. view' = view
  BY DEF GameThread, Sender, Receiver, StartGame, SendInit, Tick, BumpSync, MakePacket,
         Broadcast, LoopTest, Poll, Recv, CheckSync, ApplyInput
<1>2. Seen' = Seen
  BY <1>1 DEF Seen
<1>3. round' = round \/ round' = [round EXCEPT ![r] = @ + 1]
  <2>1. CASE StartGame(r)
    BY <2>1 DEF StartGame, PhaseInv, TypeOK
  <2>2. CASE Tick(r)
    BY <2>2 DEF Tick
  <2>3. CASE ~StartGame(r) /\ ~Tick(r)
    BY <2>3 DEF GameThread, Sender, Receiver, SendInit, BumpSync, MakePacket,
                Broadcast, LoopTest, Poll, Recv, CheckSync, ApplyInput
  <2>4. QED
    BY <2>1, <2>2, <2>3
<1>4. ASSUME NEW q \in Rooms, NEW i \in Seats
      PROVE  Here(<<q, i>>)' <=> Here(<<q, i>>)
  <2>0. <<q, i>> \in Players
    BY SeatedPlayer
  <2>1. CASE SendInit(r)
    <3>1. <<r, seat[r]>> \in Players
      BY SeatedPlayer DEF TypeOK
    <3>2. QED
      BY <2>0, <2>1, <3>1, SendDoes DEF SendInit, Here
  <2>2. CASE Broadcast(r)
    <3>1. <<r, target[r]>> \in Players
      BY SeatedPlayer DEF TypeOK
    <3>2. QED
      BY <2>0, <2>2, <3>1, SendDoes DEF Broadcast, Here
  <2>3. CASE Receiver(r)
    <3>1. PlayerKept(<<q, i>>)
      BY <2>3, OtherRooms, ReceiverKeeps, Constants
    <3>2. QED
      BY <3>1 DEF PlayerKept, Here
  <2>4. CASE StartGame(r) \/ Tick(r) \/ BumpSync(r) \/ MakePacket(r)
    BY <2>4 DEF StartGame, Tick, BumpSync, MakePacket, Here
  <2>5. QED
    BY <2>1, <2>2, <2>3, <2>4 DEF GameThread, Sender
<1>5. Over' = Over
  BY <1>4 DEF Over, SeatsOf
<1>6. QED
  BY <1>2, <1>3, <1>5

\* A client learns of the next round, or leaves, or nothing is seen of what it does.
LEMMA AnnounceClient ==
  ASSUME TypeOK, RoundInv, NEW p \in Players, ClientStep(p)
  PROVE  /\ round' = round
         /\ \/ /\ Seen[p] < round[p[1]] /\ Seen' = [Seen EXCEPT ![p] = @ + 1] /\ Over' = Over
            \/ Seen' = Seen /\ Over' = Over \cup {p[1]}
            \/ Seen' = Seen /\ Over' = Over
<1> USE DEF statics, gameVars, senderVars, receiverVars, netVars
<1>1. PICK r \in Rooms, i \in Seats : p = <<r, i>>
  BY DEF Players
<1>2. /\ PlayerInv(r, i) /\ down[p] \in Seq(StatePacket) /\ view[p].round \in Nat
      /\ round[r] \in Nat /\ Due(r, i) \in Int /\ Due(r, i) <= round[r]
  BY <1>1, PlayerTypes, DueIsInt DEF RoundInv
<1>3. round' = round
  BY DEF ClientStep, ClientReceives, ClientSends, ClientLeaves, RstArrives, Abort
<1>4. CASE ClientReceives(p)
  <2> DEFINE packet == Head(down[p])
  <2>1. /\ Here(p) /\ down[p] # <<>>
    BY <1>4 DEF ClientReceives, Here
  <2>2. /\ Follows(view[p].round, packet) /\ packet.round >= 1 /\ packet.round <= Due(r, i)
    BY <1>1, <1>2, <2>1, ChainTail, FitsTail DEF PlayerInv
  <2>3. CASE /\ packet.type = "INIT"
             /\ view' = [view EXCEPT ![p] = [round |-> packet.round, sync |-> SyncOf(p, packet),
                                             own |-> Own(p, packet)]]
             /\ UNCHANGED conn
    <3>1. packet.round = view[p].round + 1
      BY <2>2, <2>3 DEF Follows
    <3>2. Seen' = [Seen EXCEPT ![p] = @ + 1]
      BY <2>3, <3>1 DEF Seen, TypeOK
    <3>3. Seen[p] < round[r]
      BY <1>2, <2>2, <3>1 DEF Seen
    <3>4. Over' = Over
      BY <2>3 DEF Over, SeatsOf, Here
    <3>5. QED
      BY <1>1, <1>3, <3>2, <3>3, <3>4
  <2>4. CASE /\ packet.type = "STATE"
             /\ conn' = IF Joined(p) THEN conn ELSE [conn EXCEPT ![p] = "fin"]
             /\ UNCHANGED view
    <3>1. packet.round = view[p].round
      BY <2>2, <2>4 DEF Follows
    <3>2. Joined(p)
      BY <1>2, <2>2, <3>1 DEF Joined
    <3>3. Over' = Over /\ Seen' = Seen
      BY <2>4, <3>2 DEF Over, SeatsOf, Here, Seen
    <3>4. QED
      BY <1>3, <3>3
  <2>5. QED
    BY <1>4, <2>3, <2>4 DEF ClientReceives
<1>5. CASE ClientSends(p)
  BY <1>3, <1>5 DEF ClientSends, Seen, Over, SeatsOf, Here
<1>6. CASE RstArrives(p)
  <2>1. \A q \in Rooms : \A j \in Seats : Here(<<q, j>>)' <=> Here(<<q, j>>)
    BY <1>6, SeatedPlayer DEF RstArrives, Here, TypeOK
  <2>2. QED
    BY <1>3, <1>6, <2>1 DEF RstArrives, Seen, Over, SeatsOf
<1>7. CASE ClientLeaves(p) \/ Abort(p)
  <2>1. /\ ~Here(p)' /\ Seen' = Seen
        /\ \A q \in Players : q # p => (Here(q)' <=> Here(q))
    BY <1>7 DEF ClientLeaves, Abort, Here, Seen, TypeOK
  <2>2. \A q \in Rooms : q # r => \A j \in Seats : Here(<<q, j>>)' <=> Here(<<q, j>>)
    BY <1>1, <2>1, SeatedPlayer
  <2>3. p \in SeatsOf(r)
    BY <1>1 DEF SeatsOf
  <2>4. Over' = Over \cup {r}
    <3>1. r \in Over'
      BY <2>1, <2>3 DEF Over
    <3>2. \A q \in Rooms : q # r => (q \in Over' <=> q \in Over)
      BY <2>2 DEF Over, SeatsOf
    <3>3. Over' \subseteq Rooms /\ Over \subseteq Rooms
      BY DEF Over
    <3>4. QED
      BY <3>1, <3>2, <3>3
  <2>5. QED
    BY <1>1, <1>3, <2>1, <2>4
<1>8. QED
  BY <1>4, <1>5, <1>6, <1>7 DEF ClientStep

\* The players of every room learn of its rounds as RoundAnnouncer says: each round in its
\* turn, and none before it has begun.
THEOREM RoundsInTurn == Spec => Announcer!SafeSpec
<1>1. Init => Announcer!Init
  <2> SUFFICES ASSUME Init PROVE Announcer!Init
    OBVIOUS
  <2>1. [p \in Players |-> view[p].round] = [p \in Rooms \X Seats |-> 0]
    BY DEF Init, Players
  <2>2. \A r \in Rooms : \A p \in SeatsOf(r) : Here(p)
    BY SeatedPlayer DEF Init, SeatsOf, Here
  <2>3. QED
    BY <2>1, <2>2 DEF Init, Announcer!Init
<1>2. TypeInv /\ RoundInv /\ [Next]_vars => [Announcer!Next]_(Announcer!announcerVars)
  <2> SUFFICES ASSUME TypeInv, RoundInv, [Next]_vars
               PROVE  Announcer!Next \/ UNCHANGED Announcer!announcerVars
    OBVIOUS
  <2> USE DEF Announcer!announcerVars, Seen, Over
  <2>0. TypeOK
    BY DEF TypeInv
  <2>1. ASSUME NEW r \in Rooms, GameThread(r) \/ Sender(r) \/ Receiver(r)
        PROVE  Announcer!Next \/ UNCHANGED Announcer!announcerVars
    <3>1. PhaseInv(r)
      BY DEF RoundInv
    <3>2. CASE round' = [round EXCEPT ![r] = @ + 1] /\ Seen' = Seen /\ Over' = Over
      BY <3>2 DEF Announcer!Next, Announcer!NextRound
    <3>3. CASE round' = round /\ Seen' = Seen /\ Over' = Over
      BY <3>3
    <3>4. QED
      BY <2>0, <2>1, <3>1, <3>2, <3>3, AnnounceRoom
  <2>2. ASSUME NEW p \in Players, ClientStep(p)
        PROVE  Announcer!Next \/ UNCHANGED Announcer!announcerVars
    <3>1. round' = round /\ p \in Rooms \X Seats /\ p[1] \in Rooms
      BY <2>0, <2>2, AnnounceClient DEF Players
    <3>2. CASE /\ Seen[p] < round[p[1]] /\ Seen' = [Seen EXCEPT ![p] = @ + 1]
               /\ Over' = Over
      BY <3>1, <3>2 DEF Announcer!Next, Announcer!Learn
    <3>3. CASE Seen' = Seen /\ Over' = Over \cup {p[1]}
      BY <3>1, <3>3 DEF Announcer!Next, Announcer!Leave
    <3>4. CASE Seen' = Seen /\ Over' = Over
      BY <3>1, <3>4
    <3>5. QED
      BY <2>0, <2>2, <3>2, <3>3, <3>4, AnnounceClient
  <2>3. CASE UNCHANGED vars
    BY <2>3 DEF vars, statics, netVars, SeatsOf, Here
  <2>4. QED
    BY <2>1, <2>2, <2>3, StepsOf
<1>3. QED
  BY <1>1, <1>2, AlwaysInOrder, PTL DEF Spec, Announcer!SafeSpec

-----------------------------------------------------------------------------
(* Inputs on their way to the server.                                      *)

\* What a player has sent is its own, and of a round it has been told of.
SentByOwner(p) ==
  \A k \in 1..Len(up[p]) :
    LET tag == up[p][k].tag
    IN tag.by = p /\ tag.round >= 1 /\ tag.round <= view[p].round

\* So is what the receiver of a room has in hand, unless it has made it up after an error.
HandInv(r) ==
  /\ rpc[r] # "off" => gpc[r] = "playing"
  /\ rpc[r] \in {"check", "apply"} =>
       LET tag == inHand[r].tag
       IN \E i \in Seats : /\ tag.by = <<r, i>> /\ tag.round <= view[<<r, i>>].round
                           /\ tag.round = 0 => conn[<<r, i>>] = "dead"

InputInv ==
  /\ \A r \in Rooms : HandInv(r)
  /\ \A r \in Rooms : \A i \in Seats : SentByOwner(<<r, i>>)

-----------------------------------------------------------------------------
(* Sync numbers, where one match is over before the next one begins.       *)

\* No two matches are played at the same time.
OneAtATime == ~Overlap \/ \A q, r \in Rooms : q = r

\* There is only one match.
Alone == \A q, r \in Rooms : q = r

\* Every match before the last one that has started is over.
InTurn == \A q, r \in Rooms :
  q < r /\ gpc[r] # "waiting" => gpc[q] # "waiting" /\ Ended(q)

\* The match in room r is the last one that has started.
Latest(r) == gpc[r] # "waiting" /\ \A q \in Rooms : q > r => gpc[q] = "waiting"

\* Whatever is of the round the match is in carries the sync number the server has now:
\* what its players know, what is on the way to them, and what they have sent.
SyncInv(r) ==
  /\ spc[r] = "send" \/ gpc[r] = "init" => out[r].sync = ssync
  /\ \A i \in Seats :
       LET p == <<r, i>> IN
       /\ view[p].round = round[r] => view[p].sync = ssync
       /\ \A k \in 1..Len(down[p]) :
            down[p][k].type = "INIT" /\ down[p][k].round = round[r] => down[p][k].sync = ssync
       /\ \A k \in 1..Len(up[p]) : up[p][k].tag.round = round[r] => up[p][k].sync = ssync
  /\ rpc[r] = "check" /\ inHand[r].tag.round = round[r] => inHand[r].sync = ssync

SyncsInv == InTurn /\ \A r \in Rooms : Latest(r) => SyncInv(r)

\* What is added to a seat's input is its player's, of a match that is alone.
OwnInputs(r) ==
  /\ gpc[r] # "waiting" => \A i \in Seats : player_ids[i] = <<r, i>>
  /\ \A i \in Seats : \A tag \in input[i] :
       tag.by = <<r, i>> /\ (tag.round = 0 => conn[<<r, i>>] = "dead")

-----------------------------------------------------------------------------
(* Where what a step leaves on the connections and in hand comes from.     *)

\* What is on the way from a player was so before, or is what the player has just sent.
LEMMA UpComesFrom ==
  ASSUME TypeOK, [Next]_vars, NEW p \in Players, NEW k \in 1..Len(up'[p])
  PROVE  \/ \E m \in 1..Len(up[p]) : up'[p][k] = up[p][m]
         \/ /\ Joined(p) /\ ClientSends(p)
            /\ up'[p][k] = [sync |-> view[p].sync, tag |-> [by |-> p, round |-> view[p].round]]
<1> USE DEF statics, gameVars, senderVars, receiverVars, netVars
<1>0. up[p] \in Seq(InputPacket) /\ Len(up[p]) \in Nat
  BY LenProperties DEF TypeOK
<1>1. CASE ClientSends(p)
  <2> DEFINE e == [sync |-> view[p].sync, tag |-> [by |-> p, round |-> view[p].round]]
  <2>1. e \in InputPacket
    BY DEF TypeOK, InputPacket, Tags
  <2>2. up'[p] = Append(up[p], e) /\ Joined(p)
    BY <1>1 DEF ClientSends, TypeOK
  <2> HIDE DEF e
  <2>3. /\ Len(up'[p]) = Len(up[p]) + 1 /\ up'[p][Len(up[p]) + 1] = e
        /\ \A m \in 1..Len(up[p]) : up'[p][m] = up[p][m]
    BY <1>0, <2>1, <2>2, AppendFacts
  <2>4. k \in 1..Len(up[p]) \/ k = Len(up[p]) + 1
    BY <1>0, <2>3
  <2>5. QED
    BY <1>1, <2>2, <2>3, <2>4 DEF e
<1>2. CASE \E r \in Rooms : Recv(r)
  <2>1. PICK r \in Rooms : Recv(r)
    BY <1>2
  <2>2. PICK q \in Players : up' = up \/ (up[q] # <<>> /\ up' = [up EXCEPT ![q] = Tail(@)])
    BY <2>1, RecvPacket
  <2>3. CASE up'[p] = up[p]
    BY <2>3
  <2>4. CASE up[p] # <<>> /\ up'[p] = Tail(up[p])
    <3>1. PICK m \in 1..Len(up[p]) : m = k + 1 /\ up'[p][k] = up[p][m]
      BY <1>0, <2>4, TailFacts
    <3>2. QED
      BY <3>1
  <2>5. q = p => up'[p] = up[p] \/ (up[p] # <<>> /\ up'[p] = Tail(up[p]))
    BY <2>2 DEF TypeOK
  <2>6. q # p => up'[p] = up[p]
    BY <2>2 DEF TypeOK
  <2>7. QED
    BY <2>3, <2>4, <2>5, <2>6
<1>3. CASE up'[p] = up[p]
  BY <1>3
<1>4. (\A r \in Rooms : ~Recv(r)) /\ ~ClientSends(p) => up'[p] = up[p]
  <2> SUFFICES ASSUME \A r \in Rooms : ~Recv(r), ~ClientSends(p) PROVE up'[p] = up[p]
    OBVIOUS
  <2>1. ASSUME NEW r \in Rooms, GameThread(r) \/ Sender(r) \/ Receiver(r) PROVE up'[p] = up[p]
    BY <2>1 DEF GameThread, Sender, Receiver, StartGame, SendInit, Tick, BumpSync, MakePacket,
                Broadcast, LoopTest, Poll, CheckSync, ApplyInput, SendSucceeds, SendFails
  <2>2. ASSUME NEW q \in Players, ClientStep(q) PROVE up'[p] = up[p]
    BY <2>2 DEF ClientStep, ClientReceives, ClientSends, ClientLeaves, RstArrives, Abort,
                TypeOK
  <2>3. CASE UNCHANGED vars
    BY <2>3 DEF vars
  <2>4. QED
    BY <2>1, <2>2, <2>3, StepsOf
<1>5. QED
  BY <1>1, <1>2, <1>3, <1>4

\* What is on the way to a player was so before, or is what its room has just sent.
LEMMA DownComesFrom ==
  ASSUME TypeOK, [Next]_vars, NEW r \in Rooms, NEW i \in Seats,
         NEW k \in 1..Len(down'[<<r, i>>])
  PROVE  \/ \E m \in 1..Len(down[<<r, i>>]) : down'[<<r, i>>][k] = down[<<r, i>>][m]
         \/ /\ (SendInit(r) /\ gpc[r] = "init") \/ (Broadcast(r) /\ spc[r] = "send")
            /\ down'[<<r, i>>][k].sync = out[r].sync
<1> USE DEF statics, gameVars, senderVars, receiverVars, netVars
<1> DEFINE p == <<r, i>>
<1>0. /\ p \in Players /\ down[p] \in Seq(StatePacket) /\ Len(down[p]) \in Nat
      /\ out[r] \in StatePacket
  BY PlayerTypes, LenProperties DEF TypeOK
<1>1. ASSUME NEW e \in StatePacket, down'[p] = Append(down[p], e), e.sync = out[r].sync
      PROVE  \/ \E m \in 1..Len(down[p]) : down'[p][k] = down[p][m]
             \/ down'[p][k].sync = out[r].sync
  <2>1. /\ Len(down'[p]) = Len(down[p]) + 1 /\ down'[p][Len(down[p]) + 1] = e
        /\ \A m \in 1..Len(down[p]) : down'[p][m] = down[p][m]
    BY <1>0, <1>1, AppendFacts
  <2>2. k \in 1..Len(down[p]) \/ k = Len(down[p]) + 1
    BY <1>0, <2>1
  <2>3. QED
    BY <1>1, <2>1, <2>2
<1>2. CASE down'[p] = down[p]
  BY <1>2
<1>3. CASE down[p] # <<>> /\ down'[p] = Tail(down[p])
  <2>1. PICK m \in 1..Len(down[p]) : m = k + 1 /\ down'[p][k] = down[p][m]
    BY <1>0, <1>3, TailFacts
  <2>2. QED
    BY <2>1
<1>4. CASE down'[p] = <<>>
  BY <1>4, Constants
<1>5. ASSUME NEW j \in Seats, NEW e \in StatePacket, e.sync = out[r].sync,
             SendSucceeds(<<r, j>>, e)
      PROVE  \/ down'[p] = down[p]
             \/ down'[p] = Append(down[p], e)
  <2>1. <<r, j>> \in Players /\ DOMAIN down = Players
    BY SeatedPlayer DEF TypeOK
  <2>2. down' = down \/ down' = [down EXCEPT ![<<r, j>>] = Append(@, e)]
    BY <1>5 DEF SendSucceeds
  <2>3. QED
    BY <1>0, <2>1, <2>2
<1>6. CASE SendInit(r)
  <2> DEFINE e == [out[r] EXCEPT !.own = seat[r]]
  <2>1. e \in StatePacket /\ e.sync = out[r].sync /\ seat[r] \in Seats /\ gpc[r] = "init"
    BY <1>0, <1>6 DEF TypeOK, StatePacket, SendInit
  <2>2. SendSucceeds(<<r, seat[r]>>, e) \/ down' = down
    BY <1>6 DEF SendInit, SendFails
  <2> HIDE DEF e
  <2>3. QED
    BY <1>1, <1>2, <1>5, <1>6, <2>1, <2>2
<1>7. CASE Broadcast(r)
  <2>1. target[r] \in Seats /\ spc[r] = "send"
    BY <1>7 DEF TypeOK, Broadcast
  <2>2. SendSucceeds(<<r, target[r]>>, out[r]) \/ down' = down
    BY <1>7 DEF Broadcast, SendFails
  <2>3. QED
    BY <1>0, <1>1, <1>2, <1>5, <1>7, <2>1, <2>2
<1>8. ASSUME NEW q \in Players, ClientStep(q)
      PROVE  down'[p] = down[p] \/ (down[p] # <<>> /\ down'[p] = Tail(down[p])) \/ down'[p] = <<>>
  <2>1. CASE ClientReceives(q)
    <3>1. down[q] # <<>> /\ down' = [down EXCEPT ![q] = Tail(@)]
      BY <2>1 DEF ClientReceives
    <3>2. QED
      BY <1>0, <3>1 DEF TypeOK
  <2>2. CASE ClientLeaves(q) \/ Abort(q)
    BY <1>0, <2>2 DEF ClientLeaves, Abort, TypeOK
  <2>3. CASE ClientSends(q) \/ RstArrives(q)
    BY <2>3 DEF ClientSends, RstArrives
  <2>4. QED
    BY <1>8, <2>1, <2>2, <2>3 DEF ClientStep
<1>9. ASSUME NEW q \in Rooms, GameThread(q) \/ Sender(q) \/ Receiver(q),
             q # r \/ (~SendInit(r) /\ ~Broadcast(r))
      PROVE  down'[p] = down[p]
  <2>1. CASE q # r
    BY <1>9, <2>1, OtherRooms DEF PlayerKept
  <2>2. CASE Receiver(q)
    BY <2>2, ReceiverKeeps, OtherRooms, <2>1 DEF PlayerKept
  <2>3. CASE q = r /\ (StartGame(q) \/ Tick(q) \/ BumpSync(q) \/ MakePacket(q))
    BY <2>3 DEF StartGame, Tick, BumpSync, MakePacket
  <2>4. QED
    BY <1>9, <2>1, <2>2, <2>3 DEF GameThread, Sender
<1>10. CASE UNCHANGED vars
  BY <1>2, <1>10 DEF vars
<1>11. QED
  BY <1>2, <1>3, <1>4, <1>6, <1>7, <1>8, <1>9, <1>10, StepsOf

\* What a player knows it knew before, or an INIT has just told it, of the next round.
LEMMA ViewComesFrom ==
  ASSUME TypeOK, RoundInv, [Next]_vars, NEW r \in Rooms, NEW i \in Seats
  PROVE  \/ view'[<<r, i>>] = view[<<r, i>>]
         \/ /\ ClientReceives(<<r, i>>)
            /\ view'[<<r, i>>].round = view[<<r, i>>].round + 1
            /\ \E m \in 1..Len(down[<<r, i>>]) :
                 /\ down[<<r, i>>][m].type = "INIT"
                 /\ view'[<<r, i>>].round = down[<<r, i>>][m].round
                 /\ view'[<<r, i>>].sync = down[<<r, i>>][m].sync
<1> USE DEF statics, gameVars, senderVars, receiverVars, netVars
<1> DEFINE p == <<r, i>>
<1>0. p \in Players /\ down[p] \in Seq(StatePacket) /\ view[p].round \in Nat
  BY PlayerTypes
<1>1. CASE ClientReceives(p)
  <2>1. down[p] # <<>> /\ Chain(view[p].round, down[p])
    BY <1>1 DEF ClientReceives, RoundInv, PlayerInv
  <2>2. Head(down[p]) = down[p][1] /\ 1 \in 1..Len(down[p])
    BY <1>0, <2>1, TailFacts
  <2>3. Follows(view[p].round, down[p][1])
    BY <2>1 DEF Chain
  <2>4. \/ view' = view
        \/ /\ down[p][1].type = "INIT"
           /\ view'[p].round = down[p][1].round /\ view'[p].sync = down[p][1].sync
    BY <1>0, <1>1, <2>2 DEF ClientReceives, SyncOf, TypeOK
  <2>5. QED
    BY <1>1, <2>2, <2>3, <2>4 DEF Follows
<1>2. CASE ~ClientReceives(p)
  <2>1. ASSUME NEW q \in Rooms, GameThread(q) \/ Sender(q) \/ Receiver(q) PROVE view' = view
    BY <2>1 DEF GameThread, Sender, Receiver, StartGame, SendInit, Tick, BumpSync, MakePacket,
                Broadcast, LoopTest, Poll, Recv, CheckSync, ApplyInput
  <2>2. ASSUME NEW q \in Players, ClientStep(q) PROVE view'[p] = view[p]
    BY <1>0, <1>2, <2>2
    DEF ClientStep, ClientReceives, ClientSends, ClientLeaves, RstArrives, Abort, TypeOK
  <2>3. CASE UNCHANGED vars
    BY <2>3 DEF vars
  <2>4. QED
    BY <2>1, <2>2, <2>3, StepsOf
<1>3. QED
  BY <1>1, <1>2

\* What the receiver of a room has in hand it had before, or has just taken off a
\* connection of the room, or has made up for a player whose connection broke.
LEMMA HandComesFrom ==
  ASSUME TypeInv, [Next]_vars, NEW r \in Rooms, rpc'[r] \in {"check", "apply"}
  PROVE  \/ /\ rpc[r] \in {"check", "apply"} /\ inHand'[r] = inHand[r]
            /\ rpc'[r] = "check" => rpc[r] = "check"
         \/ /\ Recv(r)
            /\ \E i \in Seats :
                 \/ \E m \in 1..Len(up[<<r, i>>]) : inHand'[r] = up[<<r, i>>][m]
                 \/ /\ inHand'[r].tag = [by |-> <<r, i>>, round |-> 0]
                    /\ conn'[<<r, i>>] = "dead"
<1> USE DEF statics, gameVars, senderVars, receiverVars, netVars
<1>0. TypeOK
  BY DEF TypeInv
<1>1. CASE Recv(r)
  <2> DEFINE i == Min(ready[r])
  <2> DEFINE p == <<r, i>>
  <2>1. i \in Seats /\ p \in Players
    BY <1>0, <1>1, MinSeat, SeatedPlayer DEF Recv, TypeOK
  <2> HIDE DEF i
  <2>2. \/ up[p] # <<>> /\ inHand' = [inHand EXCEPT ![r] = Head(up[p])]
        \/ rpc' = [rpc EXCEPT ![r] = "done"]
        \/ /\ conn' = [conn EXCEPT ![p] = "dead"]
           /\ \E fake \in InputPacket :
                /\ fake.tag = [by |-> p, round |-> 0]
                /\ inHand' = [inHand EXCEPT ![r] = fake]
    <3>1. PICK q \in Players :
             /\ q = p
             /\ \/ up[q] # <<>> /\ inHand' = [inHand EXCEPT ![r] = Head(up[q])]
                \/ rpc' = [rpc EXCEPT ![r] = "done"]
                \/ /\ conn' = [conn EXCEPT ![q] = "dead"]
                   /\ \E fake \in InputPacket :
                        /\ fake.tag = [by |-> q, round |-> 0]
                        /\ inHand' = [inHand EXCEPT ![r] = fake]
      BY <1>0, <1>1, RecvPacket DEF i
    <3>2. QED
      BY <3>1
  <2>3. CASE up[p] # <<>> /\ inHand' = [inHand EXCEPT ![r] = Head(up[p])]
    <3>1. up[p] \in Seq(InputPacket)
      BY <1>0, <2>1 DEF TypeOK
    <3>2. Head(up[p]) = up[p][1] /\ 1 \in 1..Len(up[p])
      BY <2>3, <3>1, TailFacts
    <3>3. inHand'[r] = up[p][1]
      BY <1>0, <2>3, <3>2 DEF TypeOK
    <3>4. QED
      BY <1>1, <2>1, <3>2, <3>3
  <2>4. CASE rpc' = [rpc EXCEPT ![r] = "done"]
    BY <1>0, <2>4 DEF TypeOK
  <2>5. CASE /\ conn' = [conn EXCEPT ![p] = "dead"]
             /\ \E fake \in InputPacket :
                  /\ fake.tag = [by |-> p, round |-> 0]
                  /\ inHand' = [inHand EXCEPT ![r] = fake]
    <3>1. DOMAIN conn = Players /\ DOMAIN inHand = Rooms
      BY <1>0 DEF TypeOK
    <3>2. conn'[p] = "dead"
      BY <2>1, <2>5, <3>1
    <3>3. PICK fake \in InputPacket :
            /\ fake.tag = [by |-> p, round |-> 0]
            /\ inHand' = [inHand EXCEPT ![r] = fake]
      BY <2>5
    <3>4. inHand'[r].tag = [by |-> p, round |-> 0]
      BY <3>1, <3>3
    <3>5. QED
      BY <1>1, <2>1, <3>2, <3>4
  <2>6. QED
    BY <2>2, <2>3, <2>4, <2>5
<1>2. CASE ~Recv(r)
  <2>1. ASSUME NEW q \in Rooms, GameThread(q) \/ Sender(q)
        PROVE  inHand' = inHand /\ (rpc'[r] = rpc[r] \/ rpc'[r] = "scan")
    <3>1. CASE SendInit(q)
      <4>1. inHand' = inHand /\ (rpc' = rpc \/ rpc' = [rpc EXCEPT ![q] = "scan"])
        BY <3>1 DEF SendInit
      <4>2. QED
        BY <1>0, <4>1 DEF TypeOK
    <3>2. CASE StartGame(q)
      BY <3>2 DEF StartGame
    <3>3. CASE Tick(q) \/ BumpSync(q) \/ MakePacket(q) \/ Broadcast(q)
      BY <3>3 DEF Tick, BumpSync, MakePacket, Broadcast
    <3>4. QED
      BY <2>1, <3>1, <3>2, <3>3 DEF GameThread, Sender
  <2>2. ASSUME NEW q \in Rooms, Receiver(q)
        PROVE  /\ rpc[r] \in {"check", "apply"} /\ inHand'[r] = inHand[r]
               /\ rpc'[r] = "check" => rpc[r] = "check"
    <3>1. CASE q # r
      <4>1. /\ DOMAIN rpc = Rooms /\ DOMAIN inHand = Rooms
            /\ rpc'[r] = rpc[r] /\ inHand'[r] = inHand[r]
        BY <1>0, <2>2, <3>1, RecvPacket
        DEF Receiver, LoopTest, Poll, Recv, CheckSync, ApplyInput, TypeOK
      <4>2. QED
        BY <4>1
    <3>2. CASE q = r
      BY <1>0, <1>2, <2>2, <3>2 DEF Receiver, LoopTest, Poll, CheckSync, ApplyInput, TypeOK
    <3>3. QED
      BY <3>1, <3>2
  <2>3. ASSUME NEW q \in Players, ClientStep(q) PROVE UNCHANGED <<rpc, inHand>>
    BY <2>3 DEF ClientStep, ClientReceives, ClientSends, ClientLeaves, RstArrives, Abort
  <2>4. CASE UNCHANGED vars
    BY <2>4 DEF vars
  <2>5. QED
    BY <2>1, <2>2, <2>3, <2>4, StepsOf
<1>3. QED
  BY <1>1, <1>2

\* A connection that was reported broken stays so.
LEMMA DeadStays ==
  ASSUME TypeOK, [Next]_vars, NEW p \in Players, conn[p] = "dead"
  PROVE  conn'[p] = "dead"
<1> USE DEF statics, gameVars, senderVars, receiverVars, netVars
<1>1. ASSUME NEW r \in Rooms, GameThread(r) \/ Sender(r) PROVE conn'[p] = "dead"
  <2>1. ASSUME NEW q, NEW e, SendSucceeds(q, e) \/ SendFails(q) PROVE conn'[p] = "dead"
    <3>1. conn' = conn \/ (q # p /\ conn' = [conn EXCEPT ![q] = "poked"])
          \/ conn' = [conn EXCEPT ![q] = "dead"]
      BY <2>1 DEF SendSucceeds, SendFails
    <3>2. QED
      BY <3>1 DEF TypeOK
  <2>2. CASE SendInit(r)
    BY <2>1, <2>2 DEF SendInit
  <2>3. CASE Broadcast(r)
    BY <2>1, <2>3 DEF Broadcast
  <2>4. CASE StartGame(r) \/ Tick(r) \/ BumpSync(r) \/ MakePacket(r)
    BY <2>4 DEF StartGame, Tick, BumpSync, MakePacket
  <2>5. QED
    BY <1>1, <2>2, <2>3, <2>4 DEF GameThread, Sender
<1>2. ASSUME NEW r \in Rooms, Receiver(r) PROVE conn'[p] = "dead"
  <2>1. CASE Recv(r)
    <3>1. PICK q \in Players : conn' = conn \/ conn' = [conn EXCEPT ![q] = "dead"]
      BY <2>1, RecvPacket
    <3>2. QED
      BY <3>1 DEF TypeOK
  <2>2. QED
    BY <1>2, <2>1 DEF Receiver, LoopTest, Poll, CheckSync, ApplyInput
<1>3. ASSUME NEW q \in Players, ClientStep(q) PROVE conn'[p] = "dead"
  BY <1>3 DEF ClientStep, ClientReceives, ClientSends, ClientLeaves, RstArrives, Abort, TypeOK
<1>4. CASE UNCHANGED vars
  BY <1>4 DEF vars
<1>5. QED
  BY <1>1, <1>2, <1>3, <1>4, StepsOf

\* A player never forgets a round.
LEMMA ViewGrows ==
  ASSUME TypeOK, RoundInv, [Next]_vars, NEW r \in Rooms, NEW i \in Seats
  PROVE  view[<<r, i>>].round \in Nat /\ view'[<<r, i>>].round \in Nat
         /\ view[<<r, i>>].round <= view'[<<r, i>>].round
BY PlayerTypes, ViewComesFrom

\* The receiver of a room runs only where the match has been started.
LEMMA ReceiverRuns ==
  ASSUME TypeOK, RoundInv, [Next]_vars, NEW r \in Rooms,
         rpc[r] # "off" => gpc[r] = "playing"
  PROVE  rpc'[r] # "off" => gpc'[r] = "playing"
<1> USE DEF statics, gameVars, senderVars, receiverVars, netVars
<1>1. ASSUME NEW q \in Rooms, GameThread(q)
      PROVE  rpc'[r] # "off" => gpc'[r] = "playing"
  BY <1>1 DEF GameThread, StartGame, SendInit, TypeOK
<1>2. ASSUME NEW q \in Rooms, Sender(q)
      PROVE  UNCHANGED <<rpc, gpc>>
  BY <1>2 DEF Sender, Tick, BumpSync, MakePacket, Broadcast
<1>3. ASSUME NEW q \in Rooms, Receiver(q)
      PROVE  gpc' = gpc /\ (rpc[r] = "off" => rpc'[r] = "off")
  BY <1>3, RecvPacket DEF Receiver, LoopTest, Poll, Recv, CheckSync, ApplyInput, TypeOK
<1>4. ASSUME NEW p \in Players, ClientStep(p)
      PROVE  UNCHANGED <<rpc, gpc>>
  BY <1>4 DEF ClientStep, ClientReceives, ClientSends, ClientLeaves, RstArrives, Abort
<1>5. CASE UNCHANGED vars
  BY <1>5 DEF vars
<1>6. QED
  BY <1>1, <1>2, <1>3, <1>4, <1>5, StepsOf

\* The tags of packets are tags.
LEMMA TagTypes ==
  ASSUME TypeOK
  PROVE  /\ \A p \in Players : up[p] \in Seq(InputPacket) /\ Len(up[p]) \in Nat
         /\ \A p \in Players : \A k \in 1..Len(up[p]) :
              up[p][k] \in InputPacket /\ up[p][k].tag.round \in Nat
         /\ \A e \in InputPacket : e.tag.round \in Nat
<1>1. \A e \in InputPacket : e.tag.round \in Nat
  BY Constants DEF InputPacket, Tags
<1>2. \A p \in Players : up[p] \in Seq(InputPacket)
  BY DEF TypeOK
<1>3. QED
  BY <1>1, <1>2, LenProperties, ElementOfSeq

\* At the start no input has been sent.
LEMMA InputsInit == Init => InputInv
<1> SUFFICES ASSUME Init PROVE InputInv
  OBVIOUS
<1>1. ASSUME NEW r \in Rooms PROVE HandInv(r)
  BY DEF Init, HandInv
<1>2. ASSUME NEW r \in Rooms, NEW i \in Seats PROVE SentByOwner(<<r, i>>)
  BY SeatedPlayer, Constants DEF Init, SentByOwner
<1>3. QED
  BY <1>1, <1>2 DEF InputInv

\* Inputs stay their player's, on the way to the server and in its hand.
LEMMA InputsStep == TypeInv /\ RoundInv /\ InputInv /\ [Next]_vars => InputInv'
<1> SUFFICES ASSUME TypeInv, RoundInv, InputInv, [Next]_vars PROVE InputInv'
  OBVIOUS
<1>0. TypeOK /\ TypeInv' /\ TypeOK'
  BY TypesStep DEF TypeInv
<1>1. ASSUME NEW r \in Rooms, NEW i \in Seats PROVE SentByOwner(<<r, i>>)'
  <2> DEFINE p == <<r, i>>
  <2>1. /\ p \in Players /\ SentByOwner(p)
        /\ view[p].round \in Nat /\ view'[p].round \in Nat /\ view[p].round <= view'[p].round
    BY <1>0, SeatedPlayer, ViewGrows DEF InputInv
  <2>2. ASSUME NEW k \in 1..Len(up'[p])
        PROVE  LET tag == up'[p][k].tag
               IN tag.by = p /\ tag.round >= 1 /\ tag.round <= view'[p].round
    <3>1. CASE \E m \in 1..Len(up[p]) : up'[p][k] = up[p][m]
      <4>1. PICK m \in 1..Len(up[p]) : up'[p][k] = up[p][m]
        BY <3>1
      <4>2. /\ up[p][m].tag.by = p /\ up[p][m].tag.round >= 1
            /\ up[p][m].tag.round <= view[p].round /\ up[p][m].tag.round \in Nat
        BY <1>0, <2>1, TagTypes DEF SentByOwner
      <4>3. QED
        BY <2>1, <4>1, <4>2
    <3>2. CASE /\ Joined(p)
               /\ up'[p][k] = [sync |-> view[p].sync,
                               tag |-> [by |-> p, round |-> view[p].round]]
      BY <2>1, <3>2 DEF Joined
    <3>3. QED
      BY <1>0, <2>1, <2>2, <3>1, <3>2, UpComesFrom
  <2>3. QED
    BY <2>2 DEF SentByOwner
<1>2. ASSUME NEW r \in Rooms PROVE HandInv(r)'
  <2>1. HandInv(r)
    BY DEF InputInv
  <2>2. rpc'[r] # "off" => gpc'[r] = "playing"
    BY <1>0, <2>1, ReceiverRuns DEF HandInv
  <2>3. ASSUME rpc'[r] \in {"check", "apply"}
        PROVE  LET tag == inHand'[r].tag
               IN \E i \in Seats : /\ tag.by = <<r, i>> /\ tag.round <= view'[<<r, i>>].round
                                   /\ tag.round = 0 => conn'[<<r, i>>] = "dead"
    <3>1. CASE rpc[r] \in {"check", "apply"} /\ inHand'[r] = inHand[r]
      <4>1. PICK i \in Seats : LET tag == inHand[r].tag IN
                                 /\ tag.by = <<r, i>> /\ tag.round <= view[<<r, i>>].round
                                 /\ tag.round = 0 => conn[<<r, i>>] = "dead"
        BY <2>1, <3>1 DEF HandInv
      <4>2. inHand[r].tag.round \in Nat
        BY <1>0, <3>1, TagTypes DEF TypeInv, HasPacket
      <4>3. view[<<r, i>>].round \in Nat /\ view'[<<r, i>>].round \in Nat
            /\ view[<<r, i>>].round <= view'[<<r, i>>].round
        BY <1>0, ViewGrows
      <4>4. conn[<<r, i>>] = "dead" => conn'[<<r, i>>] = "dead"
        BY <1>0, SeatedPlayer, DeadStays
      <4>5. inHand'[r].tag.round <= view'[<<r, i>>].round
        BY <3>1, <4>1, <4>2, <4>3
      <4>6. QED
        BY <3>1, <4>1, <4>4, <4>5
    <3>2. ASSUME NEW i \in Seats, NEW m \in 1..Len(up[<<r, i>>]), inHand'[r] = up[<<r, i>>][m]
          PROVE  LET tag == inHand'[r].tag
                 IN /\ tag.by = <<r, i>> /\ tag.round <= view'[<<r, i>>].round
                    /\ tag.round # 0
      <4>1. /\ up[<<r, i>>][m].tag.by = <<r, i>> /\ up[<<r, i>>][m].tag.round >= 1
            /\ up[<<r, i>>][m].tag.round <= view[<<r, i>>].round
            /\ up[<<r, i>>][m].tag.round \in Nat
        BY <1>0, SeatedPlayer, TagTypes DEF InputInv, SentByOwner
      <4>2. view[<<r, i>>].round \in Nat /\ view'[<<r, i>>].round \in Nat
            /\ view[<<r, i>>].round <= view'[<<r, i>>].round
        BY <1>0, ViewGrows
      <4>3. QED
        BY <3>2, <4>1, <4>2
    <3>3. ASSUME NEW i \in Seats, inHand'[r].tag = [by |-> <<r, i>>, round |-> 0],
                 conn'[<<r, i>>] = "dead"
          PROVE  LET tag == inHand'[r].tag
                 IN /\ tag.by = <<r, i>> /\ tag.round <= view'[<<r, i>>].round
                    /\ conn'[<<r, i>>] = "dead"
      <4>1. view'[<<r, i>>].round \in Nat
        BY <1>0, ViewGrows
      <4>2. QED
        BY <3>3, <4>1
    <3>4. QED
      BY <2>3, <3>1, <3>2, <3>3, HandComesFrom
  <2>4. QED
    BY <2>2, <2>3 DEF HandInv
<1>3. QED
  BY <1>1, <1>2 DEF InputInv

\* The rounds in order, and the inputs with their owners.
BaseInv == TypeInv /\ RoundInv /\ InputInv

\* That they are so in every behaviour, for the theorems below.
LEMMA AlwaysOwned == Spec => []BaseInv
<1>1. Init => BaseInv
  BY TypesInit, RoundInit, InputsInit DEF BaseInv
<1>2. BaseInv /\ [Next]_vars => BaseInv'
  BY TypesStep, RoundStep, InputsStep DEF BaseInv
<1>3. QED
  BY <1>1, <1>2, PTL DEF Spec

-----------------------------------------------------------------------------
(* Sync numbers agree.                                                     *)

\* What has begun has begun, and what is over is over.
LEMMA EndsStay ==
  ASSUME TypeOK, RoundInv, [Next]_vars, NEW q \in Rooms, gpc[q] # "waiting"
  PROVE  gpc'[q] # "waiting" /\ (Ended(q) => Ended(q)')
<1> USE DEF statics, gameVars, senderVars, receiverVars, netVars
<1>0. PhaseInv(q)
  BY DEF RoundInv
<1>1. ASSUME NEW r \in Rooms, GameThread(r) \/ Sender(r) \/ Receiver(r), r # q
      PROVE  gpc'[q] # "waiting" /\ (Ended(q) => Ended(q)')
  <2>1. RoomKept(q)
    BY <1>1, OtherRooms, Constants
  <2>2. QED
    BY <2>1 DEF RoomKept, Ended
<1>2. CASE GameThread(q)
  BY <1>0, <1>2 DEF GameThread, StartGame, SendInit, PhaseInv, Ended, TypeOK
<1>3. CASE Sender(q)
  BY <1>0, <1>3
  DEF Sender, Tick, BumpSync, MakePacket, Broadcast, PhaseInv, Ended, TypeOK
<1>4. CASE Receiver(q)
  <2>1. RoomKept(q)
    BY <1>4, ReceiverKeeps, Constants
  <2>2. QED
    BY <2>1 DEF RoomKept, Ended
<1>5. ASSUME NEW p \in Players, ClientStep(p)
      PROVE  gpc'[q] # "waiting" /\ (Ended(q) => Ended(q)')
  <2>1. RoomKept(q)
    BY <1>5, OtherPlayers, Constants
  <2>2. QED
    BY <2>1 DEF RoomKept, Ended
<1>6. CASE UNCHANGED vars
  BY <1>6 DEF vars, Ended
<1>7. QED
  BY <1>1, <1>2, <1>3, <1>4, <1>5, <1>6, StepsOf

\* A match that starts is the first, or those before it have ended.
LEMMA StartedBy ==
  ASSUME TypeOK, [Next]_vars, NEW r \in Rooms, gpc[r] = "waiting", gpc'[r] # "waiting"
  PROVE  StartGame(r)
<1> USE DEF statics, gameVars, senderVars, receiverVars, netVars
<1>1. ASSUME NEW q \in Rooms, GameThread(q) \/ Sender(q) \/ Receiver(q) PROVE StartGame(r)
  <2>1. q = r
    BY <1>1, OtherRooms, Constants DEF RoomKept
  <2>2. ~Receiver(r)
    BY ReceiverKeeps, Constants DEF RoomKept
  <2>3. QED
    BY <1>1, <2>1, <2>2
    DEF GameThread, Sender, SendInit, Tick, BumpSync, MakePacket, Broadcast
<1>2. ASSUME NEW p \in Players, ClientStep(p) PROVE FALSE
  BY <1>2, OtherPlayers, Constants DEF RoomKept
<1>3. ~UNCHANGED vars
  BY DEF vars
<1>4. QED
  BY <1>1, <1>2, <1>3, StepsOf

\* One match is over before the next one starts.
LEMMA InTurnStep ==
  ASSUME OneAtATime, TypeOK, RoundInv, InTurn, [Next]_vars
  PROVE  InTurn'
<1> SUFFICES ASSUME NEW q \in Rooms, NEW r \in Rooms, q < r, gpc'[r] # "waiting"
             PROVE  gpc'[q] # "waiting" /\ Ended(q)'
  BY DEF InTurn
<1>1. gpc[q] # "waiting" /\ Ended(q)
  <2>1. CASE gpc[r] # "waiting"
    BY <2>1 DEF InTurn
  <2>2. CASE gpc[r] = "waiting"
    <3>1. StartGame(r)
      BY <2>2, StartedBy
    <3>2. q # r
      BY RoomsAssumption
    <3>3. QED
      BY <3>1, <3>2 DEF StartGame, OneAtATime
  <2>3. QED
    BY <2>1, <2>2
<1>2. QED
  BY <1>1, EndsStay

\* Nothing a room's players know, have sent or are about to hear is of a round later than
\* what they have been due.
LEMMA NothingAhead ==
  ASSUME BaseInv, NEW r \in Rooms, NEW n \in Nat, \A i \in Seats : Due(r, i) < n
  PROVE  /\ \A i \in Seats :
              LET p == <<r, i>> IN
              /\ view[p].round # n
              /\ \A k \in 1..Len(down[p]) : down[p][k].round # n
              /\ \A k \in 1..Len(up[p]) : up[p][k].tag.round # n
         /\ rpc[r] = "check" => inHand[r].tag.round # n
<1>0. TypeOK /\ RoundInv /\ InputInv /\ HasPacket
  BY DEF BaseInv, TypeInv
<1>1. ASSUME NEW i \in Seats
      PROVE  /\ <<r, i>> \in Players /\ view[<<r, i>>].round \in Nat /\ view[<<r, i>>].round < n
             /\ Due(r, i) \in Int /\ PlayerInv(r, i) /\ SentByOwner(<<r, i>>)
             /\ down[<<r, i>>] \in Seq(StatePacket)
  BY <1>0, PlayerTypes, DueIsInt DEF RoundInv, InputInv, PlayerInv
<1>2. ASSUME NEW i \in Seats, NEW k \in 1..Len(down[<<r, i>>])
      PROVE  down[<<r, i>>][k].round # n
  <2>1. down[<<r, i>>][k].round \in Nat /\ down[<<r, i>>][k].round <= Due(r, i)
    BY <1>1, ElementOfSeq, RoundsOfPackets DEF PlayerInv, Fits
  <2>2. QED
    BY <1>1, <2>1
<1>3. ASSUME NEW i \in Seats, NEW k \in 1..Len(up[<<r, i>>])
      PROVE  up[<<r, i>>][k].tag.round # n
  <2>1. /\ up[<<r, i>>][k].tag.round \in Nat
        /\ up[<<r, i>>][k].tag.round <= view[<<r, i>>].round
    BY <1>0, <1>1, TagTypes DEF SentByOwner
  <2>2. QED
    BY <1>1, <2>1
<1>4. ASSUME rpc[r] = "check" PROVE inHand[r].tag.round # n
  <2>1. inHand[r].tag.round \in Nat
    BY <1>0, <1>4, TagTypes DEF HasPacket
  <2>2. PICK i \in Seats : inHand[r].tag.round <= view[<<r, i>>].round
    BY <1>0, <1>4 DEF InputInv, HandInv
  <2>3. QED
    BY <1>1, <2>1, <2>2
<1>5. QED
  BY <1>1, <1>2, <1>3, <1>4

\* While a match goes on in the last room, only its own sender moves the rounds and ssync.
LEMMA Movers ==
  ASSUME BaseInv, InTurn, [Next]_vars, NEW r \in Rooms, gpc[r] # "waiting", Latest(r)
  PROVE  \/ round'[r] = round[r] /\ ssync' = ssync
         \/ Tick(r) /\ round'[r] = round[r] + 1
         \/ BumpSync(r)
<1> USE DEF statics, gameVars, senderVars, receiverVars, netVars
<1>0. TypeOK /\ \A q \in Rooms : PhaseInv(q)
  BY DEF BaseInv, TypeInv, RoundInv
<1>1. ASSUME NEW q \in Rooms, BumpSync(q) PROVE q = r
  <2>1. spc[q] = "sync" /\ gpc[q] = "playing"
    BY <1>0, <1>1 DEF BumpSync, PhaseInv
  <2>2. ~(q > r)
    BY <2>1 DEF Latest
  <2>3. ~(q < r)
    BY <2>1 DEF InTurn, Ended
  <2>4. q \in Nat /\ r \in Nat
    BY RoomsAssumption
  <2>5. QED
    BY <2>2, <2>3, <2>4
<1>2. ASSUME NEW q \in Rooms, GameThread(q) \/ Sender(q) \/ Receiver(q)
      PROVE  \/ ssync' = ssync
             \/ BumpSync(q)
  BY <1>2 DEF GameThread, Sender, Receiver, StartGame, SendInit, Tick, MakePacket,
              Broadcast, LoopTest, Poll, Recv, CheckSync, ApplyInput
<1>3. ASSUME NEW q \in Rooms, GameThread(q) \/ Sender(q) \/ Receiver(q)
      PROVE  \/ round'[r] = round[r]
             \/ Tick(r) /\ round'[r] = round[r] + 1 /\ ssync' = ssync
  <2>1. CASE q # r
    BY <1>0, <1>3, <2>1, OtherRooms, Constants DEF RoomKept
  <2>2. CASE q = r
    BY <1>0, <1>3, <2>2
    DEF GameThread, Sender, Receiver, StartGame, SendInit, Tick, BumpSync, MakePacket,
        Broadcast, LoopTest, Poll, Recv, CheckSync, ApplyInput, TypeOK
  <2>3. QED
    BY <2>1, <2>2
<1>4. ASSUME NEW p \in Players, ClientStep(p) PROVE UNCHANGED <<round, ssync>>
  BY <1>4 DEF ClientStep, ClientReceives, ClientSends, ClientLeaves, RstArrives, Abort
<1>5. CASE UNCHANGED vars
  BY <1>5 DEF vars
<1>6. QED
  BY <1>1, <1>2, <1>3, <1>4, <1>5, StepsOf

\* The packet the sender has ready is of the sync number it was made under.
LEMMA OutComesFrom ==
  ASSUME TypeOK, RoundInv, [Next]_vars, NEW r \in Rooms,
         spc'[r] = "send" \/ gpc'[r] = "init"
  PROVE  \/ out'[r].sync = ssync /\ (MakePacket(r) \/ StartGame(r))
         \/ out'[r] = out[r] /\ (spc[r] = "send" \/ gpc[r] = "init")
<1> USE DEF statics, gameVars, senderVars, receiverVars, netVars
<1>0. PhaseInv(r)
  BY DEF RoundInv
<1>1. CASE RoomKept(r)
  BY <1>1 DEF RoomKept
<1>2. CASE StartGame(r)
  BY <1>2 DEF StartGame, TypeOK
<1>3. CASE SendInit(r)
  BY <1>0, <1>3 DEF SendInit, PhaseInv, TypeOK
<1>4. CASE Tick(r) \/ BumpSync(r)
  BY <1>0, <1>4 DEF Tick, BumpSync, PhaseInv, TypeOK
<1>5. CASE MakePacket(r)
  BY <1>5 DEF MakePacket, TypeOK
<1>6. CASE Broadcast(r)
  BY <1>0, <1>6 DEF Broadcast, Disband, PhaseInv, TypeOK
<1>7. ASSUME NEW q \in Rooms, GameThread(q) \/ Sender(q) \/ Receiver(q), q # r \/ Receiver(q)
      PROVE  RoomKept(r)
  BY <1>7, OtherRooms, ReceiverKeeps, Constants
<1>8. ASSUME NEW p \in Players, ClientStep(p) PROVE RoomKept(r)
  BY <1>8, OtherPlayers, Constants
<1>9. UNCHANGED vars => RoomKept(r)
  BY DEF vars, RoomKept
<1>10. QED
  BY <1>1, <1>2, <1>3, <1>4, <1>5, <1>6, <1>7, <1>8, <1>9, StepsOf DEF GameThread, Sender

\* A match that starts finds nothing of its first round about.
LEMMA SyncStart ==
  ASSUME BaseInv, [Next]_vars, NEW r \in Rooms, StartGame(r)
  PROVE  SyncInv(r)'
<1> USE DEF statics, gameVars, senderVars, receiverVars, netVars
<1>0. TypeOK /\ PhaseInv(r) /\ HandInv(r)
  BY DEF BaseInv, TypeInv, RoundInv, InputInv
<1>1. /\ UNCHANGED <<view, down, up, rpc, inHand, ssync>> /\ round'[r] = 1 /\ rpc[r] = "off"
      /\ out'[r].sync = ssync /\ gpc[r] = "waiting" /\ spc[r] = "off"
  BY <1>0 DEF StartGame, HandInv, PhaseInv, TypeOK
<1>2. \A i \in Seats : Due(r, i) < 1
  BY <1>0, <1>1 DEF PhaseInv, Due, Owing, InitOwed
<1>3. \A i \in Seats :
        LET p == <<r, i>> IN
        /\ view[p].round # 1
        /\ \A k \in 1..Len(down[p]) : down[p][k].round # 1
        /\ \A k \in 1..Len(up[p]) : up[p][k].tag.round # 1
  BY <1>2, NothingAhead
<1>4. QED
  BY <1>1, <1>3 DEF SyncInv

\* A point, or the new sync number after it: everything about is of an earlier round.
LEMMA SyncMoves ==
  ASSUME BaseInv, [Next]_vars, NEW r \in Rooms,
         (Tick(r) /\ round'[r] = round[r] + 1) \/ BumpSync(r)
  PROVE  SyncInv(r)'
<1> USE DEF statics, gameVars, senderVars, receiverVars, netVars
<1>0. TypeOK /\ PhaseInv(r) /\ round[r] \in Nat
  BY DueIsInt, Constants DEF BaseInv, TypeInv, RoundInv
<1>1. /\ UNCHANGED <<view, down, up, rpc, inHand, gpc>> /\ gpc[r] = "playing"
      /\ spc'[r] # "send" /\ round'[r] \in Nat
  <2>1. CASE Tick(r) /\ round'[r] = round[r] + 1
    <3>1. UNCHANGED <<view, down, up, rpc, inHand, gpc>> /\ spc[r] = "tick" /\ spc'[r] # "send"
      BY <1>0, <2>1 DEF Tick, TypeOK
    <3>2. QED
      BY <1>0, <2>1, <3>1 DEF PhaseInv
  <2>2. CASE BumpSync(r)
    <3>1. /\ UNCHANGED <<view, down, up, rpc, inHand, gpc, round>>
          /\ spc[r] = "sync" /\ spc'[r] # "send"
      BY <1>0, <2>2 DEF BumpSync, TypeOK
    <3>2. QED
      BY <1>0, <3>1 DEF PhaseInv
  <2>3. QED
    BY <2>1, <2>2
<1>2. \A i \in Seats : Due(r, i) < round'[r]
  <2>1. CASE Tick(r) /\ round'[r] = round[r] + 1
    BY <1>0, <2>1, DueIsInt
  <2>2. CASE BumpSync(r)
    <3>1. round'[r] = round[r] /\ \A i \in Seats : Owing(r, i)
      BY <1>0, <2>2 DEF BumpSync, PhaseInv, Owing, InitOwed
    <3>2. QED
      BY <1>0, <3>1 DEF Due
  <2>3. QED
    BY <2>1, <2>2
<1>3. /\ \A i \in Seats :
           LET p == <<r, i>> IN
           /\ view[p].round # round'[r]
           /\ \A k \in 1..Len(down[p]) : down[p][k].round # round'[r]
           /\ \A k \in 1..Len(up[p]) : up[p][k].tag.round # round'[r]
      /\ rpc[r] = "check" => inHand[r].tag.round # round'[r]
  BY <1>1, <1>2, NothingAhead
<1>4. QED
  BY <1>1, <1>3 DEF SyncInv

\* Otherwise, what is new about the round comes from what was there of it.
LEMMA SyncKeeps ==
  ASSUME BaseInv, [Next]_vars, NEW r \in Rooms, SyncInv(r),
         round'[r] = round[r], ssync' = ssync
  PROVE  SyncInv(r)'
<1>0. TypeOK /\ TypeInv /\ RoundInv /\ InputInv
  BY DEF BaseInv, TypeInv
<1>1. spc'[r] = "send" \/ gpc'[r] = "init" => out'[r].sync = ssync'
  BY <1>0, OutComesFrom DEF SyncInv
<1>2. ASSUME NEW i \in Seats
      PROVE  LET p == <<r, i>> IN
             /\ view'[p].round = round'[r] => view'[p].sync = ssync'
             /\ \A k \in 1..Len(down'[p]) :
                  down'[p][k].type = "INIT" /\ down'[p][k].round = round'[r]
                    => down'[p][k].sync = ssync'
             /\ \A k \in 1..Len(up'[p]) :
                  up'[p][k].tag.round = round'[r] => up'[p][k].sync = ssync'
  <2> DEFINE p == <<r, i>>
  <2>1. view'[p].round = round'[r] => view'[p].sync = ssync'
    BY <1>0, ViewComesFrom DEF SyncInv
  <2>2. ASSUME NEW k \in 1..Len(down'[p]), down'[p][k].type = "INIT",
               down'[p][k].round = round'[r]
        PROVE  down'[p][k].sync = ssync'
    <3>1. CASE \E m \in 1..Len(down[p]) : down'[p][k] = down[p][m]
      BY <2>2, <3>1 DEF SyncInv
    <3>2. CASE (gpc[r] = "init" \/ spc[r] = "send") /\ down'[p][k].sync = out[r].sync
      BY <3>2 DEF SyncInv
    <3>3. QED
      BY <1>0, <2>2, <3>1, <3>2, DownComesFrom
  <2>3. ASSUME NEW k \in 1..Len(up'[p]), up'[p][k].tag.round = round'[r]
        PROVE  up'[p][k].sync = ssync'
    <3>1. CASE \E m \in 1..Len(up[p]) : up'[p][k] = up[p][m]
      BY <2>3, <3>1 DEF SyncInv
    <3>2. CASE up'[p][k] = [sync |-> view[p].sync,
                            tag |-> [by |-> p, round |-> view[p].round]]
      BY <2>3, <3>2 DEF SyncInv
    <3>3. QED
      BY <1>0, <2>3, <3>1, <3>2, SeatedPlayer, UpComesFrom
  <2>4. QED
    BY <2>1, <2>2, <2>3
<1>3. ASSUME rpc'[r] = "check", inHand'[r].tag.round = round'[r]
      PROVE  inHand'[r].sync = ssync'
  <2>1. CASE rpc[r] = "check" /\ inHand'[r] = inHand[r]
    BY <1>3, <2>1 DEF SyncInv
  <2>2. ASSUME NEW i \in Seats, NEW m \in 1..Len(up[<<r, i>>]), inHand'[r] = up[<<r, i>>][m]
        PROVE  inHand'[r].sync = ssync'
    BY <1>3, <2>2 DEF SyncInv
  <2>3. ASSUME NEW i \in Seats, inHand'[r].tag = [by |-> <<r, i>>, round |-> 0]
        PROVE  FALSE
    <3>1. HandInv(r)' /\ PhaseInv(r)' /\ RoundInv'
      BY <1>0, InputsStep, RoundStep DEF InputInv, RoundInv
    <3>2. gpc'[r] = "playing" /\ round'[r] >= 1
      BY <1>3, <3>1 DEF HandInv, PhaseInv
    <3>3. QED
      BY <1>3, <2>3, <3>2
  <2>4. QED
    BY <1>0, <1>3, <2>1, <2>2, <2>3, HandComesFrom
<1>4. QED
  BY <1>1, <1>2, <1>3 DEF SyncInv

\* Every step keeps the sync numbers with their rounds, where matches do not overlap.
LEMMA SyncsStep ==
  ASSUME OneAtATime, BaseInv, SyncsInv, [Next]_vars
  PROVE  SyncsInv'
<1>0. TypeOK /\ RoundInv /\ InTurn
  BY DEF BaseInv, TypeInv, SyncsInv
<1>1. InTurn'
  BY <1>0, InTurnStep
<1>2. ASSUME NEW r \in Rooms, Latest(r)' PROVE SyncInv(r)'
  <2>1. CASE gpc[r] = "waiting"
    <3>1. StartGame(r)
      BY <1>0, <1>2, <2>1, StartedBy DEF Latest
    <3>2. QED
      BY <3>1, SyncStart
  <2>2. CASE gpc[r] # "waiting"
    <3>1. Latest(r)
      BY <1>0, <1>2, <2>2, EndsStay DEF Latest
    <3>2. SyncInv(r)
      BY <3>1 DEF SyncsInv
    <3>3. QED
      BY <1>0, <2>2, <3>1, <3>2, Movers, SyncMoves, SyncKeeps
  <2>3. QED
    BY <2>1, <2>2
<1>3. QED
  BY <1>1, <1>2 DEF SyncsInv

\* Every step keeps to that, for the theorems below.
LEMMA AlwaysInSync ==
  ASSUME OneAtATime
  PROVE  Spec => [](BaseInv /\ SyncsInv)
<1>1. Init => BaseInv /\ SyncsInv
  <2>1. Init => BaseInv
    BY TypesInit, RoundInit, InputsInit DEF BaseInv
  <2>2. Init => SyncsInv
    BY DEF Init, SyncsInv, InTurn, Latest
  <2>3. QED
    BY <2>1, <2>2
<1>2. BaseInv /\ SyncsInv /\ [Next]_vars => (BaseInv /\ SyncsInv)'
  <2>1. BaseInv /\ [Next]_vars => BaseInv'
    BY TypesStep, RoundStep, InputsStep DEF BaseInv
  <2>2. QED
    BY <2>1, SyncsStep
<1>3. QED
  BY <1>1, <1>2, PTL DEF Spec

\* Behind the last INIT there are only STATEs, all of the INIT's round.
LEMMA LastRound ==
  ASSUME NEW first \in Nat, NEW s \in Seq(StatePacket), Chain(first, s),
         NEW h \in 0..Len(s), NEW n \in Nat, n = (IF h = 0 THEN first ELSE s[h].round),
         \A k \in 1..Len(s) : k > h => s[k].type # "INIT"
  PROVE  LeadsTo(first, s) = n
<1>1. Len(s) \in Nat
  BY LenProperties
<1> DEFINE Same(d) == \A k \in 1..Len(s) : k = h + d => s[k].round = n
<1> DEFINE T == {d \in Nat : d >= 1 => Same(d)}
<1>2. T \in SUBSET Nat /\ 0 \in T
  OBVIOUS
<1>3. ASSUME NEW d \in T, NEW e \in Nat, e = d + 1 PROVE e \in T
  <2>1. ASSUME NEW k \in 1..Len(s), k = h + e PROVE s[k].round = n
    <3>1. s[k].type # "INIT"
      BY <1>1, <1>3, <2>1
    <3>2. CASE k = 1
      <4>1. Follows(first, s[1]) /\ h = 0
        BY <1>1, <1>3, <2>1, <3>2, EmptySeq DEF Chain
      <4>2. QED
        BY <3>1, <3>2, <4>1 DEF Follows
    <3>3. CASE k # 1
      <4>1. PICK j \in 1..Len(s) : k = j + 1
        BY <1>1, <3>3
      <4>2. Follows(s[j].round, s[k])
        BY <4>1 DEF Chain
      <4>3. s[j].round = n
        <5>1. CASE d = 0
          BY <1>1, <1>3, <2>1, <4>1, <5>1
        <5>2. CASE d # 0
          BY <1>1, <1>3, <2>1, <4>1, <5>2
        <5>3. QED
          BY <5>1, <5>2
      <4>4. QED
        BY <3>1, <4>2, <4>3 DEF Follows
    <3>4. QED
      BY <3>2, <3>3
  <2>2. QED
    BY <2>1
<1> HIDE DEF T
<1>4. T = Nat
  BY <1>2, <1>3, SetInduction
<1>5. CASE Len(s) = 0
  <2>1. s = <<>> /\ h = 0
    BY <1>5, EmptySeq
  <2>2. QED
    BY <2>1 DEF LeadsTo
<1>6. CASE Len(s) # 0
  <2>1. s # <<>> /\ Len(s) \in 1..Len(s)
    BY <1>1, <1>6, EmptySeq
  <2>2. s[Len(s)].round = n
    <3>1. CASE h = Len(s)
      BY <1>6, <3>1
    <3>2. CASE h # Len(s)
      <4>1. PICK d \in Nat : d >= 1 /\ Len(s) = h + d
        <5>1. h \in Nat /\ h < Len(s)
          BY <1>1, <3>2
        <5>2. Len(s) - h \in Nat /\ Len(s) - h >= 1 /\ Len(s) = h + (Len(s) - h)
          BY <1>1, <5>1
        <5>3. QED
          BY <5>2
      <4>2. Same(d)
        BY <1>4, <4>1 DEF T
      <4>3. QED
        BY <2>1, <4>1, <4>2
    <3>3. QED
      BY <3>1, <3>2
  <2>3. QED
    BY <2>1, <2>2 DEF LeadsTo
<1>7. QED
  BY <1>5, <1>6

\* What a player of a match that goes on was told last, once nothing is owed to it, is of
\* the round the match is in.
LEMMA LastInitOfRound ==
  ASSUME BaseInv, NEW r \in Rooms, NEW i \in Seats, SyncInv(r),
         Here(<<r, i>>), ~Ended(r), Due(r, i) = round[r]
  PROVE  LastInit(<<r, i>>) = ssync
<1> DEFINE p == <<r, i>>
<1> DEFINE inits == {k \in DOMAIN down[p] : down[p][k].type = "INIT"}
<1>0. TypeOK /\ PlayerInv(r, i) /\ round[r] \in Nat
  BY DueIsInt, Constants DEF BaseInv, TypeInv, RoundInv
<1>1. /\ down[p] \in Seq(StatePacket) /\ view[p].round \in Nat
      /\ Len(down[p]) \in Nat /\ DOMAIN down[p] = 1..Len(down[p])
      /\ Chain(view[p].round, down[p]) /\ LeadsTo(view[p].round, down[p]) = round[r]
  BY <1>0, PlayerTypes, LenProperties DEF PlayerInv
<1>2. CASE inits = {}
  <2>1. \A k \in 1..Len(down[p]) : k > 0 => down[p][k].type # "INIT"
    BY <1>1, <1>2
  <2>2. 0 \in 0..Len(down[p])
    BY <1>1
  <2>3. PICK n \in Nat : n = view[p].round
    BY <1>1
  <2>4. n = IF 0 = 0 THEN view[p].round ELSE down[p][0].round
    BY <2>3
  <2>5. LeadsTo(view[p].round, down[p]) = n
    BY <1>1, <2>1, <2>2, <2>4, LastRound, Zenon
  <2>6. QED
    BY <1>1, <1>2, <2>3, <2>5 DEF LastInit, SyncInv
<1>3. CASE inits # {}
  <2> DEFINE h == Max(inits)
  <2>1. \E x \in inits : \A y \in inits : x >= y
    <3>1. inits \in SUBSET (1..Len(down[p]))
      BY <1>1
    <3>2. QED
      BY <1>1, <1>3, <3>1, GreatestOne
  <2>2. h \in inits /\ \A y \in inits : h >= y
    BY <2>1 DEF Max
  <2> HIDE DEF h
  <2>3. /\ h \in 1..Len(down[p]) /\ h \in 0..Len(down[p]) /\ h # 0
        /\ down[p][h].type = "INIT" /\ down[p][h].round \in Nat
    <3>1. h \in 1..Len(down[p]) /\ down[p][h].type = "INIT"
      BY <1>1, <2>2
    <3>2. down[p][h] \in StatePacket
      BY <1>1, <3>1, ElementOfSeq
    <3>3. QED
      BY <1>1, <3>1, <3>2, RoundsOfPackets
  <2>4. \A k \in 1..Len(down[p]) : k > h => down[p][k].type # "INIT"
    <3>1. SUFFICES ASSUME NEW k \in 1..Len(down[p]), k > h, down[p][k].type = "INIT"
                   PROVE  FALSE
      OBVIOUS
    <3>2. k \in inits
      BY <1>1, <3>1
    <3>3. h >= k
      BY <2>2, <3>2
    <3>4. QED
      BY <1>1, <2>3, <3>1, <3>3
  <2>5. down[p][h].round = round[r]
    <3>1. PICK n \in Nat : n = down[p][h].round
      BY <2>3
    <3>2. n = IF h = 0 THEN view[p].round ELSE down[p][h].round
      BY <2>3, <3>1
    <3>3. LeadsTo(view[p].round, down[p]) = n
      <4>1. /\ view[p].round \in Nat /\ down[p] \in Seq(StatePacket)
            /\ Chain(view[p].round, down[p]) /\ h \in 0..Len(down[p])
        BY <1>1, <2>3
      <4>2. QED
        BY <2>4, <3>2, <4>1, LastRound
    <3>4. QED
      BY <1>1, <3>1, <3>3
  <2>6. down[p][h].sync = ssync
    BY <2>3, <2>5 DEF SyncInv
  <2>7. QED
    BY <1>3, <2>6 DEF LastInit, h
<1>4. QED
  BY <1>2, <1>3

\* Where one match is over before the next one starts, the server and its players agree on
\* the sync number, but for the time an INIT is owed or under way.
THEOREM SyncsAgree ==
  ASSUME OneAtATime
  PROVE  Spec => []SyncAgreement
<1>1. BaseInv /\ SyncsInv => SyncAgreement
  <2> SUFFICES ASSUME BaseInv, SyncsInv, NEW r \in Rooms, NEW i \in Seats,
                      Playing(r), Here(<<r, i>>), ~InitOwed(r, i)
               PROVE  LastInit(<<r, i>>) = ssync
    BY DEF SyncAgreement
  <2>1. gpc[r] = "playing" /\ ~Ended(r)
    BY DEF BaseInv, RoundInv, PhaseInv, Playing, Ended, TypeInv, TypeOK
  <2>2. Latest(r)
    <3>1. ASSUME NEW q \in Rooms, q > r PROVE gpc[q] = "waiting"
      <4>1. r < q
        BY <3>1, RoomsAssumption
      <4>2. QED
        BY <2>1, <4>1 DEF SyncsInv, InTurn
    <3>2. QED
      BY <2>1, <3>1 DEF Latest
  <2>3. SyncInv(r) /\ Due(r, i) = round[r]
    BY <2>1, <2>2 DEF SyncsInv, Due, Owing
  <2>4. QED
    BY <2>1, <2>3, LastInitOfRound
<1>2. QED
  BY <1>1, AlwaysInSync, PTL

\* A match that is alone drops only inputs of a round that has passed.
THEOREM OnlyStaleIsDropped ==
  ASSUME Alone
  PROVE  Spec => DropsOnlyStale
<1> DEFINE Drop == \A r \in Rooms : rpc[r] = "check" /\ rpc'[r] = "scan" =>
                      inHand[r].tag.round < round[r]
<1>1. OneAtATime
  BY DEF Alone, OneAtATime
<1>2. BaseInv /\ SyncsInv /\ [Next]_vars => [Drop]_vars
  <2> SUFFICES ASSUME BaseInv, SyncsInv, [Next]_vars, NEW r \in Rooms,
                      rpc[r] = "check", rpc'[r] = "scan"
               PROVE  inHand[r].tag.round < round[r]
    OBVIOUS
  <2> USE DEF statics, gameVars, senderVars, receiverVars, netVars
  <2>0. TypeOK /\ PhaseInv(r) /\ HandInv(r) /\ inHand[r] \in InputPacket /\ round[r] \in Nat
    BY DueIsInt, Constants DEF BaseInv, TypeInv, RoundInv, InputInv, HasPacket
  <2>1. gpc[r] = "playing" /\ Latest(r)
    <3>1. gpc[r] = "playing"
      BY <2>0 DEF HandInv
    <3>2. \A q \in Rooms : ~(q > r)
      BY RoomsAssumption DEF Alone
    <3>3. QED
      BY <3>1, <3>2 DEF Latest
  <2>2. SyncInv(r)
    BY <2>1 DEF SyncsInv
  <2>3. inHand[r].sync # ssync
    <3>1. ASSUME NEW q \in Rooms, GameThread(q) \/ Sender(q) PROVE FALSE
      <4>1. q = r
        BY DEF Alone
      <4>2. QED
        BY <2>0, <2>1, <3>1, <4>1
        DEF GameThread, Sender, StartGame, SendInit, Tick, BumpSync, MakePacket, Broadcast
    <3>2. ASSUME NEW q \in Rooms, Receiver(q) PROVE inHand[r].sync # ssync
      <4>1. q = r
        BY DEF Alone
      <4>2. CheckSync(r)
        BY <3>2, <4>1 DEF Receiver, LoopTest, Poll, Recv, ApplyInput
      <4>3. QED
        BY <2>0, <4>2 DEF CheckSync, TypeOK
    <3>3. ASSUME NEW p \in Players, ClientStep(p) PROVE FALSE
      BY <3>3 DEF ClientStep, ClientReceives, ClientSends, ClientLeaves, RstArrives, Abort
    <3>4. ~UNCHANGED vars
      BY DEF vars
    <3>5. QED
      BY <3>1, <3>2, <3>3, <3>4, StepsOf
  <2>4. inHand[r].tag.round # round[r]
    BY <2>2, <2>3 DEF SyncInv
  <2>5. PICK i \in Seats : inHand[r].tag.round <= view[<<r, i>>].round
    BY <2>0 DEF HandInv
  <2>6. /\ view[<<r, i>>].round \in Nat /\ view[<<r, i>>].round <= Due(r, i)
        /\ Due(r, i) \in Int /\ Due(r, i) <= round[r]
    BY <2>0, PlayerTypes, DueIsInt DEF BaseInv, RoundInv, PlayerInv
  <2>7. inHand[r].tag.round \in Nat
    BY <2>0, TagTypes
  <2>8. QED
    BY <2>0, <2>4, <2>5, <2>6, <2>7
<1>3. QED
  BY <1>1, <1>2, AlwaysInSync, PTL DEF Spec, DropsOnlyStale

-----------------------------------------------------------------------------
(* Paddles are moved by their owners.                                      *)

\* At the start nothing moves a paddle.
LEMMA OwnersInit == Init => \A r \in Rooms : OwnInputs(r)
<1> SUFFICES ASSUME Init, NEW r \in Rooms PROVE OwnInputs(r)
  OBVIOUS
<1>1. gpc[r] = "waiting" /\ \A i \in Seats : input[i] = {}
  BY DEF Init, NoInput
<1>2. QED
  BY <1>1 DEF OwnInputs

\* A match that is alone keeps the inputs of its two seats apart.
LEMMA OwnersStep ==
  ASSUME Alone, BaseInv, [Next]_vars, NEW r \in Rooms, OwnInputs(r)
  PROVE  OwnInputs(r)'
<1> USE DEF statics, gameVars, senderVars, receiverVars, netVars
<1>0. TypeOK /\ RoundInv /\ HandInv(r)
  BY DEF BaseInv, TypeInv, InputInv
<1>1. gpc'[r] # "waiting" => \A i \in Seats : player_ids'[i] = <<r, i>>
  <2>1. ASSUME NEW q \in Rooms, StartGame(q) PROVE player_ids' = [i \in Seats |-> <<r, i>>]
    BY <2>1 DEF Alone, StartGame
  <2>2. ASSUME NEW q \in Rooms, StartGame(q) \/ GameThread(q) \/ Sender(q) \/ Receiver(q)
        PROVE  StartGame(q) \/ player_ids' = player_ids
    BY <2>2 DEF GameThread, Sender, Receiver, SendInit, Tick, BumpSync, MakePacket,
                Broadcast, LoopTest, Poll, Recv, CheckSync, ApplyInput
  <2>3. ASSUME NEW p \in Players, ClientStep(p) PROVE player_ids' = player_ids
    BY <2>3 DEF ClientStep, ClientReceives, ClientSends, ClientLeaves, RstArrives, Abort
  <2>4. UNCHANGED vars => player_ids' = player_ids
    BY DEF vars
  <2>5. player_ids' = [i \in Seats |-> <<r, i>>] \/ player_ids' = player_ids
    BY <2>1, <2>2, <2>3, <2>4, StepsOf
  <2>6. CASE gpc[r] = "waiting" /\ gpc'[r] # "waiting"
    <3>1. StartGame(r)
      BY <1>0, <2>6, StartedBy
    <3>2. QED
      BY <2>1, <3>1
  <2>7. CASE gpc[r] # "waiting"
    BY <2>5, <2>7 DEF OwnInputs
  <2>8. QED
    BY <2>6, <2>7
<1>2. ASSUME NEW i \in Seats, NEW tag \in input'[i]
      PROVE  tag.by = <<r, i>> /\ (tag.round = 0 => conn'[<<r, i>>] = "dead")
  <2>0. conn[<<r, i>>] = "dead" => conn'[<<r, i>>] = "dead"
    BY <1>0, SeatedPlayer, DeadStays
  <2>1. CASE tag \in input[i]
    BY <2>0, <2>1 DEF OwnInputs
  <2>2. CASE tag \notin input[i]
    <3>1. ApplyInput(r)
      <4>1. ASSUME NEW q \in Rooms, GameThread(q) \/ Sender(q) \/ Receiver(q)
            PROVE  ApplyInput(r)
        <5>1. q = r
          BY DEF Alone
        <5>2. QED
          BY <1>2, <2>2, <4>1, <5>1
          DEF GameThread, Sender, Receiver, StartGame, SendInit, Tick, BumpSync, MakePacket,
              Broadcast, LoopTest, Poll, Recv, CheckSync, NoInput
      <4>2. ASSUME NEW p \in Players, ClientStep(p) PROVE FALSE
        BY <1>2, <2>2, <4>2
        DEF ClientStep, ClientReceives, ClientSends, ClientLeaves, RstArrives, Abort
      <4>3. ~UNCHANGED vars
        BY <1>2, <2>2 DEF vars
      <4>4. QED
        BY <4>1, <4>2, <4>3, StepsOf
    <3>2. rpc[r] = "apply" /\ gpc[r] = "playing" /\ conn' = conn
      BY <1>0, <3>1 DEF ApplyInput, HandInv
    <3>3. tag = inHand[r].tag /\ player_ids[i] = tag.by
      BY <1>2, <2>2, <3>1 DEF ApplyInput, InputOf
    <3>4. tag.by = <<r, i>>
      BY <3>2, <3>3 DEF OwnInputs
    <3>5. tag.round = 0 => conn[<<r, i>>] = "dead"
      BY <1>0, <3>2, <3>3, <3>4 DEF HandInv
    <3>6. QED
      BY <3>2, <3>4, <3>5
  <2>3. QED
    BY <2>1, <2>2
<1>3. QED
  BY <1>1, <1>2 DEF OwnInputs

\* In a match that is alone a paddle is moved by what its own player has collected, or by
\* the packet that is made up after that player's connection has broken.
THEOREM PaddlesMovedByOwners ==
  ASSUME Alone
  PROVE  Spec => MovedByOwner
<1> DEFINE Owned == \A r \in Rooms : OwnInputs(r)
<1> DEFINE Move == \A r \in Rooms : Ticks(r) =>
                     \A i \in Seats : \A tag \in input[i] :
                       tag.by = <<r, i>> /\ (Collected(tag) \/ conn[tag.by] = "dead")
<1>1. Init => Owned
  BY OwnersInit
<1>2. BaseInv /\ Owned /\ [Next]_vars => Owned'
  BY OwnersStep
<1>3. Owned => [Move]_vars
  BY DEF OwnInputs, Collected
<1>4. QED
  BY <1>1, <1>2, <1>3, AlwaysOwned, PTL DEF Spec, MovedByOwner
=============================================================================
