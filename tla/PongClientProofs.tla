-------------------------- MODULE PongClientProofs --------------------------
(***************************************************************************)
(* Theorems about PongClient, for any number of rounds, inputs and packets *)
(* under way: type correctness, which round the things a client sends are  *)
(* from, and that its inputs are counted once.                             *)
(***************************************************************************)
EXTENDS PongClient, SequenceFacts

-----------------------------------------------------------------------------
(* Type correctness.                                                       *)

\* Every variable keeps its type, whichever thread or end takes a step.
THEOREM TypeCorrect == Spec => []TypeOK
<1>1. Init => TypeOK
  <2>1. <<>> \in Seq(InputPacket) /\ Len(<<>>) = 0
    BY EmptySeq
  <2>2. 0 \in Rounds /\ 1 \in Rounds
    BY ClientBoundAssumption DEF Rounds
  <2>3. /\ <<[type |-> "INIT", round |-> 1]>> \in Seq(StatePacket)
        /\ Len(<<[type |-> "INIT", round |-> 1]>>) = 1
    BY <2>2 DEF StatePacket
  <2>4. QED
    BY <2>1, <2>2, <2>3, ClientBoundAssumption
    DEF Init, TypeOK, FromInit, NoPacket, NoInputPacket, LocalState, StatePacket, InputPacket
<1>2. TypeOK /\ [Next]_vars => TypeOK'
  <2> SUFFICES ASSUME TypeOK, [Next]_vars PROVE TypeOK'
    OBVIOUS
  <2> USE DEF TypeOK, updateVars, receiverVars, networkVars
  <2>0. 0 \in Rounds /\ 1 \in Rounds /\ Rounds \subseteq Nat
    BY ClientBoundAssumption DEF Rounds
  <2>1. CASE Join
    <3>1. down' \in Seq(StatePacket) /\ Len(down') <= Capacity /\ Head(down) \in StatePacket
      BY <2>1, TailFacts, ClientBoundAssumption DEF Join
    <3>2. Head(down).round \in Rounds
      BY <3>1 DEF StatePacket
    <3>3. QED
      BY <2>1, <3>1, <3>2, <2>0 DEF Join, FromInit, LocalState
  <2>2. CASE ServerTick
    <3>1. PICK e \in StatePacket :
            down' = Append(down, e)
      BY <2>2, ClientBoundAssumption DEF ServerTick, StatePacket, Rounds
    <3>2. down' \in Seq(StatePacket) /\ Len(down') <= Capacity
      BY <2>2, <3>1, AppendFacts, ClientBoundAssumption DEF ServerTick
    <3>3. server' \in [round : Rounds, paddle : SUBSET Increments, input : SUBSET Increments]
      <4>1. CASE server' = [server EXCEPT !.paddle = @ \cup server.input, !.input = {}]
        BY <4>1
      <4>2. CASE /\ server.round < MaxRound
                 /\ server' = [round |-> server.round + 1, paddle |-> {}, input |-> {}]
        <5>1. server.round + 1 \in Rounds
          BY <4>2, ClientBoundAssumption DEF Rounds
        <5>2. QED
          BY <4>2, <5>1
      <4>3. QED
        BY <2>2, <4>1, <4>2 DEF ServerTick
    <3>4. QED
      BY <2>2, <3>2, <3>3 DEF ServerTick
  <2>3. CASE ServerReceives
    <3>1. up' \in Seq(InputPacket) /\ Len(up') <= Capacity /\ Head(up) \in InputPacket
      BY <2>3, TailFacts, ClientBoundAssumption DEF ServerReceives
    <3>2. server' \in [round : Rounds, paddle : SUBSET Increments, input : SUBSET Increments]
      BY <2>3, <3>1 DEF ServerReceives, InputPacket
    <3>3. QED
      BY <2>3, <3>1, <3>2 DEF ServerReceives
  <2>4. CASE Receive
    <3>1. down' \in Seq(StatePacket) /\ Len(down') <= Capacity /\ Head(down) \in StatePacket
      BY <2>4, TailFacts, ClientBoundAssumption DEF Receive
    <3>2. QED
      BY <2>4, <3>1 DEF Receive, AfterReceive
  <2>5. CASE StoreState
    <3>1. local_state' = [local_state EXCEPT !.ball = received.round]
            \/ local_state' = FromInit(received.round)
      BY <2>5 DEF StoreState
    <3>2. received.round \in Rounds
      BY DEF StatePacket
    <3>3. local_state' \in LocalState
      BY <3>1, <3>2 DEF LocalState, FromInit
    <3>4. QED
      BY <2>5, <3>3 DEF StoreState
  <2>6. CASE StoreSync
    BY <2>6 DEF StoreSync, SyncStored, StatePacket
  <2>7. CASE ResetInput
    BY <2>7 DEF ResetInput, InputAfterInit
  <2>8. CASE MakePacket
    BY <2>8 DEF MakePacket, InputAfterPacket, InputPacket
  <2>9. CASE Send
    <3>1. up' \in Seq(InputPacket) /\ Len(up') <= Capacity
      BY <2>9, AppendFacts, ClientBoundAssumption DEF Send, HasRoom
    <3>2. QED
      BY <2>9, <3>1, <2>0 DEF Send, NoInputPacket, InputPacket
  <2>10. CASE CollectInput
    <3>1. pressed' \subseteq Increments /\ input' \subseteq Increments /\ collected' \in 0..MaxInputs
      BY <2>10, ClientBoundAssumption DEF CollectInput, Added, Increments, LocalState
    <3>2. QED
      BY <2>10, <3>1 DEF CollectInput
  <2>11. CASE CopyState
    BY <2>11 DEF CopyState
  <2>12. CASE WriteBack
    BY <2>12, <2>0 DEF WriteBack, LocalState, FromInit
  <2>13. CASE UNCHANGED vars
    BY <2>13 DEF vars
  <2>14. QED
    BY <2>1, <2>2, <2>3, <2>4, <2>5, <2>6, <2>7, <2>8, <2>9, <2>10, <2>11, <2>12, <2>13
    DEF Next, Server, Receiver, Network, Update
<1>3. QED
  BY <1>1, <1>2, PTL DEF Spec

-----------------------------------------------------------------------------
(* The rounds the client is told of, and those its inputs are from.        *)

\* A packet that follows on the round r: the next INIT, or a STATE of r itself.
Follows(r, p) == p.round = IF p.type = "INIT" THEN r + 1 ELSE r

\* The round of the last packet the receiver has taken off the connection.
Taken == IF rpc = "store" THEN received.round ELSE local_state.init

\* The connection carries the rounds one after the other, none left out, from what
\* the client has up to where the server is.
StreamInOrder ==
  /\ rpc = "store" => Follows(local_state.init, received)
  /\ down = <<>> => server.round = Taken
  /\ down # <<>> => Follows(Taken, down[1]) /\ down[Len(down)].round = server.round
  /\ \A k \in 1..(Len(down) - 1) : Follows(down[k].round, down[k + 1])

\* The sync is that of the state, except for the time the receiver takes from the one
\* critical section to the next.
SyncOfState ==
  /\ rpc = "joining" => upc = "off" /\ npc = "off" /\ input = {}
  /\ rpc \in {"sync", "reset"} => received.round = local_state.init
  /\ local_state.init = IF rpc = "sync" THEN ssync + 1 ELSE ssync

SyncsSent ==
  /\ packet.sync <= ssync
  /\ \A k \in DOMAIN up : up[k].sync <= ssync

\* What the client has collected is from the round it is in, or from the one before
\* while an INIT has still to reset it; it stays that old in the packets.
InputAge ==
  /\ \A inc \in input : inc.round + 1 >= ssync /\ (rpc # "reset" => inc.round >= ssync)
  /\ \A inc \in packet.incs : inc.round + 1 >= packet.sync
  /\ InputAtMostOneRoundOld

RoundInv == StreamInOrder /\ SyncOfState /\ SyncsSent /\ InputAge

\* At the start the INIT of the first round is under way.
LEMMA RoundInvInit == Init => RoundInv
<1> SUFFICES ASSUME Init PROVE RoundInv
  OBVIOUS
<1> DEFINE first == [type |-> "INIT", round |-> 1]
<1>1. down = <<first>> /\ Len(down) = 1 /\ down[1] = first /\ down # <<>>
  BY DEF Init
<1>2. StreamInOrder
  BY <1>1 DEF Init, StreamInOrder, Follows, Taken, FromInit
<1>3. DOMAIN up = {}
  BY DEF Init
<1>4. SyncOfState /\ SyncsSent /\ InputAge
  BY <1>3 DEF Init, SyncOfState, SyncsSent, InputAge, InputAtMostOneRoundOld, FromInit,
              NoInputPacket
<1>5. QED
  BY <1>2, <1>4 DEF RoundInv

\* What TypeOK says of numbers, once.
LEMMA RoundsAreNat ==
  ASSUME TypeOK
  PROVE  /\ server.round \in Nat /\ local_state.init \in Nat /\ ssync \in Nat
         /\ received.round \in Nat /\ packet.sync \in Nat
         /\ \A inc \in Increments : inc.round \in Nat
         /\ packet.incs \subseteq Increments
         /\ down \in Seq(StatePacket) /\ up \in Seq(InputPacket)
         /\ Len(down) \in Nat /\ Len(up) \in Nat
         /\ DOMAIN down = 1..Len(down) /\ DOMAIN up = 1..Len(up)
         /\ down # <<>> => Len(down) >= 1
         /\ \A k \in DOMAIN down : down[k] \in StatePacket /\ down[k].round \in Nat
         /\ \A k \in DOMAIN up : up[k].sync \in Nat /\ up[k].incs \subseteq Increments
<1>1. Rounds \subseteq Nat
  BY ClientBoundAssumption DEF Rounds
<1>2. down \in Seq(StatePacket) /\ up \in Seq(InputPacket)
  BY DEF TypeOK
<1>3. /\ Len(down) \in Nat /\ Len(up) \in Nat
      /\ DOMAIN down = 1..Len(down) /\ DOMAIN up = 1..Len(up)
      /\ \A k \in 1..Len(down) : down[k] \in StatePacket
      /\ \A k \in 1..Len(up) : up[k] \in InputPacket
  BY <1>2, LenProperties, ElementOfSeq
<1>4. down # <<>> => Len(down) >= 1
  BY <1>2, <1>3, EmptySeq, LenProperties
<1>5. /\ \A p \in StatePacket : p.round \in Nat
      /\ \A p \in InputPacket : p.sync \in Nat /\ p.incs \subseteq Increments
      /\ \A inc \in Increments : inc.round \in Nat
  BY <1>1 DEF StatePacket, InputPacket, Increments
<1>6. server.round \in Nat /\ local_state.init \in Nat /\ ssync \in Nat
  BY <1>1 DEF TypeOK, LocalState
<1>7. QED
  BY <1>2, <1>3, <1>4, <1>5, <1>6 DEF TypeOK

-----------------------------------------------------------------------------
\* Taking the first packet off the connection leaves the order of the rest.
LEMMA StreamTaken ==
  ASSUME TypeOK, StreamInOrder, down # <<>>, down' = Tail(down), server' = server,
         Taken' = Head(down).round,
         rpc' = "store" => Follows(local_state'.init, received')
  PROVE  StreamInOrder'
<1>1. /\ Len(down) \in Nat /\ Len(down) >= 1 /\ Len(Tail(down)) = Len(down) - 1
      /\ \A i \in 1..(Len(down) - 1) : Tail(down)[i] = down[i + 1]
      /\ Head(down) = down[1]
  BY RoundsAreNat, TailFacts
<1>2. CASE Len(down) = 1
  <2>1. Tail(down) = <<>>
    BY <1>1, <1>2, RoundsAreNat, TailFacts, EmptySeq
  <2>2. server.round = Taken'
    BY <1>1, <1>2 DEF StreamInOrder
  <2>3. Len(down') = 0
    BY <1>1, <1>2
  <2>4. QED
    BY <2>1, <2>2, <2>3 DEF StreamInOrder
<1>3. CASE Len(down) > 1
  <2>1. Tail(down) # <<>> /\ Tail(down)[1] = down[2]
    BY <1>1, <1>3, EmptySeq
  <2>2. Follows(down[1].round, down[2])
    BY <1>1, <1>3 DEF StreamInOrder
  <2>3. down'[Len(down')].round = server.round
    <3>1. Len(down) - 1 \in 1..(Len(down) - 1) /\ Len(down) - 1 + 1 = Len(down)
      BY <1>1, <1>3
    <3>2. QED
      BY <1>1, <3>1 DEF StreamInOrder
  <2>4. \A k \in 1..(Len(down') - 1) : Follows(down'[k].round, down'[k + 1])
    <3> TAKE k \in 1..(Len(down') - 1)
    <3>1. k \in 1..(Len(down) - 1) /\ k + 1 \in 1..(Len(down) - 1)
      BY <1>1, <1>3
    <3>2. down'[k] = down[k + 1] /\ down'[k + 1] = down[k + 1 + 1]
      BY <1>1, <3>1
    <3>3. Follows(down[k + 1].round, down[k + 1 + 1])
      BY <3>1 DEF StreamInOrder
    <3>4. QED
      BY <3>2, <3>3
  <2>5. Follows(Taken', down'[1])
    BY <1>1, <2>1, <2>2
  <2>6. QED
    BY <2>1, <2>3, <2>4, <2>5 DEF StreamInOrder
<1>4. QED
  BY <1>1, <1>2, <1>3

\* A packet of the server's round, or the INIT of its next, goes on with the order.
LEMMA StreamSent ==
  ASSUME TypeOK, StreamInOrder, NEW e \in StatePacket, down' = Append(down, e),
         Follows(server.round, e), server'.round = e.round,
         UNCHANGED <<rpc, received, local_state>>
  PROVE  StreamInOrder'
<1>1. /\ Len(down) \in Nat /\ Len(down') = Len(down) + 1 /\ down' # <<>>
      /\ \A i \in 1..Len(down) : down'[i] = down[i]
      /\ down'[Len(down) + 1] = e
  BY RoundsAreNat, AppendFacts
<1>2. Taken' = Taken
  BY DEF Taken
<1>3. down'[Len(down')].round = server'.round
  BY <1>1
<1>4. CASE down = <<>>
  <2>1. Len(down) = 0
    BY <1>4, EmptySeq
  <2>2. Follows(Taken', down'[1])
    BY <1>1, <1>2, <1>4, <2>1 DEF StreamInOrder
  <2>3. Len(down') - 1 = 0
    BY <1>1, <2>1
  <2>4. QED
    BY <1>1, <1>3, <2>2, <2>3 DEF StreamInOrder
<1>5. CASE down # <<>>
  <2>1. Len(down) >= 1
    BY <1>5, RoundsAreNat
  <2>2. Follows(Taken', down'[1])
    BY <1>1, <1>2, <1>5, <2>1 DEF StreamInOrder
  <2>3. \A k \in 1..(Len(down') - 1) : Follows(down'[k].round, down'[k + 1])
    <3> TAKE k \in 1..(Len(down') - 1)
    <3>1. CASE k = Len(down)
      BY <1>1, <1>5, <2>1, <3>1 DEF StreamInOrder
    <3>2. CASE k # Len(down)
      <4>1. k \in 1..(Len(down) - 1) /\ k \in 1..Len(down) /\ k + 1 \in 1..Len(down)
        BY <1>1, <3>2
      <4>2. Follows(down[k].round, down[k + 1])
        BY <4>1 DEF StreamInOrder
      <4>3. QED
        BY <1>1, <4>1, <4>2
    <3>3. QED
      BY <3>1, <3>2
  <2>4. QED
    BY <1>1, <1>3, <2>2, <2>3 DEF StreamInOrder
<1>6. QED
  BY <1>4, <1>5

\* What the receiver does with a packet leaves the connection alone.
LEMMA StreamKept ==
  ASSUME StreamInOrder, down' = down, server'.round = server.round, Taken' = Taken,
         rpc' = "store" => Follows(local_state'.init, received')
  PROVE  StreamInOrder'
BY DEF StreamInOrder

\* What a tick sends, and of which round.
LEMMA TickSends ==
  ASSUME TypeOK, ServerTick
  PROVE  \E e \in StatePacket :
           down' = Append(down, e) /\ Follows(server.round, e) /\ server'.round = e.round
<1>1. server.round \in Rounds
  BY DEF TypeOK
<1>2. /\ [type |-> "STATE", round |-> server.round] \in StatePacket
      /\ Follows(server.round, [type |-> "STATE", round |-> server.round])
  BY <1>1 DEF StatePacket, Follows
<1>3. CASE /\ server' = [server EXCEPT !.paddle = @ \cup server.input, !.input = {}]
           /\ down' = Append(down, [type |-> "STATE", round |-> server.round])
  <2>1. server'.round = server.round
    BY <1>3 DEF TypeOK
  <2>2. QED
    BY <1>2, <1>3, <2>1
<1>4. CASE /\ server.round < MaxRound
           /\ server' = [round |-> server.round + 1, paddle |-> {}, input |-> {}]
           /\ down' = Append(down, [type |-> "INIT", round |-> server.round + 1])
  <2>1. server.round + 1 \in Rounds
    BY <1>1, <1>4, ClientBoundAssumption DEF Rounds
  <2>2. /\ [type |-> "INIT", round |-> server.round + 1] \in StatePacket
        /\ Follows(server.round, [type |-> "INIT", round |-> server.round + 1])
    BY <2>1 DEF StatePacket, Follows
  <2>3. QED
    BY <1>4, <2>2
<1>5. QED
  BY <1>3, <1>4 DEF ServerTick

\* What is on the connection after a packet was sent.
LEMMA SendAppends ==
  ASSUME TypeOK, Send
  PROVE  \A k \in DOMAIN up' : up'[k] = packet \/ (k \in DOMAIN up /\ up'[k] = up[k])
<1>1. up \in Seq(InputPacket) /\ packet \in InputPacket /\ up' = Append(up, packet)
  BY DEF Send, TypeOK
<1>2. /\ DOMAIN up' = 1..(Len(up) + 1) /\ DOMAIN up = 1..Len(up) /\ Len(up) \in Nat
      /\ \A k \in 1..Len(up) : up'[k] = up[k]
      /\ up'[Len(up) + 1] = packet
  BY <1>1, AppendFacts
<1>3. \A k \in 1..(Len(up) + 1) : k = Len(up) + 1 \/ k \in 1..Len(up)
  BY <1>2
<1>4. QED
  BY <1>2, <1>3

\* Every thread and both ends of the connection keep the rounds in order.
LEMMA RoundInvStep == TypeOK /\ RoundInv /\ [Next]_vars => RoundInv'
<1> SUFFICES ASSUME TypeOK, RoundInv, [Next]_vars PROVE RoundInv'
  OBVIOUS
<1> USE DEF updateVars, receiverVars, networkVars
<1>0. StreamInOrder /\ SyncOfState /\ SyncsSent /\ InputAge
  BY DEF RoundInv
<1>1. CASE Join
  <2>1. Head(down) = down[1] /\ Follows(local_state.init, down[1])
    BY <1>0, <1>1, RoundsAreNat, TailFacts DEF Join, StreamInOrder, Taken
  <2>2. Head(down).round = ssync + 1
    BY <1>0, <1>1, <2>1 DEF Join, SyncOfState, Follows
  <2>3. StreamInOrder'
    BY <1>0, <1>1, StreamTaken DEF Join, Taken, FromInit
  <2>4. SyncOfState'
    BY <1>1 DEF Join, SyncOfState, FromInit
  <2>5. SyncsSent'
    BY <1>0, <1>1, <2>2, RoundsAreNat DEF Join, SyncsSent
  <2>6. InputAge'
    BY <1>0, <1>1, <2>2, RoundsAreNat
    DEF Join, SyncOfState, InputAge, InputAtMostOneRoundOld
  <2>7. QED
    BY <2>3, <2>4, <2>5, <2>6 DEF RoundInv
<1>2. CASE ServerTick
  <2>1. StreamInOrder'
    <3>1. PICK e \in StatePacket :
            down' = Append(down, e) /\ Follows(server.round, e) /\ server'.round = e.round
      BY <1>2, TickSends
    <3>2. QED
      BY <1>0, <1>2, <3>1, StreamSent DEF ServerTick
  <2>2. QED
    BY <1>0, <1>2, <2>1
    DEF ServerTick, RoundInv, SyncOfState, SyncsSent, InputAge, InputAtMostOneRoundOld
<1>3. CASE ServerReceives
  <2>1. server'.round = server.round
    BY <1>3 DEF ServerReceives, TypeOK
  <2>2. StreamInOrder'
    BY <1>0, <1>3, <2>1, StreamKept DEF ServerReceives, Taken, StreamInOrder
  <2>3. \A k \in DOMAIN up' : k + 1 \in DOMAIN up /\ up'[k] = up[k + 1]
    BY <1>3, RoundsAreNat, TailFacts DEF ServerReceives
  <2>4. SyncsSent' /\ InputAge'
    BY <1>0, <1>3, <2>3
    DEF ServerReceives, SyncsSent, InputAge, InputAtMostOneRoundOld
  <2>5. QED
    BY <1>0, <1>3, <2>2, <2>4 DEF ServerReceives, RoundInv, SyncOfState
<1>4. CASE Receive
  <2>1. StreamInOrder'
    BY <1>0, <1>4, RoundsAreNat, TailFacts, StreamTaken
    DEF Receive, AfterReceive, Taken, StreamInOrder
  <2>2. QED
    BY <1>0, <1>4, <2>1
    DEF Receive, AfterReceive, RoundInv, SyncOfState, SyncsSent, InputAge,
        InputAtMostOneRoundOld
<1>5. CASE StoreState
  <2>1. StreamInOrder'
    BY <1>0, <1>5, StreamKept
    DEF StoreState, StreamInOrder, Taken, Follows, FromInit, TypeOK, LocalState
  <2>2. SyncOfState'
    BY <1>0, <1>5 DEF StoreState, StreamInOrder, SyncOfState, Follows, FromInit, TypeOK, LocalState
  <2>3. QED
    BY <1>0, <1>5, <2>1, <2>2
    DEF StoreState, RoundInv, SyncsSent, InputAge, InputAtMostOneRoundOld
<1>6. CASE StoreSync
  <2>1. ssync' = ssync + 1
    BY <1>0, <1>6 DEF StoreSync, SyncStored, SyncOfState
  <2>2. StreamInOrder' /\ SyncOfState'
    BY <1>0, <1>6, <2>1, StreamKept DEF StoreSync, Taken, SyncOfState, SyncStored
  <2>3. SyncsSent' /\ InputAge'
    BY <1>0, <1>6, <2>1, RoundsAreNat DEF StoreSync, SyncsSent, InputAge, InputAtMostOneRoundOld, TypeOK
  <2>4. QED
    BY <2>2, <2>3 DEF RoundInv
<1>7. CASE ResetInput
  <2>1. StreamInOrder'
    BY <1>0, <1>7, StreamKept DEF ResetInput, Taken
  <2>2. QED
    BY <1>0, <1>7, <2>1
    DEF ResetInput, InputAfterInit, RoundInv, SyncOfState, SyncsSent, InputAge,
        InputAtMostOneRoundOld
<1>8. CASE MakePacket
  <2>1. StreamInOrder'
    BY <1>0, <1>8, StreamKept DEF MakePacket, Taken, StreamInOrder
  <2>2. SyncsSent' /\ InputAge'
    BY <1>0, <1>8, RoundsAreNat
    DEF MakePacket, InputAfterPacket, SyncsSent, InputAge, InputAtMostOneRoundOld
  <2>3. QED
    BY <1>0, <1>8, <2>1, <2>2 DEF MakePacket, RoundInv, SyncOfState
<1>9. CASE Send
  <2>1. StreamInOrder'
    BY <1>0, <1>9, StreamKept DEF Send, Taken, StreamInOrder
  <2>3. \A k \in DOMAIN up' : up'[k] = packet \/ (k \in DOMAIN up /\ up'[k] = up[k])
    BY <1>9, SendAppends
  <2>4. SyncsSent' /\ InputAge'
    BY <1>0, <1>9, <2>3, RoundsAreNat
    DEF Send, NoInputPacket, SyncsSent, InputAge, InputAtMostOneRoundOld
  <2>5. QED
    BY <1>0, <1>9, <2>1, <2>4 DEF Send, RoundInv, SyncOfState
<1>10. CASE CollectInput
  <2>1. StreamInOrder'
    BY <1>0, <1>10, StreamKept DEF CollectInput, Taken, StreamInOrder
  <2>2. \A inc \in input' : inc \in input \/ inc.round = local_state.init
    BY <1>10 DEF CollectInput, Added
  <2>3. local_state.init >= ssync /\ local_state.init + 1 >= ssync
    BY <1>0, RoundsAreNat DEF SyncOfState
  <2>4. InputAge'
    BY <1>0, <1>10, <2>2, <2>3 DEF CollectInput, InputAge, InputAtMostOneRoundOld
  <2>5. QED
    BY <1>0, <1>10, <2>1, <2>4 DEF CollectInput, RoundInv, SyncOfState, SyncsSent
<1>11. CASE CopyState
  <2>1. StreamInOrder'
    BY <1>0, <1>11, StreamKept DEF CopyState, Taken, StreamInOrder
  <2>2. QED
    BY <1>0, <1>11, <2>1
    DEF CopyState, RoundInv, SyncOfState, SyncsSent, InputAge, InputAtMostOneRoundOld
<1>12. CASE WriteBack
  <2>1. local_state'.init = local_state.init
    BY <1>12 DEF WriteBack
  <2>2. StreamInOrder'
    BY <1>0, <1>12, <2>1, StreamKept DEF WriteBack, Taken, StreamInOrder
  <2>3. QED
    BY <1>0, <1>12, <2>1, <2>2
    DEF WriteBack, RoundInv, SyncOfState, SyncsSent, InputAge, InputAtMostOneRoundOld
<1>13. CASE UNCHANGED vars
  BY <1>0, <1>13
  DEF vars, RoundInv, StreamInOrder, Taken, SyncOfState, SyncsSent, InputAge,
      InputAtMostOneRoundOld
<1>14. QED
  BY <1>1, <1>2, <1>3, <1>4, <1>5, <1>6, <1>7, <1>8, <1>9, <1>10, <1>11, <1>12, <1>13
  DEF Next, Server, Receiver, Network, Update

\* The invariant of all rounds, with the types it needs.
LEMMA RoundsHold == Spec => []RoundInv
BY TypeCorrect, RoundInvInit, RoundInvStep, PTL DEF Spec

\* SyncNeverAhead: the sync is behind the state while an INIT is being taken over, and
\* never ahead of it, and what is sent carries the sync or an older one.
THEOREM NeverAheadOfState == Spec => []SyncNeverAhead
<1>1. TypeOK /\ RoundInv => SyncNeverAhead
  BY RoundsAreNat DEF RoundInv, SyncOfState, SyncsSent, SyncNeverAhead
<1>2. QED
  BY <1>1, TypeCorrect, RoundsHold, PTL

\* InputAtMostOneRoundOld: the one critical section between storing the sync and
\* resetting the input lets inputs of the round before through, and none older.
THEOREM OneRoundOld == Spec => []InputAtMostOneRoundOld
<1>1. RoundInv => InputAtMostOneRoundOld
  BY DEF RoundInv, InputAge
<1>2. QED
  BY <1>1, RoundsHold, PTL

-----------------------------------------------------------------------------
(* Each increment is in one place.                                         *)

\* The packets under way have no increment in common.
PacketsApart == \A j, k \in DOMAIN up : j # k => up[j].incs \cap up[k].incs = {}

\* The places an increment can be in, two by two.
PlacesApart ==
  /\ input \cap packet.incs = {} /\ input \cap InFlight = {}
  /\ input \cap server.input = {} /\ input \cap server.paddle = {}
  /\ packet.incs \cap InFlight = {} /\ packet.incs \cap server.input = {}
  /\ packet.incs \cap server.paddle = {}
  /\ InFlight \cap server.input = {} /\ InFlight \cap server.paddle = {}
  /\ server.input \cap server.paddle = {}

\* No place holds an increment that is still to come.
AllCollected ==
  \A inc \in input \cup packet.incs \cup InFlight \cup server.input \cup server.paddle :
    inc.n <= collected

OnceInv == PacketsApart /\ PlacesApart /\ AllCollected

\* The property in the words of OnceInv.
LEMMA ApartIsOnce == PacketsApart /\ PlacesApart => EachIncrementOnce
<1> SUFFICES ASSUME PacketsApart, PlacesApart PROVE EachIncrementOnce
  OBVIOUS
<1>1. Disjoint([k \in DOMAIN up |-> up[k].incs])
  BY DEF Disjoint, PacketsApart
<1>2. Disjoint(<<input, packet.incs, InFlight, server.input, server.paddle>>)
  <2>1. \A a, b, c, d, e :
          /\ a \cap b = {} /\ a \cap c = {} /\ a \cap d = {} /\ a \cap e = {}
          /\ b \cap c = {} /\ b \cap d = {} /\ b \cap e = {}
          /\ c \cap d = {} /\ c \cap e = {} /\ d \cap e = {}
          => Disjoint(<<a, b, c, d, e>>)
    BY DEF Disjoint
  <2>2. QED
    BY <2>1 DEF PlacesApart
<1>3. QED
  BY <1>1, <1>2 DEF EachIncrementOnce

\* A packet that arrives leaves with its increments.
LEMMA InFlightTaken ==
  ASSUME TypeOK, up # <<>>, up' = Tail(up)
  PROVE  /\ InFlight = InFlight' \cup Head(up).incs
         /\ PacketsApart => PacketsApart' /\ Head(up).incs \cap InFlight' = {}
<1>1. /\ Len(up) \in Nat /\ Len(up) >= 1
      /\ DOMAIN up = 1..Len(up) /\ DOMAIN up' = 1..(Len(up) - 1)
      /\ \A i \in 1..(Len(up) - 1) : up'[i] = up[i + 1]
      /\ Head(up) = up[1]
  BY RoundsAreNat, TailFacts
<1>2. \A i \in DOMAIN up' : i + 1 \in DOMAIN up /\ i + 1 # 1 /\ up'[i] = up[i + 1]
  BY <1>1
<1>3. \A i \in DOMAIN up : i = 1 \/ (i - 1 \in DOMAIN up' /\ up'[i - 1] = up[i])
  BY <1>1
<1>4. 1 \in DOMAIN up
  BY <1>1
<1>5. InFlight = InFlight' \cup Head(up).incs
  <2>1. ASSUME NEW inc \in InFlight PROVE inc \in InFlight' \cup Head(up).incs
    <3>1. PICK i \in DOMAIN up : inc \in up[i].incs
      BY <2>1 DEF InFlight
    <3>2. CASE i = 1
      BY <1>1, <3>1, <3>2
    <3>3. CASE i # 1
      BY <1>3, <3>1, <3>3 DEF InFlight
    <3>4. QED
      BY <3>2, <3>3
  <2>2. Head(up).incs \subseteq InFlight
    BY <1>1, <1>4 DEF InFlight
  <2>3. InFlight' \subseteq InFlight
    BY <1>2 DEF InFlight
  <2>4. QED
    BY <2>1, <2>2, <2>3
<1>6. ASSUME PacketsApart PROVE PacketsApart'
  <2>1. \A j, k \in DOMAIN up' : j # k => j + 1 # k + 1
    BY <1>1
  <2>2. QED
    BY <1>2, <1>6, <2>1 DEF PacketsApart
<1>7. ASSUME PacketsApart PROVE Head(up).incs \cap InFlight' = {}
  BY <1>1, <1>2, <1>4, <1>7 DEF PacketsApart, InFlight
<1>8. QED
  BY <1>5, <1>6, <1>7

\* A packet that is sent takes its increments along.
LEMMA InFlightSent ==
  ASSUME TypeOK, up' = Append(up, packet)
  PROVE  /\ InFlight' = InFlight \cup packet.incs
         /\ PacketsApart /\ packet.incs \cap InFlight = {} => PacketsApart'
<1>1. /\ Len(up) \in Nat /\ DOMAIN up = 1..Len(up) /\ DOMAIN up' = 1..(Len(up) + 1)
      /\ \A i \in 1..Len(up) : up'[i] = up[i]
      /\ up'[Len(up) + 1] = packet
  <2>1. packet \in InputPacket /\ up \in Seq(InputPacket)
    BY DEF TypeOK
  <2>2. QED
    BY <2>1, AppendFacts
<1>2. \A i \in DOMAIN up' : i = Len(up) + 1 \/ i \in DOMAIN up
  BY <1>1
<1>3. Len(up) + 1 \in DOMAIN up' /\ \A i \in DOMAIN up : i \in DOMAIN up' /\ up'[i] = up[i]
  BY <1>1
<1>4. InFlight' = InFlight \cup packet.incs
  BY <1>1, <1>2, <1>3 DEF InFlight
<1>5. ASSUME PacketsApart, packet.incs \cap InFlight = {} PROVE PacketsApart'
  <2>1. \A k \in DOMAIN up : packet.incs \cap up[k].incs = {}
    BY <1>5 DEF InFlight
  <2>2. QED
    BY <1>1, <1>2, <1>3, <1>5, <2>1 DEF PacketsApart
<1>6. QED
  BY <1>4, <1>5

\* OnceInv is kept while what changes is where the increments are.
LEMMA OnceInvStep == TypeOK /\ OnceInv /\ [Next]_vars => OnceInv'
<1> SUFFICES ASSUME TypeOK, OnceInv, [Next]_vars PROVE OnceInv'
  OBVIOUS
<1> USE DEF updateVars, receiverVars, networkVars
<1>0. PacketsApart /\ PlacesApart /\ AllCollected
  BY DEF OnceInv
<1>1. CASE Join \/ Receive \/ StoreState \/ StoreSync \/ CopyState \/ WriteBack
  <2>1. UNCHANGED <<up, input, packet, server, collected>>
    BY <1>1 DEF Join, Receive, StoreState, StoreSync, CopyState, WriteBack
  <2>2. InFlight' = InFlight
    BY <2>1 DEF InFlight
  <2>3. QED
    BY <1>0, <2>1, <2>2 DEF OnceInv, PacketsApart, PlacesApart, AllCollected
<1>2. CASE ServerTick
  <2>1. UNCHANGED <<up, input, packet, collected>>
    BY <1>2 DEF ServerTick
  <2>2. InFlight' = InFlight /\ PacketsApart'
    BY <1>0, <2>1 DEF InFlight, PacketsApart
  <2>3. server'.input = {} /\ server'.paddle \subseteq server.paddle \cup server.input
    <3>1. CASE server' = [server EXCEPT !.paddle = @ \cup server.input, !.input = {}]
      BY <3>1 DEF TypeOK
    <3>2. CASE server' = [round |-> server.round + 1, paddle |-> {}, input |-> {}]
      BY <3>2
    <3>3. QED
      BY <1>2, <3>1, <3>2 DEF ServerTick
  <2>4. PlacesApart'
    BY <1>0, <2>1, <2>2, <2>3 DEF PlacesApart
  <2>5. AllCollected'
    BY <1>0, <2>1, <2>2, <2>3 DEF AllCollected
  <2>6. QED
    BY <2>2, <2>4, <2>5 DEF OnceInv
<1>3. CASE ServerReceives
  <2>1. UNCHANGED <<input, packet, collected>>
    BY <1>3 DEF ServerReceives
  <2>2. /\ InFlight = InFlight' \cup Head(up).incs
        /\ PacketsApart' /\ Head(up).incs \cap InFlight' = {}
    BY <1>0, <1>3, InFlightTaken DEF ServerReceives
  <2>3. /\ server'.paddle = server.paddle
        /\ server'.input \subseteq server.input \cup Head(up).incs
    BY <1>3 DEF ServerReceives, TypeOK
  <2>4. PlacesApart'
    BY <1>0, <2>1, <2>2, <2>3 DEF PlacesApart
  <2>5. AllCollected'
    BY <1>0, <2>1, <2>2, <2>3 DEF AllCollected
  <2>6. QED
    BY <2>2, <2>4, <2>5 DEF OnceInv
<1>4. CASE ResetInput
  <2>1. UNCHANGED <<up, packet, server, collected>> /\ input' = {}
    BY <1>4 DEF ResetInput, InputAfterInit
  <2>2. InFlight' = InFlight
    BY <2>1 DEF InFlight
  <2>3. QED
    BY <1>0, <2>1, <2>2 DEF OnceInv, PacketsApart, PlacesApart, AllCollected
<1>5. CASE MakePacket
  <2>1. UNCHANGED <<up, server, collected>> /\ input' = {} /\ packet'.incs = input
    BY <1>5 DEF MakePacket, InputAfterPacket
  <2>2. InFlight' = InFlight
    BY <2>1 DEF InFlight
  <2>3. QED
    BY <1>0, <2>1, <2>2 DEF OnceInv, PacketsApart, PlacesApart, AllCollected
<1>6. CASE Send
  <2>1. UNCHANGED <<input, server, collected>> /\ packet'.incs = {}
    BY <1>6 DEF Send, NoInputPacket
  <2>2. InFlight' = InFlight \cup packet.incs /\ PacketsApart'
    BY <1>0, <1>6, InFlightSent DEF Send, PlacesApart
  <2>3. QED
    BY <1>0, <2>1, <2>2 DEF OnceInv, PlacesApart, AllCollected
<1>7. CASE CollectInput
  <2>1. UNCHANGED <<up, packet, server>>
    BY <1>7 DEF CollectInput
  <2>2. InFlight' = InFlight
    BY <2>1 DEF InFlight
  <2>3. CASE UNCHANGED <<input, collected>>
    BY <1>0, <2>1, <2>2, <2>3 DEF OnceInv, PacketsApart, PlacesApart, AllCollected
  <2>4. CASE /\ collected' = collected + 1
             /\ input' = input \cup {[n |-> collected + 1, round |-> local_state.init]}
    <3> DEFINE new == [n |-> collected + 1, round |-> local_state.init]
    <3>1. collected \in Nat /\ new.n = collected + 1
      BY ClientBoundAssumption DEF TypeOK
    <3>2. /\ new \notin packet.incs /\ new \notin InFlight
          /\ new \notin server.input /\ new \notin server.paddle
      BY <1>0, <3>1 DEF AllCollected
    <3>3. PlacesApart'
      <4> HIDE DEF new
      <4>1. input' = input \cup {new}
        BY <2>4 DEF new
      <4>2. QED
        BY <1>0, <2>1, <2>2, <3>2, <4>1 DEF PlacesApart
    <3>4. AllCollected'
      <4>1. /\ packet.incs \subseteq Increments /\ input \subseteq Increments
            /\ server.input \subseteq Increments /\ server.paddle \subseteq Increments
        BY DEF TypeOK, InputPacket
      <4>2. InFlight \subseteq Increments
        BY RoundsAreNat DEF InFlight
      <4>3. \A inc \in Increments : inc.n \in Nat
        BY ClientBoundAssumption DEF Increments
      <4>4. \A inc \in Increments : inc.n <= collected => inc.n <= collected + 1
        BY <3>1, <4>3
      <4>5. QED
        BY <1>0, <2>1, <2>2, <2>4, <3>1, <4>1, <4>2, <4>4 DEF AllCollected
    <3>5. QED
      BY <1>0, <2>1, <3>3, <3>4 DEF OnceInv, PacketsApart
  <2>5. QED
    BY <1>7, <2>3, <2>4 DEF CollectInput, Added
<1>8. CASE UNCHANGED vars
  <2>1. InFlight' = InFlight
    BY <1>8 DEF vars, InFlight
  <2>2. QED
    BY <1>0, <1>8, <2>1 DEF vars, OnceInv, PacketsApart, PlacesApart, AllCollected
<1>9. QED
  BY <1>1, <1>2, <1>3, <1>4, <1>5, <1>6, <1>7, <1>8
  DEF Next, Server, Receiver, Network, Update

\* EachIncrementOnce: whatever the threads do to input, packet and sync, and whatever
\* is dropped, no increment gets to the server's paddle twice.
THEOREM CountedOnce == Spec => []EachIncrementOnce
<1>1. Init => OnceInv
  <2> SUFFICES ASSUME Init PROVE OnceInv
    OBVIOUS
  <2>1. DOMAIN up = {} /\ InFlight = {}
    BY DEF Init, InFlight
  <2>2. /\ input = {} /\ packet.incs = {} /\ server.input = {} /\ server.paddle = {}
    BY DEF Init, NoInputPacket
  <2>3. QED
    BY <2>1, <2>2 DEF OnceInv, PacketsApart, PlacesApart, AllCollected
<1>2. OnceInv => EachIncrementOnce
  BY ApartIsOnce DEF OnceInv
<1>3. QED
  BY <1>1, <1>2, OnceInvStep, TypeCorrect, PTL DEF Spec

-----------------------------------------------------------------------------
(* The first rally: nothing the player has moved by is lost.               *)

\* The client is not ahead of the server, and past its first INIT once it sends.
Started ==
  /\ server.round >= 1 /\ Taken <= server.round
  /\ \A k \in DOMAIN down : down[k].round <= server.round
  /\ rpc # "joining" => local_state.init >= 1
  /\ rpc \in {"sync", "reset"} => local_state.init >= 2
  /\ rpc = "joining" => local_state.own = {}
  /\ npc = "send" => packet.sync >= 1
  /\ npc # "send" => packet.incs = {}
  /\ \A k \in DOMAIN up : up[k].sync >= 1

\* What the frame loop has in hand.
FrameInHand ==
  /\ upc \in {"off", "collect"} => pressed = {}
  /\ server.round = 1 /\ upc = "write" => copied.own = local_state.own

\* In the first round no INIT comes after the first, so the receiver does not reset what
\* the player has done.
LEMMA NoInitInRally ==
  ASSUME TypeOK, RoundInv, Started, server.round = 1
  PROVE  /\ rpc # "reset" /\ rpc # "sync"
         /\ rpc = "store" => received.type # "INIT"
         /\ \A k \in DOMAIN up : up[k].sync = 1
<1>1. local_state.init \in Nat /\ received.round \in Nat /\ ssync \in Nat
  BY RoundsAreNat
<1>2. rpc # "store" => local_state.init <= 1
  BY DEF Started, Taken
<1>3. rpc # "reset" /\ rpc # "sync"
  BY <1>1, <1>2 DEF Started
<1>4. ASSUME rpc = "store" PROVE received.type # "INIT" /\ local_state.init = 1
  <2>1. received.round <= 1 /\ Follows(local_state.init, received) /\ local_state.init >= 1
    BY <1>4 DEF Started, Taken, RoundInv, StreamInOrder
  <2>2. QED
    BY <1>1, <2>1 DEF Follows
<1>5. ssync <= 1
  BY <1>1, <1>2, <1>3, <1>4 DEF RoundInv, SyncOfState
<1>6. \A k \in DOMAIN up : up[k].sync = 1
  BY <1>1, <1>5, RoundsAreNat DEF RoundInv, SyncsSent, Started
<1>7. QED
  BY <1>3, <1>4, <1>6

\* Every step keeps Started.
LEMMA StartedStep == TypeOK /\ RoundInv /\ Started /\ [Next]_vars => Started'
<1> SUFFICES ASSUME TypeOK, RoundInv, Started, [Next]_vars PROVE Started'
  OBVIOUS
<1> USE DEF updateVars, receiverVars, networkVars
<1>0. StreamInOrder /\ SyncOfState /\ SyncsSent
  BY DEF RoundInv
<1>1. ASSUME down # <<>>, down' = Tail(down), server' = server, Taken' = Head(down).round
      PROVE  Taken' <= server'.round /\ \A k \in DOMAIN down' : down'[k].round <= server'.round
  <2>1. /\ DOMAIN down = 1..Len(down) /\ Len(down) \in Nat /\ Len(down) >= 1
        /\ DOMAIN down' = 1..(Len(down) - 1) /\ Head(down) = down[1]
        /\ \A i \in 1..(Len(down) - 1) : down'[i] = down[i + 1]
    BY <1>1, RoundsAreNat, TailFacts
  <2>2. 1 \in DOMAIN down /\ \A i \in DOMAIN down' : i + 1 \in DOMAIN down
    BY <2>1
  <2>3. QED
    BY <1>1, <2>1, <2>2 DEF Started
<1>2. CASE Join
  <2>1. Head(down) = down[1] /\ Follows(local_state.init, down[1]) /\ Head(down).type = "INIT"
    BY <1>0, <1>2, RoundsAreNat, TailFacts DEF Join, StreamInOrder, Taken
  <2>2. local_state'.init = local_state.init + 1 /\ Taken' = Head(down).round
    BY <1>2, <2>1 DEF Join, Taken, FromInit, Follows
  <2>3. npc = "off"
    BY <1>0, <1>2 DEF Join, SyncOfState
  <2>4. QED
    BY <1>1, <1>2, <2>2, <2>3, RoundsAreNat DEF Join, Started
<1>3. CASE ServerTick
  <2>1. PICK e \in StatePacket :
          down' = Append(down, e) /\ server'.round = e.round /\ e.round >= server.round
    BY <1>3, TickSends, RoundsAreNat DEF Follows
  <2>2. /\ DOMAIN down = 1..Len(down) /\ DOMAIN down' = 1..(Len(down) + 1) /\ Len(down) \in Nat
        /\ \A i \in 1..Len(down) : down'[i] = down[i]
        /\ down'[Len(down) + 1] = e
    BY <2>1, RoundsAreNat, AppendFacts
  <2>3. \A i \in DOMAIN down' : i = Len(down) + 1 \/ i \in DOMAIN down
    BY <2>2
  <2>4. e.round \in Nat /\ server.round \in Nat /\ Taken \in Nat /\ Taken' = Taken
    BY <1>3, RoundsAreNat, ClientBoundAssumption DEF StatePacket, Rounds, Taken, ServerTick
  <2>5. \A k \in DOMAIN down' : down'[k].round <= server'.round
    BY <2>1, <2>2, <2>3, <2>4, RoundsAreNat DEF Started
  <2>6. QED
    BY <1>3, <2>1, <2>4, <2>5 DEF ServerTick, Started
<1>4. CASE ServerReceives
  <2>1. server'.round = server.round
    BY <1>4 DEF ServerReceives, TypeOK
  <2>2. \A k \in DOMAIN up' : k + 1 \in DOMAIN up /\ up'[k] = up[k + 1]
    BY <1>4, RoundsAreNat, TailFacts DEF ServerReceives
  <2>3. QED
    BY <1>4, <2>1, <2>2 DEF ServerReceives, Started, Taken
<1>5. CASE Receive
  BY <1>1, <1>5 DEF Receive, AfterReceive, Taken, Started
<1>6. CASE StoreState
  <2>1. local_state'.init = received.round
    BY <1>0, <1>6 DEF StoreState, StreamInOrder, Follows, FromInit, TypeOK, LocalState
  <2>2. rpc' = "sync" => received.round = local_state.init + 1
    BY <1>0, <1>6 DEF StoreState, StreamInOrder, Follows
  <2>3. received.round >= local_state.init /\ local_state.init >= 1
    BY <1>0, <1>6, RoundsAreNat DEF StoreState, StreamInOrder, Follows, Started
  <2>4. QED
    BY <1>6, <2>1, <2>2, <2>3, RoundsAreNat DEF StoreState, Started, Taken
<1>7. CASE StoreSync \/ ResetInput \/ CollectInput \/ CopyState
  BY <1>7 DEF StoreSync, ResetInput, CollectInput, CopyState, Started, Taken
<1>8. CASE MakePacket
  <2>1. ssync >= 1
    BY <1>0, <1>8, RoundsAreNat DEF MakePacket, SyncOfState, Started
  <2>2. QED
    BY <1>8, <2>1 DEF MakePacket, Started, Taken
<1>9. CASE Send
  <2>1. \A k \in DOMAIN up' : up'[k] = packet \/ (k \in DOMAIN up /\ up'[k] = up[k])
    BY <1>9, SendAppends
  <2>2. QED
    BY <1>9, <2>1 DEF Send, NoInputPacket, Started, Taken
<1>10. CASE WriteBack
  <2>1. rpc # "joining"
    BY <1>0, <1>10 DEF WriteBack, SyncOfState
  <2>2. QED
    BY <1>10, <2>1 DEF WriteBack, Started, Taken
<1>11. CASE UNCHANGED vars
  BY <1>11 DEF vars, Started, Taken
<1>12. QED
  BY <1>2, <1>3, <1>4, <1>5, <1>6, <1>7, <1>8, <1>9, <1>10, <1>11
  DEF Next, Server, Receiver, Network, Update

\* Every step accounts for the increments of a rally.
LEMMA RallyStep ==
  TypeOK /\ RoundInv /\ Started /\ FrameInHand /\ RallyConserved /\ [Next]_vars
    => FrameInHand' /\ RallyConserved'
<1> SUFFICES ASSUME TypeOK, RoundInv, Started, FrameInHand, RallyConserved, [Next]_vars
             PROVE  FrameInHand' /\ RallyConserved'
  OBVIOUS
<1> USE DEF updateVars, receiverVars, networkVars
<1>0. SyncOfState
  BY DEF RoundInv
<1>1. CASE Join
  <2>1. UNCHANGED <<server, up, input, pressed, packet>> /\ local_state'.own = local_state.own
    BY <1>1 DEF Join, FromInit, Started
  <2>2. InFlight' = InFlight
    BY <2>1 DEF InFlight
  <2>3. upc = "off" /\ upc' = "collect"
    BY <1>0, <1>1 DEF Join, SyncOfState
  <2>4. QED
    BY <2>1, <2>2, <2>3 DEF FrameInHand, RallyConserved
<1>2. CASE ServerTick
  <2>1. UNCHANGED <<up, local_state, input, pressed, packet, upc, copied>>
    BY <1>2 DEF ServerTick
  <2>2. InFlight' = InFlight
    BY <2>1 DEF InFlight
  <2>3. CASE server' = [server EXCEPT !.paddle = @ \cup server.input, !.input = {}]
    <3>1. /\ server'.round = server.round /\ server'.input = {}
          /\ server'.paddle = server.paddle \cup server.input
      BY <2>3 DEF TypeOK
    <3>2. QED
      BY <2>1, <2>2, <3>1 DEF FrameInHand, RallyConserved
  <2>4. CASE server' = [round |-> server.round + 1, paddle |-> {}, input |-> {}]
    <3>1. server'.round # 1
      <4>1. server.round >= 1
        BY DEF Started
      <4>2. QED
        BY <2>4, <4>1, RoundsAreNat
    <3>2. QED
      BY <2>1, <3>1 DEF FrameInHand, RallyConserved
  <2>5. QED
    BY <1>2, <2>3, <2>4 DEF ServerTick
<1>3. CASE ServerReceives
  <2>1. UNCHANGED <<local_state, input, pressed, packet, upc, copied>>
    BY <1>3 DEF ServerReceives
  <2>2. server'.round = server.round /\ server'.paddle = server.paddle
    BY <1>3 DEF ServerReceives, TypeOK
  <2>3. InFlight = InFlight' \cup Head(up).incs
    BY <1>3, InFlightTaken DEF ServerReceives
  <2>4. ASSUME server.round = 1 PROVE server'.input = server.input \cup Head(up).incs
    <3>1. Head(up) = up[1] /\ 1 \in DOMAIN up
      BY <1>3, RoundsAreNat, TailFacts DEF ServerReceives
    <3>2. Head(up).sync = server.round
      BY <2>4, <3>1, NoInitInRally
    <3>3. QED
      BY <1>3, <3>2 DEF ServerReceives, TypeOK
  <2>5. QED
    BY <2>1, <2>2, <2>3, <2>4 DEF FrameInHand, RallyConserved
<1>4. CASE Receive \/ StoreSync
  <2>1. UNCHANGED <<server, up, local_state, input, pressed, packet, upc, copied>>
    BY <1>4 DEF Receive, StoreSync
  <2>2. InFlight' = InFlight
    BY <2>1 DEF InFlight
  <2>3. QED
    BY <2>1, <2>2 DEF FrameInHand, RallyConserved
<1>5. CASE StoreState
  <2>1. UNCHANGED <<server, up, input, pressed, packet, upc, copied>>
    BY <1>5 DEF StoreState
  <2>2. InFlight' = InFlight
    BY <2>1 DEF InFlight
  <2>3. server.round = 1 => local_state'.own = local_state.own
    BY <1>5, NoInitInRally DEF StoreState, TypeOK, LocalState
  <2>4. QED
    BY <2>1, <2>2, <2>3 DEF FrameInHand, RallyConserved
<1>6. CASE ResetInput
  <2>1. UNCHANGED <<server, pressed, upc>> /\ server.round # 1
    BY <1>6, NoInitInRally DEF ResetInput
  <2>2. QED
    BY <2>1 DEF FrameInHand, RallyConserved
<1>7. CASE MakePacket
  <2>1. UNCHANGED <<server, up, local_state, pressed, upc, copied>>
    BY <1>7 DEF MakePacket
  <2>2. InFlight' = InFlight
    BY <2>1 DEF InFlight
  <2>3. packet.incs = {} /\ packet'.incs = input /\ input' = {}
    BY <1>7 DEF MakePacket, InputAfterPacket, Started
  <2>4. QED
    BY <2>1, <2>2, <2>3 DEF FrameInHand, RallyConserved
<1>8. CASE Send
  <2>1. UNCHANGED <<server, local_state, input, pressed, upc, copied>> /\ packet'.incs = {}
    BY <1>8 DEF Send, NoInputPacket
  <2>2. InFlight' = InFlight \cup packet.incs
    BY <1>8, InFlightSent DEF Send
  <2>3. QED
    BY <2>1, <2>2 DEF FrameInHand, RallyConserved
<1>9. CASE CollectInput
  <2>1. UNCHANGED <<server, up, local_state, packet>> /\ pressed = {} /\ upc' = "copy"
    BY <1>9 DEF CollectInput, FrameInHand
  <2>2. InFlight' = InFlight
    BY <2>1 DEF InFlight
  <2>3. input' = input \cup pressed'
    BY <1>9 DEF CollectInput, Added
  <2>4. QED
    BY <2>1, <2>2, <2>3 DEF FrameInHand, RallyConserved
<1>10. CASE CopyState
  <2>1. UNCHANGED <<server, up, local_state, input, pressed, packet>>
        /\ copied' = local_state /\ upc' = "write"
    BY <1>10 DEF CopyState
  <2>2. InFlight' = InFlight
    BY <2>1 DEF InFlight
  <2>3. QED
    BY <2>1, <2>2 DEF FrameInHand, RallyConserved
<1>11. CASE WriteBack
  <2>1. /\ UNCHANGED <<server, up, input, packet>> /\ pressed' = {} /\ upc' = "collect"
        /\ local_state'.own = copied.own \cup pressed /\ upc = "write"
    BY <1>11 DEF WriteBack
  <2>2. InFlight' = InFlight
    BY <2>1 DEF InFlight
  <2>3. QED
    BY <2>1, <2>2 DEF FrameInHand, RallyConserved
<1>12. CASE UNCHANGED vars
  <2>1. InFlight' = InFlight
    BY <1>12 DEF vars, InFlight
  <2>2. QED
    BY <1>12, <2>1 DEF vars, FrameInHand, RallyConserved
<1>13. QED
  BY <1>1, <1>2, <1>3, <1>4, <1>5, <1>6, <1>7, <1>8, <1>9, <1>10, <1>11, <1>12
  DEF Next, Server, Receiver, Network, Update

\* RallyConserved: in the first rally the paddle the player sees and the server's differ
\* by what is on its way, and by nothing else.
THEOREM NothingLostInRally == Spec => []RallyConserved
<1>1. Init => Started /\ FrameInHand /\ RallyConserved
  <2> SUFFICES ASSUME Init PROVE Started /\ FrameInHand /\ RallyConserved
    OBVIOUS
  <2>1. DOMAIN up = {} /\ InFlight = {}
    BY DEF Init, InFlight
  <2>2. DOMAIN down = {1} /\ down[1].round = 1
    BY DEF Init
  <2>3. QED
    BY <2>1, <2>2 DEF Init, Started, Taken, FrameInHand, RallyConserved, FromInit, NoInputPacket
<1>2. QED
  BY <1>1, StartedStep, RallyStep, TypeCorrect, RoundsHold, PTL DEF Spec
=============================================================================
