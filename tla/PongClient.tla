------------------------------ MODULE PongClient ------------------------------
(***************************************************************************)
(* One client as src/client plays it, against a server that takes each     *)
(* packet and each tick in one step.                                       *)
(*                                                                         *)
(* Threads: the frame loop (update), the receiver (server_state_receiver)  *)
(* and the network loop (network_update).  They share local_state, ssync   *)
(* and input, each with a mutex of its own; a critical section is one      *)
(* action.  state_mtx is no such section for update: it holds the mutex    *)
(* while it copies a pointer and then works on local_state unprotected.    *)
(*                                                                         *)
(* An increment is one frame's paddle input; a sum of milliseconds is the  *)
(* set of the increments in it, and a paddle's place the set of increments *)
(* that moved it away from where init_game put it.  The ball and the       *)
(* opponent's paddle are reduced to the round they were last set in.       *)
(* Rounds stand for the sync numbers they are known by.                    *)
(***************************************************************************)
EXTENDS Naturals, Sequences, FiniteSets, SequencesExt

CONSTANTS
  MaxRound,   \* bound: rounds of the match
  MaxInputs,  \* bound: frames with a key pressed
  Capacity    \* bound: packets one direction of the connection buffers

ASSUME ClientBoundAssumption ==
  MaxRound \in Nat \ {0} /\ MaxInputs \in Nat /\ Capacity \in Nat \ {0}

VARIABLES
  server,       \* the server's round, this player's paddle there and its input
  down, up,     \* the packets under way to the client and to the server
  local_state,  \* what the client shows
  ssync, input, \* what network_update sends
  upc, pressed, copied, \* update: where it is, this frame's increment, what it
                        \* read from local_state
  rpc, received,        \* the receiver: where it is, the packet
  npc, packet,          \* network_update: where it is, the packet
  collected             \* how many increments there have been

updateVars == <<upc, pressed, copied, collected>>
receiverVars == <<rpc, received>>
networkVars == <<npc, packet>>
vars == <<server, down, up, local_state, ssync, input, updateVars, receiverVars,
          networkVars>>

Rounds == 0..MaxRound
Increments == [n : 1..MaxInputs, round : Rounds]
StatePacket == [type : {"INIT", "STATE"}, round : Rounds]
InputPacket == [sync : Rounds, incs : SUBSET Increments]

\* init is the round of the last INIT stored; own the increments that moved the
\* own paddle and base the round of the INIT it was moved from; ball the round
\* ball and opponent are from.
LocalState == [init : Rounds, base : Rounds, own : SUBSET Increments,
               ball : Rounds]

NoPacket == [type |-> "STATE", round |-> 0]
NoInputPacket == [sync |-> 0, incs |-> {}]
FromInit(r) == [init |-> r, base |-> r, own |-> {}, ball |-> r]

TypeOK ==
  /\ server \in [round : Rounds, paddle : SUBSET Increments, input : SUBSET Increments]
  /\ down \in Seq(StatePacket) /\ Len(down) <= Capacity
  /\ up \in Seq(InputPacket) /\ Len(up) <= Capacity
  /\ local_state \in LocalState
  /\ ssync \in Rounds
  /\ input \subseteq Increments
  /\ upc \in {"off", "collect", "copy", "write"}
  /\ pressed \subseteq Increments
  /\ copied \in LocalState
  /\ rpc \in {"joining", "recv", "store", "sync", "reset"}
  /\ received \in StatePacket
  /\ npc \in {"off", "pack", "send"}
  /\ packet \in InputPacket
  /\ collected \in 0..MaxInputs

\* connect_to_server has returned; the first INIT is on its way.
Init ==
  /\ server = [round |-> 1, paddle |-> {}, input |-> {}]
  /\ down = <<[type |-> "INIT", round |-> 1]>>
  /\ up = <<>>
  /\ local_state = FromInit(0)
  /\ ssync = 0
  /\ input = {}
  /\ upc = "off" /\ pressed = {} /\ copied = FromInit(0)
  /\ rpc = "joining" /\ received = NoPacket
  /\ npc = "off" /\ packet = NoInputPacket
  /\ collected = 0

-----------------------------------------------------------------------------
(* The server, as PongServer has it when nobody interferes.                *)

ServerTick ==
  /\ Len(down) < Capacity
  /\ \/ /\ server' = [server EXCEPT !.paddle = @ \cup server.input, !.input = {}]
        /\ down' = Append(down, [type |-> "STATE", round |-> server.round])
     \/ /\ server.round < MaxRound
        /\ server' = [round |-> server.round + 1, paddle |-> {}, input |-> {}]
        /\ down' = Append(down, [type |-> "INIT", round |-> server.round + 1])
  /\ UNCHANGED <<up, local_state, ssync, input, updateVars, receiverVars, networkVars>>

ServerReceives ==
  /\ up # <<>>
  /\ up' = Tail(up)
  /\ server' = IF Head(up).sync = server.round
               THEN [server EXCEPT !.input = @ \cup Head(up).incs]
               ELSE server
  /\ UNCHANGED <<down, local_state, ssync, input, updateVars, receiverVars, networkVars>>

-----------------------------------------------------------------------------
(* client_main: the first INIT is read before any other thread exists.     *)

Join ==
  /\ rpc = "joining"
  /\ down # <<>>
  /\ Head(down).type = "INIT"
  /\ down' = Tail(down)
  /\ local_state' = FromInit(Head(down).round)
  /\ ssync' = Head(down).round
  /\ rpc' = "recv" /\ upc' = "collect" /\ npc' = "pack"
  /\ UNCHANGED <<server, up, input, pressed, copied, collected, received, packet>>

-----------------------------------------------------------------------------
(* The receiver: server_state_receive.                                     *)

\* Mutant of AfterReceive: an INIT's sync is taken and its state passed over.
SyncOnly(type) == IF type = "INIT" THEN "sync" ELSE "store"

\* Every packet's state is stored first.
AfterReceive(type) == "store"

Receive ==
  /\ rpc = "recv"
  /\ down # <<>>
  /\ received' = Head(down)
  /\ down' = Tail(down)
  /\ rpc' = AfterReceive(Head(down).type)
  /\ UNCHANGED <<server, up, local_state, ssync, input, updateVars, networkVars>>

\* Under state_mtx: a STATE moves the ball and the opponent (server_snap), an
\* INIT replaces everything but the own index.
StoreState ==
  /\ rpc = "store"
  /\ \/ /\ received.type = "STATE"
        /\ local_state' = [local_state EXCEPT !.ball = received.round]
        /\ rpc' = "recv"
     \/ /\ received.type = "INIT"
        /\ local_state' = FromInit(received.round)
        /\ rpc' = "sync"
  /\ UNCHANGED <<server, down, up, ssync, input, updateVars, received, networkVars>>

\* Mutants of SyncStored: the sync is only ever set by the first INIT; the client
\* counts one round on from the sync that the INIT carries already.
SyncKept == ssync
SyncAhead == received.round + 1

SyncStored == received.round

\* Under sync_mtx.
StoreSync ==
  /\ rpc = "sync"
  /\ ssync' = SyncStored
  /\ rpc' = "reset"
  /\ UNCHANGED <<server, down, up, local_state, input, updateVars, received, networkVars>>

\* Mutant of InputAfterInit and of InputAfterPacket: it is not reset.
InputKept == input

\* input_acc_ms = 0.
InputAfterInit == {}
InputAfterPacket == {}

\* Under input_mtx.
ResetInput ==
  /\ rpc = "reset"
  /\ input' = InputAfterInit
  /\ rpc' = "recv"
  /\ UNCHANGED <<server, down, up, local_state, ssync, updateVars, received, networkVars>>

-----------------------------------------------------------------------------
(* The network loop: network_update.                                       *)

\* Under input_mtx and sync_mtx both.
MakePacket ==
  /\ npc = "pack"
  /\ packet' = [sync |-> ssync, incs |-> input]
  /\ input' = InputAfterPacket
  /\ npc' = "send"
  /\ UNCHANGED <<server, down, up, local_state, ssync, updateVars, receiverVars>>

HasRoom == Len(up) < Capacity

\* client_send blocks while the connection is full.
Send ==
  /\ npc = "send"
  /\ HasRoom
  /\ up' = Append(up, packet)
  /\ packet' = NoInputPacket
  /\ npc' = "pack"
  /\ UNCHANGED <<server, down, local_state, ssync, input, updateVars, receiverVars>>

-----------------------------------------------------------------------------
(* The frame loop: update.                                                 *)

\* Mutant of Added: the frame's input replaces what was there.
Replaced(sum, inc) == inc

\* input_acc_ms += ...
Added(sum, inc) == sum \cup inc

\* receive_paddle_inputs: under input_mtx, this frame's input is added up.
CollectInput ==
  /\ upc = "collect"
  /\ \/ /\ pressed' = {}
        /\ UNCHANGED <<input, collected>>
     \/ /\ collected < MaxInputs
        /\ collected' = collected + 1
        /\ pressed' = {[n |-> collected + 1, round |-> local_state.init]}
        /\ input' = Added(input, pressed')
  /\ upc' = "copy"
  /\ UNCHANGED <<server, down, up, local_state, ssync, copied, receiverVars, networkVars>>

\* update_local_state reads paddles and ball ...
CopyState ==
  /\ upc = "copy"
  /\ copied' = local_state
  /\ upc' = "write"
  /\ UNCHANGED <<server, down, up, local_state, ssync, input, pressed, collected,
                 receiverVars, networkVars>>

\* ... and writes them back moved, whatever has been stored in between.
WriteBack ==
  /\ upc = "write"
  /\ local_state' = [init |-> local_state.init,
                     base |-> copied.base,
                     own |-> copied.own \cup pressed,
                     ball |-> copied.ball]
  /\ upc' = "collect"
  /\ pressed' = {}
  /\ copied' = FromInit(0)
  /\ UNCHANGED <<server, down, up, ssync, input, collected, receiverVars, networkVars>>

-----------------------------------------------------------------------------
Server == ServerTick \/ ServerReceives
Receiver == Receive \/ StoreState \/ StoreSync \/ ResetInput
Network == MakePacket \/ Send
Update == CollectInput \/ CopyState \/ WriteBack

Next == Join \/ Server \/ Receiver \/ Network \/ Update

Spec == Init /\ [][Next]_vars

\* Every loop of the client runs on, and so do the server's: it ticks and it
\* reads.  Nobody has to press a key or to score.
Fairness ==
  /\ WF_vars(Join) /\ WF_vars(Receiver) /\ WF_vars(Network) /\ WF_vars(Update)
  /\ WF_vars(ServerTick) /\ WF_vars(ServerReceives)

FairSpec == Spec /\ Fairness

-----------------------------------------------------------------------------
(* Properties.                                                             *)

InFlight == UNION {up[k].incs : k \in DOMAIN up}
Disjoint(sets) == \A j, k \in DOMAIN sets : j # k => sets[j] \cap sets[k] = {}

\* No increment is counted twice on its way from the keyboard to the paddle:
\* the reset of network_update and the locks around it let none be sent again.
EachIncrementOnce ==
  /\ Disjoint(<<input, packet.incs, InFlight, server.input, server.paddle>>)
  /\ Disjoint([k \in DOMAIN up |-> up[k].incs])

\* The client moves its own paddle by itself and is never corrected by STATE
\* packets.  As long as nobody has scored, that is no loss: what it has moved by,
\* or is about to, is what the server has moved by or has still to get.
RallyConserved ==
  server.round = 1 =>
    local_state.own \cup pressed =
      server.paddle \cup server.input \cup InFlight \cup packet.incs \cup input

\* The client never sends under the sync of a round whose INIT it does not show.
SyncNeverAhead ==
  /\ ssync <= local_state.init
  /\ packet.sync <= local_state.init
  /\ \A k \in DOMAIN up : up[k].sync <= local_state.init

\* In a match where nobody scores, the paddle ends up in the same place at both
\* ends once the player lets go of the keys.
PredictionConverges ==
  [](server.round = 1) => <>[](local_state.own = server.paddle)

\* After every point the client gets to play under the new sync.
SyncCatchesUp == ssync # server.round ~> ssync = server.round

\* "sync - updated on scoring" (cpong_packets.h): between storing the sync and
\* resetting the input the client can send what it collected in the round before
\* under the new sync, but nothing older than that.
InputAtMostOneRoundOld ==
  \A k \in DOMAIN up : \A inc \in up[k].incs : inc.round + 1 >= up[k].sync

\* "PACKET_INIT ... contains initial information about game objects"
\* (cpong_packets.h): after an INIT the own paddle moves on from there.
InitTakesEffect == upc = "collect" => local_state.base = local_state.init
=============================================================================
