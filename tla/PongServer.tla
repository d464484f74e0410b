------------------------------ MODULE PongServer ------------------------------
(***************************************************************************)
(* A match as src/server/server_main.c plays it.                           *)
(*                                                                         *)
(* Every room has three threads: the game thread (start_pong_game), the    *)
(* state sender (send_state, once per tick) and the input receiver         *)
(* (input_receive).  All rooms share the static variables of               *)
(* server_main.c: player_ids (of `state'), ssync, input1 and input2.       *)
(* sync_mtx and input_mtx are only held over code without a visible step,  *)
(* so a critical section is one action.                                    *)
(*                                                                         *)
(* A player is <<room, seat>>, and that pair stands for client->id.  The   *)
(* milliseconds of an increment are abstracted: an increment is the tag    *)
(* [by, round] of who collected it and the round whose sync it was sent    *)
(* under, and a sum is the set of the tags in it.  Positions and the score *)
(* are left out: what the ball does is whether a tick scores, and a point  *)
(* is the beginning of a new round.  Rounds are counted per room in        *)
(* `round', of which the program itself only knows ssync.                  *)
(*                                                                         *)
(* A connection loses nothing and keeps order (TCP), buffers Capacity      *)
(* packets each way, and may end: `fin' is a client that is gone, `poked'  *)
(* one that was sent something after that, `reset' a connection whose      *)
(* error is still to be reported by send or recv, `dead' one reported.     *)
(***************************************************************************)
EXTENDS Integers, Sequences, FiniteSets, FiniteSetsExt, SequencesExt

CONSTANTS
  Rooms,     \* the rooms the matcher makes, numbered in order
  Overlap,   \* whether a match may start before the one before it has ended
  Aborts,    \* whether a connection may break without an orderly close
  SyncMod,   \* how many values ssync has (256: int8_t)
  MaxRound,  \* bound: the rounds of one match, one more than the points scored
  Capacity   \* bound: packets one direction of a connection buffers

ASSUME RoomsAssumption == Rooms \subseteq Nat \ {0}
ASSUME SwitchAssumption == Overlap \in BOOLEAN /\ Aborts \in BOOLEAN
ASSUME BoundAssumption ==
  /\ SyncMod \in Nat \ {0, 1}
  /\ MaxRound \in Nat \ {0}
  /\ Capacity \in Nat \ {0}

Seats == 1..2
Players == Rooms \X Seats
NoPlayer == <<0, 0>>

VARIABLES
  player_ids, ssync, input,  \* the statics of server_main.c
  round,        \* the round each room is in
  is_disbanded,
  gpc, seat,    \* the game thread: where it is, the seat it sends INIT to
  spc, out, target,        \* the state sender: where it is, the packet, the
                           \* seat it is sent to
  rpc, ready, inHand,      \* the input receiver: where it is, the seats poll
                           \* reported, the packet
  conn, up, down, \* each player's connection and the packets on it
  view          \* what each player knows

statics == <<player_ids, ssync, input, round>>
gameVars == <<gpc, seat>>
senderVars == <<spc, out, target, is_disbanded>>
receiverVars == <<rpc, ready, inHand>>
netVars == <<conn, up, down>>
vars == <<statics, gameVars, senderVars, receiverVars, netVars, view>>

Syncs == 0..(SyncMod - 1)
Rounds == 0..MaxRound
Tags == [by : Players, round : Rounds]
InputPacket == [sync : Syncs, tag : Tags]
StatePacket == [type : {"INIT", "STATE"}, sync : Syncs, round : Rounds, own : Seats]
NoInput == [i \in Seats |-> {}]
NothingInHand == [sync |-> 0, tag |-> [by |-> NoPlayer, round |-> 0]]
NothingOut == [type |-> "STATE", sync |-> 0, round |-> 0, own |-> 1]

TypeOK ==
  /\ player_ids \in [Seats -> Players \cup {NoPlayer}]
  /\ ssync \in Syncs
  /\ input \in [Seats -> SUBSET Tags]
  /\ round \in [Rooms -> Rounds]
  /\ is_disbanded \in [Rooms -> BOOLEAN]
  /\ gpc \in [Rooms -> {"waiting", "init", "playing", "failed"}]
  /\ seat \in [Rooms -> Seats]
  /\ spc \in [Rooms -> {"off", "tick", "sync", "pack", "send", "done"}]
  /\ out \in [Rooms -> StatePacket]
  /\ target \in [Rooms -> Seats]
  /\ rpc \in [Rooms -> {"off", "scan", "poll", "check", "apply", "done"}]
  /\ ready \in [Rooms -> SUBSET Seats]
  /\ inHand \in [Rooms -> InputPacket \cup {NothingInHand}]
  /\ conn \in [Players -> {"open", "fin", "poked", "reset", "dead"}]
  /\ up \in [Players -> Seq(InputPacket)]
  /\ down \in [Players -> Seq(StatePacket)]
  /\ \A p \in Players : Len(up[p]) <= Capacity /\ Len(down[p]) <= Capacity
  /\ view \in [Players -> [round : Rounds, sync : Syncs, own : Seats]]

Init ==
  /\ player_ids = [i \in Seats |-> NoPlayer]
  /\ ssync = 0
  /\ input = NoInput
  /\ round = [r \in Rooms |-> 0]
  /\ is_disbanded = [r \in Rooms |-> FALSE]
  /\ gpc = [r \in Rooms |-> "waiting"]
  /\ seat = [r \in Rooms |-> 1]
  /\ spc = [r \in Rooms |-> "off"]
  /\ out = [r \in Rooms |-> NothingOut]
  /\ target = [r \in Rooms |-> 1]
  /\ rpc = [r \in Rooms |-> "off"]
  /\ ready = [r \in Rooms |-> {}]
  /\ inHand = [r \in Rooms |-> NothingInHand]
  /\ conn = [p \in Players |-> "open"]
  /\ up = [p \in Players |-> <<>>]
  /\ down = [p \in Players |-> <<>>]
  /\ view = [p \in Players |-> [round |-> 0, sync |-> 0, own |-> 1]]

-----------------------------------------------------------------------------
(* The connections, as the kernel offers them to the threads.              *)

\* sendall hands the packet over, blocking while the connection is full.  What
\* is sent to a client that is gone is lost, and answered with a reset.
SendSucceeds(p, packet) ==
  /\ \/ /\ conn[p] = "open"
        /\ Len(down[p]) < Capacity
        /\ down' = [down EXCEPT ![p] = Append(@, packet)]
        /\ UNCHANGED conn
     \/ /\ conn[p] \in {"fin", "poked"}
        /\ conn' = [conn EXCEPT ![p] = "poked"]
        /\ UNCHANGED down
  /\ UNCHANGED up

\* sendall returns -1.
SendFails(p) ==
  /\ conn[p] \in {"reset", "dead"}
  /\ conn' = [conn EXCEPT ![p] = "dead"]
  /\ UNCHANGED <<up, down>>

RstArrives(p) ==
  /\ conn[p] = "poked"
  /\ conn' = [conn EXCEPT ![p] = "reset"]
  /\ UNCHANGED <<statics, gameVars, senderVars, receiverVars, up, down, view>>

Abort(p) ==
  /\ Aborts
  /\ conn[p] = "open"
  /\ conn' = [conn EXCEPT ![p] = "reset"]
  /\ down' = [down EXCEPT ![p] = <<>>]
  /\ UNCHANGED <<statics, gameVars, senderVars, receiverVars, up, view>>

\* poll reports POLLIN: a packet, an end of file or an error is waiting.
Readable(p) == up[p] # <<>> \/ conn[p] # "open"

-----------------------------------------------------------------------------
(* The clients, one step per packet; their threads are PongClient's.       *)

Joined(p) == view[p].round > 0

\* Mutant of Own: every INIT sets the seat.
OwnOfPacket(p, packet) == packet.own

\* Mutant of SyncOf: INITs after the first do not change the sync.
SyncKept(p, packet) == IF Joined(p) THEN view[p].sync ELSE packet.sync

\* What an INIT tells a client: its seat, unless it knows that, and the sync.
Own(p, packet) == IF Joined(p) THEN view[p].own ELSE packet.own
SyncOf(p, packet) == packet.sync

\* The first packet must be INIT.  STATE changes nothing that is modelled here.
ClientReceives(p) ==
  /\ conn[p] = "open"
  /\ down[p] # <<>>
  /\ down' = [down EXCEPT ![p] = Tail(@)]
  /\ LET packet == Head(down[p]) IN
       \/ /\ packet.type = "INIT"
          /\ view' = [view EXCEPT ![p] =
                        [round |-> packet.round, sync |-> SyncOf(p, packet),
                         own |-> Own(p, packet)]]
          /\ UNCHANGED conn
       \/ /\ packet.type = "STATE"
          /\ conn' = IF Joined(p) THEN conn ELSE [conn EXCEPT ![p] = "fin"]
          /\ UNCHANGED view
  /\ UNCHANGED <<statics, gameVars, senderVars, receiverVars, up>>

\* network_update sends what was collected since the last one.
ClientSends(p) ==
  /\ conn[p] = "open"
  /\ Joined(p)
  /\ Len(up[p]) < Capacity
  /\ up' = [up EXCEPT ![p] = Append(@, [sync |-> view[p].sync,
                                        tag |-> [by |-> p, round |-> view[p].round]])]
  /\ UNCHANGED <<statics, gameVars, senderVars, receiverVars, conn, down, view>>

\* The program ends.  Packets it has not read make its kernel answer with a
\* reset.
ClientLeaves(p) ==
  /\ conn[p] = "open"
  /\ conn' = [conn EXCEPT ![p] = IF down[p] = <<>> THEN "fin" ELSE "poked"]
  /\ down' = [down EXCEPT ![p] = <<>>]
  /\ UNCHANGED <<statics, gameVars, senderVars, receiverVars, up, view>>

-----------------------------------------------------------------------------
(* The game thread: start_pong_game.                                       *)

Ended(r) == gpc[r] = "failed" \/ spc[r] = "done"

\* The statics are set up for the room and its INIT packet is built.
StartGame(r) ==
  /\ gpc[r] = "waiting"
  /\ \A q \in Rooms : q < r => gpc[q] # "waiting" /\ (Overlap \/ Ended(q))
  /\ player_ids' = [i \in Seats |-> <<r, i>>]
  /\ round' = [round EXCEPT ![r] = 1]
  /\ out' = [out EXCEPT ![r] = [type |-> "INIT", sync |-> ssync, round |-> 1, own |-> 1]]
  /\ gpc' = [gpc EXCEPT ![r] = "init"]
  /\ UNCHANGED <<ssync, input, seat, spc, target, is_disbanded, receiverVars,
                 netVars, view>>

\* Mutant of BothTold: one INIT is taken for both.
OneTold(i) == TRUE

\* Has the loop over the seats come to its end with seat i?
BothTold(i) == i = 2

\* server_send_packet to one seat after the other; once both have it the sender
\* and the receiver are started, and a failure ends the thread at once.
SendInit(r) ==
  /\ gpc[r] = "init"
  /\ \/ /\ SendSucceeds(<<r, seat[r]>>, [out[r] EXCEPT !.own = seat[r]])
        /\ \/ /\ ~BothTold(seat[r])
              /\ seat' = [seat EXCEPT ![r] = 2]
              /\ UNCHANGED <<gpc, spc, out, rpc>>
           \/ /\ BothTold(seat[r])
              /\ gpc' = [gpc EXCEPT ![r] = "playing"]
              /\ seat' = [seat EXCEPT ![r] = 1]
              /\ spc' = [spc EXCEPT ![r] = "tick"]
              /\ rpc' = [rpc EXCEPT ![r] = "scan"]
              /\ out' = [out EXCEPT ![r] = NothingOut]
     \/ /\ SendFails(<<r, seat[r]>>)
        /\ gpc' = [gpc EXCEPT ![r] = "failed"]
        /\ UNCHANGED <<seat, spc, out, rpc>>
  /\ UNCHANGED <<statics, target, is_disbanded, ready, inHand, view>>

-----------------------------------------------------------------------------
(* The state sender: one call of send_state per tick.                      *)

\* Mutant of TypeOfPacket: it stays STATE when somebody scores.
AlwaysState(scored) == "STATE"

TypeOfPacket(scored) == IF scored THEN "INIT" ELSE "STATE"

\* The inputs move the paddles and are reset, under input_mtx; ball_advance moves
\* the ball; and when somebody scores, init_game puts everything back, the point
\* is counted and a new round begins.  After the unlock the code works on what
\* no other thread of the room reads, so all this is one step.
Tick(r) ==
  /\ spc[r] = "tick"
  /\ input' = NoInput
  /\ \/ /\ spc' = [spc EXCEPT ![r] = "pack"]
        /\ out' = [out EXCEPT ![r].type = TypeOfPacket(FALSE)]
        /\ UNCHANGED round
     \/ /\ round[r] < MaxRound
        /\ round' = [round EXCEPT ![r] = @ + 1]
        /\ spc' = [spc EXCEPT ![r] = "sync"]
        /\ out' = [out EXCEPT ![r].type = TypeOfPacket(TRUE)]
  /\ UNCHANGED <<player_ids, ssync, gameVars, target, is_disbanded,
                 receiverVars, netVars, view>>

\* Mutant of NextSync: no wrap-around.
NextSyncWide == ssync + 1

\* ssync++, wrapping around like the int8_t it is.
NextSync == (ssync + 1) % SyncMod

\* Under sync_mtx.
BumpSync(r) ==
  /\ spc[r] = "sync"
  /\ ssync' = NextSync
  /\ spc' = [spc EXCEPT ![r] = "pack"]
  /\ UNCHANGED <<player_ids, input, round, gameVars, out, target,
                 is_disbanded, receiverVars, netVars, view>>

\* Under sync_mtx again: the packet is built from ssync and state, whose
\* own_id_index is never set and so means the first seat.
MakePacket(r) ==
  /\ spc[r] = "pack"
  /\ out' = [out EXCEPT ![r] = [type |-> @.type, sync |-> ssync,
                                round |-> round[r], own |-> 1]]
  /\ target' = [target EXCEPT ![r] = 1]
  /\ spc' = [spc EXCEPT ![r] = "send"]
  /\ UNCHANGED <<statics, gameVars, is_disbanded, receiverVars, netVars, view>>

\* Mutant of BothSent: the second seat is never sent to.
OneSent(i) == TRUE

\* Mutant of Disband: a failed send is ignored.
GoOn(r) == spc' = [spc EXCEPT ![r] = "tick"] /\ UNCHANGED is_disbanded

\* Has the loop over the seats come to its end with seat i?
BothSent(i) == i = 2

\* room_broadcast returns -1: the sender ends and the room is disbanded.
Disband(r) ==
  spc' = [spc EXCEPT ![r] = "done"] /\ is_disbanded' = [is_disbanded EXCEPT ![r] = TRUE]

\* room_broadcast, one seat per step; after a failed send the next is not tried.
Broadcast(r) ==
  /\ spc[r] = "send"
  /\ \/ /\ SendSucceeds(<<r, target[r]>>, out[r])
        /\ \/ /\ ~BothSent(target[r])
              /\ target' = [target EXCEPT ![r] = 2]
              /\ UNCHANGED <<spc, out>>
           \/ /\ BothSent(target[r])
              /\ target' = [target EXCEPT ![r] = 1]
              /\ spc' = [spc EXCEPT ![r] = IF is_disbanded[r] THEN "done" ELSE "tick"]
              /\ out' = [out EXCEPT ![r] = NothingOut]
        /\ UNCHANGED is_disbanded
     \/ /\ SendFails(<<r, target[r]>>)
        /\ Disband(r)
        /\ out' = [out EXCEPT ![r] = NothingOut]
        /\ target' = [target EXCEPT ![r] = 1]
  /\ UNCHANGED <<statics, gameVars, receiverVars, view>>

-----------------------------------------------------------------------------
(* The input receiver: input_receive and on_input_ready.                   *)

\* The head of the loop, reached when every reported seat has been served.
LoopTest(r) ==
  /\ rpc[r] = "scan"
  /\ ready[r] = {}
  /\ rpc' = [rpc EXCEPT ![r] = IF is_disbanded[r] THEN "done" ELSE "poll"]
  /\ UNCHANGED <<statics, gameVars, senderVars, ready, inHand, netVars, view>>

\* poll without a timeout.
Poll(r) ==
  /\ rpc[r] = "poll"
  /\ ready' = [ready EXCEPT ![r] = {i \in Seats : Readable(<<r, i>>)}]
  /\ ready'[r] # {}
  /\ rpc' = [rpc EXCEPT ![r] = "scan"]
  /\ UNCHANGED <<statics, gameVars, senderVars, inHand, netVars, view>>

\* Mutant of StillReady: the scan ends with the first seat served.
NoneReady(seats, i) == {}

\* The seats of the scan that come after seat i.
StillReady(seats, i) == seats \ {i}

\* recv_packet from the next reported seat.  An end of file ends the thread;
\* after an error it goes on with whatever the packet on its stack holds.
Recv(r) ==
  /\ rpc[r] = "scan"
  /\ ready[r] # {}
  /\ LET i == Min(ready[r])
         p == <<r, i>>
     IN /\ ready' = [ready EXCEPT ![r] = StillReady(@, i)]
        /\ \/ /\ up[p] # <<>>
              /\ inHand' = [inHand EXCEPT ![r] = Head(up[p])]
              /\ up' = [up EXCEPT ![p] = Tail(@)]
              /\ rpc' = [rpc EXCEPT ![r] = "check"]
              /\ UNCHANGED <<conn, down>>
           \/ /\ up[p] = <<>>
              /\ conn[p] \in {"fin", "poked", "dead"}
              /\ rpc' = [rpc EXCEPT ![r] = "done"]
              /\ UNCHANGED <<inHand, netVars>>
           \/ /\ up[p] = <<>>
              /\ conn[p] = "reset"
              /\ conn' = [conn EXCEPT ![p] = "dead"]
              /\ \E sync \in Syncs :
                   inHand' = [inHand EXCEPT ![r] =
                               [sync |-> sync, tag |-> [by |-> p, round |-> 0]]]
              /\ rpc' = [rpc EXCEPT ![r] = "check"]
              /\ UNCHANGED <<up, down>>
  /\ UNCHANGED <<statics, gameVars, senderVars, view>>

\* Under sync_mtx: a packet of another round is dropped.  (One that is no INPUT
\* is dropped too; the clients send nothing else.)
CheckSync(r) ==
  /\ rpc[r] = "check"
  /\ \/ /\ inHand[r].sync = ssync
        /\ rpc' = [rpc EXCEPT ![r] = "apply"]
        /\ UNCHANGED inHand
     \/ /\ inHand[r].sync # ssync
        /\ rpc' = [rpc EXCEPT ![r] = "scan"]
        /\ inHand' = [inHand EXCEPT ![r] = NothingInHand]
  /\ UNCHANGED <<statics, gameVars, senderVars, ready, netVars, view>>

\* Mutant of InputOf: both branches add to input1.
FirstInputOf(by) == IF by \in {player_ids[1], player_ids[2]} THEN {1} ELSE {}

InputOf(by) == {i \in Seats : player_ids[i] = by}

\* Under input_mtx: the increment is added to the input of the seat that the
\* sender has according to player_ids, and lost if it has none.
ApplyInput(r) ==
  /\ rpc[r] = "apply"
  /\ LET tag == inHand[r].tag IN
       input' = [i \in Seats |-> IF i \in InputOf(tag.by) THEN input[i] \cup {tag}
                                                          ELSE input[i]]
  /\ rpc' = [rpc EXCEPT ![r] = "scan"]
  /\ inHand' = [inHand EXCEPT ![r] = NothingInHand]
  /\ UNCHANGED <<player_ids, ssync, round, gameVars, senderVars, ready,
                 netVars, view>>

-----------------------------------------------------------------------------
GameThread(r) == StartGame(r) \/ SendInit(r)
Sender(r) ==
  Tick(r) \/ BumpSync(r) \/ MakePacket(r) \/ Broadcast(r)
Receiver(r) ==
  LoopTest(r) \/ Poll(r) \/ Recv(r) \/ CheckSync(r) \/ ApplyInput(r)

Next ==
  \/ \E r \in Rooms : GameThread(r) \/ Sender(r) \/ Receiver(r)
  \/ \E p \in Players :
       ClientReceives(p) \/ ClientSends(p) \/ ClientLeaves(p) \/ RstArrives(p) \/ Abort(p)

Spec == Init /\ [][Next]_vars

\* Every thread that can run does, a client's receiver reads what it is sent,
\* and the network delivers a reset it owes.  Nobody has to send an input, to
\* leave or to score.  A mutex is never named: each is held for a few
\* assignments at a time, and a thread that asks for it gets it.
Fairness ==
  /\ \A r \in Rooms :
       WF_vars(GameThread(r)) /\ WF_vars(Sender(r)) /\ WF_vars(Receiver(r))
  /\ \A p \in Players : WF_vars(ClientReceives(p)) /\ WF_vars(RstArrives(p))

FairSpec == Spec /\ Fairness

-----------------------------------------------------------------------------
(* Properties.                                                             *)

Ticks(r) == spc[r] = "tick" /\ spc'[r] # "tick"
Collected(tag) == tag.round # 0
Playing(r) == spc[r] \notin {"off", "done"}
SeatsOf(r) == {<<r, i>> : i \in Seats}
Here(p) == conn[p] = "open"

\* The sync of the last INIT that was sent to p, read or not.
LastInit(p) ==
  LET inits == {k \in DOMAIN down[p] : down[p][k].type = "INIT"}
  IN IF inits = {} THEN view[p].sync ELSE down[p][Max(inits)].sync

\* The sender has still to send seat i the INIT of the point just scored.
InitOwed(r, i) ==
  /\ out[r].type = "INIT"
  /\ spc[r] \in {"sync", "pack"} \/ (spc[r] = "send" /\ target[r] <= i)

\* Server and clients never disagree about the sync number for longer than an
\* INIT is under way: what a player was last told is ssync, unless the sender
\* is about to tell it.
SyncAgreement ==
  \A r \in Rooms : \A i \in Seats :
    Playing(r) /\ Here(<<r, i>>) /\ ~InitOwed(r, i) => LastInit(<<r, i>>) = ssync

\* A STATE packet never reaches a client in another round than its own: in
\* every stream the INIT of a round comes before the STATEs of that round.
StateFollowsInit ==
  \A p \in Players : \A k \in DOMAIN down[p] :
    LET before == IF k = 1 THEN view[p].round ELSE down[p][k - 1].round
    IN down[p][k].round = IF down[p][k].type = "INIT" THEN before + 1 ELSE before

\* A client knows its own seat from the first INIT on, although INITs sent on
\* scoring carry own_id_index 0 for everybody.
KnowsOwnSeat == \A p \in Players : Joined(p) => view[p].own = p[2]

\* The only inputs a running match drops are those of a round that has passed.
DropsOnlyStale ==
  [][\A r \in Rooms : rpc[r] = "check" /\ rpc'[r] = "scan" =>
       inHand[r].tag.round < round[r]]_vars

\* "The client will run the game, use W-S/Up-Down to move your paddle"
\* (README.md): a paddle is moved by what its own player collected and by
\* nothing else, short of the packet on_input_ready makes up when a recv fails.
MovedByOwner ==
  [][\A r \in Rooms : Ticks(r) =>
       \A i \in Seats : \A tag \in input[i] :
         tag.by = <<r, i>> /\ (Collected(tag) \/ conn[tag.by] = "dead")]_vars

\* Rounds reach the players as RoundAnnouncer promises: in order, none skipped,
\* and all of them as long as nobody leaves.
Announcer == INSTANCE RoundAnnouncer
               WITH seen <- [p \in Players |-> view[p].round],
                    over <- {r \in Rooms : \E p \in SeatsOf(r) : ~Here(p)}
RoundsReachPlayers == Announcer!Spec

\* Once a player of a running match is gone, its sender and its receiver end.
MatchWindsDown == \A r \in Rooms :
  (gpc[r] = "playing" /\ \E p \in SeatsOf(r) : ~Here(p))
     ~> (spc[r] = "done" /\ rpc[r] = "done")

\* A running match keeps reading from both players: nobody's sends stay
\* blocked on a full connection, however much the other one sends.
NobodyStaysBlocked == \A p \in Players :
  (Len(up[p]) = Capacity /\ gpc[p[1]] = "playing")
     ~> (Len(up[p]) < Capacity \/ rpc[p[1]] = "done")

\* "invalid sync" (server_main.c): an input collected before a point was scored
\* does not move a paddle afterwards.
NoStaleInput ==
  [][\A r \in Rooms : Ticks(r) =>
       \A i \in Seats : \A tag \in input[i] : Collected(tag) => tag.round = round[r]]_vars

\* "PACKET_INIT - Sent when a match is found" (cpong_packets.h): a player who
\* stays is told of the match, even if the other one has left by then.
MatchIsAnnounced == \A r \in Rooms : \A p \in SeatsOf(r) :
  gpc[r] = "init" ~> (Joined(p) \/ ~Here(p))
=============================================================================
