------------------------------- MODULE BallPlay -------------------------------
(***************************************************************************)
(* The game itself: send_state of src/server/server_main.c with its        *)
(* positions and velocities, the packet it makes of them, and one client's *)
(* copy of the game (server_state_receive), over a connection that holds   *)
(* one packet.  The client is the first player's, the inputs are any.      *)
(* Threads, sockets, rounds and the client's prediction are the subject of *)
(* PongServer and PongClient.                                              *)
(***************************************************************************)
EXTENDS BallStep, PongPackets

CONSTANTS
  Box,          \* the field, [x, y]
  BallHalf,     \* half of a ball's size, [x, y]
  PaddleHalf,   \* half of a paddle's size, [x, y]
  PaddleSpeed,  \* grid steps per millisecond
  InitSpeed,    \* each component of a new ball's velocity
  Ticks,        \* the times a server tick may take, in milliseconds
  Inputs,       \* bound: the milliseconds both players push their paddles, signed
  Reach,        \* bound: how far from the middle a paddle is pushed
  Sight,        \* bound: how far beyond a side a ball is followed
  MaxScore      \* bound: the score is counted modulo this

Vectors == [x : Int, y : Int]

ASSUME TimeAssumption == Ticks \subseteq Nat \ {0}
ASSUME FieldAssumption ==
  /\ Box \in Vectors /\ BallHalf \in Vectors /\ PaddleHalf \in Vectors
  /\ PaddleSpeed \in Int /\ InitSpeed \in Int /\ Inputs \subseteq Int \X Int
\* The paddles and the ball fit into the field, and edges at its sides are whole pixels.
ASSUME SideAssumption ==
  /\ BallHalf.x >= 0 /\ BallHalf.x <= Box.x \div 2
  /\ PaddleHalf.x > 0 /\ PaddleHalf.x < Box.x \div 2
  /\ Box.x % PX = 0 /\ (2 * PaddleHalf.x) % PX = 0
\* A byte tells the types of packets apart, an int32_t holds a score.
ASSUME PacketAssumption ==
  /\ ByteBase > 3
  /\ MaxScore \in Nat \ {0} /\ 2 * MaxScore <= Power[IntBytes]

VARIABLES
  state,     \* the server's state: player1, player2, ball, score
  ssync,
  wire,      \* the bytes of the packet under way, if one is
  local      \* the client's state

vars == <<state, ssync, wire, local>>

wall == [up |-> Box.y, down |-> 0, left |-> 0, right |-> Box.x]

\* init_paddle and init_game: the paddles at the sides, the ball in the middle
\* and off along one of the diagonals.
Paddle(x) ==
  [pos |-> [x |-> x, y |-> Box.y \div 2], velocity |-> Zero, half |-> PaddleHalf]
InitPlayer1 == Paddle(Box.x - PaddleHalf.x)
InitPlayer2 == Paddle(PaddleHalf.x)
InitBalls ==
  {[pos |-> [x |-> Box.x \div 2, y |-> Box.y \div 2], half |-> BallHalf,
    velocity |-> Times([x |-> dir_x, y |-> dir_y], InitSpeed)]
   : dir_x \in {-1, 1}, dir_y \in {-1, 1}}
init_game(score) ==
  {[player1 |-> InitPlayer1, player2 |-> InitPlayer2, ball |-> ball, score |-> score]
   : ball \in InitBalls}

\* The fields of a state, by the names they have in PongPackets; and a state from
\* the fields of an INIT.
Fields(st) ==
  [id1 |-> 0, id2 |-> 1, own |-> 0,
   score1 |-> st.score[1], score2 |-> st.score[2],
   p1_x |-> st.player1.pos.x, p1_y |-> st.player1.pos.y,
   p1_vx |-> st.player1.velocity.x, p1_vy |-> st.player1.velocity.y,
   p1_w |-> 2 * st.player1.half.x, p1_h |-> 2 * st.player1.half.y,
   p2_x |-> st.player2.pos.x, p2_y |-> st.player2.pos.y,
   p2_vx |-> st.player2.velocity.x, p2_vy |-> st.player2.velocity.y,
   p2_w |-> 2 * st.player2.half.x, p2_h |-> 2 * st.player2.half.y,
   ball_x |-> st.ball.pos.x, ball_y |-> st.ball.pos.y,
   ball_vx |-> st.ball.velocity.x, ball_vy |-> st.ball.velocity.y,
   ball_w |-> 2 * st.ball.half.x, ball_h |-> 2 * st.ball.half.y,
   box_w |-> Box.x, box_h |-> Box.y]

Object(d, x, y, vx, vy, w, h) ==
  [pos |-> [x |-> d[x], y |-> d[y]], velocity |-> [x |-> d[vx], y |-> d[vy]],
   half |-> [x |-> d[w] \div 2, y |-> d[h] \div 2]]
StateFrom(d) ==
  [player1 |-> Object(d, "p1_x", "p1_y", "p1_vx", "p1_vy", "p1_w", "p1_h"),
   player2 |-> Object(d, "p2_x", "p2_y", "p2_vx", "p2_vy", "p2_w", "p2_h"),
   ball |-> Object(d, "ball_x", "ball_y", "ball_vx", "ball_vy", "ball_w", "ball_h"),
   score |-> <<d.score1, d.score2>>]

Objects == [pos : Vectors, velocity : Vectors, half : Vectors]
States == [player1 : Objects, player2 : Objects, ball : Objects,
           score : [1..2 -> 0..(MaxScore - 1)]]

Syncs == -(ByteBase \div 2)..(ByteBase \div 2 - 1)

TypeOK ==
  /\ state \in States /\ local \in States
  /\ ssync \in Syncs
  /\ Len(wire) <= 1

Packet(type, sync, st) ==
  packet_serialize([type |-> type, sync |-> sync, data |-> Fields(st)])

\* The first INIT has been sent and read.
Init ==
  /\ state \in init_game(<<0, 0>>)
  /\ ssync = 0
  /\ wire = <<>>
  /\ local = StateFrom(packet_deserialize(Packet(PACKET_INIT, 0, state)).data)

-----------------------------------------------------------------------------
\* A paddle after `push' milliseconds of input, up or down.
Pushed(paddle, push) ==
  linear_move([paddle EXCEPT !.velocity.y = PaddleSpeed * Sign(push)], Abs(push))

BeyondSide(ball) == ball.pos.x < ball.half.x \/ ball.pos.x > Box.x - ball.half.x

\* Mutant of NextSync: ssync does not wrap around.
NextSyncWide(sync) == sync + 1

\* ssync++ on an int8_t.
NextSync(sync) == IF sync + 1 \in Syncs THEN sync + 1 ELSE -(ByteBase \div 2)

\* send_state: the ball moves among the paddles as they were; a point starts the
\* game anew, under the next sync and with an INIT.
ServerTick(delta_time) ==
  LET after == ball_advance(wall, state.player1, state.player2, state.ball, delta_time)
      scored == after.scored_index # -1
  IN /\ wire = <<>>
     /\ IF scored
        THEN /\ state' \in init_game([state.score EXCEPT ![after.scored_index + 1] =
                                        (@ + 1) % MaxScore])
             /\ ssync' = NextSync(ssync)
        ELSE /\ \E inputs \in Inputs :
                  state' = [state EXCEPT !.player1 = Pushed(@, inputs[1]),
                                         !.player2 = Pushed(@, inputs[2]),
                                         !.ball = after.ball]
             /\ UNCHANGED ssync
     /\ wire' = <<Packet(IF scored THEN PACKET_INIT ELSE PACKET_STATE, ssync', state')>>
     /\ UNCHANGED local

\* server_snap: the ball and the opponent's paddle.
Snapped(d) ==
  [local EXCEPT !.ball.pos = [x |-> d.ball_x, y |-> d.ball_y],
                !.ball.velocity = [x |-> d.ball_vx, y |-> d.ball_vy],
                !.player2.pos.y = d.p2_y,
                !.player2.velocity.y = d.p2_vy]

\* server_state_receive.
ClientReceives ==
  /\ wire # <<>>
  /\ LET packet == packet_deserialize(Head(wire)) IN
       local' = IF packet.type = PACKET_INIT THEN StateFrom(packet.data)
                ELSE Snapped(packet.data)
  /\ wire' = <<>>
  /\ UNCHANGED <<state, ssync>>

\* Bounds, none of them in the code: a ball that has passed a side is followed as far
\* as Sight, and a paddle is pushed as far as Reach.
InSight(ball) == -Sight <= ball.pos.x /\ ball.pos.x <= Box.x + Sight
Within(paddle) == Abs(paddle.pos.y - Box.y \div 2) <= Reach

Server ==
  /\ InSight(state.ball)
  /\ \E delta_time \in Ticks : ServerTick(delta_time)
  /\ Within(state'.player1) /\ Within(state'.player2)

Next == Server \/ ClientReceives
Spec == Init /\ [][Next]_vars

-----------------------------------------------------------------------------
\* The ball is in the field, and flies away from the walls and sides that it touches: what
\* it touches it cannot collide with.
InPlay(ball) ==
  /\ ball.half.y <= ball.pos.y /\ ball.pos.y <= Box.y - ball.half.y
  /\ ~BeyondSide(ball)
  /\ ball.velocity.x < 0 => ball.half.x < ball.pos.x
  /\ ball.velocity.x > 0 => ball.pos.x < Box.x - ball.half.x
  /\ ball.velocity.y < 0 => ball.half.y < ball.pos.y
  /\ ball.velocity.y > 0 => ball.pos.y < Box.y - ball.half.y

Advanced(delta_time) ==
  ball_advance(wall, state.player1, state.player2, state.ball, delta_time)

\* A paddle and a wall are met at the same time: the loop takes the paddle only.
InCorner(delta_time) ==
  LET c == Collisions(wall, state.player1, state.player2, state.ball, delta_time, delta_time)
  IN \E i \in {1, 2} : Hit(c[i]) /\ Hit(c[3]) /\ Same(c[i].toi, c[3].toi)

\* The loop of ball_advance ends within MaxBounces turns: passed_time grows by fractions
\* of a step, so what a ball touches must not count as a collision again and again.
LoopEnds == \A delta_time \in Ticks : Advanced(delta_time).done

\* A ball in play stays in play or scores, although collisions and points are
\* looked for over different times and a bounce gives the ball most of the step
\* once more: unless it bounces twice in the tick, or in a corner of a paddle and
\* a wall.  Both of these do lose the ball (see the README).
StaysInField ==
  InPlay(state.ball) =>
    \A delta_time \in Ticks :
      LET after == Advanced(delta_time) IN
        \/ after.scored_index # -1
        \/ Len(after.hits) >= 2
        \/ InCorner(delta_time)
        \/ InPlay(after.ball)

\* Who scores has put the ball past the other's paddle: no ball goes to a side in one
\* tick through the front of a paddle that is in its way, though a fast one is
\* never found inside the paddle.  The first player scores at the left.
Gap(ball, paddle) == Abs(paddle.pos.x - ball.pos.x) - paddle.half.x - ball.half.x
InTheWay(ball, paddle) ==
  LET y == ball.pos.y + Sign(ball.velocity.y) * Gap(ball, paddle)
  IN Gap(ball, paddle) > 0 /\ Abs(y - paddle.pos.y) <= paddle.half.y + ball.half.y
PointsAreEarned ==
  \A delta_time \in Ticks :
    LET after == Advanced(delta_time)
        loser == IF after.scored_index = 0 THEN state.player2 ELSE state.player1
    IN after.scored_index # -1 /\ after.hits = <<>> =>
         /\ Sign(state.ball.velocity.x) = Sign(loser.pos.x - Box.x \div 2)
         /\ ~InTheWay(state.ball, loser)

\* The numbers of the game fit the int32_t they are sent as.  Nothing in the code keeps
\* them small: a ball that has passed a side without scoring flies on for ever.
NumbersFit ==
  \A i \in DOMAIN InitFields :
    Fits(Made(InitFields[i], Fields(state)[InitFields[i][1]]), IntBytes)

\* A number at the client is off by less than what one unit on the wire stands for, and
\* towards zero.
Seen(there, here) ==
  /\ Abs(here) <= Abs(there) /\ here * there >= 0
  /\ Abs(there - here) < Steps \div FLOAT_SCALE
SeenVector(there, here) == Seen(there.x, here.x) /\ Seen(there.y, here.y)
InStep ==
  wire = <<>> =>
    /\ SeenVector(state.ball.pos, local.ball.pos)
    /\ SeenVector(state.ball.velocity, local.ball.velocity)
    /\ Seen(state.player2.pos.y, local.player2.pos.y)
    /\ Seen(state.player2.velocity.y, local.player2.velocity.y)
    /\ local.score = state.score

\* What the client has after a packet is what the server had when it sent it, through two
\* kinds of packet that carry different parts of it: as long as the numbers can be sent.
ClientSeesServer == NumbersFit => InStep

\* run_every calls send_state again and again, and the receiver reads whatever comes:
\* weak fairness of Server and of ClientReceives.  Server is enabled while the wire is
\* empty and the ball in sight, and fills it; ClientReceives empties it.  TLC cannot
\* evaluate ENABLED of a tick in useful time, so both are written out.
FairSpec ==
  /\ Spec
  /\ []<>(wire # <<>> \/ ~InSight(state.ball))
  /\ []<>(wire = <<>>)

\* A ball on its way to one side comes back or ends in a point, unless it is lost
\* (StaysInField): it never stops, however the loop shares out the time of a tick.
RallyGoesOn ==
  \A dir \in {-1, 1} :
    Sign(state.ball.velocity.x) = dir ~>
      \/ Sign(state.ball.velocity.x) = -dir
      \/ wire # <<>> /\ packet_deserialize(Head(wire)).type = PACKET_INIT
      \/ BeyondSide(state.ball)
=============================================================================
