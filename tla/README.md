# A model of cpong-esp

cpong-esp is a two-player Pong over TCP: a Linux server that pairs clients and
plays every match, and a client for Linux (SDL) and for the ESP32. This
directory holds TLA+ models of its server, its client and the libraries between
them, the TLC runs that check them, and proofs about them. Paths below are
relative to the root of the repository.

## 1. Inventory

### The parts and their threads

| Part | Code | State | Threads and operations |
|---|---|---|---|
| matchmaking | `src/lib/server.c` (accept loop), `src/lib/matchmaking.c` | `server->clients` (queue, mutex), `mm_q_has_match` (condition), `mm_server.rooms` | the acceptor queues each connection and starts a short thread for it, which signals; the matcher waits for two queued clients, makes a room of them and starts the room's game thread; a failed send looks the client up in the queue |
| a match | `src/server/server_main.c`, `src/server/utility.c` | the statics `state`, `ssync`, `input1`, `input2`, shared by *all* rooms; `room->is_disbanded` | game thread (two INIT packets, starts the others), state sender (one `send_state` per tick: inputs, ball, point, packet, broadcast), input receiver (`poll`, `recv_packet`, sync check, addition) |
| the client | `src/client/client_main.c`, `src/client/client_logic.c` | `local_state`, `ssync`, `input`, each with a mutex | receiver (INIT and STATE packets), network loop (sends the input), frame loop (collects input, predicts, draws) |
| ts_queue | `src/lib/ts_queue.c` | a doubly linked list, its size and mutex | enqueue, dequeue, remove, destroy |
| packets | `src/common/cpong_packets.c`, `sendall` | none of their own | header and payload over a byte stream, with partial sends and receives |
| run_every | `src/lib/run_every.c` | the time of the last call | paces `send_state`, `network_update` and `update` |
| ball and paddles | `src/common/cpong_logic.c`, `src/lib/engine.c`, `src/lib/vector.c` | none of their own; they work on the `state` of the server and of the client | collisions, bounces, who scores |
| bin_array | `include/krft/bin_array.h` | a buffer, its size and the place in it | numbers to bytes in network order and back, fixed-point numbers |
| the rest | `render.c`, `log.h`, connecting and listening, the build | - | output, start-up |

How they interact: the acceptor and the matcher share the queue and meet in the
condition variable; the matcher hands a room to a game thread and never looks at
it again. A match's three threads share the statics under `sync_mtx` and
`input_mtx`, and reach the players through their sockets. The client's three
threads share its state; the round both ends are in is told by the sync number,
which the server moves on every point and sends with INIT.

### What is hard about them, and what makes them correct

* **Matchmaking.** The condition is signalled without the mutex, so a signal may
  be lost; `malloc` may fail between two steps; the queue changes under the
  matcher's hands. Correct is: every client is queued once and seated once, in
  order, and two waiting clients always get their room.
* **A match.** Points, inputs, joins and departures meet in any order, over
  connections that fill up and break. Correct is: both ends agree on the sync but
  for the time an INIT is under way; the packets of a round come after its INIT;
  an input is added to the paddle of the player who made it, in the round it was
  made in; a match ends when a player has gone, and does not end the other
  player's reading before.
* **The client.** Three critical sections take over one INIT, the frame loop
  works outside the mutex, and the own paddle is predicted and never corrected.
  Correct is: each increment is counted once at both ends, nothing of an old round
  is sent under a new sync, and the two ends converge.
* **ts_queue.** Four paths through the pointers, and reused cells. Correct is: it
  behaves like a line, and its calls return.
* **Packets.** `send` and `recv` cut packets up anywhere. Correct is: packets
  arrive whole, in order, and all of them while the connection lasts.
* **run_every.** The clock is an `int` in milliseconds. Correct is: no time is lost
  or counted twice, and the cap is kept.
* **ball and paddles.** `ball_advance` finds the first of several collisions, plays
  on from there, and counts the time it has used in two units at once. Correct is:
  its loop ends, the ball neither leaves the field nor goes through a paddle, a
  point goes to who earned it, and the rally goes on.
* **bin_array and the fields.** What a packet holds is written in two lists by hand,
  and numbers are rounded on the way. Correct is: the client gets what the server
  had, to the precision of the wire.

`PROJECT.json` lists every hazard at its line, with the properties about it, or
the reason there is none.

## 2. The modules

| Module | Models | Abstract specification |
|---|---|---|
| `Matchmaking` | acceptor, connection threads, matcher, disconnection | `FifoPairing` |
| `PongServer` | the threads of a match, its connections, the clients as far as a packet at a time | `RoundAnnouncer` |
| `PongClient` | the three threads of a client, against a server in single steps | - |
| `TSQueue` | the list and its mutex, on a heap of cells | `FifoQueue` |
| `PacketStream` | sendall, recvall, recv_packet over a byte stream | `PacketChannel` |
| `RunEvery` | the pacing loop and the clock | - |
| `BallStep` | one call of `ball_advance`, with every collision routine under it (operators) | - |
| `BinArray`, `PongPackets` | numbers to bytes, and the fields of each packet (operators) | - |
| `BallPlay` | `send_state` with positions, speeds and scores, the bytes it sends, and the state a client makes of them | - |

`BallPlay` is built from `BallStep` and `PongPackets`, and that from `BinArray`. Each
module with a state has an `MC` module that gives TLC its instances.
The theorems about a module are in the one with `Proofs` in its name (those about
`BallStep`, `BinArray` and `PongPackets` are in `BallPlayProofs`); `SequenceFacts`
holds what several of them need of numbers and sequences. The detailed layers
justify the abstractions of the others: the queue of `Matchmaking` is a sequence
because `TSQueue` behaves like one, the connections of `PongServer` and `PongClient`
carry whole packets because `PacketStream` delivers them, and a point in those two
modules may come at any tick, which includes those at which `BallPlay` has one.

### How state and actions correspond to the code

* **One critical section, one action.** Where a thread locks, works and unlocks
  without a step others could see in between, the section is one action. A mutex
  that is held over several steps is a variable (`mutex` in `Matchmaking` and in
  `TSQueue`). Code outside of any mutex that others read or write is cut at each
  access (`CopyState` and `WriteBack` in `PongClient`).
* **Matchmaking.** `apc` and `mpc` say where the acceptor and the matcher are,
  `connThreads` which connections have a thread that has not signalled yet.
  `pthread_cond_wait` is `MatcherTest` (gives up the mutex and waits in one step),
  `Signal` or `SpuriousWakeup`, and `MatcherReacquire`. A failing send is started
  by the environment (`SendFails`); `HandleDisconnection` is the lookup under the
  queue's mutex. `unsignalled` is true while the client queued last has no thread
  that will signal for it (`ConnMallocFails`).
* **PongServer.** A player is `<<room, seat>>`. What a frame adds to an input is a
  tag with its maker and the round whose sync it was sent under, a sum of milliseconds the set of the tags in it, so
  that a property can ask whose input moves a paddle and since when. Positions and
  scores are left out: a tick scores or not, and a point is a new round. `Tick` is
  `send_state` up to and including `init_game`: after the inputs are taken, what
  it works on is read by no other thread of the room. `Recv` after an error goes
  on with any packet, as the uninitialised `packet` may hold any.
* **The connections of PongServer.** A client that ends leaves an end of file
  behind (`fin`). What is sent to it is lost and answered by a reset (`poked`, then
  `reset`), which the next `send` or `recv` reports (`dead`), and `recv` after
  that returns 0 again. That is what TCP does on Linux; it is the one part of the
  model that is not in the repository.
* **PongClient.** `local_state` keeps, instead of positions, the increments that
  moved the own paddle since the last INIT and the rounds its parts are from.
* **TSQueue.** `list` is `struct ts_queue` with the fields of the nodes as functions
  of the cell; `Add`, `Unlink` and `Between` are the code's case distinctions.
* **PacketStream.** A byte is told by its packet and its place in it; a size read
  from bytes that are no header may be any size.
* **BallStep.** Lengths are whole numbers on a grid of half pixels and balls move
  along diagonals, so that every place of a collision is on the grid; a time of
  impact is a fraction, and the edges that the code passes as `int` are truncated.
  What the code does with these numbers is kept: `toi` and `passed_time` are mixed as
  they are there, the sides are tested over the time left and the rest over the whole
  step, the paddle is taken where it was before the tick, and of two collisions at
  the same time the first of the list counts.
* **BallPlay.** `ServerTick` is a whole `send_state`, `ClientReceives` a whole
  `server_state_receive`; `wire` holds the bytes `packet_serialize` makes. The
  threads, mutexes and rounds around them are those of `PongServer` and `PongClient`.
  `ServerTick` has no guard but the empty wire. What keeps the model finite is in
  `Server`: no tick pushes a paddle further than `Reach` from the middle, and a ball
  further than `Sight` beyond a side is not followed. The code has neither bound.
* **RunEvery.** `now` is the real clock, `last`, `start` and `delta_time` the
  wrapped ints of the code. Signed overflow is taken to wrap around. That is an
  assumption: C leaves it undefined, and the build does not ask for it (no `-fwrapv`
  in the `Makefile`).

## 3. The runs

Passing runs:

| Run | Checks | Bounds |
|---|---|---|
| `mm` | type; `EachClientOnce`; `NoLostWakeup`; `PairsInOrder` (implements `FifoPairing`); `PairsEventually`; `QueuedEventually` | 4 clients, every fault |
| `pong_safety` | type; `SyncAgreement`; `StateFollowsInit`; `KnowsOwnSeat`; `DropsOnlyStale`; `MovedByOwner` | one room, 3 rounds, 2 sync numbers, 1 packet each way, broken connections |
| `pong_live` | `RoundsReachPlayers` (implements `RoundAnnouncer`); `MatchWindsDown`; `NobodyStaysBlocked`; `MatchIsAnnounced` | one room, 2 rounds, 1 packet each way, orderly departures |
| `client` | type; `EachIncrementOnce`; `RallyConserved`; `SyncNeverAhead`; `InputAtMostOneRoundOld`; `PredictionConverges`; `SyncCatchesUp` | 3 rounds, 2 increments, 1 packet each way |
| `queue` | type; `WellLinked`; `ActsAsFifo` (implements `FifoQueue`); `CallsReturn` | 2 threads, 3 cells, 2 items, every call |
| `stream` | type; `FramesAligned`; `WholeInOrder` (implements `PacketChannel`); `AllArrive` | header 3, payloads 1 and 4, 5 bytes on the wire, 4 packets |
| `ball` | type; `LoopEnds`; `StaysInField`; `PointsAreEarned`; `ClientSeesServer`; `RallyGoesOn` | a field of 16 by 16 pixels, ball of 2 by 2, paddles of 2 by 5, pushed up to 12½ pixels from the middle, a lost ball followed 8 pixels beyond the side, speeds of 1, 2 and 3 half pixels per ms, ticks of 4 ms, 6 bounces a tick, bytes of 4 values |
| `pace` | type; `TimeAddsUp`; `NeverTooSoon` | interval 8, 98 ints, ticks of 1, 3 and 5, delays up to 9, 24 ms |

Why the bounds are enough. Matchmaking needs two rooms to show an order between
them, hence four clients. A match needs a point to have an old and a new round,
a third round to come back to the first sync number when there are only two
(the wrap-around that the code has after 256), and a connection of one packet to
block as often as possible. The client needs two increments to lose or to double
one of them, and a round after the one an INIT has interrupted. The queue needs
three nodes for a removal in the middle. The stream needs a packet larger than
the wire and one smaller than what is left of it. The clock starts anywhere in the
range of its int and is watched for several calls and sleeps, with calls longer
than the interval. Its three ticks are the exact sleeps of Linux (a tick of 1), one that is
short against the interval, so that two ticks less still leave a cap (3 of 8), and the ESP's
ratio (5 of 8, as 10 ms of 16), where they do not.

The ball's field is small enough for TLC to take the ball through every place of it, and a
tick long enough for two collisions: of the run's states, some have a paddle's corner touched
exactly, a paddle and a wall met at once, two bounces in a tick, a bounce and a point in one
tick, a ball outside the walls and a ball beyond a side; the three speeds cover the code's speeding up and its end. Paddles
are pushed one at a time, by half their height a tick, up to `Reach`, where they
have left the field altogether. Bytes of four values and four of them to an int make the sync
wrap around after four points and carry every number of the run, negative ones included.
`NumbersFit` says that they do; it is the condition of `ClientSeesServer`, and not something
the code sees to: a lost ball flies on for ever, and after some minutes its place is no
number an `int32_t` can hold ten thousandths of. The run follows it up to `Sight`, where
the numbers still fit.

Deadlock is not checked where the system may stop: in `mm` the matcher may
return with the mutex locked; a match stops when its players have gone; the queue
stops in `ts_queue_remove`; the pacing loop returns or its horizon is reached; a lost
ball is not followed out of sight.

Runs that show a disagreement (each checks one property, quoted from the
repository in `PROJECT.json`):

| Run | What the code does |
|---|---|
| `mm_disconnect` | a matched client is never found by `server_handle_disconnection`: its descriptor stays open |
| `pong_stale` | an input of the old round passes the sync check and moves a paddle in the new one |
| `pong_two_rooms` | a point in one room changes the sync of all |
| `client_init_lost` | a frame overwrites the INIT stored while it was computed |

### Where a property stops short

Other weaknesses show up as a condition in a property, or in the bounds of its run:

* `NoLostWakeup` and `PairsEventually` make an exception of the time when the client
  queued last has nobody to signal for it: when the `malloc` of `conn_data` fails, the
  client is queued and waits for the next one to connect.
* `StaysInField` is about a ball in play (`InPlay`): within the walls and sides, and not
  flying on towards one that it touches, since what is touched is no collision any
  more (`0 < toi`). It leaves out two kinds of tick. A ball that reaches a paddle and a
  wall at the same time bounces off the paddle only; it touches the wall and leaves the
  field through it; it may still score there. A ball that bounces twice within a tick,
  between the edge of a paddle and a wall, has played most of the step twice, while the
  sides are only tested over what is left of it: it may pass a side without scoring, and
  then never scores (`RallyGoesOn` ends there). The repository does not say what should
  happen in either case.
* `PointsAreEarned` takes the paddle where it was before the tick, as `AABB_collide` does
  (its `coll_info->toi` is still 0 there). Whether a paddle that moves in the very tick in
  which the ball arrives should meet it, it leaves open.
* `ClientSeesServer` holds while the numbers fit the ints they are sent as. The code
  does not keep them small (see above), and a conversion that does not fit is
  undefined.
* `MovedByOwner` allows an input that nobody collected, once the connection of the
  seat has failed: `on_input_ready` goes on with an uninitialised packet after a
  `recv` error. It is checked for one room: `input1` and `input2` are not reset
  between matches, and what one match leaves there moves the paddles of the next.
* `MatchIsAnnounced` is checked with orderly departures. When the first INIT to
  `clients[0]` is refused, `clients[1]` is never told.
* `InputAtMostOneRoundOld` allows one round: the client stores the sync and resets the
  input in two critical sections, and `network_update` may send between them.
* `CallsReturn` makes an exception of threads behind `ts_queue_remove`, which locks
  its own mutex a second time; nothing in `src/` calls it.
* `NeverTooSoon` is the cap itself where sleeps are exact. Where a sleep is rounded down to
  ticks and starts within one, it takes off two ticks less two milliseconds. On the ESP, with
  the 16 ms of `CPONG_FPS_CAP` and ticks of 10 ms, nothing is left of the cap then: a short
  frame sleeps to the next tick, so that frames come 10 ms apart (about 100 a second), and
  after a late one 1 ms apart. What remains is that two calls never come at the same
  time, that is, with a `delta_time` of 0, for which `ball_advance` would give no result. The
  ESP's ratio passes the run because the formula allows for it, and not because the "FPS cap" of
  `Kconfig` is kept there. (10 ms is the default of ESP-IDF; the repository sets no other.)

### Fairness

* Every thread that can take a step takes it eventually: weak fairness per thread.
  In `Matchmaking` the steps that wait for the queue's mutex are strongly fair,
  since spurious wakeups may take and release it again and again; with no more
  than that assumed of the scheduler, a thread that finds the mutex free infinitely
  often gets it.
* A client's receiver reads what it is sent (it does nothing else), and a reset
  that is owed arrives. `sendall` and `recvall` go on while they can.
* In `BallPlay` ticks come again and again and the receiver reads what it is sent. Both
  are weak fairness, written out as what it says of `wire`, because `ENABLED` of a
  tick is expensive to evaluate.
* Nothing makes a client connect, press a key, leave or score, a call fail, or a
  wakeup be spurious.

## 4. What is proved

`MatchmakingProofs.tla`, for every non-empty set of clients and every set of faults:

* `TypeCorrect`: `Spec => []TypeOK`.
* `WakeupNotLost`: `Spec => []NoLostWakeup`. The invariant is inductive with `TypeOK`:
  the signal is sent after the enqueue, and the test and the start of the wait are one
  step under the mutex.
* `SeatedOnce`: `Spec => []EachClientOnce`. Alone this is not inductive: nothing
  in it keeps a connection that is being queued from being queued already. `OnceInv`
  adds that whoever is queued or seated has been accepted (`Placed`), that the
  connection in the acceptor's hand is in neither place before `Enqueue`
  (`InHandIsNowhere`), and that the clients a game thread reports are seated, hence
  not queued (which makes every lookup of `HandleDisconnection` fail).
* `ImplementsFifoPairing`: `Spec => PairsInOrder`, the refinement checked by
  `mm`: `Enqueue` is a `Join`, `CreateRoom` a `Pair`, everything else a
  stutter. It rests on `OnceInv`, for the freshness `Join` asks for, and for the
  branch of `HandleDisconnection` that would take a client out of the line.

`PongClientProofs.tla`, for every number of rounds, inputs and packets under way:

* `TypeCorrect`: `Spec => []TypeOK`.
* `NeverAheadOfState` and `OneRoundOld`: `SyncNeverAhead` and
  `InputAtMostOneRoundOld`. Both follow from `RoundInv`. Its heart is `StreamInOrder`:
  the connection carries the rounds one after the other, from what the client
  has (`Taken`) to where the server is. Without it an INIT could skip a round or
  go back one. `SyncOfState` then says that the sync is one behind the state between
  the first and the second critical section of an INIT and equal to it otherwise,
  and `InputAge` how old the input may be in each of the three.
* `CountedOnce`: `EachIncrementOnce`. The inductive `OnceInv` adds that no place holds an
  increment that is still to come (`AllCollected`), without which a new one could
  be one of the old.
* `NothingLostInRally`: `RallyConserved`. It needs `RoundInv`, to know that in the first
  round no INIT resets anything and that no input is refused for its sync
  (`NoInitInRally`), and `FrameInHand`, to know that the frame loop writes back the
  place it has read.

The assumptions are those of the modules: `Clients # {}` and the range of `Faults`;
`MaxRound` and `Capacity` positive, `MaxInputs` a natural number.

`PongServerProofs.tla`, for any rooms, rounds, sync numbers and packets under way:

* `TypeCorrect`: `Spec => []TypeOK`. It needs `HasPacket`: the receiver has a packet in
  hand whenever it looks at one.
* `StateComesAfterInit` and `SeatIsKnown`: `StateFollowsInit` and `KnowsOwnSeat`. Neither is
  inductive: a STATE may be sent as long as the INIT before it is on its way, which is
  several steps of two threads back. `RoundInv` says, for every player, that the packets
  under way go on from the round it shows without a gap (`Chain`), that they lead to
  the round it has been sent the INIT of (`Due`, the room's round or the one before
  while an INIT is owed), and where each thread of the room is meanwhile (`PhaseInv`).
* `RoundsInTurn`: `Spec => Announcer!SafeSpec`, the safe part of the refinement that
  `pong_live` checks as `RoundsReachPlayers`: a point is a `NextRound`, an INIT read is a
  `Learn`, the last step of a client is a `Leave`. That every player does learn
  (the fairness of `RoundAnnouncer`) stays with TLC.
* `SyncsAgree`: `SyncAgreement`, if one match is over before the next one starts
  (`OneAtATime`: `~Overlap`, or a single room). With overlapping matches it is
  false, as `pong_two_rooms` shows: all rooms write the one `ssync`. `SyncsInv` adds that
  matches start in turn, and that in the last one a packet carries the sync number that was
  current when it was made.
* `OnlyStaleIsDropped` and `PaddlesMovedByOwners`: `DropsOnlyStale` and `MovedByOwner`, for a
  match that is alone. With a second match both are false, even when it starts after the
  first: `input1` and `input2` are not reset between matches, and with a sync number that
  the rooms share an input may be of the current round and under the sync of another.
  `InputInv` follows an input from the client that collected it (`SentByOwner`) to the
  receiver's hand (`HandInv`).

`TSQueueProofs.tla`, for any threads, any finite set of cells and any items:

* `TypeCorrect` and `AlwaysLinked`: `TypeOK` and `WellLinked`. The invariant is that a
  sequence lists exactly the cells in use, each of them once, and that the pointers follow it
  (`Shaped`). `QueuedShape` and `UnlinkShape` say what the two list operations make of
  that sequence: one cell more at its end, or one less anywhere in it, and that is the
  cell that is freed. With it the size never drops below zero.
* `IsFifo`: `Spec => ActsAsFifo`, the refinement that `queue` checks. `Order` is defined by
  walking the list, by recursion; `WalkGives` shows that the walk meets the
  cells of the sequence and ends behind them. So `Enqueue` is an `Enqueue` of
  `FifoQueue`, the removals are its `Dequeue` and `Drop`, everything else is a stutter.

`PacketStreamProofs.tla`, for any packets and any sizes of header, payloads and buffer:

* `TypeCorrect`: `Spec => []TypeOK`.
* `AlwaysAligned` and `DeliversWholeInOrder`: `FramesAligned` and the refinement
  `WholeInOrder`. `StreamInv` says that what the receiver has, what is on the wire and what
  `sendall` still has are together the packets not yet delivered, one behind the other, and
  that a receiver that waits for a payload wants the size of the next of these. To
  cut one packet off the front of that row needs the facts of `SequenceFacts` about
  the concatenation of sequences.

`RunEveryProofs.tla`, for any interval, width of int, lengths of ticks and delays in the
range that `RangeAssumption` names:

* `TypeCorrect`, `NoTimeLost` and `KeepsItsPace`: `TypeOK`, `TimeAddsUp` and
  `NeverTooSoon`. `PaceInv` says that `last`, at the head of the loop, and `start`, during the
  call and the sleep, are the wrapped time of the last call, and how long ago that
  call may be: long enough for the pace to be kept, and not so long that a
  difference of two ints is off by a whole wrap (`DifferenceIs`). `WakesInTime` bounds what a
  sleep in whole ticks takes off, and says that a sleep of a whole tick takes time. Where
  less than a tick is left to sleep, the call has taken time, unless a tick is longer than
  the interval: so no two calls come at once.

`BallPlayProofs.tla`, for any field, sizes, speeds, lengths of ticks and inputs, any width of int,
number of values of a byte and scale of the fixed-point numbers:

* `PacketsSurvive`: what `packet_deserialize` reads of the bytes that `packet_serialize` makes is
  the packet: its type, its sync, and for every field `Kept` of what was written, the number to
  the precision of the wire, wrapped around to its int. `BytesBack` is the core of it: the
  digits that `ToBytes` takes off a number are those `FromBytes` puts together, by induction
  over the bytes. `Serialized` follows the buffer field by field, through the overwriting of
  the size in the header, and says where each field's bytes lie (`Place`), so that the reader,
  which only counts, finds them there (`ReadWord`). It needs that no name is twice in a list
  (`FieldsDiffer`) and that both lists are the same.
* `TypeCorrect`: `Spec => []TypeOK`. The step that takes work is a tick: `AdvanceType` says that
  `ball_advance` returns a ball and no score but the first's, the second's or none,
  whatever the collision routines find. It rests on `FirstExists`: among the collisions
  that are valid there is a first, because "not after" is a total order on fractions with a
  positive denominator (`LessOrder`). Without it the `CHOOSE` of `get_first_collision`
  could be anything.
* `ClientMirrorsServer`: whenever nothing is under way, the client shows the server's score, and of the
  server's ball and opponent what the wire leaves of them (`Mirrors`), whatever the numbers are:
  one that does not fit is taken to wrap around, which the code leaves undefined.
* `ClientInStep`: `Spec => []ClientSeesServer`. The property's condition, `NumbersFit`, is what `Mirrors`
  needs to become `Seen`: a number that fits its int is not wrapped around.
* `PointsEarned`: `Spec => []PointsAreEarned`. Alone it is not inductive: a ball that came from
  beyond the other side, or a paddle that stands elsewhere, could break it. `CourseInv`
  adds where the paddles are (`InPlace`), and that the ball flies on a diagonal and that no part
  of it is beyond the side it flies away from (`OnCourse`). A tick keeps this (`TickCourse`)
  because every turn of the loop does (`TurnCourse`), whatever it bounces off (`AllMet`). The core is `FrontIsMet`: when the front of a paddle is in the ball's
  way, there is a collision with the front, or with the rest of the paddle before it
  (`EdgeReached` says exactly when an edge is met). So the first collision of the turn comes before
  the ball could be at the side (`FirstIsEarly`), and the turn makes no point.
* `InPlayOrScored`: `Spec => []StaysInField`, from the same invariant. The collisions of the first turn
  lie on the ball's diagonal (`OnWay`), those with the side and the wall ahead are found if
  the ball gets there (`SideMet`, `WallMet`), and the first one leaves it in play, flying away
  from what it touches (`BounceInPlay`). In the next turn no more than the whole step is
  left (`TimeLeft`), and a move that meets neither wall nor side leaves the ball in play
  (`MoveInPlay`). A second bounce breaks this: walls are looked for over the whole step
  again, and the sides only over what is left of it.

`InStep` says nothing while a packet is under way, so it is not inductive. `IInv` adds
`UnderWay`: the packet on the wire is made of the state and the sync the server has now, and when
it is a STATE, the client has the server's score already. The score is the part that a
STATE does not carry; that a point always sends an INIT is what the invariant rests on there.

The assumptions are those of the modules and nothing else, but for `OneAtATime` and `Alone`
above. `TSQueue` assumes that there are finitely many cells and at least one item, and
that the null pointer is no cell. `RangeAssumption` of `RunEvery` says that a call and a sleep
are short against the range of int, 24 days; without it the difference of two times
means nothing. `FieldAssumption` says no more than that the sizes and speeds of `BallPlay` are
whole numbers of its grid, `SideAssumption` that the ball and a paddle are no wider than the field
and that its sides and the fronts of the paddles are whole pixels, as in `init_game` (a box of 480
by 320, paddles of 10 by 50, a ball of 10 by 10): `PointsEarned` and `InPlayOrScored` need it for
the edges that `AABB_collide` takes as `int`. `PacketAssumption` says that a byte tells the
three types of packets apart and that an int holds a score.

Induction is needed in several places: the walk along the list, the concatenation of
packets, the greatest of a set of packets, the digits of a number, the fields of a packet and
the turns of `ball_advance`. The induction theorems of the library take
a predicate as a parameter; `SetInduction` and `GreatestOne` of `SequenceFacts` say the same of
a set of numbers, and follow from the theorem about well-founded relations.

Only model-checked: every liveness property (the prover has no rule for fairness
and `ENABLED`): `PairsEventually`, `QueuedEventually`, `MatchWindsDown`,
`NobodyStaysBlocked`, `MatchIsAnnounced`, the liveness in `RoundsReachPlayers`,
`PredictionConverges`, `SyncCatchesUp`, `CallsReturn`, `AllArrive` and
`RallyGoesOn`; and `LoopEnds` of `BallPlay`, which does not hold for every field, speed and
tick (take a tick long enough for more bounces than `MaxBounces`); TLC decides it for those
of the run. That the ball flies on the diagonals is part of the model, and
the proofs about its way rest on it.

## 5. What is not modelled

* Of the geometry: rounding of `float`, directions other than the diagonals (`init_ball`
  draws an angle), ticks of changing length, inputs of both players in one tick, a
  lost ball beyond `Sight`, and `AABB_is_overlapping`, which nothing calls.
* Of the client: drawing, the devices its input comes from, the end of the program, the
  end of its connection (`client_send` lacks `MSG_NOSIGNAL`, so on Linux the next
  send ends the program), and the blank ball it shows when its prediction reaches a
  side before the INIT comes.
* Of the packets: `PACKET_PING`, which nothing sends, and `server_broadcast`, which nothing
  calls; of `bin_array.h`, the 16-bit, host-order and text functions, which the
  program does not use.
* Of the server: errors of `accept`, connecting and listening, `ts_queue_destroy`. Two
  rooms at once are checked only in the run that shows they interfere: with the
  shared statics there is little else to say about them.
* Logging and the build.

`PROJECT.json` gives the status of every component.

## 6. Plan

Done: matchmaking, the match, the client, the ball, the packets and the libraries
beneath them, and the proofs about all of these. Of the safety properties only
`LoopEnds`, which depends on the field, is without a theorem.

1. *Prove.* `LoopEnds` for ticks short against the way between two walls; how long after a
   ball is lost its numbers still fit.
2. *Extend.* `PongSession`: `PongServer` and two `PongClient`s over the same connections,
   with the order of a whole INIT from `start_pong_game` to the second frame after it;
   the ball in other directions than the diagonals.
