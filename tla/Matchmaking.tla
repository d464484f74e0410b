----------------------------- MODULE Matchmaking -----------------------------
(***************************************************************************)
(* The accept loop of src/lib/server.c and the matcher of                  *)
(* src/lib/matchmaking.c.                                                  *)
(*                                                                         *)
(* Threads: the acceptor (server_worker), one short thread per connection  *)
(* (handle_connection -> mm_on_connection), the matcher                    *)
(* (matchmaking_worker) and one game thread per room.  They share the      *)
(* queue server->clients, protected by its mutex, and the condition        *)
(* variable mm_q_has_match.                                                *)
(*                                                                         *)
(* A critical section that one thread enters and leaves without a visible  *)
(* step in between is one action guarded by the mutex being free.  The     *)
(* matcher holds the mutex over several visible steps, so it is the only   *)
(* holder the variable `mutex' ever names.  Connections are told apart by  *)
(* their descriptor in the code (client->id = connfd); here a member of    *)
(* Clients is one accepted connection.                                     *)
(***************************************************************************)
EXTENDS Naturals, Sequences, FiniteSets, SequencesExt

CONSTANTS
  Clients,  \* the connections that may reach the listening socket
  Faults    \* the library calls that may fail: "conn_malloc", "room_malloc", "send"

ASSUME ClientsAssumption == Clients # {}
ASSUME FaultsAssumption == Faults \subseteq {"conn_malloc", "room_malloc", "send"}

ROOM_SIZE == 2

VARIABLES
  apc,         \* where the acceptor is in server_worker
  conn,        \* the connection it has in hand
  accepted,    \* the connections accept() has returned
  connThreads, \* connections whose handle_connection thread has not signalled yet
  mutex,       \* who holds server->clients->mutex
  mpc,         \* where the matcher is in matchmaking_worker
  clientsQ,    \* the queue server->clients
  rooms,       \* the list mm_server.rooms
  lost,        \* clients a game thread failed to send to and is about to report
  notFound,    \* clients reported to server_handle_disconnection and not found
  closed,      \* clients whose descriptor server_handle_disconnection closed
  unsignalled  \* whether the client queued last got no thread to signal for it

acceptorVars == <<apc, conn, accepted, unsignalled>>
gameVars == <<lost, notFound, closed>>
vars == <<apc, conn, accepted, connThreads, mutex, mpc, clientsQ, rooms,
          lost, notFound, closed, unsignalled>>

Seats == 1..ROOM_SIZE
Room == [id : Clients, clients : [Seats -> Clients], is_disbanded : BOOLEAN]

TypeOK ==
  /\ apc \in {"accept", "enqueue", "print", "spawn"}
  /\ conn \in Clients
  /\ accepted \subseteq Clients
  /\ connThreads \subseteq Clients
  /\ mutex \in {"free", "matcher"}
  /\ mpc \in {"lock", "test", "waiting", "woken", "match", "returned"}
  /\ clientsQ \in Seq(Clients)
  /\ rooms \in Seq(Room)
  /\ lost \subseteq Clients
  /\ notFound \subseteq Clients
  /\ closed \subseteq Clients
  /\ unsignalled \in BOOLEAN

\* matchmaking_server_worker: both lists empty, the matcher thread created,
\* the calling thread entering server_worker.
Init ==
  /\ apc = "accept"
  /\ conn = CHOOSE c \in Clients : TRUE
  /\ accepted = {}
  /\ connThreads = {}
  /\ mutex = "free"
  /\ mpc = "lock"
  /\ clientsQ = <<>>
  /\ rooms = <<>>
  /\ lost = {}
  /\ notFound = {}
  /\ closed = {}
  /\ unsignalled = FALSE

-----------------------------------------------------------------------------
(* The acceptor.                                                           *)

Accept(c) ==
  /\ apc = "accept"
  /\ c \notin accepted
  /\ apc' = "enqueue"
  /\ conn' = c
  /\ accepted' = accepted \cup {c}
  /\ UNCHANGED <<unsignalled, connThreads, mutex, mpc, clientsQ, rooms, gameVars>>

\* Mutants of Queued: the client goes to the head of the line; a full queue
\* drops the client.
QueuedAtHead(c) == <<c>> \o clientsQ
QueuedIfRoom(c) == IF Len(clientsQ) < ROOM_SIZE THEN Append(clientsQ, c) ELSE clientsQ

Queued(c) == Append(clientsQ, c)

\* ts_queue_enqueue: append under the queue's mutex.
Enqueue ==
  /\ apc = "enqueue"
  /\ mutex = "free"
  /\ clientsQ' = Queued(conn)
  /\ apc' = "print"
  /\ unsignalled' = FALSE
  /\ UNCHANGED <<conn, accepted, connThreads, mutex, mpc, rooms, gameVars>>

\* The queue is printed in a second critical section of its own.
PrintQueue ==
  /\ apc = "print"
  /\ mutex = "free"
  /\ apc' = "spawn"
  /\ UNCHANGED <<conn, accepted, unsignalled, connThreads, mutex, mpc, clientsQ, rooms, gameVars>>

SpawnConnThread ==
  /\ apc = "spawn"
  /\ connThreads' = connThreads \cup {conn}
  /\ apc' = "accept"
  /\ UNCHANGED <<conn, accepted, unsignalled, mutex, mpc, clientsQ, rooms, gameVars>>

\* malloc of conn_data fails: the loop goes on, nobody signals this client.
ConnMallocFails ==
  /\ "conn_malloc" \in Faults
  /\ apc = "spawn"
  /\ apc' = "accept"
  /\ unsignalled' = TRUE
  /\ UNCHANGED <<conn, accepted, connThreads, mutex, mpc, clientsQ, rooms, gameVars>>

\* Mutant of Woken: the thread ends without signalling.
NotWoken == mpc

\* pthread_cond_signal wakes the matcher if that waits, and is lost otherwise.
Woken == IF mpc = "waiting" THEN "woken" ELSE mpc

\* mm_on_connection: the signal, sent without holding the mutex.
Signal(c) ==
  /\ c \in connThreads
  /\ connThreads' = connThreads \ {c}
  /\ mpc' = Woken
  /\ UNCHANGED <<acceptorVars, mutex, clientsQ, rooms, gameVars>>

-----------------------------------------------------------------------------
(* The matcher.                                                            *)

MatcherLock ==
  /\ mpc = "lock"
  /\ mutex = "free"
  /\ mutex' = "matcher"
  /\ mpc' = "test"
  /\ UNCHANGED <<acceptorVars, connThreads, clientsQ, rooms, gameVars>>

\* Mutant of MustWait: a queue of exactly ROOM_SIZE still waits.
MustWaitOffByOne == Len(clientsQ) <= ROOM_SIZE

MustWait == Len(clientsQ) < ROOM_SIZE

\* while (size < ROOM_SIZE) pthread_cond_wait: the mutex is released and the
\* wait begun in one step.
MatcherTest ==
  /\ mpc = "test"
  /\ mpc' = IF MustWait THEN "waiting" ELSE "match"
  /\ mutex' = IF MustWait THEN "free" ELSE mutex
  /\ UNCHANGED <<acceptorVars, connThreads, clientsQ, rooms, gameVars>>

\* pthread_cond_wait may return without a signal.
SpuriousWakeup ==
  /\ mpc = "waiting"
  /\ mpc' = "woken"
  /\ UNCHANGED <<acceptorVars, connThreads, mutex, clientsQ, rooms, gameVars>>

\* pthread_cond_wait returns only with the mutex held again; then the loop
\* tests the size once more.
MatcherReacquire ==
  /\ mpc = "woken"
  /\ mutex = "free"
  /\ mutex' = "matcher"
  /\ mpc' = "test"
  /\ UNCHANGED <<acceptorVars, connThreads, clientsQ, rooms, gameVars>>

\* Mutants: the room is numbered by its place in the list; one client too few
\* is dequeued.
NewRoomNumbered ==
  [id |-> Len(rooms), clients |-> <<clientsQ[1], clientsQ[2]>>, is_disbanded |-> FALSE]
UnmatchedKeepsOne == SubSeq(clientsQ, ROOM_SIZE, Len(clientsQ))

\* The room takes the two oldest clients out of the queue.
NewRoom ==
  [id |-> clientsQ[1], clients |-> <<clientsQ[1], clientsQ[2]>>, is_disbanded |-> FALSE]
Unmatched == SubSeq(clientsQ, ROOM_SIZE + 1, Len(clientsQ))

\* One turn of the inner loop: the room joins the room list and gets its game
\* thread.
CreateRoom ==
  /\ mpc = "match"
  /\ Len(clientsQ) >= ROOM_SIZE
  /\ rooms' = Append(rooms, NewRoom)
  /\ clientsQ' = Unmatched
  /\ UNCHANGED <<acceptorVars, connThreads, mutex, mpc, gameVars>>

\* malloc of the room fails: the thread returns with the mutex still locked.
RoomMallocFails ==
  /\ "room_malloc" \in Faults
  /\ mpc = "match"
  /\ Len(clientsQ) >= ROOM_SIZE
  /\ mpc' = "returned"
  /\ UNCHANGED <<acceptorVars, connThreads, mutex, clientsQ, rooms, gameVars>>

MatcherUnlock ==
  /\ mpc = "match"
  /\ Len(clientsQ) < ROOM_SIZE
  /\ mutex' = "free"
  /\ mpc' = "lock"
  /\ UNCHANGED <<acceptorVars, connThreads, clientsQ, rooms, gameVars>>

-----------------------------------------------------------------------------
(* What a game thread does to this component when a send fails.  The game  *)
(* itself is the subject of PongServer.                                    *)

PlayersOf(i) == {rooms[i].clients[k] : k \in Seats}

\* server_send: sendall returned -1 for a client of room i.  The room's thread
\* stops sending after the first failure.
SendFails(i, c) ==
  /\ "send" \in Faults
  /\ c \in PlayersOf(i)
  /\ PlayersOf(i) \cap (lost \cup notFound \cup closed) = {}
  /\ lost' = lost \cup {c}
  /\ UNCHANGED <<acceptorVars, connThreads, mutex, mpc, clientsQ, rooms,
                 notFound, closed>>

\* server_handle_disconnection: look the client up in the queue; close, free
\* and unlink it if it is there, log an error if it is not.  The room is then
\* disbanded when the sender was room_broadcast (viaBroadcast), and left as it
\* is when it was start_pong_game.
HandleDisconnection(i, c, viaBroadcast) ==
  /\ c \in lost \cap PlayersOf(i)
  /\ mutex = "free"
  /\ lost' = lost \ {c}
  /\ \/ \E n \in DOMAIN clientsQ :
           /\ clientsQ[n] = c
           /\ \A m \in 1..(n - 1) : clientsQ[m] # c
           /\ clientsQ' = RemoveAt(clientsQ, n)
           /\ closed' = closed \cup {c}
           /\ UNCHANGED notFound
     \/ /\ c \notin ToSet(clientsQ)
        /\ notFound' = notFound \cup {c}
        /\ UNCHANGED <<closed, clientsQ>>
  /\ rooms' = [rooms EXCEPT ![i].is_disbanded = @ \/ viaBroadcast]
  /\ UNCHANGED <<acceptorVars, connThreads, mutex, mpc>>

-----------------------------------------------------------------------------
Acceptor ==
  \/ \E c \in Clients : Accept(c)
  \/ Enqueue
  \/ PrintQueue
  \/ SpawnConnThread
  \/ ConnMallocFails

Matcher ==
  \/ MatcherLock
  \/ MatcherTest
  \/ MatcherReacquire
  \/ CreateRoom
  \/ RoomMallocFails
  \/ MatcherUnlock

GameThread ==
  \E i \in DOMAIN rooms : \E c \in Clients :
    \/ SendFails(i, c)
    \/ \E viaBroadcast \in BOOLEAN : HandleDisconnection(i, c, viaBroadcast)

Next ==
  \/ Acceptor
  \/ \E c \in Clients : Signal(c)
  \/ Matcher
  \/ SpuriousWakeup
  \/ GameThread

Spec == Init /\ [][Next]_vars

\* The scheduler runs every thread that can run, and a thread that finds the
\* mutex free again and again gets it (strong fairness: spurious wakeups may
\* take and release it for ever).  Nothing makes a client connect, a send fail,
\* a malloc fail or a wakeup be spurious.
Fairness ==
  /\ SF_vars(Enqueue)
  /\ SF_vars(PrintQueue)
  /\ WF_vars(SpawnConnThread \/ ConnMallocFails)
  /\ \A c \in Clients : WF_vars(Signal(c))
  /\ WF_vars(MatcherTest \/ CreateRoom \/ RoomMallocFails \/ MatcherUnlock)
  /\ WF_vars(MatcherLock)
  /\ WF_vars(MatcherReacquire)

FairSpec == Spec /\ Fairness

-----------------------------------------------------------------------------
(* Properties.                                                             *)

\* The matcher never sleeps on a queue that already holds a full room unless a
\* thread that will signal it is still on its way, or the youngest client is one
\* whose malloc of conn_data failed: no wakeup is lost between the unlocked signal
\* of mm_on_connection and the test in matchmaking_worker, and a failed malloc
\* harms nobody once a further client is queued.
SignalOnItsWay == connThreads # {} \/ apc \in {"print", "spawn"}
NoLostWakeup ==
  mpc = "waiting" /\ Len(clientsQ) >= ROOM_SIZE => SignalOnItsWay \/ unsignalled

\* A connection is handed to the queue once and from there to one room at one
\* seat: no client is in two rooms, in a room twice, or matched and queued.
EachClientOnce ==
  /\ \A m, n \in DOMAIN clientsQ : clientsQ[m] = clientsQ[n] => m = n
  /\ \A i, j \in DOMAIN rooms, k, l \in Seats :
       rooms[i].clients[k] = rooms[j].clients[l] => i = j /\ k = l
  /\ \A i \in DOMAIN rooms, k \in Seats, n \in DOMAIN clientsQ :
       rooms[i].clients[k] # clientsQ[n]

\* Matchmaking pairs clients in the order they were queued: the threads
\* together implement FifoPairing.
Pairing == INSTANCE FifoPairing
             WITH line <- clientsQ,
                  matches <- [i \in DOMAIN rooms |-> rooms[i].clients]
PairsInOrder == Pairing!SafeSpec

\* Matchmaking also keeps FifoPairing's promise that a full pair does not wait
\* for ever: the matcher is woken in time, whatever the scheduling and whichever
\* sends and mallocs fail, unless the matcher itself has returned or the client
\* queued last is never signalled for.
PairsEventually ==
  \/ []<>(mpc = "returned" \/ unsignalled)
  \/ Pairing!PairsInTime

\* server_worker never forgets a client between accept and the queue, unless the
\* matcher has returned with the queue locked.
QueuedEventually == \A c \in Clients :
  c \in accepted ~> \/ c \in ToSet(clientsQ)
                    \/ \E i \in DOMAIN rooms : c \in PlayersOf(i)
                    \/ mpc = "returned"

\* server_handle_disconnection treats a client it cannot find as an error
\* ("Cannot find client id"); this says the error is never met.
DisconnectionFindsClient == notFound = {}
=============================================================================
