---------------------------- MODULE MCMatchmaking ----------------------------
(* Instances of Matchmaking for TLC. *)
EXTENDS Matchmaking, TLC

CONSTANTS c1, c2, c3, c4

ThreeClients == {c1, c2, c3}
FourClients == {c1, c2, c3, c4}

NoFaults == {}
EveryFault == {"conn_malloc", "room_malloc", "send"}
SendFault == {"send"}
=============================================================================
