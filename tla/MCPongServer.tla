---------------------------- MODULE MCPongServer ----------------------------
(* Instances of PongServer for TLC. *)
EXTENDS PongServer, TLC

OneRoom == {1}
TwoRooms == {1, 2}
=============================================================================
