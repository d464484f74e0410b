---------------------------- MODULE MCPongClient ----------------------------
(* Instances of PongClient for TLC: every constant is a bound. *)
EXTENDS PongClient, TLC
=============================================================================
