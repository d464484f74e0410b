--------------------------- MODULE MCPacketStream ---------------------------
(* Instances of PacketStream for TLC: a longer and a shorter packet. *)
EXTENDS PacketStream, TLC

TwoPackets == {"INIT", "STATE"}
TwoSizes == [p \in TwoPackets |-> IF p = "INIT" THEN 4 ELSE 1]
=============================================================================
