------------------------------ MODULE MCBallPlay ------------------------------
(* Instances of BallPlay for TLC. *)
EXTENDS BallPlay, TLC

SmallBox == [x |-> 32, y |-> 32]
SmallBall == [x |-> 2, y |-> 2]
SmallPaddle == [x |-> 2, y |-> 5]
OneAtATime == {<<0, 0>>, <<5, 0>>, <<-5, 0>>, <<0, 5>>, <<0, -5>>}

\* An INPUT packet, which BallPlay does not send, survives the wire too.
ASSUME InputRoundTrip ==
  \A ms \in -40..40 :
    LET sent == [type |-> PACKET_INPUT, sync |-> -1, data |-> [input_acc_ms |-> ms]]
    IN packet_deserialize(packet_serialize(sent)) = sent @@ [size |-> IntBytes]
=============================================================================
