---------------------------- MODULE PacketChannel ----------------------------
(***************************************************************************)
(* What one direction of a connection does for packets: it delivers them   *)
(* whole and in the order they were sent.  Once it is over it may stop     *)
(* delivering, and never delivers anything else.                           *)
(***************************************************************************)
EXTENDS Naturals, Sequences

CONSTANT Packets

VARIABLES
  sent,       \* the packets handed to the sender, oldest first
  delivered,  \* the packets the receiver was given, oldest first
  over        \* whether the connection has ended

channelVars == <<sent, delivered, over>>

Init == sent = <<>> /\ delivered = <<>> /\ over = FALSE

Send(p) ==
  /\ ~over
  /\ sent' = Append(sent, p)
  /\ UNCHANGED <<delivered, over>>

Deliver ==
  /\ Len(delivered) < Len(sent)
  /\ delivered' = Append(delivered, sent[Len(delivered) + 1])
  /\ UNCHANGED <<sent, over>>

End ==
  /\ over' = TRUE
  /\ UNCHANGED <<sent, delivered>>

Next == Deliver \/ End \/ \E p \in Packets : Send(p)

SafeSpec == Init /\ [][Next]_channelVars

Spec == SafeSpec /\ WF_channelVars(~over /\ Deliver)
=============================================================================
