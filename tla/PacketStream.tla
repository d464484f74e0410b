---------------------------- MODULE PacketStream ----------------------------
(***************************************************************************)
(* How packets travel over a byte stream: src/common/cpong_packets.c with  *)
(* sendall of src/lib/server.c, in one direction of a connection.          *)
(*                                                                         *)
(* A packet is a header that tells the size of the payload, and the        *)
(* payload.  send and recv move any number of bytes from one up to what    *)
(* was asked for; sendall and recvall call them until all are moved, and   *)
(* recv_packet reads a header and then as much payload as that says.       *)
(*                                                                         *)
(* A byte is told by the packet it belongs to and its place in it.  What   *)
(* packet_deserialize makes of bytes that are not one packet in order is   *)
(* `Garbled'; a size read from such bytes may be any.                      *)
(***************************************************************************)
EXTENDS Naturals, Sequences, FiniteSets, FiniteSetsExt, SequencesExt

CONSTANTS
  Packets,     \* the packets there are
  Garbled,     \* none of them
  HeaderSize,  \* bytes of a header (6)
  PayloadSize, \* bytes of each packet's payload (INPUT 4, STATE 40, INIT 100)
  Buffer,      \* bytes the connection holds
  MayEnd,      \* whether the connection may end
  MaxPackets   \* bound: packets sent

ASSUME SizeAssumption ==
  /\ HeaderSize \in Nat \ {0}
  /\ PayloadSize \in [Packets -> Nat \ {0}]
  /\ Buffer \in Nat \ {0}
ASSUME GarbledAssumption == Garbled \notin Packets
ASSUME EndAssumption == MayEnd \in BOOLEAN /\ MaxPackets \in Nat

VARIABLES
  spc, out,   \* the sender: where it is, what sendall has still to send
  wire,       \* the bytes sent and not received
  conn,       \* "open", "fin" (no more bytes will come), "reset" (broken)
  rpc, buf,   \* the receiver: where recv_packet is, the bytes it has
  want,       \* how many bytes it wants to have
  sent, delivered  \* the packets so far

senderVars == <<spc, out, sent>>
receiverVars == <<rpc, buf, want, delivered>>
vars == <<senderVars, wire, conn, receiverVars>>

SizeOf(p) == HeaderSize + PayloadSize[p]
Sizes == {PayloadSize[p] : p \in Packets}
Byte == UNION {[packet : {p}, at : 1..SizeOf(p)] : p \in Packets}

\* packet_serialize.
Serialize(p) == [i \in 1..SizeOf(p) |-> [packet |-> p, at |-> i]]

\* Mutant of SizeField: the size in the header counts the header.
SizeOfAll(p) == SizeOf(p)

\* The size that packet_serialize puts into the header.
SizeField(p) == PayloadSize[p]

\* The sizes that may be read from a complete header.
SizeIn(header) ==
  IF \E p \in Packets : header = SubSeq(Serialize(p), 1, HeaderSize)
  THEN {SizeField(header[1].packet)}
  ELSE Sizes

\* packet_deserialize.
Deserialize(bytes) ==
  IF \E p \in Packets : bytes = Serialize(p) THEN bytes[1].packet ELSE Garbled

TypeOK ==
  /\ spc \in {"idle", "sending", "failed"}
  /\ out \in Seq(Byte)
  /\ wire \in Seq(Byte) /\ Len(wire) <= Buffer
  /\ conn \in {"open", "fin", "reset"}
  /\ rpc \in {"header", "payload", "failed"}
  /\ buf \in Seq(Byte) /\ Len(buf) < want
  /\ want \in Nat
  /\ sent \in Seq(Packets)
  /\ delivered \in Seq(Packets \cup {Garbled})

Init ==
  /\ spc = "idle" /\ out = <<>> /\ sent = <<>>
  /\ wire = <<>>
  /\ conn = "open"
  /\ rpc = "header" /\ buf = <<>> /\ want = HeaderSize /\ delivered = <<>>

-----------------------------------------------------------------------------
(* The sender: server_send_packet, room_broadcast, client_send.            *)

StartSend(p) ==
  /\ spc = "idle"
  /\ conn = "open"
  /\ Len(sent) < MaxPackets
  /\ out' = Serialize(p)
  /\ sent' = Append(sent, p)
  /\ spc' = "sending"
  /\ UNCHANGED <<wire, conn, receiverVars>>

\* Mutant of Parts: send is not called before there is room for everything.
AllOrNothing == {Len(out)} \cap 1..(Buffer - Len(wire))

\* How much one send may take.
Parts == 1..Min({Len(out), Buffer - Len(wire)})

\* Mutant of Rest: one send is taken for all.
NoRest(m) == <<>>

\* What sendall has to send after m bytes were taken.
Rest(m) == SubSeq(out, m + 1, Len(out))

\* sendall: one call of send, which waits for room and takes any part.
SendSome ==
  /\ spc = "sending"
  /\ conn = "open"
  /\ \E m \in Parts : wire' = wire \o SubSeq(out, 1, m) /\ out' = Rest(m)
  /\ spc' = IF out' = <<>> THEN "idle" ELSE "sending"
  /\ UNCHANGED <<sent, conn, receiverVars>>

\* sendall returns -1, wherever in the packet it is.
SendFails ==
  /\ spc = "sending"
  /\ conn = "reset"
  /\ spc' = "failed"
  /\ out' = <<>>
  /\ UNCHANGED <<sent, wire, conn, receiverVars>>

\* The sending program ends, or the connection breaks with what is under way.
Finish ==
  /\ MayEnd
  /\ conn = "open"
  /\ conn' = "fin"
  /\ UNCHANGED <<senderVars, wire, receiverVars>>

Break ==
  /\ MayEnd
  /\ conn = "open"
  /\ conn' = "reset"
  /\ wire' = <<>>
  /\ UNCHANGED <<senderVars, receiverVars>>

-----------------------------------------------------------------------------
(* The receiver: recv_packet.                                              *)

\* Mutant of WithHeader: the payload is read to where the header is.
OverHeader(size) == size

\* How many bytes there will be when a payload of that size has been read.
WithHeader(size) == HeaderSize + size

\* Once all the wanted bytes are there, the header tells how many more are
\* wanted, and the payload makes a packet.
Advance(bytes) ==
  \/ /\ Len(bytes) < want
     /\ buf' = bytes
     /\ UNCHANGED <<rpc, want, delivered>>
  \/ /\ Len(bytes) = want
     /\ rpc = "header"
     /\ buf' = bytes
     /\ want' \in {WithHeader(size) : size \in SizeIn(bytes)}
     /\ rpc' = "payload"
     /\ UNCHANGED delivered
  \/ /\ Len(bytes) = want
     /\ rpc = "payload"
     /\ delivered' = Append(delivered, Deserialize(bytes))
     /\ buf' = <<>>
     /\ want' = HeaderSize
     /\ rpc' = "header"

\* recvall: one call of recv, which returns any part of what is asked for and
\* there.
RecvSome ==
  /\ rpc # "failed"
  /\ \E m \in 1..Min({want - Len(buf), Len(wire)}) :
       /\ Advance(buf \o SubSeq(wire, 1, m))
       /\ wire' = SubSeq(wire, m + 1, Len(wire))
  /\ UNCHANGED <<senderVars, conn>>

\* recv returns 0 or -1; a packet half received is thrown away.
RecvFails ==
  /\ rpc # "failed"
  /\ wire = <<>>
  /\ conn # "open"
  /\ rpc' = "failed"
  /\ buf' = <<>>
  /\ UNCHANGED <<senderVars, wire, conn, want, delivered>>

-----------------------------------------------------------------------------
Next ==
  \/ \E p \in Packets : StartSend(p)
  \/ SendSome \/ SendFails \/ Finish \/ Break
  \/ RecvSome \/ RecvFails

Spec == Init /\ [][Next]_vars

\* sendall and recvall go on while they can.  Nobody has to send a packet or to
\* end the connection.
FairSpec == Spec /\ WF_vars(SendSome) /\ WF_vars(RecvSome)

-----------------------------------------------------------------------------
(* Properties.                                                             *)

\* Sender and receiver agree on where packets begin, however send and recv cut
\* them up: what the receiver has, the wire and what is still to be sent is a
\* row of whole packets, as long as nothing was cut off.
FramesAligned ==
  conn = "open" =>
    buf \o wire \o out =
      FlattenSeq([i \in 1..(Len(sent) - Len(delivered)) |->
                    Serialize(sent[Len(delivered) + i])])

\* A connection delivers the packets sent, whole and in order, and when it ends
\* in the middle of one nothing that was not sent.
Channel == INSTANCE PacketChannel WITH over <- conn # "open"
WholeInOrder == Channel!SafeSpec

\* As long as the connection is open every packet arrives: neither side waits
\* for bytes the other does not send.
AllArrive == Channel!Spec
=============================================================================
