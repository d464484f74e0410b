------------------------- MODULE PacketStreamProofs -------------------------
(***************************************************************************)
(* Theorems about PacketStream, for any packets, sizes and buffer: however *)
(* send and recv cut the bytes up, the receiver knows where packets begin, *)
(* and the connection delivers what was sent, whole and in order.          *)
(***************************************************************************)
EXTENDS PacketStream, SequenceFacts

-----------------------------------------------------------------------------
(* The operators of the model.                                             *)

\* The less of two numbers is at most either.
LEMMA MinFacts ==
  ASSUME NEW a \in Nat, NEW b \in Nat
  PROVE  Min({a, b}) \in Nat /\ Min({a, b}) <= a /\ Min({a, b}) <= b
<1>1. \E x \in {a, b} : \A y \in {a, b} : x <= y
  <2>1. CASE a <= b
    BY <2>1
  <2>2. CASE b <= a
    BY <2>2
  <2>3. QED
    BY <2>1, <2>2
<1>2. Min({a, b}) \in {a, b} /\ \A y \in {a, b} : Min({a, b}) <= y
  BY <1>1, Zenon DEF Min
<1>3. QED
  BY <1>2

\* What packet_serialize makes: as many bytes as the sizes say, and told apart by any
\* part of it that holds the header.
LEMMA SerializeFacts ==
  ASSUME NEW p \in Packets
  PROVE  /\ PayloadSize[p] \in Nat \ {0} /\ HeaderSize \in Nat \ {0}
         /\ SizeOf(p) \in Nat /\ SizeOf(p) = HeaderSize + PayloadSize[p]
         /\ Serialize(p) \in Seq(Byte) /\ Len(Serialize(p)) = SizeOf(p)
         /\ Serialize(p)[1].packet = p
         /\ HeaderSize \in 1..SizeOf(p)
<1>1. /\ PayloadSize[p] \in Nat \ {0} /\ HeaderSize \in Nat \ {0}
      /\ SizeOf(p) \in Nat /\ SizeOf(p) = HeaderSize + PayloadSize[p]
      /\ HeaderSize \in 1..SizeOf(p) /\ 1 \in 1..SizeOf(p)
  BY SizeAssumption DEF SizeOf
<1>2. \A i \in 1..SizeOf(p) : [packet |-> p, at |-> i] \in Byte
  BY DEF Byte
<1>3. Serialize(p) \in [1..SizeOf(p) -> Byte]
  BY <1>2 DEF Serialize
<1>4. Serialize(p) \in Seq(Byte) /\ Len(Serialize(p)) = SizeOf(p)
  <2>1. Serialize(p) \in Seq(Byte)
    BY <1>1, <1>3, SeqDef
  <2>2. DOMAIN Serialize(p) = 1..Len(Serialize(p)) /\ Len(Serialize(p)) \in Nat
    BY <2>1, LenProperties
  <2>3. 1..Len(Serialize(p)) = 1..SizeOf(p)
    BY <1>3, <2>2
  <2>4. QED
    BY <1>1, <2>1, <2>2, <2>3
<1>5. Serialize(p)[1] = [packet |-> p, at |-> 1]
  BY <1>1 DEF Serialize
<1>6. QED
  BY <1>1, <1>4, <1>5

\* The header of a packet: the first bytes, which tell the size of the payload.
LEMMA HeaderFacts ==
  ASSUME NEW p \in Packets
  PROVE  SizeIn(SubSeq(Serialize(p), 1, HeaderSize)) = {PayloadSize[p]}
<1>1. SubSeq(Serialize(p), 1, HeaderSize)[1].packet = p
  <2>1. /\ Serialize(p) \in Seq(Byte) /\ Len(Serialize(p)) \in Nat
        /\ HeaderSize \in 1..Len(Serialize(p))
        /\ \A i \in 1..HeaderSize : Serialize(p)[i] \in Byte
    BY SerializeFacts, ElementOfSeq
  <2>2. SubSeq(Serialize(p), 1, HeaderSize)[1] = Serialize(p)[1]
    BY <2>1, SubSeqProperties
  <2>3. QED
    BY <2>2, SerializeFacts
<1>2. QED
  BY <1>1 DEF SizeIn, SizeField

\* packet_deserialize undoes packet_serialize, and makes a packet or nothing of any
\* other bytes.
LEMMA DeserializeFacts ==
  /\ \A p \in Packets : Deserialize(Serialize(p)) = p
  /\ \A bytes : Deserialize(bytes) \in Packets \cup {Garbled}
BY SerializeFacts DEF Deserialize

\* The size a header announces, once the header has arrived.
LEMMA SizeInFacts ==
  ASSUME NEW header
  PROVE  SizeIn(header) \subseteq Nat \ {0}
<1>1. \A p \in Packets : PayloadSize[p] \in Nat \ {0}
  BY SizeAssumption
<1>2. CASE \E p \in Packets : header = SubSeq(Serialize(p), 1, HeaderSize)
  <2>1. PICK p \in Packets : header = SubSeq(Serialize(p), 1, HeaderSize)
    BY <1>2
  <2>2. QED
    BY <1>1, <2>1, HeaderFacts
<1>3. CASE ~ \E p \in Packets : header = SubSeq(Serialize(p), 1, HeaderSize)
  BY <1>1, <1>3 DEF SizeIn, Sizes
<1>4. QED
  BY <1>2, <1>3

-----------------------------------------------------------------------------
(* Bytes on their way.                                                     *)

\* One call of send or recv moves the first part x of b over to a.
LEMMA MoveFacts ==
  ASSUME NEW S, NEW a \in Seq(S), NEW b \in Seq(S), NEW c \in Seq(S),
         NEW x \in Seq(S), NEW y \in Seq(S), Cat(x, y) = b
  PROVE  /\ Cat(a, x) \in Seq(S) /\ Len(Cat(a, x)) = Len(a) + Len(x)
         /\ Cat(Cat(a, x), y) = Cat(a, b)
         /\ Cat(Cat(c, Cat(a, x)), y) = Cat(Cat(c, a), b)
<1>1. Cat(a, x) \in Seq(S) /\ Len(Cat(a, x)) = Len(a) + Len(x)
  BY CatFacts
<1>2. Cat(Cat(a, x), y) = Cat(a, Cat(x, y))
  BY CatFacts
<1>3. Cat(Cat(c, Cat(a, x)), y) = Cat(c, Cat(Cat(a, x), y))
  BY <1>1, CatFacts
<1>4. Cat(Cat(c, a), b) = Cat(c, Cat(a, b))
  BY CatFacts
<1>5. QED
  BY <1>1, <1>2, <1>3, <1>4

\* The packets sent and not delivered, as the bytes of each.
Pending ==
  [i \in 1..(Len(sent) - Len(delivered)) |-> Serialize(sent[Len(delivered) + i])]

\* What the stream is made of: FramesAligned as long as nothing was cut off, and how
\* many bytes the receiver wants where it is.
StreamInv ==
  /\ TypeOK
  /\ Len(delivered) <= Len(sent)
  /\ spc # "sending" => out = <<>>
  /\ rpc = "failed" => conn # "open"
  /\ conn = "reset" => wire = <<>>
  /\ rpc = "header" => want = HeaderSize
  /\ (rpc = "payload" /\ conn # "reset") =>
       Len(delivered) < Len(sent) /\ want = SizeOf(sent[Len(delivered) + 1])
  /\ (rpc # "failed" /\ conn # "reset") => buf \o wire \o out = FlattenSeq(Pending)

\* What TypeOK says of the sequences, once.
LEMMA StreamTypes ==
  ASSUME StreamInv
  PROVE  /\ buf \in Seq(Byte) /\ wire \in Seq(Byte) /\ out \in Seq(Byte)
         /\ sent \in Seq(Packets) /\ delivered \in Seq(Packets \cup {Garbled})
         /\ Len(buf) \in Nat /\ Len(wire) \in Nat /\ Len(out) \in Nat
         /\ Len(sent) \in Nat /\ Len(delivered) \in Nat
         /\ Len(delivered) <= Len(sent)
         /\ want \in Nat /\ Len(buf) < want /\ Len(wire) <= Buffer
         /\ HeaderSize \in Nat \ {0} /\ Buffer \in Nat \ {0}
         /\ Pending \in Seq(Seq(Byte)) /\ Len(Pending) = Len(sent) - Len(delivered)
<1>1. /\ buf \in Seq(Byte) /\ wire \in Seq(Byte) /\ out \in Seq(Byte)
      /\ sent \in Seq(Packets) /\ delivered \in Seq(Packets \cup {Garbled})
      /\ want \in Nat /\ Len(buf) < want /\ Len(wire) <= Buffer
      /\ Len(delivered) <= Len(sent)
  BY DEF StreamInv, TypeOK
<1>2. /\ Len(buf) \in Nat /\ Len(wire) \in Nat /\ Len(out) \in Nat
      /\ Len(sent) \in Nat /\ Len(delivered) \in Nat
      /\ \A i \in 1..Len(sent) : sent[i] \in Packets
  BY <1>1, LenProperties, ElementOfSeq
<1>3. Pending \in Seq(Seq(Byte)) /\ Len(Pending) = Len(sent) - Len(delivered)
  <2> DEFINE n == Len(sent) - Len(delivered)
  <2>1. n \in Nat
    BY <1>1, <1>2
  <2>2. \A i \in 1..n : Serialize(sent[Len(delivered) + i]) \in Seq(Byte)
    <3> TAKE i \in 1..n
    <3>1. Len(delivered) + i \in 1..Len(sent)
      BY <1>1, <1>2
    <3>2. sent[Len(delivered) + i] \in Packets
      BY <1>2, <3>1
    <3>3. QED
      BY <3>2, SerializeFacts
  <2>3. Pending \in [1..n -> Seq(Byte)]
    BY <2>2 DEF Pending
  <2>4. Pending \in Seq(Seq(Byte))
    <3> HIDE DEF n
    <3> QED
      BY <2>1, <2>3, SeqDef
  <2>5. DOMAIN Pending = 1..Len(Pending) /\ Len(Pending) \in Nat
    BY <2>4, LenProperties
  <2>6. 1..Len(Pending) = 1..n
    BY <2>3, <2>5
  <2> HIDE DEF n
  <2>7. Len(Pending) = n
    BY <2>1, <2>5, <2>6, SameCount
  <2>8. QED
    BY <2>4, <2>7 DEF n
<1>4. QED
  BY <1>1, <1>2, <1>3, SizeAssumption

\* At the start nothing was sent and nothing has arrived.
LEMMA StreamInit == Init => StreamInv
<1> SUFFICES ASSUME Init PROVE StreamInv
  OBVIOUS
<1>1. /\ Len(<<>>) = 0 /\ <<>> \in Seq(Byte) /\ <<>> \in Seq(Packets)
      /\ <<>> \in Seq(Packets \cup {Garbled})
  BY EmptySeq
<1>2. TypeOK
  BY <1>1, SizeAssumption DEF Init, TypeOK
<1>3. buf \o wire \o out = FlattenSeq(Pending)
  <2>1. Pending = <<>>
    BY <1>1 DEF Init, Pending
  <2>2. FlattenSeq(Pending) = <<>>
    BY <2>1, <1>1 DEF FlattenSeq
  <2>3. QED
    BY <1>1, <2>2, ConcatEmptySeq DEF Init
<1>4. QED
  BY <1>1, <1>2, <1>3 DEF Init, StreamInv

\* A packet handed to sendall is one more packet pending.
LEMMA StartSendKeeps ==
  ASSUME StreamInv, NEW p \in Packets, StartSend(p)
  PROVE  StreamInv'
<1>1. /\ out = <<>> /\ out' = Serialize(p) /\ sent' = Append(sent, p)
      /\ UNCHANGED <<wire, conn, rpc, buf, want, delivered>>
      /\ spc' = "sending" /\ conn = "open"
  BY DEF StartSend, StreamInv, receiverVars
<1>2. /\ sent' \in Seq(Packets) /\ Len(sent') = Len(sent) + 1
      /\ \A i \in 1..Len(sent) : sent'[i] = sent[i]
      /\ sent'[Len(sent) + 1] = p
  BY <1>1, StreamTypes, AppendFacts
<1>3. TypeOK'
  BY <1>1, <1>2, SerializeFacts DEF StreamInv, TypeOK
<1>4. Pending' = Append(Pending, Serialize(p))
  <2> DEFINE n == Len(sent) - Len(delivered)
  <2>1. n \in Nat /\ Len(Pending) = n /\ Pending \in Seq(Seq(Byte))
        /\ Len(sent') - Len(delivered') = n + 1
    BY <1>1, <1>2, StreamTypes
  <2>2. Serialize(p) \in Seq(Byte)
    BY SerializeFacts
  <2>3. /\ Append(Pending, Serialize(p)) \in [1..(n + 1) -> Seq(Byte)]
        /\ \A i \in 1..n : Append(Pending, Serialize(p))[i] = Pending[i]
        /\ Append(Pending, Serialize(p))[n + 1] = Serialize(p)
    <3>1. /\ Append(Pending, Serialize(p)) \in Seq(Seq(Byte))
          /\ Len(Append(Pending, Serialize(p))) = Len(Pending) + 1
          /\ \A i \in 1..Len(Pending) : Append(Pending, Serialize(p))[i] = Pending[i]
          /\ Append(Pending, Serialize(p))[Len(Pending) + 1] = Serialize(p)
      BY <2>1, <2>2, AppendFacts
    <3>2. Append(Pending, Serialize(p))
            \in [1..Len(Append(Pending, Serialize(p))) -> Seq(Byte)]
      BY <3>1, LenProperties
    <3> HIDE DEF n
    <3>3. QED
      BY <2>1, <3>1, <3>2
  <2>4. ASSUME NEW i \in 1..(n + 1)
        PROVE  Serialize(sent'[Len(delivered') + i]) = Append(Pending, Serialize(p))[i]
    <3>1. CASE i = n + 1
      <4>1. Len(delivered') + i = Len(sent) + 1
        BY <1>1, <3>1, StreamTypes
      <4>2. QED
        BY <1>2, <2>3, <3>1, <4>1
    <3>2. CASE i \in 1..n
      <4>1. Len(delivered') + i = Len(delivered) + i /\ Len(delivered) + i \in 1..Len(sent)
        BY <1>1, <3>2, StreamTypes
      <4>2. sent'[Len(delivered) + i] = sent[Len(delivered) + i]
        BY <1>2, <4>1
      <4>3. Pending[i] = Serialize(sent[Len(delivered) + i])
        BY <3>2 DEF Pending
      <4>4. QED
        <5>1. PICK q : q = sent[Len(delivered) + i]
          OBVIOUS
        <5>2. Serialize(sent'[Len(delivered') + i]) = Serialize(q)
          BY <4>1, <4>2, <5>1
        <5>3. Append(Pending, Serialize(p))[i] = Serialize(q)
          BY <2>3, <3>2, <4>3, <5>1
        <5>4. QED
          BY <5>2, <5>3
    <3>3. i = n + 1 \/ i \in 1..n
      <4> HIDE DEF n
      <4> QED
        BY <2>1
    <3>4. QED
      BY <3>1, <3>2, <3>3, Zenon
  <2>5. Pending' = [i \in 1..(n + 1) |-> Serialize(sent'[Len(delivered') + i])]
    BY <2>1 DEF Pending
  <2> HIDE DEF n
  <2>6. QED
    BY <2>3, <2>4, <2>5
<1>5. ASSUME rpc # "failed", buf \o wire \o out = FlattenSeq(Pending)
      PROVE  buf \o wire \o out' = FlattenSeq(Pending')
  <2>1. FlattenSeq(Pending') = FlattenSeq(Pending) \o Serialize(p)
    BY <1>4, StreamTypes, SerializeFacts, FlattenAppend
  <2>2. buf \o wire \in Seq(Byte)
    BY StreamTypes, ConcatProperties
  <2>3. FlattenSeq(Pending) = buf \o wire
    BY <1>1, <1>5, <2>2, ConcatEmptySeq
  <2>4. QED
    BY <1>1, <2>1, <2>3
<1>6. (rpc = "payload" /\ conn # "reset") =>
        Len(delivered) < Len(sent') /\ sent'[Len(delivered) + 1] = sent[Len(delivered) + 1]
  <2>1. SUFFICES ASSUME rpc = "payload", conn # "reset"
                 PROVE  Len(delivered) < Len(sent')
                        /\ sent'[Len(delivered) + 1] = sent[Len(delivered) + 1]
    OBVIOUS
  <2>2. Len(delivered) + 1 \in 1..Len(sent)
    BY <2>1, StreamTypes, SMTT(30) DEF StreamInv
  <2>3. QED
    BY <1>2, <2>2, StreamTypes
<1>7. Len(delivered') <= Len(sent') /\ Len(delivered') = Len(delivered)
  BY <1>1, <1>2, StreamTypes
<1>8. (rpc' = "payload" /\ conn' # "reset") =>
        Len(delivered') < Len(sent') /\ want' = SizeOf(sent'[Len(delivered') + 1])
  BY <1>1, <1>6 DEF StreamInv
<1>9. (rpc' # "failed" /\ conn' # "reset") => buf' \o wire' \o out' = FlattenSeq(Pending')
  BY <1>1, <1>5 DEF StreamInv
<1>10. QED
  BY <1>1, <1>3, <1>7, <1>8, <1>9 DEF StreamInv

\* What send takes is on the wire instead.
LEMMA SendSomeKeeps ==
  ASSUME StreamInv, SendSome
  PROVE  StreamInv'
<1>1. PICK m \in Parts : wire' = wire \o SubSeq(out, 1, m) /\ out' = Rest(m)
  BY DEF SendSome
<1>2. /\ spc' = IF out' = <<>> THEN "idle" ELSE "sending"
      /\ UNCHANGED <<sent, conn, rpc, buf, want, delivered>> /\ conn = "open"
  BY DEF SendSome, receiverVars
<1>3. m \in 0..Len(out) /\ Len(wire) + m <= Buffer
  <2>1. Buffer - Len(wire) \in Nat /\ Len(out) \in Nat /\ Len(wire) \in Nat
    BY StreamTypes
  <2>2. m \in 1..Min({Len(out), Buffer - Len(wire)})
    BY <1>1 DEF Parts
  <2>3. /\ Min({Len(out), Buffer - Len(wire)}) \in Nat
        /\ Min({Len(out), Buffer - Len(wire)}) <= Len(out)
        /\ Min({Len(out), Buffer - Len(wire)}) <= Buffer - Len(wire)
    BY <2>1, MinFacts
  <2>4. QED
    BY <2>1, <2>2, <2>3, StreamTypes
<1>4. PICK x, y \in Seq(Byte) :
        Cat(x, y) = out /\ Len(x) = m /\ wire' = Cat(wire, x) /\ out' = y
  <2>1. /\ SubSeq(out, 1, m) \in Seq(Byte) /\ SubSeq(out, m + 1, Len(out)) \in Seq(Byte)
        /\ Len(SubSeq(out, 1, m)) = m
        /\ SubSeq(out, 1, m) \o SubSeq(out, m + 1, Len(out)) = out
    BY <1>3, StreamTypes, CutFacts, ZenonT(30)
  <2>2. QED
    BY <1>1, <2>1, Zenon DEF Rest, Cat
<1>5. /\ wire' \in Seq(Byte) /\ Len(wire') = Len(wire) + m /\ out' \in Seq(Byte)
      /\ Cat(Cat(buf, wire'), out') = Cat(Cat(buf, wire), out)
  <2>1. wire \in Seq(Byte) /\ out \in Seq(Byte) /\ buf \in Seq(Byte)
    BY StreamTypes
  <2>2. /\ Cat(wire, x) \in Seq(Byte) /\ Len(Cat(wire, x)) = Len(wire) + Len(x)
        /\ Cat(Cat(buf, Cat(wire, x)), y) = Cat(Cat(buf, wire), out)
    <3>1. Cat(x, y) = out
      BY <1>4
    <3>2. QED
      BY <2>1, <3>1, MoveFacts
  <2>3. QED
    BY <1>4, <2>2, Zenon
<1>6. TypeOK'
  BY <1>2, <1>3, <1>5 DEF StreamInv, TypeOK
<1>7. Pending' = Pending
  BY <1>2 DEF Pending
<1>8. buf' \o wire' \o out' = buf \o wire \o out
  BY <1>2, <1>5, Zenon DEF Cat
<1>9. QED
  BY <1>2, <1>6, <1>7, <1>8 DEF StreamInv

\* What is pending begins with the packet to be delivered next.
LEMMA FirstPending ==
  ASSUME StreamInv, Len(delivered) < Len(sent)
  PROVE  /\ sent[Len(delivered) + 1] \in Packets
         /\ Pending # <<>> /\ Tail(Pending) \in Seq(Seq(Byte))
         /\ FlattenSeq(Tail(Pending)) \in Seq(Byte)
         /\ FlattenSeq(Pending)
              = Cat(Serialize(sent[Len(delivered) + 1]), FlattenSeq(Tail(Pending)))
<1>1. Len(delivered) + 1 \in 1..Len(sent) /\ sent \in Seq(Packets)
  BY StreamTypes
<1>2. sent[Len(delivered) + 1] \in Packets
  BY <1>1, ElementOfSeq
<1>3. /\ Pending \in Seq(Seq(Byte)) /\ Len(Pending) \in Nat /\ Len(Pending) # 0
      /\ 1 \in 1..(Len(sent) - Len(delivered))
  BY StreamTypes
<1>4. Pending # <<>>
  BY <1>3, EmptySeq
<1>5. Pending[1] = Serialize(sent[Len(delivered) + 1])
  BY <1>3 DEF Pending
<1>6. Tail(Pending) \in Seq(Seq(Byte))
  BY <1>3, <1>4, HeadTailProperties
<1>7. FlattenSeq(Pending) = Pending[1] \o FlattenSeq(Tail(Pending))
  BY <1>3, <1>4, FlattenFirst
<1>8. QED
  BY <1>2, <1>4, <1>5, <1>6, <1>7, FlattenType DEF Cat

\* As many bytes as a header, of a stream that begins with a packet, are its header.
LEMMA HeaderRead ==
  ASSUME NEW p \in Packets, NEW bytes \in Seq(Byte), NEW rest \in Seq(Byte),
         NEW others \in Seq(Byte), Len(bytes) = HeaderSize,
         Cat(bytes, rest) = Cat(Serialize(p), others)
  PROVE  bytes = SubSeq(Serialize(p), 1, HeaderSize)
<1>1. PICK x, y \in Seq(Byte) :
        x = SubSeq(Serialize(p), 1, HeaderSize) /\ Len(x) = HeaderSize
        /\ Cat(x, y) = Serialize(p)
  <2>1. Serialize(p) \in Seq(Byte) /\ HeaderSize \in 0..Len(Serialize(p))
    BY SerializeFacts
  <2>2. /\ SubSeq(Serialize(p), 1, HeaderSize) \in Seq(Byte)
        /\ SubSeq(Serialize(p), HeaderSize + 1, Len(Serialize(p))) \in Seq(Byte)
        /\ Len(SubSeq(Serialize(p), 1, HeaderSize)) = HeaderSize
        /\ SubSeq(Serialize(p), 1, HeaderSize)
              \o SubSeq(Serialize(p), HeaderSize + 1, Len(Serialize(p))) = Serialize(p)
    BY <2>1, CutFacts, ZenonT(30)
  <2>3. QED
    BY <2>2, Zenon DEF Cat
<1>2. Cat(Serialize(p), others) = Cat(x, Cat(y, others)) /\ Cat(y, others) \in Seq(Byte)
  <2>1. Cat(y, others) \in Seq(Byte) /\ Cat(Cat(x, y), others) = Cat(x, Cat(y, others))
    BY CatFacts
  <2>2. QED
    BY <1>1, <2>1
<1>3. bytes \o rest = x \o Cat(y, others)
  BY <1>2 DEF Cat
<1>4. bytes = x
  BY <1>1, <1>2, <1>3, SamePrefix
<1>5. QED
  BY <1>1, <1>4

\* What recv returns is with the receiver: a part of a header or of a payload, a whole
\* header, which tells the size of the payload, or a whole packet, the one sent.
LEMMA RecvSomeKeeps ==
  ASSUME StreamInv, RecvSome
  PROVE  /\ StreamInv'
         /\ \/ delivered' = delivered
            \/ /\ Len(delivered) < Len(sent)
               /\ delivered' = Append(delivered, sent[Len(delivered) + 1])
<1>1. PICK m \in 1..Min({want - Len(buf), Len(wire)}) :
        /\ Advance(buf \o SubSeq(wire, 1, m))
        /\ wire' = SubSeq(wire, m + 1, Len(wire))
  BY DEF RecvSome
<1>2. rpc # "failed" /\ UNCHANGED <<spc, out, sent, conn>>
  BY DEF RecvSome, senderVars
<1>3. m \in 1..Len(wire) /\ m <= want - Len(buf) /\ Len(wire) \in Nat
  <2>1. want - Len(buf) \in Nat /\ Len(wire) \in Nat
    BY StreamTypes
  <2>2. /\ Min({want - Len(buf), Len(wire)}) \in Nat
        /\ Min({want - Len(buf), Len(wire)}) <= want - Len(buf)
        /\ Min({want - Len(buf), Len(wire)}) <= Len(wire)
    BY <2>1, MinFacts
  <2>3. QED
    BY <2>1, <2>2
<1>4. conn # "reset"
  BY <1>3, EmptySeq DEF StreamInv
<1>5. PICK x, y \in Seq(Byte) :
        /\ Cat(x, y) = wire /\ Len(x) = m /\ wire' = y /\ Advance(Cat(buf, x))
        /\ Len(y) = Len(wire) - m
  <2>1. /\ SubSeq(wire, 1, m) \in Seq(Byte) /\ SubSeq(wire, m + 1, Len(wire)) \in Seq(Byte)
        /\ Len(SubSeq(wire, 1, m)) = m
        /\ Len(SubSeq(wire, m + 1, Len(wire))) = Len(wire) - m
        /\ SubSeq(wire, 1, m) \o SubSeq(wire, m + 1, Len(wire)) = wire
    <3>1. wire \in Seq(Byte) /\ m \in 0..Len(wire)
      BY <1>3, StreamTypes
    <3>2. QED
      BY <3>1, CutFacts
  <2>2. QED
    BY <1>1, <2>1, Zenon DEF Cat
<1>6. PICK bytes \in Seq(Byte) :
        /\ bytes = Cat(buf, x) /\ Len(bytes) = Len(buf) + m /\ Cat(bytes, y) = Cat(buf, wire)
  <2>1. buf \in Seq(Byte) /\ wire \in Seq(Byte) /\ Cat(x, y) = wire
    BY <1>5, StreamTypes
  <2>2. /\ Cat(buf, x) \in Seq(Byte) /\ Len(Cat(buf, x)) = Len(buf) + Len(x)
        /\ Cat(Cat(buf, x), y) = Cat(buf, wire)
    BY <2>1, MoveFacts
  <2>3. QED
    BY <1>5, <2>2, Zenon
<1>7. Len(bytes) >= 1 /\ Len(bytes) <= want /\ Len(bytes) \in Nat
  BY <1>3, <1>6, StreamTypes
<1>8. /\ Cat(Cat(bytes, y), out) = FlattenSeq(Pending)
      /\ Cat(bytes, Cat(y, out)) = FlattenSeq(Pending) /\ Cat(y, out) \in Seq(Byte)
  <2>1. Cat(Cat(buf, wire), out) = FlattenSeq(Pending)
    BY <1>2, <1>4, Zenon DEF StreamInv, Cat
  <2>2. out \in Seq(Byte)
    BY StreamTypes
  <2>3. Cat(y, out) \in Seq(Byte) /\ Cat(bytes, Cat(y, out)) = Cat(Cat(bytes, y), out)
    BY <2>2, CatFacts
  <2>4. QED
    BY <1>6, <2>1, <2>3
<1>9. wire' \in Seq(Byte) /\ Len(wire') <= Buffer
  BY <1>3, <1>5, StreamTypes
<1>10. Advance(bytes)
  BY <1>5, <1>6
<1>11. CASE /\ Len(bytes) < want
            /\ buf' = bytes
            /\ UNCHANGED <<rpc, want, delivered>>
  <2>1. TypeOK'
    BY <1>2, <1>9, <1>11 DEF StreamInv, TypeOK
  <2>2. Pending' = Pending
    BY <1>2, <1>11 DEF Pending
  <2>3. buf' \o wire' \o out' = FlattenSeq(Pending')
    BY <1>2, <1>5, <1>8, <1>11, <2>2, Zenon DEF Cat
  <2>4. QED
    BY <1>2, <1>4, <1>11, <2>1, <2>3 DEF StreamInv
<1>12. CASE /\ Len(bytes) = want
            /\ rpc = "header"
            /\ buf' = bytes
            /\ want' \in {WithHeader(size) : size \in SizeIn(bytes)}
            /\ rpc' = "payload"
            /\ UNCHANGED delivered
  <2>1. Len(bytes) = HeaderSize /\ HeaderSize \in Nat
    BY <1>12, StreamTypes DEF StreamInv
  <2>2. Len(delivered) < Len(sent)
    <3>1. SUFFICES ASSUME Len(delivered) >= Len(sent) PROVE FALSE
      BY StreamTypes
    <3>2. Pending = <<>>
      BY <3>1, StreamTypes, NoElements
    <3>3. FlattenSeq(Pending) = <<>> /\ Len(<<>>) = 0
      BY <3>2, EmptySeq DEF FlattenSeq
    <3>4. Len(Cat(bytes, Cat(y, out))) = Len(bytes) + Len(Cat(y, out)) /\ Len(Cat(y, out)) \in Nat
      BY <1>8, CatFacts, LenProperties
    <3>5. QED
      BY <1>7, <1>8, <3>3, <3>4
  <2>3. PICK p \in Packets : p = sent[Len(delivered) + 1]
    BY <2>2, FirstPending
  <2>4. bytes = SubSeq(Serialize(p), 1, HeaderSize)
    <3>1. PICK others \in Seq(Byte) : FlattenSeq(Pending) = Cat(Serialize(p), others)
      BY <2>2, <2>3, FirstPending
    <3>2. Cat(bytes, Cat(y, out)) = Cat(Serialize(p), others)
      BY <1>8, <3>1
    <3>3. QED
      BY <1>8, <2>1, <3>2, HeaderRead
  <2>5. want' = SizeOf(p) /\ want' \in Nat /\ HeaderSize < want'
    <3>1. SizeIn(bytes) = {PayloadSize[p]}
      BY <2>4, HeaderFacts
    <3>2. want' = HeaderSize + PayloadSize[p]
      BY <1>12, <3>1 DEF WithHeader
    <3>3. QED
      BY <3>2, SerializeFacts
  <2>6. TypeOK'
    BY <1>2, <1>9, <1>12, <2>1, <2>5 DEF StreamInv, TypeOK
  <2>7. Pending' = Pending
    BY <1>2, <1>12 DEF Pending
  <2>8. buf' \o wire' \o out' = FlattenSeq(Pending')
    BY <1>2, <1>5, <1>8, <1>12, <2>7, Zenon DEF Cat
  <2>9. QED
    BY <1>2, <1>4, <1>12, <2>2, <2>3, <2>5, <2>6, <2>8 DEF StreamInv
<1>13. CASE /\ Len(bytes) = want
            /\ rpc = "payload"
            /\ delivered' = Append(delivered, Deserialize(bytes))
            /\ buf' = <<>>
            /\ want' = HeaderSize
            /\ rpc' = "header"
  <2>1. Len(delivered) < Len(sent) /\ want = SizeOf(sent[Len(delivered) + 1])
    BY <1>4, <1>13 DEF StreamInv
  <2>2. PICK p \in Packets : p = sent[Len(delivered) + 1]
    BY <2>1, FirstPending
  <2>3. PICK others \in Seq(Byte) :
          others = FlattenSeq(Tail(Pending)) /\ FlattenSeq(Pending) = Cat(Serialize(p), others)
    BY <2>1, <2>2, FirstPending
  <2>4. bytes = Serialize(p) /\ Cat(y, out) = others
    <3>1. bytes \o Cat(y, out) = Serialize(p) \o others
      BY <1>8, <2>3 DEF Cat
    <3>2. Serialize(p) \in Seq(Byte) /\ Len(bytes) = Len(Serialize(p))
      BY <1>13, <2>1, <2>2, SerializeFacts
    <3>3. QED
      BY <1>8, <3>1, <3>2, SamePrefix
  <2>5. delivered' = Append(delivered, p)
    BY <1>13, <2>4, DeserializeFacts
  <2>6. /\ delivered' \in Seq(Packets \cup {Garbled}) /\ Len(delivered') = Len(delivered) + 1
        /\ Len(delivered') <= Len(sent)
    BY <2>1, <2>5, StreamTypes, AppendFacts
  <2>7. TypeOK'
    <3>1. buf' \in Seq(Byte) /\ Len(buf') = 0 /\ want' \in Nat /\ 0 < want'
      BY <1>13, StreamTypes, EmptySeq, SMTT(30)
    <3>2. QED
      BY <1>2, <1>9, <1>13, <2>6, <3>1 DEF StreamInv, TypeOK
  <2>8. Pending' = Tail(Pending)
    <3> DEFINE n == Len(sent) - Len(delivered)
    <3>1. /\ Len(Pending) = n /\ n \in Nat /\ Pending \in Seq(Seq(Byte)) /\ Pending # <<>>
      BY <2>1, StreamTypes, FirstPending
    <3>2. /\ Tail(Pending) \in Seq(Seq(Byte)) /\ Len(Tail(Pending)) = n - 1
          /\ \A i \in 1..(n - 1) : Tail(Pending)[i] = Pending[i + 1]
      <4> HIDE DEF n
      <4> QED
        BY <3>1, TailFacts
    <3>3. Tail(Pending) \in [1..(n - 1) -> Seq(Byte)]
      <4> HIDE DEF n
      <4> QED
        BY <3>2, LenProperties
    <3>4. Len(sent') - Len(delivered') = n - 1
      BY <1>2, <2>6, StreamTypes
    <3>5. ASSUME NEW i \in 1..(n - 1)
          PROVE  Serialize(sent'[Len(delivered') + i]) = Tail(Pending)[i]
      <4>1. /\ i + 1 \in 1..n /\ Len(delivered') + i = Len(delivered) + (i + 1)
        BY <2>6, <3>1, StreamTypes
      <4>2. Pending[i + 1] = Serialize(sent[Len(delivered) + (i + 1)])
        BY <4>1 DEF Pending
      <4>3. QED
        BY <1>2, <3>2, <4>1, <4>2
    <3>6. Pending' = [i \in 1..(n - 1) |-> Serialize(sent'[Len(delivered') + i])]
      BY <3>4 DEF Pending
    <3> HIDE DEF n
    <3>7. QED
      BY <3>3, <3>5, <3>6
  <2>9. buf' \o wire' \o out' = FlattenSeq(Pending')
    <3>1. <<>> \o y = y
      BY ConcatEmptySeq
    <3>2. QED
      BY <1>2, <1>5, <1>13, <2>3, <2>4, <2>8, <3>1, Zenon DEF Cat
  <2>10. QED
    BY <1>2, <1>4, <1>13, <2>1, <2>2, <2>5, <2>6, <2>7, <2>9 DEF StreamInv
<1>14. QED
  BY <1>10, <1>11, <1>12, <1>13 DEF Advance

\* Every step of the server and of the clients keeps the invariant.
LEMMA StreamStep == StreamInv /\ [Next]_vars => StreamInv'
<1> SUFFICES ASSUME StreamInv, [Next]_vars PROVE StreamInv'
  OBVIOUS
<1>1. ASSUME NEW p \in Packets, StartSend(p) PROVE StreamInv'
  BY <1>1, StartSendKeeps
<1>2. CASE SendSome
  BY <1>2, SendSomeKeeps
<1>3. CASE SendFails
  <2>1. <<>> \in Seq(Byte)
    BY EmptySeq
  <2>2. Pending' = Pending
    BY <1>3 DEF SendFails, receiverVars, Pending
  <2>3. QED
    BY <1>3, <2>1, <2>2 DEF SendFails, receiverVars, StreamInv, TypeOK
<1>4. CASE Finish
  <2>1. Pending' = Pending
    BY <1>4 DEF Finish, senderVars, receiverVars, Pending
  <2>2. QED
    BY <1>4, <2>1 DEF Finish, senderVars, receiverVars, StreamInv, TypeOK
<1>5. CASE Break
  <2>1. <<>> \in Seq(Byte) /\ Len(<<>>) = 0
    BY EmptySeq
  <2>2. QED
    BY <1>5, <2>1, StreamTypes DEF Break, senderVars, receiverVars, StreamInv, TypeOK
<1>6. CASE RecvSome
  BY <1>6, RecvSomeKeeps
<1>7. CASE RecvFails
  <2>1. <<>> \in Seq(Byte) /\ Len(<<>>) = 0 /\ 0 < want
    BY StreamTypes, EmptySeq
  <2>2. QED
    BY <1>7, <2>1 DEF RecvFails, senderVars, StreamInv, TypeOK
<1>8. CASE UNCHANGED vars
  <2>1. Pending' = Pending
    BY <1>8 DEF vars, senderVars, receiverVars, Pending
  <2>2. QED
    BY <1>8, <2>1 DEF vars, senderVars, receiverVars, StreamInv, TypeOK
<1>9. QED
  BY <1>1, <1>2, <1>3, <1>4, <1>5, <1>6, <1>7, <1>8 DEF Next

-----------------------------------------------------------------------------
(* The theorems.                                                           *)

\* Every variable keeps its type; the receiver never has more bytes than it asked for.
THEOREM TypeCorrect == Spec => []TypeOK
<1>1. StreamInv => TypeOK
  BY DEF StreamInv
<1>2. QED
  BY <1>1, StreamInit, StreamStep, PTL DEF Spec

\* As long as the connection is open the bytes that the receiver has, those on the wire
\* and those sendall still has are a row of whole packets: recv_packet and
\* server_send_packet agree on where a packet begins.
THEOREM AlwaysAligned == Spec => []FramesAligned
<1>1. StreamInv => FramesAligned
  BY DEF StreamInv, FramesAligned, Pending
<1>2. QED
  BY <1>1, StreamInit, StreamStep, PTL DEF Spec

\* sendall, recvall and recv_packet implement a connection that delivers the packets
\* sent, whole and in order, and nothing else when it ends in the middle of one.
THEOREM DeliversWholeInOrder == Spec => WholeInOrder
<1>1. Init => Channel!Init
  BY DEF Init, Channel!Init
<1>2. StreamInv /\ [Next]_vars => [Channel!Next]_Channel!channelVars
  <2> SUFFICES ASSUME StreamInv, [Next]_vars
               PROVE  Channel!Next \/ UNCHANGED Channel!channelVars
    OBVIOUS
  <2> USE DEF Channel!Next, Channel!channelVars
  <2>1. ASSUME NEW p \in Packets, StartSend(p) PROVE Channel!Send(p)
    BY <2>1 DEF StartSend, receiverVars, Channel!Send
  <2>2. CASE SendSome
    BY <2>2 DEF SendSome, receiverVars
  <2>3. CASE SendFails
    BY <2>3 DEF SendFails, receiverVars
  <2>4. CASE Finish
    BY <2>4 DEF Finish, senderVars, receiverVars, Channel!End
  <2>5. CASE Break
    BY <2>5 DEF Break, senderVars, receiverVars, Channel!End
  <2>6. CASE RecvSome
    <3>1. UNCHANGED <<sent, conn>>
      BY <2>6 DEF RecvSome, senderVars
    <3>2. CASE delivered' = delivered
      BY <3>1, <3>2
    <3>3. CASE /\ Len(delivered) < Len(sent)
               /\ delivered' = Append(delivered, sent[Len(delivered) + 1])
      BY <3>1, <3>3 DEF Channel!Deliver
    <3>4. QED
      BY <2>6, <3>2, <3>3, RecvSomeKeeps
  <2>7. CASE RecvFails
    BY <2>7 DEF RecvFails, senderVars
  <2>8. CASE UNCHANGED vars
    BY <2>8 DEF vars, senderVars, receiverVars
  <2>9. QED
    BY <2>1, <2>2, <2>3, <2>4, <2>5, <2>6, <2>7, <2>8 DEF Next
<1>3. QED
  BY <1>1, <1>2, StreamInit, StreamStep, PTL DEF Spec, WholeInOrder, Channel!SafeSpec
=============================================================================
