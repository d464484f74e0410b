----------------------------- MODULE PongPackets -----------------------------
(***************************************************************************)
(* packet_serialize and packet_deserialize of                              *)
(* src/common/cpong_packets.c: which fields a packet has, in which order   *)
(* and at which width.  A packet's data is a function from the names of    *)
(* its fields.  PACKET_PING, which nothing sends, is left out.             *)
(***************************************************************************)
EXTENDS BinArray

PACKET_INPUT == 1
PACKET_INIT == 2
PACKET_STATE == 3
PACKET_HEADER_SIZE == 2 + IntBytes

\* A field name and how it is stored.
Ints(names) == [i \in DOMAIN names |-> <<names[i], "i32">>]
Floats(names) == [i \in DOMAIN names |-> <<names[i], "float">>]

InitFields ==
  Ints(<<"id1", "id2", "own", "score1", "score2">>) \o
  Floats(<<"p1_x", "p1_y", "p1_vx", "p1_vy", "p1_w", "p1_h",
           "p2_x", "p2_y", "p2_vx", "p2_vy", "p2_w", "p2_h",
           "ball_x", "ball_y", "ball_vx", "ball_vy", "ball_w", "ball_h",
           "box_w", "box_h">>)
StateFields ==
  Floats(<<"p1_y", "p1_vx", "p1_vy", "p2_y", "p2_vx", "p2_vy",
           "ball_x", "ball_y", "ball_vx", "ball_vy">>)
InputFields == Ints(<<"input_acc_ms">>)

\* Mutant of Read: the fields of a STATE are read with the two paddles swapped.
ReadSwapped(type) ==
  CASE type = PACKET_INPUT -> InputFields
    [] type = PACKET_INIT -> InitFields
    [] type = PACKET_STATE ->
         SubSeq(StateFields, 4, 6) \o SubSeq(StateFields, 1, 3) \o SubSeq(StateFields, 7, 10)

\* The fields written and the fields read: two lists in the code, which must be
\* the same.
Written(type) ==
  CASE type = PACKET_INPUT -> InputFields
    [] type = PACKET_INIT -> InitFields
    [] type = PACKET_STATE -> StateFields
Read(type) ==
  CASE type = PACKET_INPUT -> InputFields
    [] type = PACKET_INIT -> InitFields
    [] type = PACKET_STATE -> StateFields

\* The int32_t that a field's value is stored as.
Made(field, value) == IF field[2] = "i32" THEN value ELSE ToScale(value)

\* The header with the size left out, the fields, and the size put in.
packet_serialize(packet) ==
  LET header == Skip(append_i8(append_i8(binarr_new, packet.type), packet.sync), IntBytes)
      fields == Written(packet.type)
      upto[i \in 0..Len(fields)] ==
        IF i = 0 THEN header
        ELSE LET value == packet.data[fields[i][1]]
             IN IF fields[i][2] = "i32" THEN append_i32_n(upto[i - 1], value)
                ELSE append_float_n(upto[i - 1], value)
      full == upto[Len(fields)]
  IN write_i32_n([full EXCEPT !.index = 2], full.index - PACKET_HEADER_SIZE).buf

packet_deserialize(buf) ==
  LET arr == [buf |-> buf, size |-> Len(buf), index |-> 0]
      type == read_i8(arr) % ByteBase   \* a uint8_t
      fields == Read(type)
      At(i) == Moved(arr, PACKET_HEADER_SIZE + (i - 1) * IntBytes)
  IN [type |-> type,
      sync |-> read_i8(Moved(arr, 1)),
      size |-> read_i32_n(Moved(arr, 2)),
      data |-> [name \in {fields[i][1] : i \in DOMAIN fields} |->
                  LET i == CHOOSE k \in DOMAIN fields : fields[k][1] = name
                  IN IF fields[i][2] = "i32" THEN read_i32_n(At(i)) ELSE read_float_n(At(i))]]
=============================================================================
