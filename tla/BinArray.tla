------------------------------- MODULE BinArray -------------------------------
(***************************************************************************)
(* src/include/krft/bin_array.h: numbers to bytes and back.  The memory is *)
(* a sequence of bytes; a number takes IntBytes of them, in the host's     *)
(* order (the least significant first) or, with the suffix _n, in the      *)
(* network's.  `float' is a number of grid steps, Steps of them to one;    *)
(* what is stored of it is an int with FLOAT_SCALE to one.                 *)
(***************************************************************************)
EXTENDS Integers, Sequences, SequencesExt

CONSTANTS
  ByteBase,     \* values of a byte (256)
  IntBytes,     \* bytes of an int32_t (4)
  FLOAT_SCALE,  \* 10000
  Steps         \* grid steps to one

ASSUME WidthAssumption ==
  /\ ByteBase \in Nat \ {0, 1} /\ IntBytes \in Nat \ {0}
  /\ FLOAT_SCALE \in Nat \ {0} /\ Steps \in Nat \ {0} /\ Steps % FLOAT_SCALE = 0

Bytes == 0..(ByteBase - 1)

binarr_new == [buf |-> <<>>, size |-> 0, index |-> 0]

\* memcpy to buf + index, over what is there.
Write(arr, bytes) ==
  [arr EXCEPT !.buf = SubSeq(@, 1, arr.index) \o bytes
                        \o SubSeq(@, arr.index + Len(bytes) + 1, Len(@)),
              !.index = @ + Len(bytes)]
Appended(arr) == [arr EXCEPT !.size = arr.index]

\* Room for n bytes that are written later.
Skip(arr, n) == Appended(Write(arr, [i \in 1..n |-> 0]))

\* The value of n bytes as a two's complement number, and its bytes.
Power[n \in 0..IntBytes] == IF n = 0 THEN 1 ELSE ByteBase * Power[n - 1]
ToBytes(value, n) == [i \in 1..n |-> ((value % Power[n]) \div Power[i - 1]) % ByteBase]
FromBytes(bytes) ==
  LET sum[i \in 0..Len(bytes)] == IF i = 0 THEN 0 ELSE sum[i - 1] + bytes[i] * Power[i - 1]
      value == sum[Len(bytes)]
      range == Power[Len(bytes)]
  IN IF 2 * value >= range THEN value - range ELSE value

\* n bytes hold the value.
Fits(value, n) == -Power[n] <= 2 * value /\ 2 * value < Power[n]

\* htonl, ntohl.
Swap(bytes) == Reverse(bytes)

append_i8(arr, value) == Appended(Write(arr, ToBytes(value, 1)))
write_i32_n(arr, value) == Write(arr, Swap(ToBytes(value, IntBytes)))
append_i32_n(arr, value) == Appended(write_i32_n(arr, value))

\* int32_t idata = data * FLOAT_SCALE: towards zero.
ToScale(value) ==
  LET scaled == ((IF value < 0 THEN -value ELSE value) * FLOAT_SCALE) \div Steps
  IN IF value < 0 THEN -scaled ELSE scaled
append_float_n(arr, value) == append_i32_n(arr, ToScale(value))

Ahead(arr, n) == SubSeq(arr.buf, arr.index + 1, arr.index + n)
Moved(arr, n) == [arr EXCEPT !.index = @ + n]

read_i8(arr) == FromBytes(Ahead(arr, 1))
read_i32_n(arr) == FromBytes(Swap(Ahead(arr, IntBytes)))
read_float_n(arr) == read_i32_n(arr) * (Steps \div FLOAT_SCALE)
=============================================================================
