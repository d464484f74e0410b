------------------------------ MODULE FifoQueue ------------------------------
(***************************************************************************)
(* What ts_queue promises: a line of items that are put in at the end and  *)
(* taken out at the front, or from the middle by whoever names one.        *)
(***************************************************************************)
EXTENDS Naturals, Sequences, SequencesExt

CONSTANT Items

VARIABLE line

Init == line = <<>>

Enqueue(x) == line' = Append(line, x)

Dequeue ==
  /\ line # <<>>
  /\ line' = Tail(line)

\* One place where x stands is given up.
Drop(x) == \E k \in DOMAIN line : line[k] = x /\ line' = RemoveAt(line, k)

Next == Dequeue \/ \E x \in Items : Enqueue(x) \/ Drop(x)

Spec == Init /\ [][Next]_line
=============================================================================
