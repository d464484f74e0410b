------------------------------ MODULE MCTSQueue ------------------------------
(* Instances of TSQueue for TLC. *)
EXTENDS TSQueue, TLC

CONSTANTS t1, t2, a, b, n1, n2, n3

TwoThreads == {t1, t2}
TwoItems == {a, b}
ThreeNodes == {n1, n2, n3}

AllCalls == {"enqueue", "dequeue", "drop", "remove"}
=============================================================================
