------------------------------ MODULE MCRunEvery ------------------------------
(* Instances of RunEvery for TLC. *)
EXTENDS RunEvery, TLC

\* As nanosleep has it; ticks short against an interval of 8; and as on the ESP, where a
\* tick is 10 ms and the interval 16.
FineAndCoarse == {1, 3, 5}
=============================================================================
