---------------------------- MODULE RoundAnnouncer ----------------------------
(***************************************************************************)
(* What a match promises its players, without packets, threads or sync     *)
(* numbers: the match goes from round to round, and each player learns of  *)
(* every round, in order and of none that has not begun.  Once somebody    *)
(* has left the match, it owes the others nothing more.                    *)
(***************************************************************************)
EXTENDS Naturals

CONSTANTS Rooms, Seats

VARIABLES
  round,  \* round[r]: the round room r is in, 0 before its match starts
  seen,   \* seen[p]: the round the player p = <<room, seat>> knows of
  over    \* the rooms somebody has left

announcerVars == <<round, seen, over>>

Init ==
  /\ round = [r \in Rooms |-> 0]
  /\ seen = [p \in Rooms \X Seats |-> 0]
  /\ over = {}

NextRound(r) ==
  /\ round' = [round EXCEPT ![r] = @ + 1]
  /\ UNCHANGED <<seen, over>>

Learn(p) ==
  /\ seen[p] < round[p[1]]
  /\ seen' = [seen EXCEPT ![p] = @ + 1]
  /\ UNCHANGED <<round, over>>

Leave(r) ==
  /\ over' = over \cup {r}
  /\ UNCHANGED <<round, seen>>

Next ==
  \/ \E r \in Rooms : NextRound(r) \/ Leave(r)
  \/ \E p \in Rooms \X Seats : Learn(p)

SafeSpec == Init /\ [][Next]_announcerVars

\* While nobody leaves, every player catches up.
Spec ==
  /\ SafeSpec
  /\ \A p \in Rooms \X Seats : WF_announcerVars(p[1] \notin over /\ Learn(p))
=============================================================================
