----------------------------- MODULE FifoPairing -----------------------------
(***************************************************************************)
(* What matchmaking promises, with no thread, lock or condition variable:  *)
(* clients join one line, and the two at its front are taken out of it     *)
(* together to form a match.  Nobody leaves the line in any other way.     *)
(***************************************************************************)
EXTENDS Naturals, Sequences

CONSTANT Clients

VARIABLES
  line,     \* the clients that wait, oldest first
  matches   \* the pairs formed so far, oldest first

pairingVars == <<line, matches>>

\* The clients that have joined, matched or not.
Joined ==
  {line[i] : i \in DOMAIN line}
    \cup UNION {{matches[i][1], matches[i][2]} : i \in DOMAIN matches}

Init ==
  /\ line = <<>>
  /\ matches = <<>>

Join(c) ==
  /\ c \notin Joined
  /\ line' = Append(line, c)
  /\ UNCHANGED matches

Pair ==
  /\ Len(line) >= 2
  /\ matches' = Append(matches, <<line[1], line[2]>>)
  /\ line' = SubSeq(line, 3, Len(line))

Next == Pair \/ \E c \in Clients : Join(c)

\* The safety part, and the promise that a full pair does not wait for ever.
SafeSpec == Init /\ [][Next]_pairingVars
PairsInTime == WF_pairingVars(Pair)
Spec == SafeSpec /\ PairsInTime
=============================================================================
