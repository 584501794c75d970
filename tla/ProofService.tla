---------------------------- MODULE ProofService ----------------------------
(***************************************************************************)
(* What issuer, intermediary and server promise together: TTP messages     *)
(* about a year of birth are made, and range proofs exist only for a       *)
(* commitment that was made and a range its year lies in.                  *)
(***************************************************************************)
EXTENDS Integers, Sequences

CONSTANT PromisedYears      \* years of birth

VARIABLES
  issued,     \* the TTP messages made so far, each by its year
  proved      \* the range proofs that left the server: [message, lo, hi]

Init == issued = <<>> /\ proved = {}

Issue == \E year \in PromisedYears : issued' = Append(issued, year) /\ UNCHANGED proved

TrueStatement(p) ==
  p.message \in DOMAIN issued /\ p.lo <= issued[p.message] /\ issued[p.message] <= p.hi

Prove ==
  /\ UNCHANGED issued
  /\ \E p \in proved' : proved' = proved \cup {p} /\ TrueStatement(p)

Next == Issue \/ Prove

Spec == Init /\ [][Next]_<<issued, proved>>
=============================================================================
