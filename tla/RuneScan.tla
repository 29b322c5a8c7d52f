------------------------------ MODULE RuneScan ------------------------------
(***************************************************************************)
(* What a byte-at-a-time recogniser of Table 3-7 must remember: the set of *)
(* ways in which the sequence in progress may still be completed.  `open'  *)
(* holds one sequence of byte ranges for each row that the bytes since the *)
(* last boundary match so far, namely the ranges not matched yet.  At a    *)
(* boundary it is {<< >>}; once no row fits, it is empty for good.  `last' *)
(* holds the byte consumed last, so that a step says what it consumed.     *)
(***************************************************************************)
EXTENDS Utf8Table

VARIABLES open, last

vars == << open, last >>

Init == open = {<< >>} /\ last = << >>

AtBoundary == << >> \in open

\* The rows a byte may continue: all of them at a boundary, else the open ones.
Candidates == IF AtBoundary THEN Table37 ELSE open

Consume(b) ==
  /\ last' = << b >>
  /\ open' = { Tail(r) : r \in { c \in Candidates : b \in c[1] } }

Next == \E b \in Byte : Consume(b)

Spec == Init /\ [][Next]_vars
=============================================================================
