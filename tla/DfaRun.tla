------------------------------- MODULE DfaRun -------------------------------
(***************************************************************************)
(* The DFA fed one byte after another, as both loops of verify_multibyte   *)
(* (src/src/lib.rs) feed it.  `rune' and `last' are history variables: the *)
(* bytes consumed since the last sequence boundary, and the byte consumed  *)
(* last.  After a rejected byte the program may go on stepping until the   *)
(* end of its chunk, and so may this machine; rune then keeps the rejected *)
(* sequence.                                                               *)
(***************************************************************************)
EXTENDS ShiftDfa

CONSTANT Bytes      \* the byte values the machine is fed

ASSUME BytesAssumption == Bytes \subseteq Byte

VARIABLES state, rune, last

vars == << state, rune, last >>

Init == state = ACCEPT /\ rune = << >> /\ last = << >>

\* One `state = step(state, byte)'.
Step(b) ==
  /\ state' = step(state, b)
  /\ rune' = CASE state = REJECT  -> rune
               [] state' = ACCEPT -> << >>
               [] OTHER           -> Append(rune, b)
  /\ last' = << b >>

Next == \E b \in Bytes : Step(b)

Spec == Init /\ [][Next]_vars

-----------------------------------------------------------------------------
TypeOK ==
  /\ is_state(state)
  /\ rune \in Seq(Byte)
  /\ last \in Seq(Byte)

\* The rows of Table 3-7 that start with these bytes and have more to come.
OpenRows(bytes) ==
  { row \in Table37 :
      /\ Len(bytes) < Len(row)
      /\ \A i \in 1 .. Len(bytes) : bytes[i] \in row[i] }

(***************************************************************************)
(* The name of each state tells the truth about the bytes that led to it:  *)
(* inside a sequence, every row of Table 3-7 still open after those bytes  *)
(* needs exactly the ranges the state stands for, and the state is REJECT  *)
(* exactly when no row is open and the bytes are not a whole sequence.     *)
(* This is what lets eight states replace the bytes themselves.            *)
(***************************************************************************)
StateNamesTheRest ==
  /\ state = ACCEPT <=> rune = << >>
  /\ state = REJECT <=> OpenRows(rune) = {}
  /\ state # REJECT /\ state # ACCEPT =>
       \A row \in OpenRows(rune) :
         SubSeq(row, Len(rune) + 1, Len(row)) = Remaining[state]

(***************************************************************************)
(* The chunk loop of verify_multibyte looks at the state only after eight  *)
(* steps, and the tail loop only after the last byte: once a byte has been *)
(* rejected no later byte may bring the machine back.                      *)
(***************************************************************************)
RejectAbsorbs == [][state = REJECT => state' = REJECT]_vars

\* The literals of _CHECK_SPEC_ROW.
SpecRow == [ b \in Byte |-> spec_row(b) ]

RowsAgree == ROW = SpecRow

StepsAgree == { s \in States : \A b \in Byte : step(s, b) = spec_step(s, b) }

(***************************************************************************)
(* The words build_rows packs from TRANS and CLASS are the literals of     *)
(* _CHECK_SPEC_ROW, and a step from here agrees with the transition read   *)
(* off Table 3-7, for each of the 256 bytes.                               *)
(***************************************************************************)
TablesAgree == RowsAgree /\ state \in StepsAgree

\* The states stand for the open rows: the DFA implements RuneScan.
Scan == INSTANCE RuneScan WITH
          open <- IF state = REJECT THEN {} ELSE {Remaining[state]}

(***************************************************************************)
(* Every step of the shift DFA is a step of the recogniser RuneScan.       *)
(***************************************************************************)
ImplementsRuneScan == Scan!Spec
=============================================================================
