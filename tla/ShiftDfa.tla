------------------------------ MODULE ShiftDfa ------------------------------
(***************************************************************************)
(* The shift-based DFA behind verify_multibyte (src/src/lib.rs): the       *)
(* byte-class and transition tables, the 64-bit row words build_rows packs *)
(* them into, and the transition step reads back by a shift and a mask.    *)
(* Beside it stand the specifications the crate checks them against        *)
(* (spec_step and spec_row, src/src/spec.rs).                              *)
(*                                                                         *)
(* A u64 is the set of its one bits, a subset of 0 .. 63.                  *)
(***************************************************************************)
EXTENDS Utf8Table

WordBits == 0 .. 63

\* States are index * 6, so that each is its own shift amount (mod state).
REJECT == 0
ACCEPT == 6
C1     == 12
C2     == 18
E0     == 24
ED     == 30
F0     == 36
C3     == 42
F4     == 48

States == {REJECT, ACCEPT, C1, C2, E0, ED, F0, C3, F4}

is_state(s) == s \in States

-----------------------------------------------------------------------------
(***************************************************************************)
(* The tables.                                                             *)
(***************************************************************************)
CLASS ==
  [ b \in Byte |->
      CASE b \in   0 .. 127 ->  0
        [] b \in 128 .. 143 ->  1
        [] b \in 144 .. 159 ->  9
        [] b \in 160 .. 191 ->  7
        [] b \in 192 .. 193 ->  8
        [] b \in 194 .. 223 ->  2
        [] b = 224          -> 10
        [] b \in 225 .. 236 ->  3
        [] b = 237          ->  4
        [] b \in 238 .. 239 ->  3
        [] b = 240          -> 11
        [] b \in 241 .. 243 ->  6
        [] b = 244          ->  5
        [] b \in 245 .. 255 ->  8 ]

TransRows ==
  << <<  0,  0,  0,  0,  0,  0,  0,  0,  0,  0,  0,  0 >>,
     << 12,  0, 24, 36, 60, 96, 84,  0,  0,  0, 48, 72 >>,
     <<  0, 12,  0,  0,  0,  0,  0, 12,  0, 12,  0,  0 >>,
     <<  0, 24,  0,  0,  0,  0,  0, 24,  0, 24,  0,  0 >>,
     <<  0,  0,  0,  0,  0,  0,  0, 24,  0,  0,  0,  0 >>,
     <<  0, 24,  0,  0,  0,  0,  0,  0,  0, 24,  0,  0 >>,
     <<  0,  0,  0,  0,  0,  0,  0, 36,  0, 36,  0,  0 >>,
     <<  0, 36,  0,  0,  0,  0,  0, 36,  0, 36,  0,  0 >>,
     <<  0, 36,  0,  0,  0,  0,  0,  0,  0,  0,  0,  0 >> >>

\* Defect: the rows of states E0 and ED exchanged.
TransExchanged ==
  LET Row(r) == TransRows[CASE r = 4 -> 6 [] r = 5 -> 5 [] OTHER -> r + 1]
  IN  [ i \in Byte |-> IF i < 108 THEN Row(i \div 12)[(i % 12) + 1] ELSE REJECT ]

\* The flat table of 256 entries: nine rows of twelve, then padding.
TRANS ==
  [ i \in Byte |-> IF i < 108 THEN TransRows[(i \div 12) + 1][(i % 12) + 1]
                              ELSE REJECT ]

\* Defect: the x12 encoding of TRANS not converted to the x6 encoding.
SuccessorUnscaled(s, b) == TRANS[s * 12 + CLASS[b]]

\* Defect: TRANS indexed one row too far.
SuccessorNextRow(s, b) == (TRANS[(s + 1) * 12 + CLASS[b]] \div 12) * 6

\* Defect: C0 and C1, which begin overlong forms, classed as lead bytes.
SuccessorOverlong(s, b) ==
  (TRANS[s * 12 + CLASS[IF b \in {192, 193} THEN 194 ELSE b]] \div 12) * 6

\* The successor of state s * 6 as build_rows takes it out of TRANS.
Successor(s, b) == (TRANS[s * 12 + CLASS[b]] \div 12) * 6

\* The one bits of a value below 128: Successor is at most (255 \div 12) * 6.
OneBits(n) ==
  { k \in 0 .. 6 : (n \div << 1, 2, 4, 8, 16, 32, 64 >>[k + 1]) % 2 = 1 }

\* Defect: the loop over the states ends one state early.
RowWithoutF4 ==
  [ b \in Byte |->
      WordBits \cap
        UNION { { k + s * 6 : k \in OneBits(Successor(s, b)) } : s \in 0 .. 7 } ]

\* The OR over the nine states of next << (s * 6), truncated to 64 bits.
ROW ==
  [ b \in Byte |->
      WordBits \cap
        UNION { { k + s * 6 : k \in OneBits(Successor(s, b)) } : s \in 0 .. 8 } ]

\* (w >> s) & 63, as a number.
Field(w, s) ==
  LET Bit(k, v) == IF s + k \in w THEN v ELSE 0
  IN  Bit(0, 1) + Bit(1, 2) + Bit(2, 4) + Bit(3, 8) + Bit(4, 16) + Bit(5, 32)

\* (row(b) >> (s & 63)) & 63, tabulated over the shift amounts and the bytes.
Shifted == [ s \in WordBits |-> [ b \in Byte |-> Field(ROW[b], s) ] ]

step(s, b) == Shifted[s % 64][b]

-----------------------------------------------------------------------------
(***************************************************************************)
(* What the crate specifies of them.                                       *)
(***************************************************************************)

\* The transition, directly from the byte ranges of Table 3-7.
spec_step(s, b) ==
  CASE s = ACCEPT /\ b \in Ascii                     -> ACCEPT
    [] s = ACCEPT /\ b \in 194 .. 223                -> C1
    [] s = ACCEPT /\ b = 224                         -> E0
    [] s = ACCEPT /\ b = 237                         -> ED
    [] s = ACCEPT /\ b \in (225 .. 239) \ {237}      -> C2
    [] s = ACCEPT /\ b = 240                         -> F0
    [] s = ACCEPT /\ b = 244                         -> F4
    [] s = ACCEPT /\ b \in 241 .. 243                -> C3
    [] s = C1 /\ b \in cont                          -> ACCEPT
    [] s = C2 /\ b \in cont                          -> C1
    [] s = C3 /\ b \in cont                          -> C2
    [] s = E0 /\ b \in 160 .. 191                    -> C1
    [] s = ED /\ b \in 128 .. 159                    -> C1
    [] s = F0 /\ b \in 144 .. 191                    -> C2
    [] s = F4 /\ b \in 128 .. 143                    -> C2
    [] OTHER                                         -> REJECT

\* RunFrom(b, e)[k][st]: the state after the bytes b[k .. e-1], from state st.
RunFrom(b, e) ==
  LET after[k \in 0 .. e] ==
        [ st \in States |->
            IF k = e THEN st ELSE after[k + 1][spec_step(st, b[k])] ]
  IN  after

run(st, b, k, e) == RunFrom(b, e)[k][st]

\* The u64 written as these sixteen hexadecimal digits.
Hex(digits) ==
  { i \in WordBits :
      (digits[16 - (i \div 4)] \div << 1, 2, 4, 8 >>[(i % 4) + 1]) % 2 = 1 }

\* The row words as literals, by byte range.
spec_row(b) ==
  CASE b \in 0 .. 127            -> Hex(<<0,0,0,0, 0,0,0,0, 0,0,0,0, 0,1,8,0>>)
    [] b \in 128 .. 143          -> Hex(<<0,0,1,2, 4,8,0,3, 0,0,3,0, 6,0,0,0>>)
    [] b \in 144 .. 159          -> Hex(<<0,0,0,0, 4,9,2,3, 0,0,3,0, 6,0,0,0>>)
    [] b \in 160 .. 191          -> Hex(<<0,0,0,0, 4,9,2,0, 0,12,3,0, 6,0,0,0>>)
    [] b \in 194 .. 223          -> Hex(<<0,0,0,0, 0,0,0,0, 0,0,0,0, 0,3,0,0>>)
    [] b = 224                   -> Hex(<<0,0,0,0, 0,0,0,0, 0,0,0,0, 0,6,0,0>>)
    [] b \in (225 .. 239) \ {237} -> Hex(<<0,0,0,0, 0,0,0,0, 0,0,0,0, 0,4,8,0>>)
    [] b = 237                   -> Hex(<<0,0,0,0, 0,0,0,0, 0,0,0,0, 0,7,8,0>>)
    [] b = 240                   -> Hex(<<0,0,0,0, 0,0,0,0, 0,0,0,0, 0,9,0,0>>)
    [] b \in 241 .. 243          -> Hex(<<0,0,0,0, 0,0,0,0, 0,0,0,0, 0,10,8,0>>)
    [] b = 244                   -> Hex(<<0,0,0,0, 0,0,0,0, 0,0,0,0, 0,12,0,0>>)
    [] OTHER                     -> {}

(***************************************************************************)
(* What a live state stands for: the byte ranges the sequence in progress  *)
(* still needs, as the comments of mod state name them.                    *)
(***************************************************************************)
Remaining ==
  [ s \in States \ {REJECT} |->
      CASE s = ACCEPT -> << >>
        [] s = C1     -> << cont >>
        [] s = C2     -> << cont, cont >>
        [] s = C3     -> << cont, cont, cont >>
        [] s = E0     -> << 160 .. 191, cont >>
        [] s = ED     -> << 128 .. 159, cont >>
        [] s = F0     -> << 144 .. 191, cont, cont >>
        [] s = F4     -> << 128 .. 143, cont, cont >> ]

\* The bytes of b[q .. e-1] complete the sequence in progress in state s, and
\* what follows it is well-formed.
Completes(s, b, q, e) ==
  /\ s # REJECT
  /\ MatchesAt(Remaining[s], b, q, e)
  /\ is_valid_utf8(b, q + Len(Remaining[s]), e)
=============================================================================
