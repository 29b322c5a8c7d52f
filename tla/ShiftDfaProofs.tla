--------------------------- MODULE ShiftDfaProofs ---------------------------
(***************************************************************************)
(* The shift DFA computes what Table 3-7 says: the packed row words give   *)
(* back the transition of spec_step, for all states and bytes, and each    *)
(* step keeps the meaning of the state (Completes).                        *)
(***************************************************************************)
EXTENDS ShiftDfa, Utf8TableProofs

(***************************************************************************)
(* The classes, range by range, and the flat table by row and column.      *)
(***************************************************************************)
LEMMA ClassRange ==
  ASSUME NEW b \in Byte
  PROVE  /\ CLASS[b] \in 0 .. 11
         /\ CLASS[b] = 0  <=> b \in 0 .. 127
         /\ CLASS[b] = 1  <=> b \in 128 .. 143
         /\ CLASS[b] = 9  <=> b \in 144 .. 159
         /\ CLASS[b] = 7  <=> b \in 160 .. 191
         /\ CLASS[b] = 2  <=> b \in 194 .. 223
         /\ CLASS[b] = 10 <=> b = 224
         /\ CLASS[b] = 3  <=> b \in (225 .. 239) \ {237}
         /\ CLASS[b] = 4  <=> b = 237
         /\ CLASS[b] = 11 <=> b = 240
         /\ CLASS[b] = 6  <=> b \in 241 .. 243
         /\ CLASS[b] = 5  <=> b = 244
<1>1. b \in 0 .. 127 => CLASS[b] = 0
  BY DEF CLASS, Byte
<1>2. b \in 128 .. 143 => CLASS[b] = 1
  BY DEF CLASS, Byte
<1>3. b \in 144 .. 159 => CLASS[b] = 9
  BY DEF CLASS, Byte
<1>4. b \in 160 .. 191 => CLASS[b] = 7
  BY DEF CLASS, Byte
<1>5. b \in 192 .. 193 => CLASS[b] = 8
  BY DEF CLASS, Byte
<1>6. b \in 194 .. 223 => CLASS[b] = 2
  BY DEF CLASS, Byte
<1>7. b = 224 => CLASS[b] = 10
  BY DEF CLASS, Byte
<1>8. b \in 225 .. 236 => CLASS[b] = 3
  BY DEF CLASS, Byte
<1>9. b = 237 => CLASS[b] = 4
  BY DEF CLASS, Byte
<1>10. b \in 238 .. 239 => CLASS[b] = 3
  BY DEF CLASS, Byte
<1>11. b = 240 => CLASS[b] = 11
  BY DEF CLASS, Byte
<1>12. b \in 241 .. 243 => CLASS[b] = 6
  BY DEF CLASS, Byte
<1>13. b = 244 => CLASS[b] = 5
  BY DEF CLASS, Byte
<1>14. b \in 245 .. 255 => CLASS[b] = 8
  BY DEF CLASS, Byte
<1>15. b \in 0 .. 255
  BY DEF Byte
<1> QED
  BY <1>1, <1>2, <1>3, <1>4, <1>5, <1>6, <1>7, <1>8,
     <1>9, <1>10, <1>11, <1>12, <1>13, <1>14, <1>15

\* The classes of continuation bytes that the rows of the table tell apart.
LEMMA ContClasses ==
  ASSUME NEW b \in Byte
  PROVE  /\ CLASS[b] \in {1, 7, 9} <=> b \in 128 .. 191
         /\ CLASS[b] \in {1, 9}    <=> b \in 128 .. 159
         /\ CLASS[b] \in {7, 9}    <=> b \in 144 .. 191
         /\ CLASS[b] = 7           <=> b \in 160 .. 191
         /\ CLASS[b] = 1           <=> b \in 128 .. 143
<1> DEFINE Low  == b \in 128 .. 143
           Mid  == b \in 144 .. 159
           High == b \in 160 .. 191
<1>1. /\ b \in 128 .. 191 <=> Low \/ Mid \/ High
      /\ b \in 128 .. 159 <=> Low \/ Mid
      /\ b \in 144 .. 191 <=> Mid \/ High
  BY DEF Byte
<1>2. (CLASS[b] = 1 <=> Low) /\ (CLASS[b] = 9 <=> Mid) /\ (CLASS[b] = 7 <=> High)
  BY ClassRange
<1> HIDE DEF Low, Mid, High
<1>3. /\ CLASS[b] \in {1, 7, 9} <=> Low \/ Mid \/ High
      /\ CLASS[b] \in {1, 9} <=> Low \/ Mid
      /\ CLASS[b] \in {7, 9} <=> Mid \/ High
  BY <1>2
<1>4. /\ CLASS[b] \in {1, 7, 9} <=> b \in 128 .. 191
      /\ CLASS[b] \in {1, 9} <=> b \in 128 .. 159
      /\ CLASS[b] \in {7, 9} <=> b \in 144 .. 191
  BY <1>1, <1>3
<1> QED BY <1>2, <1>4 DEF Low, High

\* An entry of the flat table is the cell of its row and column.
LEMMA TransCell ==
  ASSUME NEW s \in 0 .. 8, NEW c \in 0 .. 11
  PROVE  TRANS[s * 12 + c] = TransRows[s + 1][c + 1]
<1>1. s * 12 + c \in 0 .. 107
  OBVIOUS
<1>2. (s * 12 + c) \div 12 = s /\ (s * 12 + c) % 12 = c
  OBVIOUS
<1> QED BY <1>1, <1>2 DEF TRANS, Byte

(***************************************************************************)
(* The successor build_rows computes is that of the specification.         *)
(***************************************************************************)
LEMMA SuccessorIsSpec ==
  ASSUME NEW s \in 0 .. 8, NEW b \in Byte
  PROVE  Successor(s, b) = spec_step(s * 6, b)
<1> DEFINE c == CLASS[b]
<1>1. c \in 0 .. 11
  BY ClassRange
<1>2. Successor(s, b) = (TransRows[s + 1][c + 1] \div 12) * 6
  BY <1>1, TransCell DEF Successor
<1>3. CASE s = 0
  BY <1>1, <1>2, <1>3 DEF TransRows, spec_step, REJECT, ACCEPT, C1, C2, C3, E0, ED, F0, F4
<1>4. CASE s = 1
  <2>1. Successor(s, b) = IF c = 0 THEN 6 ELSE IF c = 2 THEN 12 ELSE IF c = 3 THEN 18 ELSE IF c = 4 THEN 30
             ELSE IF c = 5 THEN 48 ELSE IF c = 6 THEN 42 ELSE IF c = 10 THEN 24
             ELSE IF c = 11 THEN 36 ELSE 0
    BY <1>1, <1>2, <1>4 DEF TransRows
  <2>2. spec_step(s * 6, b) =
          IF b \in 0 .. 127 THEN 6 ELSE IF b \in 194 .. 223 THEN 12
             ELSE IF b \in (225 .. 239) \ {237} THEN 18 ELSE IF b = 237 THEN 30
             ELSE IF b = 244 THEN 48 ELSE IF b \in 241 .. 243 THEN 42
             ELSE IF b = 224 THEN 24 ELSE IF b = 240 THEN 36 ELSE 0
    BY <1>4 DEF spec_step, REJECT, ACCEPT, C1, C2, C3, E0, ED, F0, F4, Ascii
  <2> QED BY <2>1, <2>2, ClassRange
<1>5. CASE s = 2
  <2>1. Successor(s, b) = IF c \in {1, 7, 9} THEN 6 ELSE 0
    BY <1>1, <1>2, <1>5 DEF TransRows
  <2>2. spec_step(s * 6, b) = IF b \in 128 .. 191 THEN 6 ELSE 0
    BY <1>5 DEF spec_step, REJECT, ACCEPT, C1, C2, C3, E0, ED, F0, F4, cont
  <2> QED BY <2>1, <2>2, ContClasses
<1>6. CASE s = 3
  <2>1. Successor(s, b) = IF c \in {1, 7, 9} THEN 12 ELSE 0
    BY <1>1, <1>2, <1>6 DEF TransRows
  <2>2. spec_step(s * 6, b) = IF b \in 128 .. 191 THEN 12 ELSE 0
    BY <1>6 DEF spec_step, REJECT, ACCEPT, C1, C2, C3, E0, ED, F0, F4, cont
  <2> QED BY <2>1, <2>2, ContClasses
<1>7. CASE s = 4
  <2>1. Successor(s, b) = IF c = 7 THEN 12 ELSE 0
    BY <1>1, <1>2, <1>7 DEF TransRows
  <2>2. spec_step(s * 6, b) = IF b \in 160 .. 191 THEN 12 ELSE 0
    BY <1>7 DEF spec_step, REJECT, ACCEPT, C1, C2, C3, E0, ED, F0, F4, cont
  <2> QED BY <2>1, <2>2, ContClasses
<1>8. CASE s = 5
  <2>1. Successor(s, b) = IF c \in {1, 9} THEN 12 ELSE 0
    BY <1>1, <1>2, <1>8 DEF TransRows
  <2>2. spec_step(s * 6, b) = IF b \in 128 .. 159 THEN 12 ELSE 0
    BY <1>8 DEF spec_step, REJECT, ACCEPT, C1, C2, C3, E0, ED, F0, F4, cont
  <2> QED BY <2>1, <2>2, ContClasses
<1>9. CASE s = 6
  <2>1. Successor(s, b) = IF c \in {7, 9} THEN 18 ELSE 0
    BY <1>1, <1>2, <1>9 DEF TransRows
  <2>2. spec_step(s * 6, b) = IF b \in 144 .. 191 THEN 18 ELSE 0
    BY <1>9 DEF spec_step, REJECT, ACCEPT, C1, C2, C3, E0, ED, F0, F4, cont
  <2> QED BY <2>1, <2>2, ContClasses
<1>10. CASE s = 7
  <2>1. Successor(s, b) = IF c \in {1, 7, 9} THEN 18 ELSE 0
    BY <1>1, <1>2, <1>10 DEF TransRows
  <2>2. spec_step(s * 6, b) = IF b \in 128 .. 191 THEN 18 ELSE 0
    BY <1>10 DEF spec_step, REJECT, ACCEPT, C1, C2, C3, E0, ED, F0, F4, cont
  <2> QED BY <2>1, <2>2, ContClasses
<1>11. CASE s = 8
  <2>1. Successor(s, b) = IF c = 1 THEN 18 ELSE 0
    BY <1>1, <1>2, <1>11 DEF TransRows
  <2>2. spec_step(s * 6, b) = IF b \in 128 .. 143 THEN 18 ELSE 0
    BY <1>11 DEF spec_step, REJECT, ACCEPT, C1, C2, C3, E0, ED, F0, F4, cont
  <2> QED BY <2>1, <2>2, ContClasses
<1> QED BY <1>3, <1>4, <1>5, <1>6, <1>7, <1>8, <1>9, <1>10, <1>11

\* spec_step returns one of the nine states.
LEMMA SpecStepIsState ==
  ASSUME NEW s, NEW b
  PROVE  spec_step(s, b) \in States
  BY DEF spec_step, States

\* The states are the multiples of six up to 48, each below 64.
LEMMA StatesAreMultiples ==
  \A s \in States : s \in 0 .. 63 /\ \E i \in 0 .. 8 : s = i * 6
<1>1. States = {0 * 6, 1 * 6, 2 * 6, 3 * 6, 4 * 6, 5 * 6, 6 * 6, 7 * 6, 8 * 6}
  BY DEF States, REJECT, ACCEPT, C1, C2, C3, E0, ED, F0, F4
<1> QED BY <1>1

-----------------------------------------------------------------------------
(***************************************************************************)
(* Packing and unpacking: the nine fields of a row word do not overlap.    *)
(***************************************************************************)
LEMMA BitOfField ==
  ASSUME NEW b \in Byte, NEW s \in 0 .. 8, NEW k \in 0 .. 5
  PROVE  s * 6 + k \in ROW[b] <=> k \in OneBits(Successor(s, b))
<1>1. \A t \in 0 .. 8 : Successor(t, b) \in 0 .. 63
  BY SuccessorIsSpec, SpecStepIsState, StatesAreMultiples
<1>2. \A t \in 0 .. 8 : \A i \in OneBits(Successor(t, b)) : i \in 0 .. 5
  <2> TAKE t \in 0 .. 8
  <2> TAKE i \in OneBits(Successor(t, b))
  <2>1. i \in 0 .. 6 /\ (i = 6 => (Successor(t, b) \div 64) % 2 = 1)
    BY DEF OneBits
  <2>2. Successor(t, b) \in 0 .. 63
    BY <1>1
  <2> QED BY <2>1, <2>2
<1>3. ASSUME k \in OneBits(Successor(s, b)) PROVE s * 6 + k \in ROW[b]
  <2>1. s * 6 + k = k + s * 6 /\ s * 6 + k \in WordBits
    BY DEF WordBits
  <2> QED BY <1>3, <2>1 DEF ROW
<1>4. ASSUME s * 6 + k \in ROW[b] PROVE k \in OneBits(Successor(s, b))
  <2>1. PICK t \in 0 .. 8 : \E i \in OneBits(Successor(t, b)) : s * 6 + k = i + t * 6
    BY <1>4 DEF ROW
  <2>2. PICK i \in OneBits(Successor(t, b)) : s * 6 + k = i + t * 6
    BY <2>1
  <2>3. i \in 0 .. 5
    BY <1>2
  <2>4. s = t /\ k = i
    BY <2>2, <2>3
  <2> QED BY <2>2, <2>4
<1> QED BY <1>3, <1>4

\* A field whose six bits are those of n reads back as n.
LEMMA SumOfBits ==
  ASSUME NEW n \in 0 .. 63, NEW w, NEW s \in 0 .. 63,
         \A k \in 0 .. 5 : s + k \in w <=> k \in OneBits(n)
  PROVE  Field(w, s) = n
<1>1. /\ s + 0 \in w <=> (n \div 1) % 2 = 1
      /\ s + 1 \in w <=> (n \div 2) % 2 = 1
      /\ s + 2 \in w <=> (n \div 4) % 2 = 1
      /\ s + 3 \in w <=> (n \div 8) % 2 = 1
      /\ s + 4 \in w <=> (n \div 16) % 2 = 1
      /\ s + 5 \in w <=> (n \div 32) % 2 = 1
  BY DEF OneBits
<1>2. n = (IF (n \div 1) % 2 = 1 THEN 1 ELSE 0) + (IF (n \div 2) % 2 = 1 THEN 2 ELSE 0)
        + (IF (n \div 4) % 2 = 1 THEN 4 ELSE 0) + (IF (n \div 8) % 2 = 1 THEN 8 ELSE 0)
        + (IF (n \div 16) % 2 = 1 THEN 16 ELSE 0) + (IF (n \div 32) % 2 = 1 THEN 32 ELSE 0)
  OBVIOUS
<1> QED BY <1>1, <1>2 DEF Field

(***************************************************************************)
(* The transition computed from the packed rows by a shift and a mask is   *)
(* the transition read off Table 3-7: 9 states times 256 bytes.            *)
(***************************************************************************)
THEOREM StepIsSpecStep ==
  \A s \in States, b \in Byte : step(s, b) = spec_step(s, b)
<1> TAKE s \in States, b \in Byte
<1>1. PICK i \in 0 .. 8 : s = i * 6
  BY StatesAreMultiples
<1>2. s \in 0 .. 63 /\ s % 64 = s
  BY StatesAreMultiples
<1>3. spec_step(s, b) \in 0 .. 63 /\ Successor(i, b) = spec_step(s, b)
  BY <1>1, SuccessorIsSpec, SpecStepIsState, StatesAreMultiples
<1>4. \A k \in 0 .. 5 : s + k \in ROW[b] <=> k \in OneBits(spec_step(s, b))
  BY <1>1, <1>3, BitOfField
<1>5. Field(ROW[b], s) = spec_step(s, b)
  BY <1>2, <1>3, <1>4, SumOfBits
<1> QED BY <1>2, <1>5 DEF step, Shifted, WordBits

-----------------------------------------------------------------------------
(***************************************************************************)
(* The one bits of the nine successors.                                    *)
(***************************************************************************)
LEMMA StateBits ==
  /\ OneBits(REJECT) = {}
  /\ OneBits(ACCEPT) = {1, 2}
  /\ OneBits(C1) = {2, 3}
  /\ OneBits(C2) = {1, 4}
  /\ OneBits(E0) = {3, 4}
  /\ OneBits(ED) = {1, 2, 3, 4}
  /\ OneBits(F0) = {2, 5}
  /\ OneBits(C3) = {1, 3, 5}
  /\ OneBits(F4) = {4, 5}
<1>1. ASSUME NEW n \in 0 .. 127, NEW k
      PROVE  k \in OneBits(n) <=>
               \/ k = 0 /\ n % 2 = 1
               \/ k = 1 /\ (n \div 2) % 2 = 1
               \/ k = 2 /\ (n \div 4) % 2 = 1
               \/ k = 3 /\ (n \div 8) % 2 = 1
               \/ k = 4 /\ (n \div 16) % 2 = 1
               \/ k = 5 /\ (n \div 32) % 2 = 1
               \/ k = 6 /\ (n \div 64) % 2 = 1
  BY <1>1 DEF OneBits
<1> HIDE DEF OneBits
<1>2. OneBits(0) = {}
  BY <1>1
<1>3. OneBits(6) = {1, 2}
  BY <1>1
<1>4. OneBits(12) = {2, 3}
  BY <1>1
<1>5. OneBits(18) = {1, 4}
  BY <1>1
<1>6. OneBits(24) = {3, 4}
  BY <1>1
<1>7. OneBits(30) = {1, 2, 3, 4}
  BY <1>1
<1>8. OneBits(36) = {2, 5}
  BY <1>1
<1>9. OneBits(42) = {1, 3, 5}
  BY <1>1
<1>10. OneBits(48) = {4, 5}
  BY <1>1
<1> QED BY <1>2, <1>3, <1>4, <1>5, <1>6, <1>7, <1>8, <1>9, <1>10
           DEF REJECT, ACCEPT, C1, C2, C3, E0, ED, F0, F4

(***************************************************************************)
(* A row word, bit by bit: nine fields of six bits and nothing above them. *)
(***************************************************************************)
LEMMA RowBits ==
  ASSUME NEW b \in Byte, NEW i \in WordBits
  PROVE  i \in ROW[b] <=>
           i < 54 /\ i % 6 \in OneBits(spec_step((i \div 6) * 6, b))
<1>1. CASE i < 54
  <2>1. /\ i \div 6 \in 0 .. 8 /\ i % 6 \in 0 .. 5
        /\ (i \div 6) * 6 + (i % 6) = i
    BY <1>1 DEF WordBits
  <2>2. (i \div 6) * 6 + (i % 6) \in ROW[b] <=> i % 6 \in OneBits(Successor(i \div 6, b))
    BY <2>1, BitOfField
  <2>3. Successor(i \div 6, b) = spec_step((i \div 6) * 6, b)
    BY <2>1, SuccessorIsSpec
  <2> QED BY <1>1, <2>1, <2>2, <2>3
<1>2. CASE i >= 54
  <2>1. ASSUME i \in ROW[b] PROVE FALSE
    <3>1. PICK s \in 0 .. 8 : \E k \in OneBits(Successor(s, b)) : i = k + s * 6
      BY <2>1 DEF ROW
    <3>2. PICK k \in OneBits(Successor(s, b)) : i = k + s * 6
      BY <3>1
    <3>3. Successor(s, b) \in States
      BY SuccessorIsSpec, SpecStepIsState
    <3>4. k \in 0 .. 5
      BY <3>3, StateBits DEF States
    <3> QED BY <1>2, <3>2, <3>4
  <2> QED BY <1>2, <2>1 DEF WordBits
<1> QED BY <1>1, <1>2 DEF WordBits

\* The bits of a hexadecimal digit.
Nibble(n) == { r \in 0 .. 3 : (n \div << 1, 2, 4, 8 >>[r + 1]) % 2 = 1 }

\* The digits that occur.
LEMMA NibbleBits ==
  /\ Nibble(0) = {} /\ Nibble(1) = {0} /\ Nibble(2) = {1} /\ Nibble(3) = {0, 1}
  /\ Nibble(4) = {2} /\ Nibble(6) = {1, 2} /\ Nibble(7) = {0, 1, 2}
  /\ Nibble(8) = {3} /\ Nibble(9) = {0, 3} /\ Nibble(10) = {1, 3} /\ Nibble(12) = {2, 3}
<1>1. ASSUME NEW n \in 0 .. 15, NEW k
      PROVE  k \in Nibble(n) <=>
               \/ k = 0 /\ n % 2 = 1
               \/ k = 1 /\ (n \div 2) % 2 = 1
               \/ k = 2 /\ (n \div 4) % 2 = 1
               \/ k = 3 /\ (n \div 8) % 2 = 1
  BY <1>1 DEF Nibble
<1> HIDE DEF Nibble
<1> QED BY <1>1

\* Four bits to a digit, the last digit lowest.
LEMMA HexBits ==
  ASSUME NEW d, NEW i \in WordBits
  PROVE  i \in Hex(d) <=> i % 4 \in Nibble(d[16 - (i \div 4)])
  BY DEF Hex, Nibble, WordBits

(***************************************************************************)
(* The packed row of each byte is the literal written for it: both have    *)
(* the same one bits, byte range by byte range.                            *)
(***************************************************************************)
LEMMA RowIsSpecRow ==
  ASSUME NEW b \in Byte, NEW i \in WordBits
  PROVE  i \in ROW[b] <=> i \in spec_row(b)
<1>1. CASE b \in 0 .. 127
  <2>1. \A s \in 0 .. 8 : spec_step(s * 6, b) =
            IF s = 1 THEN ACCEPT ELSE REJECT
    BY <1>1 DEF spec_step, REJECT, ACCEPT, C1, C2, C3, E0, ED, F0, F4, Ascii, cont
  <2>2. i \in ROW[b] <=> i \in {7, 8}
    BY <2>1, RowBits, StateBits DEF WordBits
  <2>3. spec_row(b) = Hex(<<0,0,0,0, 0,0,0,0, 0,0,0,0, 0,1,8,0>>)
    BY <1>1, SMTT(30) DEF spec_row
  <2>4. i \in Hex(<<0,0,0,0, 0,0,0,0, 0,0,0,0, 0,1,8,0>>) <=> i \in {7, 8}
    BY HexBits, NibbleBits DEF WordBits
  <2> QED BY <2>2, <2>3, <2>4
<1>2. CASE b \in 128 .. 143
  <2>1. \A s \in 0 .. 8 : spec_step(s * 6, b) =
            IF s = 2 THEN ACCEPT
            ELSE IF s \in {3, 5} THEN C1
            ELSE IF s \in {7, 8} THEN C2
            ELSE REJECT
    BY <1>2 DEF spec_step, REJECT, ACCEPT, C1, C2, C3, E0, ED, F0, F4, Ascii, cont
  <2>2. i \in ROW[b] <=> i \in {13, 14, 20, 21, 32, 33, 43, 46, 49, 52}
    BY <2>1, RowBits, StateBits DEF WordBits
  <2>3. spec_row(b) = Hex(<<0,0,1,2, 4,8,0,3, 0,0,3,0, 6,0,0,0>>)
    BY <1>2 DEF spec_row
  <2>4. i \in Hex(<<0,0,1,2, 4,8,0,3, 0,0,3,0, 6,0,0,0>>) <=> i \in {13, 14, 20, 21, 32, 33, 43, 46, 49, 52}
    BY HexBits, NibbleBits DEF WordBits
  <2> QED BY <2>2, <2>3, <2>4
<1>3. CASE b \in 144 .. 159
  <2>1. \A s \in 0 .. 8 : spec_step(s * 6, b) =
            IF s = 2 THEN ACCEPT
            ELSE IF s \in {3, 5} THEN C1
            ELSE IF s \in {6, 7} THEN C2
            ELSE REJECT
    BY <1>3 DEF spec_step, REJECT, ACCEPT, C1, C2, C3, E0, ED, F0, F4, Ascii, cont
  <2>2. i \in ROW[b] <=> i \in {13, 14, 20, 21, 32, 33, 37, 40, 43, 46}
    BY <2>1, RowBits, StateBits DEF WordBits
  <2>3. spec_row(b) = Hex(<<0,0,0,0, 4,9,2,3, 0,0,3,0, 6,0,0,0>>)
    BY <1>3 DEF spec_row
  <2>4. i \in Hex(<<0,0,0,0, 4,9,2,3, 0,0,3,0, 6,0,0,0>>) <=> i \in {13, 14, 20, 21, 32, 33, 37, 40, 43, 46}
    BY HexBits, NibbleBits DEF WordBits
  <2> QED BY <2>2, <2>3, <2>4
<1>4. CASE b \in 160 .. 191
  <2>1. \A s \in 0 .. 8 : spec_step(s * 6, b) =
            IF s = 2 THEN ACCEPT
            ELSE IF s \in {3, 4} THEN C1
            ELSE IF s \in {6, 7} THEN C2
            ELSE REJECT
    BY <1>4 DEF spec_step, REJECT, ACCEPT, C1, C2, C3, E0, ED, F0, F4, Ascii, cont
  <2>2. i \in ROW[b] <=> i \in {13, 14, 20, 21, 26, 27, 37, 40, 43, 46}
    BY <2>1, RowBits, StateBits DEF WordBits
  <2>3. spec_row(b) = Hex(<<0,0,0,0, 4,9,2,0, 0,12,3,0, 6,0,0,0>>)
    BY <1>4 DEF spec_row
  <2>4. i \in Hex(<<0,0,0,0, 4,9,2,0, 0,12,3,0, 6,0,0,0>>) <=> i \in {13, 14, 20, 21, 26, 27, 37, 40, 43, 46}
    BY HexBits, NibbleBits DEF WordBits
  <2> QED BY <2>2, <2>3, <2>4
<1>5. CASE b \in 194 .. 223
  <2>1. \A s \in 0 .. 8 : spec_step(s * 6, b) =
            IF s = 1 THEN C1 ELSE REJECT
    BY <1>5 DEF spec_step, REJECT, ACCEPT, C1, C2, C3, E0, ED, F0, F4, Ascii, cont
  <2>2. i \in ROW[b] <=> i \in {8, 9}
    BY <2>1, RowBits, StateBits DEF WordBits
  <2>3. spec_row(b) = Hex(<<0,0,0,0, 0,0,0,0, 0,0,0,0, 0,3,0,0>>)
    BY <1>5 DEF spec_row
  <2>4. i \in Hex(<<0,0,0,0, 0,0,0,0, 0,0,0,0, 0,3,0,0>>) <=> i \in {8, 9}
    BY HexBits, NibbleBits DEF WordBits
  <2> QED BY <2>2, <2>3, <2>4
<1>6. CASE b = 224
  <2>1. \A s \in 0 .. 8 : spec_step(s * 6, b) =
            IF s = 1 THEN E0 ELSE REJECT
    BY <1>6 DEF spec_step, REJECT, ACCEPT, C1, C2, C3, E0, ED, F0, F4, Ascii, cont
  <2>2. i \in ROW[b] <=> i \in {9, 10}
    BY <2>1, RowBits, StateBits DEF WordBits
  <2>3. spec_row(b) = Hex(<<0,0,0,0, 0,0,0,0, 0,0,0,0, 0,6,0,0>>)
    BY <1>6 DEF spec_row
  <2>4. i \in Hex(<<0,0,0,0, 0,0,0,0, 0,0,0,0, 0,6,0,0>>) <=> i \in {9, 10}
    BY HexBits, NibbleBits DEF WordBits
  <2> QED BY <2>2, <2>3, <2>4
<1>7. CASE b \in (225 .. 239) \ {237}
  <2>1. \A s \in 0 .. 8 : spec_step(s * 6, b) =
            IF s = 1 THEN C2 ELSE REJECT
    BY <1>7 DEF spec_step, REJECT, ACCEPT, C1, C2, C3, E0, ED, F0, F4, Ascii, cont
  <2>2. i \in ROW[b] <=> i \in {7, 10}
    BY <2>1, RowBits, StateBits DEF WordBits
  <2>3. spec_row(b) = Hex(<<0,0,0,0, 0,0,0,0, 0,0,0,0, 0,4,8,0>>)
    BY <1>7 DEF spec_row
  <2>4. i \in Hex(<<0,0,0,0, 0,0,0,0, 0,0,0,0, 0,4,8,0>>) <=> i \in {7, 10}
    BY HexBits, NibbleBits DEF WordBits
  <2> QED BY <2>2, <2>3, <2>4
<1>8. CASE b = 237
  <2>1. \A s \in 0 .. 8 : spec_step(s * 6, b) =
            IF s = 1 THEN ED ELSE REJECT
    BY <1>8 DEF spec_step, REJECT, ACCEPT, C1, C2, C3, E0, ED, F0, F4, Ascii, cont
  <2>2. i \in ROW[b] <=> i \in {7, 8, 9, 10}
    BY <2>1, RowBits, StateBits DEF WordBits
  <2>3. spec_row(b) = Hex(<<0,0,0,0, 0,0,0,0, 0,0,0,0, 0,7,8,0>>)
    BY <1>8 DEF spec_row
  <2>4. i \in Hex(<<0,0,0,0, 0,0,0,0, 0,0,0,0, 0,7,8,0>>) <=> i \in {7, 8, 9, 10}
    BY HexBits, NibbleBits DEF WordBits
  <2> QED BY <2>2, <2>3, <2>4
<1>9. CASE b = 240
  <2>1. \A s \in 0 .. 8 : spec_step(s * 6, b) =
            IF s = 1 THEN F0 ELSE REJECT
    BY <1>9 DEF spec_step, REJECT, ACCEPT, C1, C2, C3, E0, ED, F0, F4, Ascii, cont
  <2>2. i \in ROW[b] <=> i \in {8, 11}
    BY <2>1, RowBits, StateBits DEF WordBits
  <2>3. spec_row(b) = Hex(<<0,0,0,0, 0,0,0,0, 0,0,0,0, 0,9,0,0>>)
    BY <1>9 DEF spec_row
  <2>4. i \in Hex(<<0,0,0,0, 0,0,0,0, 0,0,0,0, 0,9,0,0>>) <=> i \in {8, 11}
    BY HexBits, NibbleBits DEF WordBits
  <2> QED BY <2>2, <2>3, <2>4
<1>10. CASE b \in 241 .. 243
  <2>1. \A s \in 0 .. 8 : spec_step(s * 6, b) =
            IF s = 1 THEN C3 ELSE REJECT
    BY <1>10 DEF spec_step, REJECT, ACCEPT, C1, C2, C3, E0, ED, F0, F4, Ascii, cont
  <2>2. i \in ROW[b] <=> i \in {7, 9, 11}
    BY <2>1, RowBits, StateBits DEF WordBits
  <2>3. spec_row(b) = Hex(<<0,0,0,0, 0,0,0,0, 0,0,0,0, 0,10,8,0>>)
    BY <1>10 DEF spec_row
  <2>4. i \in Hex(<<0,0,0,0, 0,0,0,0, 0,0,0,0, 0,10,8,0>>) <=> i \in {7, 9, 11}
    BY HexBits, NibbleBits DEF WordBits
  <2> QED BY <2>2, <2>3, <2>4
<1>11. CASE b = 244
  <2>1. \A s \in 0 .. 8 : spec_step(s * 6, b) =
            IF s = 1 THEN F4 ELSE REJECT
    BY <1>11 DEF spec_step, REJECT, ACCEPT, C1, C2, C3, E0, ED, F0, F4, Ascii, cont
  <2>2. i \in ROW[b] <=> i \in {10, 11}
    BY <2>1, RowBits, StateBits DEF WordBits
  <2>3. spec_row(b) = Hex(<<0,0,0,0, 0,0,0,0, 0,0,0,0, 0,12,0,0>>)
    BY <1>11 DEF spec_row
  <2>4. i \in Hex(<<0,0,0,0, 0,0,0,0, 0,0,0,0, 0,12,0,0>>) <=> i \in {10, 11}
    BY HexBits, NibbleBits DEF WordBits
  <2> QED BY <2>2, <2>3, <2>4
<1>12. CASE b \in (192 .. 193) \cup (245 .. 255)
  <2>1. \A s \in 0 .. 8 : spec_step(s * 6, b) =
            REJECT
    BY <1>12 DEF spec_step, REJECT, ACCEPT, C1, C2, C3, E0, ED, F0, F4, Ascii, cont
  <2>2. i \in ROW[b] <=> i \in {}
    BY <2>1, RowBits, StateBits DEF WordBits
  <2>3. spec_row(b) = {}
    BY <1>12 DEF spec_row
  <2> QED BY <2>2, <2>3
<1> QED BY <1>1, <1>2, <1>3, <1>4, <1>5, <1>6, <1>7, <1>8, <1>9, <1>10, <1>11, <1>12 DEF Byte

(***************************************************************************)
(* build_rows packs exactly the literals of spec_row, for each of the 256  *)
(* bytes: what the crate checks at compile time.                           *)
(***************************************************************************)
THEOREM RowsAreSpecRows == ROW = [ b \in Byte |-> spec_row(b) ]
<1>1. ASSUME NEW b \in Byte PROVE ROW[b] = spec_row(b)
  <2>1. ROW[b] \subseteq WordBits
    BY DEF ROW
  <2>2. spec_row(b) \subseteq WordBits
    <3>1. \A d : Hex(d) \subseteq WordBits
      BY DEF Hex
    <3> QED BY <3>1 DEF spec_row
  <2> QED BY <2>1, <2>2, RowIsSpecRow
<1> QED BY <1>1 DEF ROW

-----------------------------------------------------------------------------
(***************************************************************************)
(* Completing a sequence that lacks one, two or three bytes.               *)
(***************************************************************************)
LEMMA Completes1 ==
  ASSUME NEW s, s # REJECT, NEW A,
         Remaining[s] = << A >>,
         NEW b, NEW e \in Nat, NEW q \in 0 .. e
  PROVE  Completes(s, b, q, e) <=>
           /\ q + 1 <= e /\ b[q] \in A
           /\ is_valid_utf8(b, q + 1, e)
<1>1. MatchesAt(Remaining[s], b, q, e) <=>
        q + 1 <= e /\ b[q] \in A
  BY Match1
<1>2. Len(Remaining[s]) = 1
  OBVIOUS
<1> QED BY <1>1, <1>2 DEF Completes

\* The same for a state that needs two more bytes.
LEMMA Completes2 ==
  ASSUME NEW s, s # REJECT, NEW A, NEW B,
         Remaining[s] = << A, B >>,
         NEW b, NEW e \in Nat, NEW q \in 0 .. e
  PROVE  Completes(s, b, q, e) <=>
           /\ q + 2 <= e /\ b[q] \in A /\ b[q + 1] \in B
           /\ is_valid_utf8(b, q + 2, e)
<1>1. MatchesAt(Remaining[s], b, q, e) <=>
        q + 2 <= e /\ b[q] \in A /\ b[q + 1] \in B
  BY Match2
<1>2. Len(Remaining[s]) = 2
  OBVIOUS
<1> QED BY <1>1, <1>2 DEF Completes

\* The same for a state that needs three more bytes.
LEMMA Completes3 ==
  ASSUME NEW s, s # REJECT, NEW A, NEW B, NEW C,
         Remaining[s] = << A, B, C >>,
         NEW b, NEW e \in Nat, NEW q \in 0 .. e
  PROVE  Completes(s, b, q, e) <=>
           /\ q + 3 <= e /\ b[q] \in A /\ b[q + 1] \in B
           /\ b[q + 2] \in C /\ is_valid_utf8(b, q + 3, e)
<1>1. MatchesAt(Remaining[s], b, q, e) <=>
        q + 3 <= e /\ b[q] \in A /\ b[q + 1] \in B /\ b[q + 2] \in C
  BY Match3
<1>2. Len(Remaining[s]) = 3
  OBVIOUS
<1> QED BY <1>1, <1>2 DEF Completes

(***************************************************************************)
(* What it takes to complete the sequence in progress, state by state.     *)
(***************************************************************************)
LEMMA CompletesUnfold ==
  ASSUME NEW b, NEW e \in Nat, NEW q \in 0 .. e
  PROVE  /\ ~ Completes(REJECT, b, q, e)
         /\ Completes(ACCEPT, b, q, e) <=> is_valid_utf8(b, q, e)
         /\ Completes(C1, b, q, e) <=>
              q + 1 <= e /\ b[q] \in cont /\ is_valid_utf8(b, q + 1, e)
         /\ Completes(C2, b, q, e) <=>
              /\ q + 2 <= e /\ b[q] \in cont /\ b[q + 1] \in cont
              /\ is_valid_utf8(b, q + 2, e)
         /\ Completes(C3, b, q, e) <=>
              /\ q + 3 <= e /\ b[q] \in cont /\ b[q + 1] \in cont
              /\ b[q + 2] \in cont /\ is_valid_utf8(b, q + 3, e)
         /\ Completes(E0, b, q, e) <=>
              /\ q + 2 <= e /\ b[q] \in 160 .. 191 /\ b[q + 1] \in cont
              /\ is_valid_utf8(b, q + 2, e)
         /\ Completes(ED, b, q, e) <=>
              /\ q + 2 <= e /\ b[q] \in 128 .. 159 /\ b[q + 1] \in cont
              /\ is_valid_utf8(b, q + 2, e)
         /\ Completes(F0, b, q, e) <=>
              /\ q + 3 <= e /\ b[q] \in 144 .. 191 /\ b[q + 1] \in cont
              /\ b[q + 2] \in cont /\ is_valid_utf8(b, q + 3, e)
         /\ Completes(F4, b, q, e) <=>
              /\ q + 3 <= e /\ b[q] \in 128 .. 143 /\ b[q + 1] \in cont
              /\ b[q + 2] \in cont /\ is_valid_utf8(b, q + 3, e)
<1>1. /\ ACCEPT # REJECT /\ Remaining[ACCEPT] = << >>
      /\ C1 # REJECT /\ Remaining[C1] = << cont >>
      /\ C2 # REJECT /\ Remaining[C2] = << cont, cont >>
      /\ C3 # REJECT /\ Remaining[C3] = << cont, cont, cont >>
      /\ E0 # REJECT /\ Remaining[E0] = << 160 .. 191, cont >>
      /\ ED # REJECT /\ Remaining[ED] = << 128 .. 159, cont >>
      /\ F0 # REJECT /\ Remaining[F0] = << 144 .. 191, cont, cont >>
      /\ F4 # REJECT /\ Remaining[F4] = << 128 .. 143, cont, cont >>
  BY DEF Remaining, States, REJECT, ACCEPT, C1, C2, C3, E0, ED, F0, F4
<1>2. ~ Completes(REJECT, b, q, e)
  BY DEF Completes
<1>3. Completes(ACCEPT, b, q, e) <=> is_valid_utf8(b, q, e)
  <2>1. MatchesAt(<< >>, b, q, e) /\ q + Len(<< >>) = q
    BY DEF MatchesAt
  <2> QED BY <1>1, <2>1 DEF Completes
<1>4. Completes(C1, b, q, e) <=>
        q + 1 <= e /\ b[q] \in cont /\ is_valid_utf8(b, q + 1, e)
  <2>1. C1 # REJECT /\ Remaining[C1] = << cont >>
    BY <1>1
  <2> QED BY <2>1, Completes1, Zenon
<1>5. Completes(C2, b, q, e) <=>
        /\ q + 2 <= e /\ b[q] \in cont /\ b[q + 1] \in cont
        /\ is_valid_utf8(b, q + 2, e)
  <2>1. C2 # REJECT /\ Remaining[C2] = << cont, cont >>
    BY <1>1
  <2> QED BY <2>1, Completes2, Zenon
<1>6. Completes(C3, b, q, e) <=>
        /\ q + 3 <= e /\ b[q] \in cont /\ b[q + 1] \in cont
        /\ b[q + 2] \in cont /\ is_valid_utf8(b, q + 3, e)
  <2>1. C3 # REJECT /\ Remaining[C3] = << cont, cont, cont >>
    BY <1>1
  <2> QED BY <2>1, Completes3, Zenon
<1>7. Completes(E0, b, q, e) <=>
        /\ q + 2 <= e /\ b[q] \in 160 .. 191 /\ b[q + 1] \in cont
        /\ is_valid_utf8(b, q + 2, e)
  <2>1. E0 # REJECT /\ Remaining[E0] = << 160 .. 191, cont >>
    BY <1>1
  <2> QED BY <2>1, Completes2, Zenon
<1>8. Completes(ED, b, q, e) <=>
        /\ q + 2 <= e /\ b[q] \in 128 .. 159 /\ b[q + 1] \in cont
        /\ is_valid_utf8(b, q + 2, e)
  <2>1. ED # REJECT /\ Remaining[ED] = << 128 .. 159, cont >>
    BY <1>1
  <2> QED BY <2>1, Completes2, Zenon
<1>9. Completes(F0, b, q, e) <=>
        /\ q + 3 <= e /\ b[q] \in 144 .. 191 /\ b[q + 1] \in cont
        /\ b[q + 2] \in cont /\ is_valid_utf8(b, q + 3, e)
  <2>1. F0 # REJECT /\ Remaining[F0] = << 144 .. 191, cont, cont >>
    BY <1>1
  <2> QED BY <2>1, Completes3, ZenonT(30)
<1>10. Completes(F4, b, q, e) <=>
        /\ q + 3 <= e /\ b[q] \in 128 .. 143 /\ b[q + 1] \in cont
        /\ b[q + 2] \in cont /\ is_valid_utf8(b, q + 3, e)
  <2>1. F4 # REJECT /\ Remaining[F4] = << 128 .. 143, cont, cont >>
    BY <1>1
  <2> QED BY <2>1, Completes3, Zenon
<1> QED
  BY <1>2, <1>3, <1>4, <1>5, <1>6, <1>7, <1>8, <1>9, <1>10

(***************************************************************************)
(* At a boundary: the lead byte chooses the state, and what the state then *)
(* asks for is what is left of the row.                                    *)
(***************************************************************************)
LEMMA CompletesLead ==
  ASSUME NEW b, NEW e \in Nat, NEW q \in 0 .. e - 1, b[q] \in Byte
  PROVE  is_valid_utf8(b, q, e) <=>
           Completes(spec_step(ACCEPT, b[q]), b, q + 1, e)
<1> DEFINE V(k) == is_valid_utf8(b, k, e)
           x == b[q]
           t == spec_step(ACCEPT, x)
<1>0. /\ q \in Nat /\ q + 1 \in 0 .. e /\ x \in Int
      /\ q + 1 + 1 = q + 2 /\ q + 1 + 2 = q + 3 /\ q + 1 + 3 = q + 4
  BY DEF Byte
<1>1. CASE x \in Ascii
  <2> DEFINE row == << Ascii >>
  <2>1. row \in Table37 /\ x \in row[1] /\ Len(row) = 1
    BY <1>1 DEF Table37
  <2>2. MatchesAt(row, b, q, e) <=>
          q + 1 <= e
    BY <1>0, <1>1, Match1
  <2> HIDE DEF row
  <2>3. V(q) <=> MatchesAt(row, b, q, e) /\ V(q + 1)
    BY <1>0, <2>1, ValidByRow
  <2>4. Completes(ACCEPT, b, q + 1, e) <=>
          q + 1 <= e
          /\ V(q + 1)
    BY <1>0, CompletesUnfold
  <2>5. t = ACCEPT
    BY <1>1 DEF spec_step, REJECT, ACCEPT, C1, C2, C3, E0, ED, F0, F4, Ascii
  <2> QED BY <2>2, <2>3, <2>4, <2>5
<1>2. CASE x \in 194 .. 223
  <2> DEFINE row == << 194 .. 223, cont >>
  <2>1. row \in Table37 /\ x \in row[1] /\ Len(row) = 2
    BY <1>2 DEF Table37
  <2>2. MatchesAt(row, b, q, e) <=>
          q + 2 <= e /\ b[q + 1] \in cont
    BY <1>0, <1>2, Match2
  <2> HIDE DEF row
  <2>3. V(q) <=> MatchesAt(row, b, q, e) /\ V(q + 2)
    BY <1>0, <2>1, ValidByRow
  <2>4. Completes(C1, b, q + 1, e) <=>
          q + 2 <= e /\ b[q + 1] \in cont
          /\ V(q + 2)
    BY <1>0, CompletesUnfold
  <2>5. t = C1
    BY <1>2 DEF spec_step, REJECT, ACCEPT, C1, C2, C3, E0, ED, F0, F4, Ascii
  <2> QED BY <2>2, <2>3, <2>4, <2>5
<1>3. CASE x \in {224}
  <2> DEFINE row == << {224}, 160 .. 191, cont >>
  <2>1. row \in Table37 /\ x \in row[1] /\ Len(row) = 3
    BY <1>3 DEF Table37
  <2>2. MatchesAt(row, b, q, e) <=>
          q + 3 <= e /\ b[q + 1] \in 160 .. 191 /\ b[q + 2] \in cont
    BY <1>0, <1>3, Match3
  <2> HIDE DEF row
  <2>3. V(q) <=> MatchesAt(row, b, q, e) /\ V(q + 3)
    BY <1>0, <2>1, ValidByRow
  <2>4. Completes(E0, b, q + 1, e) <=>
          q + 3 <= e /\ b[q + 1] \in 160 .. 191 /\ b[q + 2] \in cont
          /\ V(q + 3)
    BY <1>0, CompletesUnfold
  <2>5. t = E0
    BY <1>3 DEF spec_step, REJECT, ACCEPT, C1, C2, C3, E0, ED, F0, F4, Ascii
  <2> QED BY <2>2, <2>3, <2>4, <2>5
<1>4. CASE x \in 225 .. 236
  <2> DEFINE row == << 225 .. 236, cont, cont >>
  <2>1. row \in Table37 /\ x \in row[1] /\ Len(row) = 3
    BY <1>4 DEF Table37
  <2>2. MatchesAt(row, b, q, e) <=>
          q + 3 <= e /\ b[q + 1] \in cont /\ b[q + 2] \in cont
    BY <1>0, <1>4, Match3
  <2> HIDE DEF row
  <2>3. V(q) <=> MatchesAt(row, b, q, e) /\ V(q + 3)
    BY <1>0, <2>1, ValidByRow
  <2>4. Completes(C2, b, q + 1, e) <=>
          q + 3 <= e /\ b[q + 1] \in cont /\ b[q + 2] \in cont
          /\ V(q + 3)
    BY <1>0, CompletesUnfold
  <2>5. t = C2
    BY <1>4 DEF spec_step, REJECT, ACCEPT, C1, C2, C3, E0, ED, F0, F4, Ascii
  <2> QED BY <2>2, <2>3, <2>4, <2>5
<1>5. CASE x \in {237}
  <2> DEFINE row == << {237}, 128 .. 159, cont >>
  <2>1. row \in Table37 /\ x \in row[1] /\ Len(row) = 3
    BY <1>5 DEF Table37
  <2>2. MatchesAt(row, b, q, e) <=>
          q + 3 <= e /\ b[q + 1] \in 128 .. 159 /\ b[q + 2] \in cont
    BY <1>0, <1>5, Match3
  <2> HIDE DEF row
  <2>3. V(q) <=> MatchesAt(row, b, q, e) /\ V(q + 3)
    BY <1>0, <2>1, ValidByRow
  <2>4. Completes(ED, b, q + 1, e) <=>
          q + 3 <= e /\ b[q + 1] \in 128 .. 159 /\ b[q + 2] \in cont
          /\ V(q + 3)
    BY <1>0, CompletesUnfold
  <2>5. t = ED
    BY <1>5 DEF spec_step, REJECT, ACCEPT, C1, C2, C3, E0, ED, F0, F4, Ascii
  <2> QED BY <2>2, <2>3, <2>4, <2>5
<1>6. CASE x \in 238 .. 239
  <2> DEFINE row == << 238 .. 239, cont, cont >>
  <2>1. row \in Table37 /\ x \in row[1] /\ Len(row) = 3
    BY <1>6 DEF Table37
  <2>2. MatchesAt(row, b, q, e) <=>
          q + 3 <= e /\ b[q + 1] \in cont /\ b[q + 2] \in cont
    BY <1>0, <1>6, Match3
  <2> HIDE DEF row
  <2>3. V(q) <=> MatchesAt(row, b, q, e) /\ V(q + 3)
    BY <1>0, <2>1, ValidByRow
  <2>4. Completes(C2, b, q + 1, e) <=>
          q + 3 <= e /\ b[q + 1] \in cont /\ b[q + 2] \in cont
          /\ V(q + 3)
    BY <1>0, CompletesUnfold
  <2>5. t = C2
    BY <1>6 DEF spec_step, REJECT, ACCEPT, C1, C2, C3, E0, ED, F0, F4, Ascii
  <2> QED BY <2>2, <2>3, <2>4, <2>5
<1>7. CASE x \in {240}
  <2> DEFINE row == << {240}, 144 .. 191, cont, cont >>
  <2>1. row \in Table37 /\ x \in row[1] /\ Len(row) = 4
    BY <1>7 DEF Table37
  <2>2. MatchesAt(row, b, q, e) <=>
          q + 4 <= e /\ b[q + 1] \in 144 .. 191 /\ b[q + 2] \in cont /\ b[q + 3] \in cont
    BY <1>0, <1>7, Match4
  <2> HIDE DEF row
  <2>3. V(q) <=> MatchesAt(row, b, q, e) /\ V(q + 4)
    BY <1>0, <2>1, ValidByRow
  <2>4. Completes(F0, b, q + 1, e) <=>
          q + 4 <= e /\ b[q + 1] \in 144 .. 191 /\ b[q + 2] \in cont /\ b[q + 3] \in cont
          /\ V(q + 4)
    BY <1>0, CompletesUnfold
  <2>5. t = F0
    BY <1>7 DEF spec_step, REJECT, ACCEPT, C1, C2, C3, E0, ED, F0, F4, Ascii
  <2> QED BY <2>2, <2>3, <2>4, <2>5
<1>8. CASE x \in 241 .. 243
  <2> DEFINE row == << 241 .. 243, cont, cont, cont >>
  <2>1. row \in Table37 /\ x \in row[1] /\ Len(row) = 4
    BY <1>8 DEF Table37
  <2>2. MatchesAt(row, b, q, e) <=>
          q + 4 <= e /\ b[q + 1] \in cont /\ b[q + 2] \in cont /\ b[q + 3] \in cont
    BY <1>0, <1>8, Match4
  <2> HIDE DEF row
  <2>3. V(q) <=> MatchesAt(row, b, q, e) /\ V(q + 4)
    BY <1>0, <2>1, ValidByRow
  <2>4. Completes(C3, b, q + 1, e) <=>
          q + 4 <= e /\ b[q + 1] \in cont /\ b[q + 2] \in cont /\ b[q + 3] \in cont
          /\ V(q + 4)
    BY <1>0, CompletesUnfold
  <2>5. t = C3
    BY <1>8 DEF spec_step, REJECT, ACCEPT, C1, C2, C3, E0, ED, F0, F4, Ascii
  <2> QED BY <2>2, <2>3, <2>4, <2>5
<1>9. CASE x \in {244}
  <2> DEFINE row == << {244}, 128 .. 143, cont, cont >>
  <2>1. row \in Table37 /\ x \in row[1] /\ Len(row) = 4
    BY <1>9 DEF Table37
  <2>2. MatchesAt(row, b, q, e) <=>
          q + 4 <= e /\ b[q + 1] \in 128 .. 143 /\ b[q + 2] \in cont /\ b[q + 3] \in cont
    BY <1>0, <1>9, Match4
  <2> HIDE DEF row
  <2>3. V(q) <=> MatchesAt(row, b, q, e) /\ V(q + 4)
    BY <1>0, <2>1, ValidByRow
  <2>4. Completes(F4, b, q + 1, e) <=>
          q + 4 <= e /\ b[q + 1] \in 128 .. 143 /\ b[q + 2] \in cont /\ b[q + 3] \in cont
          /\ V(q + 4)
    BY <1>0, CompletesUnfold
  <2>5. t = F4
    BY <1>9 DEF spec_step, REJECT, ACCEPT, C1, C2, C3, E0, ED, F0, F4, Ascii
  <2> QED BY <2>2, <2>3, <2>4, <2>5
<1>10. CASE x \in (128 .. 193) \cup (245 .. 255)
  <2>1. \A row \in Table37 : x \notin row[1]
    <3>1. x \in Int /\ x > 127 /\ (x < 194 \/ x > 244)
      BY <1>10
    <3>2. \A row \in Table37 :
            row[1] \in { Ascii, 194 .. 223, {224}, 225 .. 236, {237}, 238 .. 239,
                        {240}, 241 .. 243, {244} }
      BY DEF Table37
    <3> QED BY <3>1, <3>2 DEF Ascii
  <2>2. t = REJECT
    BY <1>10, SMTT(30) DEF spec_step, ACCEPT, Ascii, C1, C2, C3, E0, ED, F0, F4
  <2> QED BY <1>0, <2>1, <2>2, InvalidByLead, CompletesUnfold
<1> QED BY <1>1, <1>2, <1>3, <1>4, <1>5, <1>6, <1>7, <1>8, <1>9, <1>10 DEF Byte, Ascii

(***************************************************************************)
(* One step of the DFA over one byte keeps the question whether the range  *)
(* is well-formed.                                                         *)
(***************************************************************************)
THEOREM CompletesStep ==
  ASSUME NEW b, NEW e \in Nat, NEW q \in 0 .. e - 1, b[q] \in Byte,
         NEW s \in States
  PROVE  Completes(s, b, q, e) <=> Completes(step(s, b[q]), b, q + 1, e)
<1> DEFINE x == b[q]
<1>0. /\ q \in 0 .. e /\ q + 1 \in 0 .. e
      /\ q + 1 + 1 = q + 2 /\ q + 1 + 2 = q + 3
  OBVIOUS
<1>1. step(s, x) = spec_step(s, x)
  BY StepIsSpecStep
<1>2. CASE s = ACCEPT
  BY <1>0, <1>1, <1>2, CompletesLead, CompletesUnfold
<1>3. CASE s = REJECT
  <2>1. spec_step(s, x) = REJECT
    BY <1>3 DEF spec_step, REJECT, ACCEPT, C1, C2, C3, E0, ED, F0, F4
  <2> QED BY <1>0, <1>1, <1>3, <2>1, CompletesUnfold
<1>4. CASE s = C1
  <2>1. spec_step(s, x) = IF x \in cont THEN ACCEPT ELSE REJECT
    BY <1>4 DEF spec_step, REJECT, ACCEPT, C1, C2, C3, E0, ED, F0, F4
  <2> QED BY <1>0, <1>1, <1>4, <2>1, CompletesUnfold
<1>5. CASE s = C2
  <2>1. spec_step(s, x) = IF x \in cont THEN C1 ELSE REJECT
    BY <1>5 DEF spec_step, REJECT, ACCEPT, C1, C2, C3, E0, ED, F0, F4
  <2> QED BY <1>0, <1>1, <1>5, <2>1, CompletesUnfold
<1>6. CASE s = C3
  <2>1. spec_step(s, x) = IF x \in cont THEN C2 ELSE REJECT
    BY <1>6 DEF spec_step, REJECT, ACCEPT, C1, C2, C3, E0, ED, F0, F4
  <2> QED BY <1>0, <1>1, <1>6, <2>1, CompletesUnfold
<1>7. CASE s = E0
  <2>1. spec_step(s, x) = IF x \in 160 .. 191 THEN C1 ELSE REJECT
    BY <1>7 DEF spec_step, REJECT, ACCEPT, C1, C2, C3, E0, ED, F0, F4
  <2> QED BY <1>0, <1>1, <1>7, <2>1, CompletesUnfold
<1>8. CASE s = ED
  <2>1. spec_step(s, x) = IF x \in 128 .. 159 THEN C1 ELSE REJECT
    BY <1>8 DEF spec_step, REJECT, ACCEPT, C1, C2, C3, E0, ED, F0, F4
  <2> QED BY <1>0, <1>1, <1>8, <2>1, CompletesUnfold
<1>9. CASE s = F0
  <2>1. spec_step(s, x) = IF x \in 144 .. 191 THEN C2 ELSE REJECT
    BY <1>9 DEF spec_step, REJECT, ACCEPT, C1, C2, C3, E0, ED, F0, F4
  <2> QED BY <1>0, <1>1, <1>9, <2>1, CompletesUnfold
<1>10. CASE s = F4
  <2>1. spec_step(s, x) = IF x \in 128 .. 143 THEN C2 ELSE REJECT
    BY <1>10 DEF spec_step, REJECT, ACCEPT, C1, C2, C3, E0, ED, F0, F4
  <2> QED BY <1>0, <1>1, <1>10, <2>1, CompletesUnfold
<1> QED BY <1>2, <1>3, <1>4, <1>5, <1>6, <1>7, <1>8, <1>9, <1>10 DEF States

(***************************************************************************)
(* With no byte left, only ACCEPT is complete.                             *)
(***************************************************************************)
LEMMA CompletesAtEnd ==
  ASSUME NEW b, NEW e \in Nat, NEW s \in States
  PROVE  Completes(s, b, e, e) <=> s = ACCEPT
<1>0. e \in 0 .. e /\ ~ (e + 1 <= e) /\ ~ (e + 2 <= e) /\ ~ (e + 3 <= e)
  OBVIOUS
<1>1. /\ ~ Completes(REJECT, b, e, e) /\ ~ Completes(C1, b, e, e)
      /\ ~ Completes(C2, b, e, e) /\ ~ Completes(C3, b, e, e)
      /\ ~ Completes(E0, b, e, e) /\ ~ Completes(ED, b, e, e)
      /\ ~ Completes(F0, b, e, e) /\ ~ Completes(F4, b, e, e)
  <2>1. ~ Completes(REJECT, b, e, e)
    BY <1>0, CompletesUnfold
  <2>2. ~ Completes(C1, b, e, e)
    BY <1>0, CompletesUnfold
  <2>3. ~ Completes(C2, b, e, e)
    BY <1>0, CompletesUnfold
  <2>4. ~ Completes(C3, b, e, e)
    BY <1>0, CompletesUnfold
  <2>5. ~ Completes(E0, b, e, e)
    BY <1>0, CompletesUnfold
  <2>6. ~ Completes(ED, b, e, e)
    BY <1>0, CompletesUnfold
  <2>7. ~ Completes(F0, b, e, e)
    BY <1>0, CompletesUnfold
  <2>8. ~ Completes(F4, b, e, e)
    BY <1>0, CompletesUnfold
  <2> QED BY <2>1, <2>2, <2>3, <2>4, <2>5, <2>6, <2>7, <2>8
<1>2. Completes(ACCEPT, b, e, e)
  BY ValidAtEnd, CompletesUnfold
<1>3. s = ACCEPT \/ s \in {C1, C2, C3, E0, ED, F0, F4, REJECT}
  BY DEF States
<1> QED BY <1>1, <1>2, <1>3

-----------------------------------------------------------------------------
(***************************************************************************)
(* The run of the DFA.  Its recursive definition is, to the prover, some   *)
(* function that satisfies the equation; that there is one follows from    *)
(* the traces of states, of which each state and range has exactly one.    *)
(***************************************************************************)
IsTrace(t, st, b, k, e) ==
  /\ t[k] = st
  /\ \A j \in k .. e - 1 : t[j + 1] = spec_step(t[j], b[j])

LEMMA TraceExists ==
  ASSUME NEW b, NEW e \in Nat, NEW k \in 0 .. e, NEW st \in States
  PROVE  \E t : IsTrace(t, st, b, k, e)
<1> DEFINE Has(i) == \A s \in States : \E t : IsTrace(t, s, b, i, e)
           S == { i \in 0 .. e : Has(i) }
<1>1. e \in S
  <2>1. ASSUME NEW s PROVE IsTrace([ j \in {e} |-> s ], s, b, e, e)
    BY DEF IsTrace
  <2> QED BY <2>1
<1>2. ASSUME NEW i \in 0 .. e - 1, i + 1 \in S PROVE i \in S
  <2>1. ASSUME NEW s \in States PROVE \E t : IsTrace(t, s, b, i, e)
    <3>1. PICK u : IsTrace(u, spec_step(s, b[i]), b, i + 1, e)
      BY <1>2, SpecStepIsState
    <3> DEFINE t == [ j \in i .. e |-> IF j = i THEN s ELSE u[j] ]
    <3>2. t[i] = s /\ t[i + 1] = u[i + 1]
      OBVIOUS
    <3>3. ASSUME NEW j \in i .. e - 1 PROVE t[j + 1] = spec_step(t[j], b[j])
      <4>1. CASE j = i
        BY <3>1, <3>2, <4>1 DEF IsTrace
      <4>2. CASE j # i
        <5>1. j \in i + 1 .. e - 1 /\ t[j] = u[j] /\ t[j + 1] = u[j + 1]
          BY <4>2
        <5>2. u[j + 1] = spec_step(u[j], b[j])
          BY <3>1, <5>1 DEF IsTrace
        <5> QED BY <5>1, <5>2
      <4> QED BY <4>1, <4>2
    <3> HIDE DEF t
    <3> QED BY <3>2, <3>3 DEF IsTrace
  <2> QED BY <2>1
<1> HIDE DEF S
<1>3. k \in S
  BY <1>1, <1>2, Downward
<1> QED BY <1>3 DEF S

LEMMA TraceUnique ==
  ASSUME NEW b, NEW e \in Nat, NEW k \in 0 .. e, NEW st,
         NEW t, IsTrace(t, st, b, k, e), NEW u, IsTrace(u, st, b, k, e)
  PROVE  t[e] = u[e]
<1> DEFINE S == { j \in k .. e : t[j] = u[j] }
<1>1. k \in S
  BY DEF IsTrace
<1>2. \A j \in k .. e - 1 : j \in S => j + 1 \in S
  BY DEF IsTrace
<1> HIDE DEF S
<1>3. e \in S
  BY <1>1, <1>2, Upward, SMTT(30)
<1> QED BY <1>3 DEF S

LEMMA UnfoldRun ==
  ASSUME NEW b, NEW e \in Nat, NEW k \in 0 .. e, NEW st \in States
  PROVE  run(st, b, k, e) = IF k = e THEN st ELSE run(spec_step(st, b[k]), b, k + 1, e)
<1> DEFINE Body(g) ==
      [ j \in 0 .. e |-> [ s \in States |->
          IF j = e THEN s ELSE g[j + 1][spec_step(s, b[j])] ] ]
           Last(s, j) == (CHOOSE t : IsTrace(t, s, b, j, e))[e]
           h == [ j \in 0 .. e |-> [ s \in States |-> Last(s, j) ] ]
<1>1. ASSUME NEW j \in 0 .. e, NEW s \in States, NEW t, IsTrace(t, s, b, j, e)
      PROVE  Last(s, j) = t[e]
  <2>1. IsTrace(CHOOSE u : IsTrace(u, s, b, j, e), s, b, j, e)
    BY <1>1
  <2> QED BY <1>1, <2>1, TraceUnique
<1>2. ASSUME NEW j \in 0 .. e, NEW s \in States
      PROVE  Last(s, j) = IF j = e THEN s ELSE Last(spec_step(s, b[j]), j + 1)
  <2>1. PICK t : IsTrace(t, s, b, j, e)
    BY TraceExists
  <2>2. Last(s, j) = t[e]
    BY <1>1, <2>1
  <2> HIDE DEF Last
  <2>3. CASE j = e
    BY <2>1, <2>2, <2>3 DEF IsTrace
  <2>4. CASE j # e
    <3>1. j + 1 \in 0 .. e /\ j \in j .. e - 1
      BY <2>4
    <3>2. IsTrace(t, spec_step(s, b[j]), b, j + 1, e)
      BY <2>1, <3>1 DEF IsTrace
    <3>3. Last(spec_step(s, b[j]), j + 1) = t[e]
      BY <1>1, <3>1, <3>2, SpecStepIsState
    <3> QED BY <2>2, <2>4, <3>3
  <2> QED BY <2>3, <2>4
<1> HIDE DEF Last
<1>3. h = Body(h)
  <2>1. ASSUME NEW j \in 0 .. e, NEW s \in States
        PROVE  h[j][s] = IF j = e THEN s ELSE h[j + 1][spec_step(s, b[j])]
    <3>1. h[j][s] = Last(s, j)
      OBVIOUS
    <3>2. j # e => h[j + 1][spec_step(s, b[j])] = Last(spec_step(s, b[j]), j + 1)
      BY SpecStepIsState
    <3> QED BY <1>2, <3>1, <3>2
  <2> DEFINE f == Body(h)
  <2>2. \A j \in 0 .. e : f[j] = [ s \in States |->
            IF j = e THEN s ELSE h[j + 1][spec_step(s, b[j])] ]
    OBVIOUS
  <2>3. \A j \in 0 .. e : h[j] = [ s \in States |-> h[j][s] ]
    OBVIOUS
  <2> QED BY <2>1, <2>2, <2>3
<1>4. RunFrom(b, e) = CHOOSE g : g = Body(g)
  BY DEF RunFrom
<1>5. RunFrom(b, e) = Body(RunFrom(b, e))
  <2> HIDE DEF Body, h
  <2> QED BY <1>3, <1>4
<1>6. Body(RunFrom(b, e))[k][st] =
        IF k = e THEN st ELSE RunFrom(b, e)[k + 1][spec_step(st, b[k])]
  OBVIOUS
<1> HIDE DEF Body, h
<1> QED BY <1>5, <1>6 DEF run

\* The run ends in a state.
LEMMA RunIsState ==
  ASSUME NEW b, NEW e \in Nat, NEW k \in 0 .. e, NEW st \in States
  PROVE  run(st, b, k, e) \in States
<1> DEFINE S == { i \in 0 .. e : \A s \in States : run(s, b, i, e) \in States }
<1>1. e \in S
  BY UnfoldRun
<1>2. \A i \in 0 .. e - 1 : i + 1 \in S => i \in S
  BY UnfoldRun, SpecStepIsState
<1> HIDE DEF S
<1>3. k \in S
  BY <1>1, <1>2, Downward
<1> QED BY <1>3 DEF S

(***************************************************************************)
(* The run over a range is the run over its end from where the run over    *)
(* its beginning has led (lemma_run_join): this is why a buffer may be     *)
(* consumed in chunks of eight bytes, and resumed inside a sequence.       *)
(***************************************************************************)
THEOREM RunJoin ==
  ASSUME NEW b, NEW e \in Nat, NEW j \in 0 .. e, NEW k \in 0 .. j, NEW st \in States
  PROVE  run(st, b, k, e) = run(run(st, b, k, j), b, j, e)
<1> DEFINE S == { i \in 0 .. j :
                    \A s \in States : run(s, b, i, e) = run(run(s, b, i, j), b, j, e) }
<1>1. j \in S
  BY UnfoldRun
<1>2. ASSUME NEW i \in 0 .. j - 1, i + 1 \in S PROVE i \in S
  <2>1. ASSUME NEW s \in States
        PROVE  run(s, b, i, e) = run(run(s, b, i, j), b, j, e)
    <3>1. i \in 0 .. e /\ i \in 0 .. j /\ i # j /\ i # e
      OBVIOUS
    <3>2. spec_step(s, b[i]) \in States
      BY SpecStepIsState
    <3>3. run(s, b, i, e) = run(spec_step(s, b[i]), b, i + 1, e)
      BY <3>1, UnfoldRun
    <3>4. run(s, b, i, j) = run(spec_step(s, b[i]), b, i + 1, j)
      BY <3>1, UnfoldRun
    <3> QED BY <1>2, <3>2, <3>3, <3>4
  <2> QED BY <2>1
<1> HIDE DEF S
<1>3. k \in S
  BY <1>1, <1>2, Downward
<1> QED BY <1>3 DEF S

\* One byte more (lemma_run_snoc).
LEMMA RunSnoc ==
  ASSUME NEW b, NEW e \in Nat, NEW k \in 0 .. e, NEW st \in States
  PROVE  run(st, b, k, e + 1) = spec_step(run(st, b, k, e), b[e])
<1> DEFINE s == run(st, b, k, e)
<1>1. s \in States
  BY RunIsState
<1>2. run(st, b, k, e + 1) = run(s, b, e, e + 1)
  BY RunJoin
<1> HIDE DEF s
<1>3. run(s, b, e, e + 1) = run(spec_step(s, b[e]), b, e + 1, e + 1)
  BY <1>1, UnfoldRun
<1>4. run(spec_step(s, b[e]), b, e + 1, e + 1) = spec_step(s, b[e])
  BY SpecStepIsState, UnfoldRun
<1> QED BY <1>2, <1>3, <1>4 DEF s

(***************************************************************************)
(* A rejected byte is never made up for, however many bytes follow         *)
(* (lemma_run_reject).                                                     *)
(***************************************************************************)
LEMMA RunRejected ==
  ASSUME NEW b, NEW e \in Nat, NEW k \in 0 .. e
  PROVE  run(REJECT, b, k, e) = REJECT
<1> DEFINE S == { i \in 0 .. e : run(REJECT, b, i, e) = REJECT }
<1>0. REJECT \in States /\ \A x : spec_step(REJECT, x) = REJECT
  BY DEF States, spec_step, REJECT, ACCEPT, C1, C2, C3, E0, ED, F0, F4
<1>1. e \in S
  BY <1>0, UnfoldRun
<1>2. \A i \in 0 .. e - 1 : i + 1 \in S => i \in S
  BY <1>0, UnfoldRun
<1> HIDE DEF S
<1>3. k \in S
  BY <1>1, <1>2, Downward
<1> QED BY <1>3 DEF S

\* ASCII bytes lead from ACCEPT to ACCEPT.
LEMMA RunAscii ==
  ASSUME NEW b, NEW e \in Nat, NEW k \in 0 .. e, \A i \in k .. e - 1 : b[i] \in Ascii
  PROVE  run(ACCEPT, b, k, e) = ACCEPT
<1> DEFINE S == { i \in 0 .. e : i >= k => run(ACCEPT, b, i, e) = ACCEPT }
<1>0. ACCEPT \in States /\ \A x \in Ascii : spec_step(ACCEPT, x) = ACCEPT
  BY DEF Ascii, States, spec_step, REJECT, ACCEPT, C1, C2, C3, E0, ED, F0, F4
<1>1. e \in S
  BY <1>0, UnfoldRun
<1>2. ASSUME NEW i \in 0 .. e - 1, i + 1 \in S PROVE i \in S
  <2>1. CASE i < k
    BY <2>1
  <2>2. CASE i >= k
    <3>1. i \in k .. e - 1 /\ i \in 0 .. e /\ i # e
      BY <2>2
    <3>2. run(ACCEPT, b, i, e) = run(ACCEPT, b, i + 1, e)
      BY <1>0, <3>1, UnfoldRun
    <3> QED BY <1>2, <2>2, <3>1, <3>2
  <2> QED BY <2>1, <2>2
<1> HIDE DEF S
<1>3. k \in S
  BY <1>1, <1>2, Downward
<1> QED BY <1>3 DEF S

(***************************************************************************)
(* What a run from any state accepts: the bytes that complete the sequence *)
(* the state stands for, and well-formed sequences after them.             *)
(***************************************************************************)
THEOREM RunCompletes ==
  ASSUME NEW b, NEW e \in Nat, NEW k \in 0 .. e, NEW st \in States,
         \A i \in 0 .. e - 1 : b[i] \in Byte
  PROVE  run(st, b, k, e) = ACCEPT <=> Completes(st, b, k, e)
<1> DEFINE S == { i \in 0 .. e :
                    \A s \in States : run(s, b, i, e) = ACCEPT <=> Completes(s, b, i, e) }
<1>1. e \in S
  BY UnfoldRun, CompletesAtEnd
<1>2. ASSUME NEW i \in 0 .. e - 1, i + 1 \in S PROVE i \in S
  <2>1. ASSUME NEW s \in States
        PROVE  run(s, b, i, e) = ACCEPT <=> Completes(s, b, i, e)
    <3>1. i \in 0 .. e /\ i # e /\ b[i] \in Byte
      OBVIOUS
    <3>2. step(s, b[i]) = spec_step(s, b[i]) /\ spec_step(s, b[i]) \in States
      BY <3>1, StepIsSpecStep, SpecStepIsState
    <3>3. Completes(s, b, i, e) <=> Completes(spec_step(s, b[i]), b, i + 1, e)
      BY <3>1, <3>2, CompletesStep
    <3>4. run(s, b, i, e) = run(spec_step(s, b[i]), b, i + 1, e)
      BY <3>1, UnfoldRun
    <3> QED BY <1>2, <3>2, <3>3, <3>4
  <2> QED BY <2>1
<1> HIDE DEF S
<1>3. k \in S
  BY <1>1, <1>2, Downward
<1> QED BY <1>3 DEF S

(***************************************************************************)
(* The DFA recognises well-formed UTF-8: run from ACCEPT, it ends in       *)
(* ACCEPT exactly on the concatenations of rows of Table 3-7, of whatever  *)
(* length (lemma_run_valid).                                               *)
(***************************************************************************)
THEOREM RunValid ==
  ASSUME NEW b, NEW e \in Nat, NEW k \in 0 .. e, \A i \in 0 .. e - 1 : b[i] \in Byte
  PROVE  run(ACCEPT, b, k, e) = ACCEPT <=> is_valid_utf8(b, k, e)
<1>1. ACCEPT \in States
  BY DEF States
<1> QED BY <1>1, RunCompletes, CompletesUnfold
=============================================================================
