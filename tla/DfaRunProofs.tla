---------------------------- MODULE DfaRunProofs ----------------------------
(***************************************************************************)
(* The shift DFA fed any bytes: its state names what every open row of     *)
(* Table 3-7 still needs, rejection is final, and each of its steps is the *)
(* step of the recogniser RuneScan.                                        *)
(***************************************************************************)
EXTENDS DfaRun, ShiftDfaProofs, SequenceTheorems

\* What the live states stand for.
LEMMA RemainingIs ==
  /\ Remaining[ACCEPT] = << >>
  /\ Remaining[C1] = << cont >>
  /\ Remaining[C2] = << cont, cont >>
  /\ Remaining[C3] = << cont, cont, cont >>
  /\ Remaining[E0] = << 160 .. 191, cont >>
  /\ Remaining[ED] = << 128 .. 159, cont >>
  /\ Remaining[F0] = << 144 .. 191, cont, cont >>
  /\ Remaining[F4] = << 128 .. 143, cont, cont >>
  BY DEF Remaining, States, REJECT, ACCEPT, C1, C2, C3, E0, ED, F0, F4

\* Tuples of one to four sets, and what follows their first position.
LEMMA TailsOf ==
  ASSUME NEW A \in SUBSET Int, NEW B \in SUBSET Int, NEW C \in SUBSET Int,
         NEW D \in SUBSET Int
  PROVE  /\ << A >> \in Seq(SUBSET Int) /\ Tail(<< A >>) = << >>
         /\ << A, B >> \in Seq(SUBSET Int) /\ Tail(<< A, B >>) = << B >>
         /\ << A, B, C >> \in Seq(SUBSET Int) /\ Tail(<< A, B, C >>) = << B, C >>
         /\ << A, B, C, D >> \in Seq(SUBSET Int)
         /\ Tail(<< A, B, C, D >>) = << B, C, D >>
  OBVIOUS

\* The states inside a sequence.
Inside == States \ {REJECT, ACCEPT}

(***************************************************************************)
(* Inside a sequence a byte is consumed if the first of the ranges still   *)
(* needed has it, and then the others are needed.                          *)
(***************************************************************************)
LEMMA StepInside ==
  ASSUME NEW s \in Inside, NEW b \in Byte
  PROVE  /\ Remaining[s] \in Seq(SUBSET Int) /\ Len(Remaining[s]) > 0
         /\ b \in Remaining[s][1] =>
              /\ spec_step(s, b) \in States \ {REJECT}
              /\ Remaining[spec_step(s, b)] = Tail(Remaining[s])
              /\ spec_step(s, b) = ACCEPT <=> Len(Remaining[s]) = 1
         /\ b \notin Remaining[s][1] => spec_step(s, b) = REJECT
<1>0. /\ cont \in SUBSET Int /\ 160 .. 191 \in SUBSET Int /\ 128 .. 159 \in SUBSET Int
      /\ 144 .. 191 \in SUBSET Int /\ 128 .. 143 \in SUBSET Int
      /\ ACCEPT \in States \ {REJECT} /\ C1 \in Inside /\ C2 \in Inside
      /\ Inside \subseteq States \ {REJECT} /\ ACCEPT # C1 /\ ACCEPT # C2
  BY DEF cont, Inside, States, REJECT, ACCEPT, C1, C2, C3, E0, ED, F0, F4
<1>1. CASE s = C1
  <2>1. spec_step(s, b) = IF b \in cont THEN ACCEPT ELSE REJECT
    BY <1>1 DEF spec_step, REJECT, ACCEPT, C1, C2, C3, E0, ED, F0, F4
  <2>2. Remaining[s] = << cont >> /\ Remaining[ACCEPT] = << >>
    BY <1>1, RemainingIs
  <2>3. << cont >> \in Seq(SUBSET Int) /\ Tail(<< cont >>) = << >>
    BY <1>0, TailsOf
  <2> QED BY <2>1, <2>2, <2>3, <1>0
<1>2. CASE s = C2
  <2>1. spec_step(s, b) = IF b \in cont THEN C1 ELSE REJECT
    BY <1>2 DEF spec_step, REJECT, ACCEPT, C1, C2, C3, E0, ED, F0, F4
  <2>2. Remaining[s] = << cont, cont >> /\ Remaining[C1] = << cont >>
    BY <1>2, RemainingIs
  <2>3. << cont, cont >> \in Seq(SUBSET Int) /\ Tail(<< cont, cont >>) = << cont >>
    BY <1>0, TailsOf
  <2> QED BY <2>1, <2>2, <2>3, <1>0
<1>3. CASE s = C3
  <2>1. spec_step(s, b) = IF b \in cont THEN C2 ELSE REJECT
    BY <1>3 DEF spec_step, REJECT, ACCEPT, C1, C2, C3, E0, ED, F0, F4
  <2>2. Remaining[s] = << cont, cont, cont >> /\ Remaining[C2] = << cont, cont >>
    BY <1>3, RemainingIs
  <2>3. << cont, cont, cont >> \in Seq(SUBSET Int) /\ Tail(<< cont, cont, cont >>) = << cont, cont >>
    BY <1>0, TailsOf
  <2> QED BY <2>1, <2>2, <2>3, <1>0
<1>4. CASE s = E0
  <2>1. spec_step(s, b) = IF b \in 160 .. 191 THEN C1 ELSE REJECT
    BY <1>4 DEF spec_step, REJECT, ACCEPT, C1, C2, C3, E0, ED, F0, F4
  <2>2. Remaining[s] = << 160 .. 191, cont >> /\ Remaining[C1] = << cont >>
    BY <1>4, RemainingIs
  <2>3. << 160 .. 191, cont >> \in Seq(SUBSET Int) /\ Tail(<< 160 .. 191, cont >>) = << cont >>
    BY <1>0, TailsOf
  <2> QED BY <2>1, <2>2, <2>3, <1>0
<1>5. CASE s = ED
  <2>1. spec_step(s, b) = IF b \in 128 .. 159 THEN C1 ELSE REJECT
    BY <1>5 DEF spec_step, REJECT, ACCEPT, C1, C2, C3, E0, ED, F0, F4
  <2>2. Remaining[s] = << 128 .. 159, cont >> /\ Remaining[C1] = << cont >>
    BY <1>5, RemainingIs
  <2>3. << 128 .. 159, cont >> \in Seq(SUBSET Int) /\ Tail(<< 128 .. 159, cont >>) = << cont >>
    BY <1>0, TailsOf
  <2> QED BY <2>1, <2>2, <2>3, <1>0
<1>6. CASE s = F0
  <2>1. spec_step(s, b) = IF b \in 144 .. 191 THEN C2 ELSE REJECT
    BY <1>6 DEF spec_step, REJECT, ACCEPT, C1, C2, C3, E0, ED, F0, F4
  <2>2. Remaining[s] = << 144 .. 191, cont, cont >> /\ Remaining[C2] = << cont, cont >>
    BY <1>6, RemainingIs
  <2>3. << 144 .. 191, cont, cont >> \in Seq(SUBSET Int) /\ Tail(<< 144 .. 191, cont, cont >>) = << cont, cont >>
    BY <1>0, TailsOf
  <2> QED BY <2>1, <2>2, <2>3, <1>0
<1>7. CASE s = F4
  <2>1. spec_step(s, b) = IF b \in 128 .. 143 THEN C2 ELSE REJECT
    BY <1>7 DEF spec_step, REJECT, ACCEPT, C1, C2, C3, E0, ED, F0, F4
  <2>2. Remaining[s] = << 128 .. 143, cont, cont >> /\ Remaining[C2] = << cont, cont >>
    BY <1>7, RemainingIs
  <2>3. << 128 .. 143, cont, cont >> \in Seq(SUBSET Int) /\ Tail(<< 128 .. 143, cont, cont >>) = << cont, cont >>
    BY <1>0, TailsOf
  <2> QED BY <2>1, <2>2, <2>3, <1>0
<1> QED BY <1>1, <1>2, <1>3, <1>4, <1>5, <1>6, <1>7 DEF Inside, States

(***************************************************************************)
(* At a boundary a byte is consumed if it leads a row, and then what that  *)
(* row admits after it is needed.                                          *)
(***************************************************************************)
LEMMA StepLead ==
  ASSUME NEW row \in Table37, NEW b \in Byte
  PROVE  /\ row \in Seq(SUBSET Int) /\ Len(row) > 0
         /\ b \in row[1] =>
              /\ spec_step(ACCEPT, b) \in States \ {REJECT}
              /\ Remaining[spec_step(ACCEPT, b)] = Tail(row)
              /\ spec_step(ACCEPT, b) = ACCEPT <=> Len(row) = 1
<1> DEFINE Consumed ==
             /\ row \in Seq(SUBSET Int) /\ Len(row) > 0
             /\ b \in row[1] =>
                  /\ spec_step(ACCEPT, b) \in States \ {REJECT}
                  /\ Remaining[spec_step(ACCEPT, b)] = Tail(row)
                  /\ spec_step(ACCEPT, b) = ACCEPT <=> Len(row) = 1
<1> SUFFICES Consumed
  OBVIOUS
<1>0. /\ \A m, n \in Int : m .. n \in SUBSET Int
      /\ cont \in SUBSET Int /\ Ascii \in SUBSET Int
      /\ {224} \in SUBSET Int /\ {237} \in SUBSET Int
      /\ {240} \in SUBSET Int /\ {244} \in SUBSET Int
      /\ ACCEPT \in States \ {REJECT} /\ Inside \subseteq States \ {REJECT, ACCEPT}
      /\ C1 \in Inside /\ C2 \in Inside /\ C3 \in Inside /\ E0 \in Inside
      /\ ED \in Inside /\ F0 \in Inside /\ F4 \in Inside
  BY DEF cont, Ascii, Inside, States, REJECT, ACCEPT, C1, C2, C3, E0, ED, F0, F4
<1>1. CASE row = << Ascii >>
  <2>1. b \in Ascii => spec_step(ACCEPT, b) = ACCEPT
    BY DEF spec_step, REJECT, ACCEPT, C1, C2, C3, E0, ED, F0, F4, Ascii
  <2>2. /\ << Ascii >> \in Seq(SUBSET Int)
        /\ Tail(<< Ascii >>) = << >>
    BY <1>0, TailsOf
  <2>3. ACCEPT \in States \ {REJECT} /\ Remaining[ACCEPT] = << >>
    BY <1>0, RemainingIs
  <2> QED BY <1>1, <2>1, <2>2, <2>3
<1>2. CASE row = << 194 .. 223, cont >>
  <2>1. b \in 194 .. 223 => spec_step(ACCEPT, b) = C1
    BY DEF spec_step, REJECT, ACCEPT, C1, C2, C3, E0, ED, F0, F4, Ascii
  <2>2. /\ << 194 .. 223, cont >> \in Seq(SUBSET Int)
        /\ Tail(<< 194 .. 223, cont >>) = << cont >>
    BY <1>0, TailsOf
  <2>3. C1 \in States \ {REJECT} /\ C1 # ACCEPT /\ Remaining[C1] = << cont >>
    BY <1>0, RemainingIs
  <2> QED BY <1>2, <2>1, <2>2, <2>3
<1>3. CASE row = << {224}, 160 .. 191, cont >>
  <2>1. b \in {224} => spec_step(ACCEPT, b) = E0
    BY DEF spec_step, REJECT, ACCEPT, C1, C2, C3, E0, ED, F0, F4, Ascii
  <2>2. /\ << {224}, 160 .. 191, cont >> \in Seq(SUBSET Int)
        /\ Tail(<< {224}, 160 .. 191, cont >>) = << 160 .. 191, cont >>
    BY <1>0, TailsOf
  <2>3. E0 \in States \ {REJECT} /\ E0 # ACCEPT /\ Remaining[E0] = << 160 .. 191, cont >>
    BY <1>0, RemainingIs
  <2> QED BY <1>3, <2>1, <2>2, <2>3
<1>4. CASE row = << 225 .. 236, cont, cont >>
  <2>1. b \in 225 .. 236 => spec_step(ACCEPT, b) = C2
    BY DEF spec_step, REJECT, ACCEPT, C1, C2, C3, E0, ED, F0, F4, Ascii
  <2>2. /\ << 225 .. 236, cont, cont >> \in Seq(SUBSET Int)
        /\ Tail(<< 225 .. 236, cont, cont >>) = << cont, cont >>
    BY <1>0, TailsOf
  <2>3. C2 \in States \ {REJECT} /\ C2 # ACCEPT /\ Remaining[C2] = << cont, cont >>
    BY <1>0, RemainingIs
  <2> QED BY <1>4, <2>1, <2>2, <2>3
<1>5. CASE row = << {237}, 128 .. 159, cont >>
  <2>1. b \in {237} => spec_step(ACCEPT, b) = ED
    BY DEF spec_step, REJECT, ACCEPT, C1, C2, C3, E0, ED, F0, F4, Ascii
  <2>2. /\ << {237}, 128 .. 159, cont >> \in Seq(SUBSET Int)
        /\ Tail(<< {237}, 128 .. 159, cont >>) = << 128 .. 159, cont >>
    BY <1>0, TailsOf
  <2>3. ED \in States \ {REJECT} /\ ED # ACCEPT /\ Remaining[ED] = << 128 .. 159, cont >>
    BY <1>0, RemainingIs
  <2> QED BY <1>5, <2>1, <2>2, <2>3
<1>6. CASE row = << 238 .. 239, cont, cont >>
  <2>1. b \in 238 .. 239 => spec_step(ACCEPT, b) = C2
    BY DEF spec_step, REJECT, ACCEPT, C1, C2, C3, E0, ED, F0, F4, Ascii
  <2>2. /\ << 238 .. 239, cont, cont >> \in Seq(SUBSET Int)
        /\ Tail(<< 238 .. 239, cont, cont >>) = << cont, cont >>
    BY <1>0, TailsOf
  <2>3. C2 \in States \ {REJECT} /\ C2 # ACCEPT /\ Remaining[C2] = << cont, cont >>
    BY <1>0, RemainingIs
  <2> QED BY <1>6, <2>1, <2>2, <2>3
<1>7. CASE row = << {240}, 144 .. 191, cont, cont >>
  <2>1. b \in {240} => spec_step(ACCEPT, b) = F0
    BY DEF spec_step, REJECT, ACCEPT, C1, C2, C3, E0, ED, F0, F4, Ascii
  <2>2. /\ << {240}, 144 .. 191, cont, cont >> \in Seq(SUBSET Int)
        /\ Tail(<< {240}, 144 .. 191, cont, cont >>) = << 144 .. 191, cont, cont >>
    BY <1>0, TailsOf
  <2>3. F0 \in States \ {REJECT} /\ F0 # ACCEPT /\ Remaining[F0] = << 144 .. 191, cont, cont >>
    BY <1>0, RemainingIs
  <2> QED BY <1>7, <2>1, <2>2, <2>3
<1>8. CASE row = << 241 .. 243, cont, cont, cont >>
  <2>1. b \in 241 .. 243 => spec_step(ACCEPT, b) = C3
    BY DEF spec_step, REJECT, ACCEPT, C1, C2, C3, E0, ED, F0, F4, Ascii
  <2>2. /\ << 241 .. 243, cont, cont, cont >> \in Seq(SUBSET Int)
        /\ Tail(<< 241 .. 243, cont, cont, cont >>) = << cont, cont, cont >>
    BY <1>0, TailsOf
  <2>3. C3 \in States \ {REJECT} /\ C3 # ACCEPT /\ Remaining[C3] = << cont, cont, cont >>
    BY <1>0, RemainingIs
  <2> QED BY <1>8, <2>1, <2>2, <2>3
<1>9. CASE row = << {244}, 128 .. 143, cont, cont >>
  <2>1. b \in {244} => spec_step(ACCEPT, b) = F4
    BY DEF spec_step, REJECT, ACCEPT, C1, C2, C3, E0, ED, F0, F4, Ascii
  <2>2. /\ << {244}, 128 .. 143, cont, cont >> \in Seq(SUBSET Int)
        /\ Tail(<< {244}, 128 .. 143, cont, cont >>) = << 128 .. 143, cont, cont >>
    BY <1>0, TailsOf
  <2>3. F4 \in States \ {REJECT} /\ F4 # ACCEPT /\ Remaining[F4] = << 128 .. 143, cont, cont >>
    BY <1>0, RemainingIs
  <2> QED BY <1>9, <2>1, <2>2, <2>3
<1> HIDE DEF Consumed
<1> QED BY <1>1, <1>2, <1>3, <1>4, <1>5, <1>6, <1>7, <1>8, <1>9
         DEF Table37

\* A byte that leads no row is rejected at a boundary.
LEMMA NoLead ==
  ASSUME NEW b \in Byte, \A row \in Table37 : b \notin row[1]
  PROVE  spec_step(ACCEPT, b) = REJECT
<1>1. \A row \in { << Ascii >>, << 194 .. 223, cont >>, << {224}, 160 .. 191, cont >>,
                   << 225 .. 236, cont, cont >> } : b \notin row[1]
  BY DEF Table37
<1>2. \A row \in { << {237}, 128 .. 159, cont >>, << 238 .. 239, cont, cont >>,
                   << {240}, 144 .. 191, cont, cont >>,
                   << 241 .. 243, cont, cont, cont >>,
                   << {244}, 128 .. 143, cont, cont >> } : b \notin row[1]
  BY DEF Table37
<1>3. b \notin Ascii /\ b \notin 194 .. 223 /\ b # 224 /\ b \notin 225 .. 236
  BY <1>1
<1>4. b # 237 /\ b \notin 238 .. 239 /\ b # 240 /\ b \notin 241 .. 243 /\ b # 244
  BY <1>2
<1> QED BY <1>3, <1>4 DEF spec_step, REJECT, ACCEPT, C1, C2, C3, E0, ED, F0, F4

\* Nothing leads out of REJECT.
LEMMA StepRejected == \A b : spec_step(REJECT, b) = REJECT
  BY DEF spec_step, REJECT, ACCEPT, C1, C2, C3, E0, ED, F0, F4

-----------------------------------------------------------------------------
(***************************************************************************)
(* What is left of a row after n of its positions.                         *)
(***************************************************************************)
LEMMA RestOfRow ==
  ASSUME NEW row \in Table37, NEW n \in Nat, n < Len(row)
  PROVE  /\ SubSeq(row, n + 1, Len(row)) \in Seq(SUBSET Int)
         /\ Len(SubSeq(row, n + 1, Len(row))) = Len(row) - n
         /\ SubSeq(row, n + 1, Len(row))[1] = row[n + 1]
         /\ Tail(SubSeq(row, n + 1, Len(row))) = SubSeq(row, n + 2, Len(row))
<1> DEFINE rest == SubSeq(row, n + 1, Len(row))
           next == SubSeq(row, n + 2, Len(row))
<1>1. row \in Seq(SUBSET Int) /\ Len(row) \in Nat
  BY StepLead, SMTT(30) DEF Byte
<1>2. \A i \in 1 .. Len(row) : row[i] \in SUBSET Int
  BY <1>1
<1>3. /\ rest \in Seq(SUBSET Int) /\ Len(rest) = Len(row) - n
      /\ \A i \in 1 .. Len(row) - n : rest[i] = row[n + i]
  <2>1. \A i \in n + 1 .. Len(row) : row[i] \in SUBSET Int
    BY <1>2
  <2>2. /\ SubSeq(row, n + 1, Len(row)) \in Seq(SUBSET Int)
        /\ Len(SubSeq(row, n + 1, Len(row))) = Len(row) - (n + 1) + 1
        /\ \A i \in 1 .. Len(row) - (n + 1) + 1 :
              SubSeq(row, n + 1, Len(row))[i] = row[n + 1 + i - 1]
    BY <1>1, <2>1, SubSeqProperties
  <2> QED BY <1>1, <2>2
<1>4. /\ next \in Seq(SUBSET Int) /\ Len(next) = Len(row) - n - 1
      /\ \A i \in 1 .. Len(row) - n - 1 : next[i] = row[n + 1 + i]
  <2>1. \A i \in n + 2 .. Len(row) : row[i] \in SUBSET Int
    BY <1>2
  <2>2. /\ SubSeq(row, n + 2, Len(row)) \in Seq(SUBSET Int)
        /\ Len(SubSeq(row, n + 2, Len(row))) =
             IF n + 2 <= Len(row) THEN Len(row) - (n + 2) + 1 ELSE 0
        /\ \A i \in 1 .. Len(row) - (n + 2) + 1 :
              SubSeq(row, n + 2, Len(row))[i] = row[n + 2 + i - 1]
    BY <1>1, <2>1, SubSeqProperties
  <2> QED BY <1>1, <2>2
<1>5. /\ Tail(rest) \in Seq(SUBSET Int) /\ Len(Tail(rest)) = Len(rest) - 1
      /\ \A i \in 1 .. Len(Tail(rest)) : Tail(rest)[i] = rest[i + 1]
  <2>1. rest # << >>
    BY <1>1, <1>3
  <2> HIDE DEF rest
  <2> QED BY <1>3, <2>1, HeadTailProperties
<1>6. Tail(rest) = next
  <2> HIDE DEF rest, next
  <2>1. Len(Tail(rest)) = Len(next)
    BY <1>1, <1>3, <1>4, <1>5
  <2>2. \A i \in 1 .. Len(Tail(rest)) : Tail(rest)[i] = next[i]
    BY <1>1, <1>3, <1>4, <1>5
  <2> QED BY <1>4, <1>5, <2>1, <2>2, SeqEqual
<1> QED BY <1>1, <1>3, <1>6

\* One more byte: the rows that stay open.
LEMMA OpenAfter ==
  ASSUME NEW r \in Seq(Byte), NEW b \in Byte
  PROVE  OpenRows(Append(r, b)) =
           { row \in OpenRows(r) : Len(r) + 1 < Len(row) /\ b \in row[Len(r) + 1] }
<1>1. /\ Len(Append(r, b)) = Len(r) + 1 /\ Len(r) \in Nat
      /\ \A i \in 1 .. Len(r) : Append(r, b)[i] = r[i]
      /\ Append(r, b)[Len(r) + 1] = b
  BY AppendProperties
<1>2. ASSUME NEW row \in Table37
      PROVE  row \in OpenRows(Append(r, b)) <=>
               row \in OpenRows(r) /\ Len(r) + 1 < Len(row) /\ b \in row[Len(r) + 1]
  <2>1. Len(row) \in Nat
    BY RowLengths
  <2>2. (\A i \in 1 .. Len(r) + 1 : Append(r, b)[i] \in row[i]) <=>
          (\A i \in 1 .. Len(r) : r[i] \in row[i]) /\ b \in row[Len(r) + 1]
    BY <1>1
  <2> QED BY <1>1, <2>1, <2>2 DEF OpenRows
<1> QED BY <1>2 DEF OpenRows

-----------------------------------------------------------------------------
(***************************************************************************)
(* The invariant, and what a step does to the state and the bytes.         *)
(***************************************************************************)
DfaInv == TypeOK /\ StateNamesTheRest

\* At a boundary all rows are open.
LEMMA AtBoundaryAllOpen == OpenRows(<< >>) = Table37 /\ Table37 # {}
<1>1. \A row \in Table37 : 0 < Len(row)
  BY RowLengths
<1>2. \A row \in Table37 : \A i \in 1 .. Len(<< >>) : << >>[i] \in row[i]
  OBVIOUS
<1>3. << Ascii >> \in Table37
  BY DEF Table37
<1> QED BY <1>1, <1>2, <1>3 DEF OpenRows

\* A step, in terms of Table 3-7.
LEMMA StepIs ==
  ASSUME DfaInv, NEW b \in Byte, Step(b)
  PROVE  /\ state \in States /\ rune \in Seq(Byte)
         /\ state' = spec_step(state, b) /\ state' \in States
         /\ last' = << b >> /\ last' \in Seq(Byte)
         /\ Append(rune, b) \in Seq(Byte) /\ Append(rune, b) # << >>
         /\ state = REJECT => rune' = rune
         /\ state # REJECT /\ state' = ACCEPT => rune' = << >>
         /\ state # REJECT /\ state' # ACCEPT => rune' = Append(rune, b)
<1>1. state \in States /\ rune \in Seq(Byte)
  BY DEF DfaInv, TypeOK, is_state
<1>2. state' = spec_step(state, b)
  BY <1>1, StepIsSpecStep DEF Step
<1>3. state' \in States
  BY <1>2, SpecStepIsState
<1>4. last' = << b >> /\ last' \in Seq(Byte)
  BY DEF Step
<1>5. Append(rune, b) \in Seq(Byte) /\ Append(rune, b) # << >>
  BY <1>1, AppendProperties
<1>6. rune' = CASE state = REJECT  -> rune
                [] state' = ACCEPT -> << >>
                [] OTHER           -> Append(rune, b)
  BY DEF Step
<1>7. state = REJECT => state' # ACCEPT
  BY <1>2, StepRejected DEF ACCEPT, REJECT
<1> QED BY <1>1, <1>2, <1>3, <1>4, <1>5, <1>6, <1>7

\* A rejected byte: no row is open any more.
LEMMA RejectedInv ==
  ASSUME state' = REJECT, rune' # << >>, OpenRows(rune') = {}
  PROVE  StateNamesTheRest'
  BY DEF StateNamesTheRest, REJECT, ACCEPT

\* A sequence is complete: all rows are open.
LEMMA CompleteInv ==
  ASSUME state' = ACCEPT, rune' = << >>
  PROVE  StateNamesTheRest'
<1>1. OpenRows(rune') # {}
  BY AtBoundaryAllOpen
<1> QED BY <1>1 DEF StateNamesTheRest, REJECT, ACCEPT

\* Inside a sequence: some rows are open, and the state knows what they need.
LEMMA InsideInv ==
  ASSUME state' \in States \ {REJECT, ACCEPT}, rune' # << >>, OpenRows(rune') # {},
         \A row \in OpenRows(rune') :
           SubSeq(row, Len(rune') + 1, Len(row)) = Remaining[state']
  PROVE  StateNamesTheRest'
  BY DEF StateNamesTheRest

(***************************************************************************)
(* The step from each kind of state.                                       *)
(***************************************************************************)
LEMMA FromBoundary ==
  ASSUME DfaInv, NEW b \in Byte, Step(b), state = ACCEPT
  PROVE  StateNamesTheRest'
<1>1. /\ state' = spec_step(ACCEPT, b) /\ state' \in States
      /\ Append(rune, b) # << >> /\ ACCEPT # REJECT
      /\ state' = ACCEPT => rune' = << >>
      /\ state' # ACCEPT => rune' = Append(rune, b)
  BY StepIs DEF ACCEPT, REJECT
<1>2. rune = << >>
  BY DEF DfaInv, StateNamesTheRest
<1>3. Len(rune) = 0 /\ Len(Append(rune, b)) = 1 /\ rune \in Seq(Byte)
  BY <1>2
<1>4. OpenRows(Append(rune, b)) = { row \in Table37 : 1 < Len(row) /\ b \in row[1] }
  <2>1. OpenRows(Append(rune, b)) =
          { row \in OpenRows(rune) : Len(rune) + 1 < Len(row) /\ b \in row[Len(rune) + 1] }
    BY <1>3, OpenAfter
  <2>2. Len(rune) + 1 = 1 /\ OpenRows(rune) = Table37
    BY <1>2, <1>3, AtBoundaryAllOpen
  <2> QED BY <2>1, <2>2
<1>5. CASE \A row \in Table37 : b \notin row[1]
  <2>1. state' = REJECT
    BY <1>1, <1>5, NoLead
  <2>2. OpenRows(rune') = {}
    BY <1>1, <1>4, <1>5, <2>1
  <2> QED BY <1>1, <2>1, <2>2, RejectedInv
<1>6. ASSUME NEW row \in Table37, b \in row[1]
      PROVE  StateNamesTheRest'
  <2>1. state' # REJECT /\ (state' = ACCEPT <=> Len(row) = 1) /\ Len(row) \in 1 .. 4
    BY <1>1, <1>6, StepLead, RowLengths
  <2>2. CASE state' = ACCEPT
    BY <1>1, <2>2, CompleteInv
  <2>3. CASE state' # ACCEPT
    <3>1. rune' = Append(rune, b) /\ row \in OpenRows(rune')
      <4>1. rune' = Append(rune, b)
        BY <1>1, <2>3
      <4>2. 1 < Len(row)
        BY <2>1, <2>3
      <4> QED BY <1>4, <1>6, <4>1, <4>2
    <3>2. ASSUME NEW r \in OpenRows(rune')
          PROVE  SubSeq(r, Len(rune') + 1, Len(r)) = Remaining[state']
      <4>1. r \in Table37 /\ 1 < Len(r) /\ b \in r[1]
        BY <1>4, <3>1, <3>2
      <4>2. r \in Seq(SUBSET Int) /\ r # << >> /\ Remaining[state'] = Tail(r)
        BY <1>1, <4>1, StepLead
      <4>3. Tail(r) = SubSeq(r, 2, Len(r))
        BY <4>2, TailIsSubSeq
      <4> QED BY <1>3, <3>1, <4>2, <4>3
    <3> QED BY <1>1, <2>1, <2>3, <3>1, <3>2, InsideInv
  <2> QED BY <2>2, <2>3
<1> QED BY <1>5, <1>6

\* A byte inside a sequence.
LEMMA FromInside ==
  ASSUME DfaInv, NEW b \in Byte, Step(b), state \in Inside
  PROVE  StateNamesTheRest'
<1>1. /\ state # REJECT /\ state' = spec_step(state, b) /\ state' \in States
      /\ Append(rune, b) # << >> /\ rune \in Seq(Byte)
      /\ state' = ACCEPT => rune' = << >>
      /\ state' # ACCEPT => rune' = Append(rune, b)
  BY StepIs DEF Inside
<1>2. /\ OpenRows(rune) # {}
      /\ \A row \in OpenRows(rune) :
            SubSeq(row, Len(rune) + 1, Len(row)) = Remaining[state]
  BY DEF DfaInv, StateNamesTheRest, Inside
<1>3. Len(rune) \in Nat /\ Len(Append(rune, b)) = Len(rune) + 1
  BY <1>1, AppendProperties
<1>4. ASSUME NEW row \in OpenRows(rune)
      PROVE  /\ Len(row) \in Nat /\ Len(Remaining[state]) = Len(row) - Len(rune)
             /\ row[Len(rune) + 1] = Remaining[state][1]
             /\ SubSeq(row, Len(rune) + 2, Len(row)) = Tail(Remaining[state])
  <2>1. row \in Table37 /\ Len(rune) < Len(row) /\ Len(row) \in Nat
    BY RowLengths DEF OpenRows
  <2>2. SubSeq(row, Len(rune) + 1, Len(row)) = Remaining[state]
    BY <1>2
  <2> QED BY <1>3, <2>1, <2>2, RestOfRow
<1>5. OpenRows(Append(rune, b)) =
        { row \in OpenRows(rune) : Len(rune) + 1 < Len(row) /\ b \in row[Len(rune) + 1] }
  BY <1>1, OpenAfter
<1>6. CASE b \notin Remaining[state][1]
  <2>1. state' = REJECT
    BY <1>1, <1>6, StepInside
  <2>2. rune' = Append(rune, b)
    BY <1>1, <2>1 DEF REJECT, ACCEPT
  <2>3. OpenRows(rune') = {}
    BY <1>4, <1>5, <1>6, <2>2
  <2> QED BY <1>1, <2>1, <2>2, <2>3, RejectedInv
<1>7. CASE b \in Remaining[state][1]
  <2>1. /\ state' # REJECT /\ Remaining[state'] = Tail(Remaining[state])
        /\ state' = ACCEPT <=> Len(Remaining[state]) = 1
        /\ Len(Remaining[state]) > 0
    BY <1>1, <1>7, StepInside
  <2>2. CASE state' = ACCEPT
    BY <1>1, <2>2, CompleteInv
  <2>3. CASE state' # ACCEPT
    <3>1. rune' = Append(rune, b) /\ Len(rune') = Len(rune) + 1
      BY <1>1, <1>3, <2>3
    <3>2. ASSUME NEW row \in OpenRows(rune)
          PROVE  Len(rune) + 1 < Len(row)
      <4>1. Len(Remaining[state]) = Len(row) - Len(rune) /\ Len(row) \in Nat
        BY <1>4
      <4> QED BY <1>3, <2>1, <2>3, <4>1
    <3>3. OpenRows(rune') = OpenRows(rune)
      BY <1>4, <1>5, <1>7, <3>1, <3>2
    <3>4. \A row \in OpenRows(rune') :
            SubSeq(row, Len(rune') + 1, Len(row)) = Remaining[state']
      <4> TAKE row \in OpenRows(rune')
      <4>1. SubSeq(row, Len(rune) + 2, Len(row)) = Tail(Remaining[state])
        BY <1>4, <3>3
      <4>2. Len(rune') + 1 = Len(rune) + 2
        BY <1>3, <3>1
      <4> QED BY <2>1, <4>1, <4>2
    <3> QED BY <1>1, <1>2, <2>1, <2>3, <3>1, <3>3, <3>4, InsideInv
  <2> QED BY <2>2, <2>3
<1> QED BY <1>6, <1>7

\* A byte after a rejected one.
LEMMA FromRejected ==
  ASSUME DfaInv, NEW b \in Byte, Step(b), state = REJECT
  PROVE  StateNamesTheRest'
<1>1. state' = REJECT /\ rune' = rune
  BY StepIs, StepRejected
<1>2. rune # << >> /\ OpenRows(rune) = {}
  BY DEF DfaInv, StateNamesTheRest, REJECT, ACCEPT
<1> QED BY <1>1, <1>2, RejectedInv

\* Every step keeps the invariant.
LEMMA DfaStepInv ==
  ASSUME DfaInv, NEW b \in Byte, Step(b)
  PROVE  DfaInv'
<1>1. state \in States
  BY StepIs
<1>2. TypeOK'
  <2>1. state' \in States /\ last' \in Seq(Byte)
    BY StepIs
  <2>2. rune' = rune \/ rune' = << >> \/ rune' = Append(rune, b)
    BY StepIs
  <2>3. rune \in Seq(Byte) /\ << >> \in Seq(Byte) /\ Append(rune, b) \in Seq(Byte)
    BY StepIs
  <2> QED BY <2>1, <2>2, <2>3 DEF TypeOK, is_state
<1>3. CASE state = ACCEPT
  BY <1>2, <1>3, FromBoundary DEF DfaInv
<1>4. CASE state = REJECT
  BY <1>2, <1>4, FromRejected DEF DfaInv
<1>5. CASE state \in Inside
  BY <1>2, <1>5, FromInside DEF DfaInv
<1> QED BY <1>1, <1>3, <1>4, <1>5 DEF Inside

\* The invariant holds at the start.
LEMMA DfaInitInv == Init => DfaInv
<1> SUFFICES ASSUME Init PROVE DfaInv
  OBVIOUS
<1>1. state = ACCEPT /\ rune = << >> /\ last = << >>
  BY DEF Init
<1>2. TypeOK
  BY <1>1 DEF TypeOK, is_state, States
<1>3. OpenRows(rune) # {}
  BY <1>1, AtBoundaryAllOpen
<1>4. StateNamesTheRest
  BY <1>1, <1>3 DEF StateNamesTheRest, REJECT, ACCEPT
<1> QED BY <1>2, <1>4 DEF DfaInv

\* The steps and the stutters of the machine keep it.
LEMMA DfaNextInv == DfaInv /\ [Next]_vars => DfaInv'
<1> SUFFICES ASSUME DfaInv, [Next]_vars PROVE DfaInv'
  OBVIOUS
<1>1. CASE Next
  BY <1>1, BytesAssumption, DfaStepInv DEF Next
<1>2. CASE UNCHANGED vars
  BY <1>2 DEF vars, DfaInv, TypeOK, StateNamesTheRest, OpenRows
<1> QED BY <1>1, <1>2

(***************************************************************************)
(* Whatever bytes it is fed, the DFA is in one of its nine states, and the *)
(* state names what every open row of Table 3-7 still needs.               *)
(***************************************************************************)
THEOREM DfaInvariance == Spec => []DfaInv
  BY DfaInitInv, DfaNextInv, PTL DEF Spec

(***************************************************************************)
(* The state is one of the nine of mod state.                              *)
(***************************************************************************)
THEOREM DfaTypes == Spec => []TypeOK
  BY DfaInvariance, PTL DEF DfaInv

(***************************************************************************)
(* Eight live states remember all that Table 3-7 asks of the bytes since   *)
(* the last boundary, and REJECT says that no row fits them.               *)
(***************************************************************************)
THEOREM StateIsOpenRows == Spec => []StateNamesTheRest
  BY DfaInvariance, PTL DEF DfaInv

(***************************************************************************)
(* No byte leads out of REJECT, so that both loops of verify_multibyte may *)
(* test for it late.                                                       *)
(***************************************************************************)
THEOREM RejectionIsFinal == Spec => RejectAbsorbs
<1>1. DfaInv /\ [Next]_vars => [state = REJECT => state' = REJECT]_vars
  <2> SUFFICES ASSUME DfaInv, Next, state = REJECT PROVE state' = REJECT
    OBVIOUS
  <2> QED BY BytesAssumption, StepIs, StepRejected DEF Next
<1> QED BY <1>1, DfaInvariance, PTL DEF Spec, RejectAbsorbs

(***************************************************************************)
(* The packed rows are the literals of _CHECK_SPEC_ROW, and every state    *)
(* that is reached steps as Table 3-7 says, for all 256 bytes.             *)
(***************************************************************************)
THEOREM TablesAlwaysAgree == Spec => []TablesAgree
<1>1. RowsAgree
  BY RowsAreSpecRows DEF RowsAgree, SpecRow
<1>2. DfaInv => TablesAgree
  BY <1>1, StepIsSpecStep DEF DfaInv, TypeOK, is_state, TablesAgree, StepsAgree
<1> QED BY <1>2, DfaInvariance, PTL

-----------------------------------------------------------------------------
(***************************************************************************)
(* The shift DFA as a RuneScan.                                            *)
(***************************************************************************)
\* RuneScan reads the same table.
LEMMA SameRows == Scan!Table37 = Table37 /\ Scan!Byte = Byte
  BY DEF Scan!Table37, Table37, Scan!cont, cont, Scan!Ascii, Ascii, Scan!Byte, Byte

\* The refinement mapping.
Open == IF state = REJECT THEN {} ELSE {Remaining[state]}

\* The rows RuneScan would continue, state by state.
LEMMA OpenOf ==
  ASSUME state \in States
  PROVE  /\ state = REJECT => Scan!Candidates = {}
         /\ state = ACCEPT => Scan!Candidates = Table37
         /\ state \in Inside => Scan!Candidates = {Remaining[state]}
<1>1. CASE state = REJECT
  BY <1>1 DEF Scan!Candidates, Scan!AtBoundary, Inside, REJECT, ACCEPT
<1>2. CASE state = ACCEPT
  <2>1. Remaining[state] = << >> /\ state # REJECT
    BY <1>2, RemainingIs DEF REJECT, ACCEPT
  <2> QED BY <1>2, <2>1, SameRows DEF Scan!Candidates, Scan!AtBoundary, Inside
<1>3. CASE state \in Inside
  <2>1. Len(Remaining[state]) > 0
    BY <1>3, StepInside DEF Byte
  <2>2. Remaining[state] # << >> /\ state # REJECT /\ state # ACCEPT
    BY <1>3, <2>1 DEF Inside
  <2> QED BY <2>2 DEF Scan!Candidates, Scan!AtBoundary
<1> QED BY <1>1, <1>2, <1>3 DEF Inside

\* A step of the DFA consumes the byte as RuneScan does.
LEMMA ScanStep ==
  ASSUME DfaInv, NEW b \in Byte, Step(b)
  PROVE  Scan!Consume(b)
<1>1. /\ state \in States /\ state' = spec_step(state, b) /\ state' \in States
      /\ last' = << b >> /\ ACCEPT # REJECT
  BY StepIs DEF ACCEPT, REJECT
<1>2. Open' = { Tail(r) : r \in { c \in Scan!Candidates : b \in c[1] } }
  <2>1. CASE state = REJECT
    <3>1. state' = REJECT /\ Scan!Candidates = {}
      BY <1>1, <2>1, StepRejected, OpenOf
    <3> QED BY <3>1 DEF Open
  <2>2. CASE state = ACCEPT
    <3>1. Scan!Candidates = Table37
      BY <1>1, <2>2, OpenOf
    <3>2. CASE \A row \in Table37 : b \notin row[1]
      <4>1. state' = REJECT
        BY <1>1, <2>2, <3>2, NoLead
      <4> QED BY <3>1, <3>2, <4>1 DEF Open
    <3>3. ASSUME NEW row \in Table37, b \in row[1]
          PROVE  Open' = { Tail(r) : r \in { c \in Table37 : b \in c[1] } }
      <4>1. \A c \in Table37 : b \in c[1] =>
              state' # REJECT /\ Remaining[state'] = Tail(c)
        BY <1>1, <2>2, StepLead
      <4>2. Open' = {Remaining[state']}
        BY <3>3, <4>1 DEF Open
      <4> QED BY <3>3, <4>1, <4>2
    <3> QED BY <3>1, <3>2, <3>3
  <2>3. CASE state \in Inside
    <3>1. Scan!Candidates = {Remaining[state]}
      BY <1>1, <2>3, OpenOf
    <3>2. CASE b \in Remaining[state][1]
      <4>1. state' # REJECT /\ Remaining[state'] = Tail(Remaining[state])
        BY <1>1, <2>3, <3>2, StepInside
      <4> QED BY <3>1, <3>2, <4>1 DEF Open
    <3>3. CASE b \notin Remaining[state][1]
      <4>1. state' = REJECT
        BY <1>1, <2>3, <3>3, StepInside
      <4> QED BY <3>1, <3>3, <4>1 DEF Open
    <3> QED BY <3>2, <3>3
  <2> QED BY <1>1, <2>1, <2>2, <2>3 DEF Inside
<1> QED BY <1>1, <1>2 DEF Scan!Consume, Open

(***************************************************************************)
(* The nine states and the packed rows implement the recogniser that reads *)
(* Table 3-7 row by row.                                                   *)
(***************************************************************************)
THEOREM DfaImplementsScan == Spec => ImplementsRuneScan
<1>1. Init => Scan!Init
  <2> SUFFICES ASSUME Init PROVE Scan!Init
    OBVIOUS
  <2>1. state = ACCEPT /\ last = << >> /\ Remaining[ACCEPT] = << >> /\ ACCEPT # REJECT
    BY RemainingIs DEF Init, ACCEPT, REJECT
  <2> QED BY <2>1 DEF Scan!Init
<1>2. DfaInv /\ [Next]_vars => [Scan!Next]_(Scan!vars)
  <2> SUFFICES ASSUME DfaInv, [Next]_vars PROVE [Scan!Next]_(Scan!vars)
    OBVIOUS
  <2>1. CASE Next
    <3>1. PICK b \in Bytes : Step(b)
      BY <2>1 DEF Next
    <3>2. b \in Byte /\ b \in Scan!Byte
      BY BytesAssumption, SameRows
    <3>3. Scan!Consume(b)
      BY <3>1, <3>2, ScanStep
    <3> QED BY <3>2, <3>3 DEF Scan!Next
  <2>2. CASE UNCHANGED vars
    BY <2>2 DEF vars, Scan!vars
  <2> QED BY <2>1, <2>2
<1> QED BY <1>1, <1>2, DfaInvariance, PTL DEF Spec, ImplementsRuneScan, Scan!Spec
=============================================================================
