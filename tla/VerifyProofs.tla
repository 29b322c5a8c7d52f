---------------------------- MODULE VerifyProofs ----------------------------
(***************************************************************************)
(* A call of verify or verify_with_slack loads only bytes it may load and  *)
(* answers rightly: for every slice, range, build and threshold.           *)
(*                                                                         *)
(* Inv is inductive.  Every way out of the ASCII paths is one of two, a    *)
(* Return or an EnterMultibyte, and each is dealt with once (ReturnStep,   *)
(* EnterStep); what remains of an action is which bytes it loads and why   *)
(* the rest of the range decides.                                          *)
(***************************************************************************)
EXTENDS VerifyImpl, ShiftDfaProofs

\* The range is well-formed from position k on.
Valid(k) == is_valid_utf8(buf, k, end)

(***************************************************************************)
(* What TypeOK says of the call, in the words of the code.                 *)
(***************************************************************************)
LEMMA CallFacts ==
  ASSUME TypeOK
  PROVE  /\ start \in Nat /\ end \in Nat /\ len \in Nat
         /\ start <= end /\ end <= len
         /\ PAD \in {0, 8} /\ (PAD = 8 => end + 8 <= len)
         /\ \A k \in 0 .. len - 1 : buf[k] \in Byte
         /\ p \in start .. end /\ p \in Int
  BY DEF TypeOK, IsCall, start, end, len, buf, PAD, SLACK

\* Inside the slice, ByteAt is the byte of the buffer.
LEMMA ByteAtIs ==
  ASSUME TypeOK, NEW k \in start .. end - 1
  PROVE  ByteAt(k) = buf[k] /\ buf[k] \in Byte
<1>1. k \in 0 .. len - 1
  BY CallFacts
<1> QED BY <1>1, CallFacts DEF ByteAt

\* The sign-bit test fails: the bytes tested are ASCII.
LEMMA NoHighBit ==
  ASSUME TypeOK, NEW T, ~ HighBit(T), NEW k \in T, k \in start .. end - 1
  PROVE  buf[k] \in Ascii /\ buf[k] < 128
<1>1. ByteAt(k) = buf[k] /\ buf[k] \in Byte
  BY ByteAtIs
<1> QED BY <1>1 DEF HighBit, Ascii, Byte

\* The sign-bit test succeeds: a byte tested is not ASCII.
LEMMA SomeHighBit ==
  ASSUME TypeOK, NEW T, HighBit(T), \A k \in T : k \in start .. end - 1
  PROVE  \E k \in T : buf[k] >= 128
  BY ByteAtIs DEF HighBit

(***************************************************************************)
(* Over bytes without a high bit the rest of the range goes on deciding.   *)
(***************************************************************************)
LEMMA AsciiSpan ==
  ASSUME TypeOK, NEW k \in start .. end, NEW n \in 0 .. 32, k + n <= end,
         NEW T, ~ HighBit(T), \A i \in k .. k + n - 1 : i \in T
  PROVE  Valid(k) <=> Valid(k + n)
<1>1. \A i \in k .. k + n - 1 : buf[i] \in Ascii
  <2> TAKE i \in k .. k + n - 1
  <2>1. i \in start .. end - 1 /\ i \in T
    BY CallFacts
  <2> QED BY <2>1, NoHighBit
<1>2. end \in Nat /\ k \in Nat
  BY CallFacts
<1> QED BY <1>1, <1>2, AsciiRun32 DEF Valid

-----------------------------------------------------------------------------
(***************************************************************************)
(* The frame: an action leaves the call alone.                             *)
(***************************************************************************)
LEMMA SameCall ==
  ASSUME call' = call
  PROVE  /\ buf' = buf /\ len' = len /\ start' = start /\ end' = end
         /\ PAD' = PAD /\ (IsCall(call) => IsCall(call)')
  BY DEF buf, len, start, end, PAD, IsCall

\* A step that returns the right answer keeps the invariant.
LEMMA ReturnStep ==
  ASSUME Inv, NEW answer \in BOOLEAN, Return(answer), LoadsAllowed',
         reads' \subseteq Int, answer = Valid(start)
  PROVE  Inv'
<1>1. call' = call /\ pc' = "done" /\ result' = answer /\ p' = p /\ state' = state
  BY DEF Return
<1>2. TypeOK'
  BY <1>1, SameCall DEF Inv, TypeOK
<1>3. AsciiSoFar' /\ SkipContract' /\ WordLoopShort' /\ Positions'
        /\ RestDecides' /\ StateSummarises'
  BY <1>1 DEF AsciiSoFar, SkipContract, WordLoopShort, Positions, RestDecides,
              StateSummarises
<1>4. Correct'
  BY <1>1, SameCall DEF Correct, Valid
<1> QED BY <1>2, <1>3, <1>4 DEF Inv

\* A step that leaves the rest to verify_multibyte keeps the invariant.
LEMMA EnterStep ==
  ASSUME Inv, NEW q \in start .. end, EnterMultibyte(q), LoadsAllowed',
         reads' \subseteq Int, Valid(start) <=> Valid(q)
  PROVE  Inv'
<1>1. call' = call /\ pc' = "multi" /\ result' = result /\ p' = q /\ state' = ACCEPT
  BY DEF EnterMultibyte
<1>2. TypeOK'
  BY <1>1, SameCall DEF Inv, TypeOK, is_state, States
<1>3. AsciiSoFar' /\ SkipContract' /\ WordLoopShort' /\ Positions'
        /\ RestDecides' /\ Correct'
  BY <1>1 DEF AsciiSoFar, SkipContract, WordLoopShort, Positions, RestDecides,
              Correct
<1>4. StateSummarises'
  <2>1. end \in Nat /\ q \in 0 .. end
    BY CallFacts DEF Inv
  <2>2. Completes(ACCEPT, buf, q, end) <=> Valid(q)
    BY <2>1, CompletesUnfold DEF Valid
  <2> QED BY <1>1, <2>2, SameCall DEF StateSummarises, Valid
<1> QED BY <1>2, <1>3, <1>4 DEF Inv

(***************************************************************************)
(* A load within the range is always allowed.                              *)
(***************************************************************************)
LEMMA LoadInRange ==
  ASSUME TypeOK, call' = call, reads' \subseteq start .. end - 1
  PROVE  LoadsAllowed' /\ reads' \subseteq Int
<1>1. start .. end - 1 \subseteq 0 .. len - 1
  BY CallFacts
<1>2. start .. end - 1 \subseteq start .. end - 1 + 7
  BY CallFacts
<1>3. start .. end - 1 + 0 = start .. end - 1
  BY CallFacts
<1>4. reads' \subseteq Int
  OBVIOUS
<1>5. reads' \subseteq start .. end - 1 + (IF PAD = SLACK THEN 7 ELSE 0)
  BY <1>2, <1>3
<1> QED BY <1>1, <1>4, <1>5, SameCall DEF LoadsAllowed

\* is_valid_utf8 is Boolean on each rest of the range, and TRUE of the empty one.
LEMMA ValidFacts ==
  ASSUME TypeOK
  PROVE  /\ \A k \in start .. end : Valid(k) \in BOOLEAN
         /\ Valid(end) = TRUE
<1>1. end \in Nat /\ \A k \in start .. end : k \in 0 .. end
  BY CallFacts
<1>2. \A k \in start .. end : Valid(k) \in BOOLEAN
  BY <1>1, UnfoldValid DEF Valid, is_valid_utf8
<1>3. is_valid_utf8(buf, end, end)
  BY <1>1, ValidAtEnd
<1>4. end \in start .. end
  BY CallFacts
<1> QED BY <1>2, <1>3, <1>4 DEF Valid

(***************************************************************************)
(* AsciiOr: the tested bytes settle the rest of the range from q on, or    *)
(* verify_multibyte takes it from there.                                   *)
(***************************************************************************)
LEMMA AsciiOrStep ==
  ASSUME Inv, NEW q \in start .. end, NEW T, AsciiOr(T, q), LoadsAllowed',
         reads' \subseteq Int, Valid(start) <=> Valid(q),
         end - q <= 8, \A i \in q .. end - 1 : i \in T
  PROVE  Inv'
<1>1. TypeOK
  BY DEF Inv
<1>2. CASE HighBit(T)
  BY <1>2, EnterStep DEF AsciiOr
<1>3. CASE ~ HighBit(T)
  <2>1. end - q \in 0 .. 32 /\ q + (end - q) = end
    BY <1>1, CallFacts
  <2>2. Valid(q) <=> Valid(q + (end - q))
    BY <1>1, <1>3, <2>1, AsciiSpan
  <2>3. start \in start .. end
    BY <1>1, CallFacts
  <2>4. Valid(start) = TRUE
    BY <1>1, <2>1, <2>2, <2>3, ValidFacts
  <2>5. Return(TRUE)
    BY <1>3 DEF AsciiOr
  <2> QED BY <2>4, <2>5, ReturnStep
<1> QED BY <1>2, <1>3

-----------------------------------------------------------------------------
(***************************************************************************)
(* The entry points.                                                       *)
(***************************************************************************)
LEMMA EntrySteps ==
  ASSUME Inv, VerifyLong \/ EnterImpl
  PROVE  Inv'
<1>0. TypeOK /\ start \in start .. end
  BY CallFacts DEF Inv
<1>1. CASE VerifyLong
  <2>1. call' = call /\ reads' = start .. end - 1 /\ Return(Valid(start))
    BY <1>1 DEF VerifyLong, Return, Valid
  <2>2. LoadsAllowed' /\ reads' \subseteq Int
    BY <1>0, <2>1, LoadInRange
  <2> QED BY <1>0, <2>1, <2>2, ReturnStep, ValidFacts
<1>2. CASE EnterImpl
  <2>1. /\ call' = call /\ p' = start /\ reads' = {} /\ state' = state
        /\ result' = result
        /\ pc' = IF end - start < 8 THEN "short" ELSE "skip"
    BY <1>2 DEF EnterImpl
  <2>2. LoadsAllowed' /\ reads' \subseteq Int
    BY <1>0, <2>1, LoadInRange
  <2>3. TypeOK'
    BY <1>0, <2>1, SameCall DEF TypeOK
  <2>4. AsciiSoFar'
    BY <1>0, <2>1, SameCall, CallFacts DEF AsciiSoFar, all_ascii
  <2>5. Positions'
    BY <1>0, <2>1, SameCall, CallFacts DEF Positions
  <2>6. SkipContract' /\ WordLoopShort' /\ StateSummarises' /\ Correct'
    BY <2>1 DEF SkipContract, WordLoopShort, StateSummarises, Correct
  <2>7. RestDecides'
    BY <2>1, SameCall DEF RestDecides
  <2> QED BY <2>2, <2>3, <2>4, <2>5, <2>6, <2>7 DEF Inv
<1> QED BY <1>1, <1>2

-----------------------------------------------------------------------------
(***************************************************************************)
(* verify_short.  The masked word, the two overlapping loads and the       *)
(* single byte each cover the range, and nothing else is tested.           *)
(***************************************************************************)
LEMMA ShortSteps ==
  ASSUME Inv, VerifyShort
  PROVE  Inv'
<1>0. /\ TypeOK /\ start \in start .. end /\ pc = "short" /\ end - start < 8
      /\ call' = call
  BY CallFacts DEF Inv, VerifyShort, Positions, ShortEmpty, ShortSlack, ShortPair4,
                   ShortPair2, ShortByte, ShortPair, AsciiOr, Return, EnterMultibyte
<1> DEFINE Covers(T) == \A i \in start .. end - 1 : i \in T
<1>1. CASE ShortEmpty
  <2>1. reads' = {} /\ Return(TRUE) /\ start = end
    BY <1>1 DEF ShortEmpty
  <2>2. LoadsAllowed' /\ reads' \subseteq Int
    BY <1>0, <2>1, LoadInRange
  <2> QED BY <1>0, <2>1, <2>2, ReturnStep, ValidFacts
<1>2. CASE ShortSlack
  <2> DEFINE T == { start + k : k \in MaskedLanes(end - start) }
  <2>1. /\ PAD = 8 /\ start < end /\ reads' = start .. start + 7
        /\ AsciiOr(T, start)
    BY <1>0, <1>2, CallFacts DEF ShortSlack, Lanes
  <2>2. Covers(T)
    <3> TAKE i \in start .. end - 1
    <3>1. i - start \in 0 .. 7 /\ (i - start) + (8 - (end - start)) <= 7
            /\ i = start + (i - start)
      BY <1>0, CallFacts
    <3> QED BY <3>1 DEF MaskedLanes
  <2>3. /\ reads' \subseteq 0 .. len - 1
        /\ reads' \subseteq start .. end - 1 + 7
    BY <1>0, <2>1, CallFacts, SMTT(30)
  <2>4. LoadsAllowed' /\ reads' \subseteq Int
    BY <1>0, <2>1, <2>3, SameCall, CallFacts DEF LoadsAllowed, SLACK
  <2>5. end - start <= 8
    BY <1>0, CallFacts
  <2> HIDE DEF T
  <2> QED BY <1>0, <2>1, <2>2, <2>4, <2>5, AsciiOrStep
<1>3. ASSUME NEW n \in {2, 4}, PAD < 8, end - start >= n, end - start < 2 * n,
             ShortPair(n)
      PROVE  Inv'
  <2> DEFINE T == PairLanes(n)
  <2>1. reads' = T /\ AsciiOr(T, start)
    BY <1>3 DEF ShortPair
  <2>2. Covers(T)
    BY <1>0, <1>3, CallFacts DEF PairLanes, Lanes
  <2>3. T \subseteq start .. end - 1
    BY <1>0, <1>3, CallFacts DEF PairLanes, Lanes
  <2>4. LoadsAllowed' /\ reads' \subseteq Int
    BY <1>0, <2>1, <2>3, LoadInRange
  <2>5. end - start <= 8
    BY <1>0, CallFacts
  <2> HIDE DEF T
  <2> QED BY <1>0, <2>1, <2>2, <2>4, <2>5, AsciiOrStep
<1>4. CASE ShortPair4
  BY <1>0, <1>3, <1>4 DEF ShortPair4
<1>5. CASE ShortPair2
  BY <1>0, <1>3, <1>5, CallFacts DEF ShortPair2
<1>6. CASE ShortByte
  <2> DEFINE T == {start}
  <2>1. reads' = T /\ end - start = 1 /\ AsciiOr(T, start)
    BY <1>6 DEF ShortByte
  <2>2. Covers(T)
    BY <1>0, <2>1, CallFacts
  <2>3. T \subseteq start .. end - 1
    BY <1>0, <2>1, CallFacts
  <2>4. LoadsAllowed' /\ reads' \subseteq Int
    BY <1>0, <2>1, <2>3, LoadInRange
  <2>5. end - start <= 8
    BY <1>0, CallFacts
  <2> HIDE DEF T
  <2> QED BY <1>0, <2>1, <2>2, <2>4, <2>5, AsciiOrStep
<1> QED BY <1>1, <1>2, <1>4, <1>5, <1>6 DEF VerifyShort

-----------------------------------------------------------------------------
(***************************************************************************)
(* verify_impl before it leaves the fast paths.  While it advances over    *)
(* ASCII, three facts move with p: what lies before it is ASCII, the loads *)
(* stay in the range, and the rest of the range decides.                   *)
(***************************************************************************)
LEMMA AdvanceStep ==
  ASSUME Inv, pc \in {"skip", "words"}, NEW n \in 0 .. 32, p + n <= end,
         ~ HighBit(Lanes(p, n)),
         call' = call, p' = p + n, reads' \subseteq start .. end - 1,
         state' = state, result' = result, pc' \in {"skip", "skipped", "words"}
  PROVE  /\ TypeOK' /\ LoadsAllowed' /\ AsciiSoFar' /\ Positions'
         /\ RestDecides' /\ StateSummarises' /\ Correct'
         /\ p' \in start .. end /\ all_ascii(buf, start, p')
<1>0. TypeOK /\ p \in start .. end /\ end - start >= 8
  BY CallFacts DEF Inv, Positions
<1>1. p' \in start .. end
  BY <1>0, CallFacts
<1>2. LoadsAllowed' /\ reads' \subseteq Int
  BY <1>0, LoadInRange
<1>3. TypeOK'
  BY <1>0, <1>1, <1>2, SameCall DEF TypeOK
<1>4. all_ascii(buf, start, p')
  <2>1. ASSUME NEW k \in start .. p + n - 1 PROVE buf[k] < 128
    <3>1. CASE k \in start .. p - 1
      BY <3>1 DEF Inv, AsciiSoFar, all_ascii
    <3>2. CASE k \in p .. p + n - 1
      <4>1. k \in Lanes(p, n) /\ k \in start .. end - 1
        BY <1>0, <3>2, CallFacts DEF Lanes
      <4> QED BY <1>0, <4>1, NoHighBit
    <3> QED BY <1>0, <3>1, <3>2, CallFacts
  <2> QED BY <1>0, <2>1, CallFacts DEF all_ascii
<1>5. Valid(start) <=> Valid(p + n)
  <2>1. Valid(start) <=> Valid(p)
    BY DEF Inv, RestDecides, Valid
  <2>2. Valid(p) <=> Valid(p + n)
    BY <1>0, AsciiSpan DEF Lanes
  <2> QED BY <2>1, <2>2
<1>6. AsciiSoFar' /\ RestDecides'
  BY <1>4, <1>5, SameCall DEF AsciiSoFar, RestDecides, all_ascii, Valid
<1>7. Positions' /\ StateSummarises' /\ Correct'
  BY <1>0, SameCall DEF Positions, StateSummarises, Correct
<1> QED BY <1>1, <1>2, <1>3, <1>4, <1>6, <1>7

(***************************************************************************)
(* ascii_skip::skip keeps its contract, in all three builds.               *)
(***************************************************************************)
\* The block size of ascii_skip::skip.
LEMMA StepFacts == STEP \in {16, 32}
  BY DEF STEP

\* ascii_skip::skip keeps the invariant, in each of its builds.
LEMMA SkipSteps ==
  ASSUME Inv, SkipPrefix
  PROVE  Inv'
<1>0. /\ TypeOK /\ p \in start .. end /\ pc = "skip" /\ call' = call
      /\ state' = state /\ result' = result
  BY CallFacts DEF Inv, SkipPrefix, Skip, SkipAscii, SkipStop, SkipEnd
<1>1. CASE SkipAscii
  <2>1. /\ end - p >= STEP /\ ~ HighBit(Lanes(p, STEP)) /\ reads' = Lanes(p, STEP)
        /\ p' = p + STEP /\ pc' = "skip"
    BY <1>0, <1>1 DEF SkipAscii
  <2>2. p + STEP <= end /\ Lanes(p, STEP) \subseteq start .. end - 1 /\ STEP \in 0 .. 32
    BY <1>0, <2>1, StepFacts, CallFacts DEF Lanes
  <2>3. /\ TypeOK' /\ LoadsAllowed' /\ AsciiSoFar' /\ Positions'
        /\ RestDecides' /\ StateSummarises' /\ Correct'
    BY <1>0, <2>1, <2>2, AdvanceStep
  <2>4. SkipContract' /\ WordLoopShort'
    BY <2>1 DEF SkipContract, WordLoopShort
  <2> QED BY <2>3, <2>4 DEF Inv
<1>2. CASE SkipStop
  <2>1. PICK q \in Lanes(p, STEP) : StopsAt(q) /\ p' = q
    BY <1>2 DEF SkipStop
  <2>2. /\ end - p >= STEP /\ HighBit(Lanes(p, STEP)) /\ reads' = Lanes(p, STEP)
        /\ pc' = "skipped"
    BY <1>2 DEF SkipStop
  <2>3. /\ q - p \in 0 .. 32 /\ p + (q - p) = q /\ q <= end /\ q \in Int
        /\ Lanes(p, STEP) \subseteq start .. end - 1
    BY <1>0, <2>1, <2>2, StepFacts, CallFacts DEF Lanes
  <2>4. ~ HighBit(Lanes(p, q - p))
    <3>1. \A k \in p .. q - 1 : ByteAt(k) < 128
      BY <1>0, <2>1, CallFacts DEF StopsAt
    <3>2. \A k \in p .. q - 1 : ByteAt(k) \in Byte
      BY <1>0, <2>3, ByteAtIs, CallFacts
    <3>3. Lanes(p, q - p) = p .. q - 1
      BY <1>0, <2>3, CallFacts DEF Lanes
    <3>4. \A k \in Lanes(p, q - p) : ~ (ByteAt(k) >= 128)
      <4> TAKE k \in Lanes(p, q - p)
      <4>1. k \in p .. q - 1
        BY <3>3
      <4>2. ByteAt(k) < 128 /\ ByteAt(k) \in 0 .. 255
        BY <3>1, <3>2, <4>1 DEF Byte
      <4> QED BY <4>2
    <3> QED BY <3>4 DEF HighBit
  <2>5. /\ TypeOK' /\ LoadsAllowed' /\ AsciiSoFar' /\ Positions'
        /\ RestDecides' /\ StateSummarises' /\ Correct'
        /\ p' \in start .. end /\ all_ascii(buf, start, p')
    BY <1>0, <2>1, <2>2, <2>3, <2>4, AdvanceStep
  <2>6. end - q < STEP \/ ~ all_ascii(buf, q, q + STEP)
    <3>1. PICK k \in Lanes(p, STEP) : buf[k] >= 128 /\ k \in q .. q + STEP - 1
      <4>1. CASE SkipVariant = "avx2"
        <5>1. ByteAt(q) >= 128 /\ q \in start .. end - 1
          BY <2>1, <2>3, <4>1 DEF StopsAt
        <5> QED BY <1>0, <2>1, <2>3, <5>1, ByteAtIs, StepFacts
      <4>2. CASE SkipVariant # "avx2"
        <5>1. q = p
          BY <2>1, <4>2 DEF StopsAt
        <5> QED BY <1>0, <2>2, <2>3, <5>1, SomeHighBit DEF Lanes
      <4> QED BY <4>1, <4>2
    <3>2. buf[k] \in Byte
      BY <1>0, <2>3, <3>1, ByteAtIs
    <3> QED BY <2>3, <3>1, <3>2, StepFacts DEF all_ascii, Byte
  <2>7. SkipContract' /\ WordLoopShort'
    BY <2>1, <2>2, <2>5, <2>6, <1>0, SameCall DEF SkipContract, WordLoopShort
  <2> QED BY <2>5, <2>7 DEF Inv
<1>3. CASE SkipEnd
  <2>1. end - p < STEP /\ reads' = {} /\ p' = p /\ pc' = "skipped"
    BY <1>3 DEF SkipEnd
  <2>2. p' = p + 0 /\ p + 0 <= end /\ ~ HighBit(Lanes(p, 0))
    BY <1>0, <2>1, CallFacts DEF Lanes, HighBit
  <2>3. /\ TypeOK' /\ LoadsAllowed' /\ AsciiSoFar' /\ Positions'
        /\ RestDecides' /\ StateSummarises' /\ Correct'
        /\ p' \in start .. end /\ all_ascii(buf, start, p')
    BY <1>0, <2>1, <2>2, AdvanceStep
  <2>4. SkipContract' /\ WordLoopShort'
    BY <1>0, <2>1, <2>3, SameCall DEF SkipContract, WordLoopShort
  <2> QED BY <2>3, <2>4 DEF Inv
<1> QED BY <1>1, <1>2, <1>3 DEF SkipPrefix, Skip

-----------------------------------------------------------------------------
(***************************************************************************)
(* The rest of verify_impl: the branch after skip, the word loop, and the  *)
(* window over the last eight bytes, which covers the rest because fewer   *)
(* than eight bytes remain and stays in the range because it has eight.    *)
(***************************************************************************)
LEMMA WordSteps ==
  ASSUME Inv, VerifyWords
  PROVE  Inv'
<1>0. /\ TypeOK /\ p \in start .. end /\ end - start >= 8 /\ call' = call
      /\ pc \in {"skipped", "words"} /\ (Valid(start) <=> Valid(p))
  <2>1. call' = call /\ pc \in {"skipped", "words"}
    BY DEF VerifyWords, AfterSkip, WordLoop, TailLoad, WordsDone, AsciiOr,
           EnterMultibyte, Return
  <2>2. Valid(start) <=> Valid(p)
    BY <2>1 DEF Inv, RestDecides, Valid
  <2> QED BY <2>1, <2>2, CallFacts DEF Inv, Positions
<1>1. CASE AfterSkip
  <2>1. pc = "skipped" /\ reads' = {}
    BY <1>1 DEF AfterSkip
  <2>2. LoadsAllowed' /\ reads' \subseteq Int
    BY <1>0, <2>1, LoadInRange
  <2>3. CASE end - p >= STEP
    <3>1. EnterMultibyte(p)
      BY <1>1, <2>3 DEF AfterSkip
    <3> QED BY <1>0, <2>2, <3>1, EnterStep
  <2>4. CASE ~ (end - p >= STEP)
    <3>1. pc' = "words" /\ p' = p /\ state' = state /\ result' = result
      BY <1>1, <2>4 DEF AfterSkip
    <3>2. TypeOK'
      BY <1>0, <2>2, <3>1, SameCall DEF TypeOK
    <3>3. AsciiSoFar' /\ RestDecides'
      BY <1>0, <2>1, <3>1, SameCall DEF Inv, AsciiSoFar, RestDecides, all_ascii, Valid
    <3>4. WordLoopShort'
      BY <1>0, <2>4, <3>1, SameCall, StepFacts, CallFacts DEF WordLoopShort
    <3>5. Positions' /\ SkipContract' /\ StateSummarises' /\ Correct'
      BY <1>0, <3>1, SameCall DEF Positions, SkipContract, StateSummarises, Correct
    <3> QED BY <2>2, <3>2, <3>3, <3>4, <3>5 DEF Inv
  <2> QED BY <2>3, <2>4
<1>2. CASE WordLoop
  <2>1. pc = "words" /\ end - p >= 8 /\ reads' = Lanes(p, 8)
    BY <1>2 DEF WordLoop
  <2>2. Lanes(p, 8) \subseteq start .. end - 1 /\ p + 8 <= end
    BY <1>0, <2>1, CallFacts DEF Lanes
  <2>3. LoadsAllowed' /\ reads' \subseteq Int
    BY <1>0, <2>1, <2>2, LoadInRange
  <2>4. CASE HighBit(Lanes(p, 8))
    <3>1. EnterMultibyte(p)
      BY <1>2, <2>4 DEF WordLoop
    <3> QED BY <1>0, <2>3, <3>1, EnterStep
  <2>5. CASE ~ HighBit(Lanes(p, 8))
    <3>1. p' = p + 8 /\ pc' = "words" /\ state' = state /\ result' = result
      BY <1>2, <2>1, <2>5 DEF WordLoop
    <3>2. /\ TypeOK' /\ LoadsAllowed' /\ AsciiSoFar' /\ Positions'
          /\ RestDecides' /\ StateSummarises' /\ Correct'
      BY <1>0, <2>1, <2>2, <2>5, <3>1, AdvanceStep
    <3>3. WordLoopShort'
      <4>1. end - p < STEP
        BY <2>1 DEF Inv, WordLoopShort
      <4> QED BY <1>0, <3>1, <4>1, SameCall, StepFacts, CallFacts DEF WordLoopShort
    <3>4. SkipContract'
      BY <3>1 DEF SkipContract
    <3> QED BY <3>2, <3>3, <3>4 DEF Inv
  <2> QED BY <2>4, <2>5
<1>3. CASE TailLoad
  <2> DEFINE T == TailWindow
  <2>1. end - p < 8 /\ p < end /\ reads' = T /\ AsciiOr(T, p)
    BY <1>3 DEF TailLoad
  <2>2. T \subseteq start .. end - 1 /\ \A i \in p .. end - 1 : i \in T
    BY <1>0, <2>1, CallFacts DEF TailWindow, Lanes
  <2>3. LoadsAllowed' /\ reads' \subseteq Int
    BY <1>0, <2>1, <2>2, LoadInRange
  <2>4. end - p <= 8
    BY <1>0, <2>1, CallFacts
  <2> HIDE DEF T
  <2> QED BY <1>0, <2>1, <2>2, <2>3, <2>4, AsciiOrStep
<1>4. CASE WordsDone
  <2>1. p = end /\ reads' = {} /\ Return(TRUE)
    BY <1>4 DEF WordsDone
  <2>2. LoadsAllowed' /\ reads' \subseteq Int
    BY <1>0, <2>1, LoadInRange
  <2>3. Valid(start) = TRUE
    <3>1. start \in start .. end
      BY <1>0, CallFacts
    <3> QED BY <1>0, <2>1, <3>1, ValidFacts
  <2> QED BY <2>1, <2>2, <2>3, ReturnStep
<1> QED BY <1>1, <1>2, <1>3, <1>4 DEF VerifyWords

-----------------------------------------------------------------------------
(***************************************************************************)
(* verify_multibyte.                                                       *)
(***************************************************************************)
LEMMA DfaStep ==
  ASSUME TypeOK, NEW q \in start .. end - 1, NEW s \in States
  PROVE  /\ step(s, ByteAt(q)) \in States
         /\ Completes(s, buf, q, end) <=>
              Completes(step(s, ByteAt(q)), buf, q + 1, end)
<1>1. ByteAt(q) = buf[q] /\ buf[q] \in Byte
  BY ByteAtIs
<1>2. end \in Nat /\ q \in 0 .. end - 1
  BY CallFacts
<1>3. step(s, buf[q]) \in States
  BY <1>1, StepIsSpecStep, SpecStepIsState
<1> QED BY <1>1, <1>2, <1>3, CompletesStep

(***************************************************************************)
(* Eight unrolled steps.                                                   *)
(***************************************************************************)
LEMMA DfaWord ==
  ASSUME TypeOK, NEW q \in start .. end, q + 8 <= end, NEW s \in States
  PROVE  /\ AfterWord(s, q) \in States
         /\ Completes(s, buf, q, end) <=>
              Completes(AfterWord(s, q), buf, q + 8, end)
<1> DEFINE s1 == step(s,  ByteAt(q))
           s2 == step(s1, ByteAt(q + 1))
           s3 == step(s2, ByteAt(q + 2))
           s4 == step(s3, ByteAt(q + 3))
           s5 == step(s4, ByteAt(q + 4))
           s6 == step(s5, ByteAt(q + 5))
           s7 == step(s6, ByteAt(q + 6))
           s8 == step(s7, ByteAt(q + 7))
           C(r, i) == Completes(r, buf, q + i, end)
<1>0. /\ \A i \in 0 .. 7 : q + i \in start .. end - 1 /\ (q + i) + 1 = q + (i + 1)
      /\ q + 0 = q
  BY CallFacts
<1>1. ASSUME NEW r \in States, NEW i \in 0 .. 7
      PROVE  /\ step(r, ByteAt(q + i)) \in States
             /\ C(r, i) <=> C(step(r, ByteAt(q + i)), i + 1)
  <2>1. q + i \in start .. end - 1 /\ (q + i) + 1 = q + (i + 1)
    BY <1>0
  <2>2. Completes(r, buf, q + i, end) <=>
          Completes(step(r, ByteAt(q + i)), buf, (q + i) + 1, end)
    BY <2>1, DfaStep
  <2> QED BY <2>1, <2>2, DfaStep
<1>2. AfterWord(s, q) = s8
  BY DEF AfterWord
<1>3. s1 \in States /\ (C(s, 0) <=> C(s1, 1))
  BY <1>0, <1>1
<1> HIDE DEF s1, C
<1>4. s2 \in States /\ (C(s1, 1) <=> C(s2, 2))
  BY <1>1, <1>3
<1> HIDE DEF s2
<1>5. s3 \in States /\ (C(s2, 2) <=> C(s3, 3))
  BY <1>1, <1>4
<1> HIDE DEF s3
<1>6. s4 \in States /\ (C(s3, 3) <=> C(s4, 4))
  BY <1>1, <1>5
<1> HIDE DEF s4
<1>7. s5 \in States /\ (C(s4, 4) <=> C(s5, 5))
  BY <1>1, <1>6
<1> HIDE DEF s5
<1>8. s6 \in States /\ (C(s5, 5) <=> C(s6, 6))
  BY <1>1, <1>7
<1> HIDE DEF s6
<1>9. s7 \in States /\ (C(s6, 6) <=> C(s7, 7))
  BY <1>1, <1>8
<1> HIDE DEF s7
<1>10. s8 \in States /\ (C(s7, 7) <=> C(s8, 8))
  BY <1>1, <1>9
<1> HIDE DEF s8
<1>11. C(s, 0) <=> C(s8, 8)
  BY <1>3, <1>4, <1>5, <1>6, <1>7, <1>8, <1>9, <1>10
<1> QED BY <1>0, <1>2, <1>10, <1>11 DEF C

\* verify_multibyte keeps the invariant, in both its forms.
LEMMA MultibyteSteps ==
  ASSUME Inv, VerifyMultibyte
  PROVE  Inv'
<1>0. /\ TypeOK /\ p \in start .. end /\ pc = "multi" /\ call' = call
      /\ state \in States /\ start \in start .. end
      /\ Valid(start) <=> Completes(state, buf, p, end)
      /\ end \in Nat /\ p \in 0 .. end
  <2>1. pc = "multi" /\ call' = call
    BY DEF VerifyMultibyte, MultiStart, MultiSkip, MultiWord, MultiByte, MultiEnd,
           MultiStd, Return
  <2>2. Valid(start) <=> Completes(state, buf, p, end)
    BY <2>1 DEF Inv, StateSummarises, Valid
  <2> QED BY <2>1, <2>2, CallFacts DEF Inv, TypeOK, is_state
<1>1. ASSUME NEW n \in 1 .. 8, p + n <= end, p' = p + n, pc' = pc,
             result' = result, reads' \subseteq start .. end - 1,
             state' \in States, Multibyte = "dfa",
             Valid(start) <=> Completes(state', buf, p + n, end)
      PROVE  Inv'
  <2>1. LoadsAllowed' /\ reads' \subseteq Int
    BY <1>0, <1>1, LoadInRange
  <2>2. p' \in start .. end
    BY <1>0, <1>1, CallFacts
  <2>3. TypeOK'
    BY <1>0, <1>1, <2>1, <2>2, SameCall DEF TypeOK, is_state
  <2>4. StateSummarises'
    BY <1>0, <1>1, SameCall DEF StateSummarises, Valid
  <2>5. /\ AsciiSoFar' /\ SkipContract' /\ WordLoopShort' /\ Positions'
        /\ RestDecides' /\ Correct'
    BY <1>0, <1>1 DEF AsciiSoFar, SkipContract, WordLoopShort, Positions,
                      RestDecides, Correct
  <2> QED BY <2>1, <2>3, <2>4, <2>5 DEF Inv
<1>2. CASE MultiSkip
  <2>1. /\ end - p >= 8 /\ state = ACCEPT /\ ~ HighBit(Lanes(p, 8))
        /\ reads' = Lanes(p, 8) /\ p' = p + 8 /\ Multibyte = "dfa"
        /\ pc' = pc /\ state' = state /\ result' = result
    BY <1>2 DEF MultiSkip, MultiStart, Reskips
  <2>2. p + 8 <= end /\ Lanes(p, 8) \subseteq start .. end - 1 /\ p + 8 \in 0 .. end
    BY <1>0, <2>1, CallFacts DEF Lanes
  <2>3. Valid(p) <=> Valid(p + 8)
    BY <1>0, <2>1, <2>2, AsciiSpan DEF Lanes
  <2>4. Valid(start) <=> Completes(state', buf, p + 8, end)
    BY <1>0, <2>1, <2>2, <2>3, CompletesUnfold, ZenonT(30) DEF Valid
  <2> QED BY <1>0, <1>1, <2>1, <2>2, <2>4
<1>3. CASE MultiWord
  <2>1. /\ end - p >= 8 /\ reads' = Lanes(p, 8) /\ p' = p + 8
        /\ state' = AfterWord(state, p) /\ Multibyte = "dfa"
    BY <1>3 DEF MultiWord, MultiStart
  <2>2. p + 8 <= end /\ Lanes(p, 8) \subseteq start .. end - 1 /\ p + 8 \in 0 .. end
          /\ p + 8 \in start .. end
    BY <1>0, <2>1, CallFacts DEF Lanes
  <2>3. /\ state' \in States
        /\ Valid(start) <=> Completes(state', buf, p + 8, end)
    BY <1>0, <2>1, <2>2, DfaWord
  <2>4. CASE state' = REJECT /\ pc' = "done" /\ result' = FALSE
    <3>1. Valid(start) = FALSE
      <4>1. ~ Valid(start)
        BY <1>0, <2>2, <2>3, <2>4, CompletesUnfold
      <4> QED BY <1>0, <4>1, ValidFacts
    <3>2. LoadsAllowed' /\ reads' \subseteq Int
      BY <1>0, <2>1, <2>2, LoadInRange
    <3>3. TypeOK'
      BY <1>0, <2>1, <2>2, <2>3, <2>4, <3>2, SameCall DEF TypeOK, is_state
    <3>4. Correct'
      BY <1>0, <2>4, <3>1, SameCall DEF Correct, Valid
    <3>5. /\ AsciiSoFar' /\ SkipContract' /\ WordLoopShort' /\ Positions'
          /\ RestDecides' /\ StateSummarises'
      BY <2>4 DEF AsciiSoFar, SkipContract, WordLoopShort, Positions,
                  RestDecides, StateSummarises
    <3> QED BY <3>2, <3>3, <3>4, <3>5 DEF Inv
  <2>5. CASE state' # REJECT /\ pc' = pc /\ result' = result
    BY <1>0, <1>1, <2>1, <2>2, <2>3, <2>5
  <2> QED BY <1>3, <2>4, <2>5 DEF MultiWord
<1>4. CASE MultiByte
  <2>1. /\ p < end /\ reads' = {p} /\ state' = step(state, ByteAt(p)) /\ p' = p + 1
        /\ Multibyte = "dfa" /\ pc' = pc /\ result' = result
    BY <1>4 DEF MultiByte, MultiStart
  <2>2. p \in start .. end - 1 /\ p + 1 <= end
    BY <1>0, <2>1, CallFacts
  <2>3. /\ state' \in States
        /\ Valid(start) <=> Completes(state', buf, p + 1, end)
    BY <1>0, <2>1, <2>2, DfaStep
  <2>4. reads' \subseteq start .. end - 1
    BY <2>1, <2>2
  <2> QED BY <1>1, <2>1, <2>2, <2>3, <2>4
<1>5. CASE MultiEnd
  <2>1. p = end /\ reads' = {} /\ Return(state = ACCEPT)
    BY <1>5 DEF MultiEnd
  <2>2. Completes(state, buf, p, end) <=> state = ACCEPT
    BY <1>0, <2>1, CompletesAtEnd
  <2>3. (state = ACCEPT) = Valid(start)
    BY <1>0, <2>2, ValidFacts
  <2>4. LoadsAllowed' /\ reads' \subseteq Int
    BY <1>0, <2>1, LoadInRange
  <2> QED BY <2>1, <2>3, <2>4, ReturnStep
<1>6. CASE MultiStd
  <2>1. Multibyte = "std" /\ reads' = p .. end - 1 /\ Return(Valid(p))
    BY <1>6 DEF MultiStd, Valid
  <2>2. state = ACCEPT
    BY <1>0, <2>1 DEF Inv, Positions
  <2>3. Valid(start) <=> Valid(p)
    BY <1>0, <2>2, CompletesUnfold DEF Valid
  <2>4. Valid(p) = Valid(start) /\ Valid(p) \in BOOLEAN
    BY <1>0, <2>3, ValidFacts
  <2>5. reads' \subseteq start .. end - 1
    BY <1>0, <2>1, CallFacts
  <2>6. LoadsAllowed' /\ reads' \subseteq Int
    BY <1>0, <2>5, LoadInRange
  <2> QED BY <2>1, <2>4, <2>6, ReturnStep
<1> QED BY <1>2, <1>3, <1>4, <1>5, <1>6 DEF VerifyMultibyte

-----------------------------------------------------------------------------
\* A call that has just been made.
Fresh ==
  /\ IsCall(call)
  /\ pc = "entry" /\ p = start /\ reads = {} /\ state = ACCEPT /\ result = FALSE

\* The invariant holds of it.
LEMMA FreshInv == Fresh => Inv
<1> SUFFICES ASSUME Fresh PROVE Inv
  OBVIOUS
<1>1. IsCall(call) /\ pc = "entry" /\ p = start /\ reads = {} /\ state = ACCEPT
        /\ result = FALSE
  BY DEF Fresh
<1>2. start \in start .. end
  BY <1>1 DEF IsCall, start, end
<1>3. TypeOK
  BY <1>1, <1>2 DEF TypeOK, is_state, States
<1>4. LoadsAllowed
  BY <1>1 DEF LoadsAllowed
<1>5. /\ AsciiSoFar /\ SkipContract /\ WordLoopShort /\ Positions
      /\ RestDecides /\ StateSummarises /\ Correct
  BY <1>1 DEF AsciiSoFar, SkipContract, WordLoopShort, Positions, RestDecides,
              StateSummarises, Correct
<1> QED BY <1>3, <1>4, <1>5 DEF Inv

LEMMA InitInv == Init => Inv
<1>1. Init => Fresh
  BY CallsAssumption DEF Init, Fresh, start
<1> QED BY <1>1, FreshInv

\* A step that changes nothing keeps the invariant.
LEMMA StutterInv ==
  ASSUME Inv, UNCHANGED vars
  PROVE  Inv'
<1>1. /\ call' = call /\ pc' = pc /\ p' = p /\ reads' = reads /\ state' = state
      /\ result' = result
  BY DEF vars
<1>2. /\ TypeOK' /\ LoadsAllowed' /\ AsciiSoFar' /\ SkipContract'
  BY <1>1, SameCall DEF Inv, TypeOK, LoadsAllowed, AsciiSoFar, SkipContract, all_ascii
<1>3. /\ WordLoopShort' /\ Positions' /\ RestDecides' /\ StateSummarises' /\ Correct'
  BY <1>1, SameCall DEF Inv, WordLoopShort, Positions, RestDecides, StateSummarises,
                        Correct
<1> QED BY <1>2, <1>3 DEF Inv

\* Every step keeps the invariant: one case for each part of Next.
LEMMA NextInv == Inv /\ [Next]_vars => Inv'
<1> SUFFICES ASSUME Inv, [Next]_vars PROVE Inv'
  OBVIOUS
<1>1. CASE Next
  <2>1. CASE Terminating
    BY <2>1, StutterInv DEF Terminating
  <2> QED BY <1>1, <2>1, EntrySteps, ShortSteps, SkipSteps, WordSteps,
             MultibyteSteps DEF Next
<1>2. CASE UNCHANGED vars
  BY <1>2, StutterInv
<1> QED BY <1>1, <1>2

(***************************************************************************)
(* Inv holds throughout every call.                                        *)
(***************************************************************************)
THEOREM Invariance == Spec => []Inv
<1>1. Init => Inv
  BY InitInv
<1>2. Inv /\ [Next]_vars => Inv'
  BY NextInv
<1> QED BY <1>1, <1>2, PTL DEF Spec

(***************************************************************************)
(* The variables keep their types, p never leaves the range.               *)
(***************************************************************************)
THEOREM TypeCorrectness == Spec => []TypeOK
  BY Invariance, PTL DEF Inv

(***************************************************************************)
(* No load leaves the slice, and at most seven bytes past the range are    *)
(* read, by slack calls alone: the memory safety of the unsafe loads.      *)
(***************************************************************************)
THEOREM LoadSafety == Spec => []LoadsAllowed
  BY Invariance, PTL DEF Inv

(***************************************************************************)
(* The prefix verify_multibyte is not shown is ASCII.                      *)
(***************************************************************************)
THEOREM AsciiPrefix == Spec => []AsciiSoFar
  BY Invariance, PTL DEF Inv

(***************************************************************************)
(* Each of the three builds of ascii_skip::skip keeps the contract.        *)
(***************************************************************************)
THEOREM SkipKeepsContract == Spec => []SkipContract
  BY Invariance, PTL DEF Inv

(***************************************************************************)
(* The DFA state and the position summarise what has been consumed.        *)
(***************************************************************************)
THEOREM StateIsSummary == Spec => []StateSummarises
  BY Invariance, PTL DEF Inv

(***************************************************************************)
(* Functional correctness: a call that returns has answered whether the    *)
(* range is well-formed UTF-8, whatever the slice, the range and the       *)
(* build.                                                                  *)
(***************************************************************************)
THEOREM Correctness == Spec => []Correct
  BY Invariance, PTL DEF Inv

-----------------------------------------------------------------------------
(***************************************************************************)
(* A byte that is not ASCII, found among bytes of the range of which those *)
(* before q are ASCII, lies at or after q.                                 *)
(***************************************************************************)
LEMMA FoundInRest ==
  ASSUME TypeOK, NEW q \in start .. end, all_ascii(buf, start, q),
         NEW T, T \subseteq start .. end - 1, HighBit(T)
  PROVE  ~ all_ascii(buf, q, end)
<1>1. PICK k \in T : buf[k] >= 128
  BY SomeHighBit
<1>2. k \in start .. end - 1 /\ buf[k] \in 0 .. 255
  BY ByteAtIs DEF Byte
<1>3. k \notin start .. q - 1
  BY <1>1, <1>2 DEF all_ascii
<1>4. k \in q .. end - 1
  BY <1>2, <1>3, CallFacts
<1> QED BY <1>1, <1>2, <1>4 DEF all_ascii

(***************************************************************************)
(* The steps into verify_multibyte, one by one.  In verify_short only      *)
(* lanes of the range are tested; the tail window also tests bytes before  *)
(* p, which are ASCII; after skip the contract of skip says why.           *)
(***************************************************************************)
LEMMA SlowPathStep ==
  ASSUME Inv, Next, pc # "multi", pc' = "multi"
  PROVE  ~ all_ascii(buf, p', end)
<1>0. /\ TypeOK /\ start \in start .. end /\ p \in start .. end
      /\ all_ascii(buf, start, start)
  BY CallFacts DEF Inv, all_ascii
<1>1. ASSUME NEW q \in start .. end, NEW T, AsciiOr(T, q),
             all_ascii(buf, start, q), T \subseteq start .. end - 1
      PROVE  ~ all_ascii(buf, p', end)
  <2>1. HighBit(T) /\ p' = q
    BY <1>1 DEF AsciiOr, EnterMultibyte, Return
  <2> QED BY <1>0, <1>1, <2>1, FoundInRest
<1>2. CASE ShortSlack
  <2> DEFINE T == { start + k : k \in MaskedLanes(end - start) }
  <2>1. AsciiOr(T, start)
    BY <1>2 DEF ShortSlack
  <2>2. T \subseteq start .. end - 1
    <3>1. \A k \in MaskedLanes(end - start) : start + k \in start .. end - 1
      BY <1>0, CallFacts DEF MaskedLanes
    <3> QED BY <3>1
  <2> HIDE DEF T
  <2> QED BY <1>0, <1>1, <2>1, <2>2
<1>3. ASSUME NEW n \in {2, 4}, end - start >= n, ShortPair(n)
      PROVE  ~ all_ascii(buf, p', end)
  <2> DEFINE T == PairLanes(n)
  <2>1. AsciiOr(T, start)
    BY <1>3 DEF ShortPair
  <2>2. T \subseteq start .. end - 1
    BY <1>0, <1>3, CallFacts DEF PairLanes, Lanes
  <2> HIDE DEF T
  <2> QED BY <1>0, <1>1, <2>1, <2>2
<1>4. CASE ShortPair4
  BY <1>3, <1>4 DEF ShortPair4
<1>5. CASE ShortPair2
  BY <1>0, <1>3, <1>5, CallFacts DEF ShortPair2
<1>6. CASE ShortByte
  <2> DEFINE T == {start}
  <2>1. AsciiOr(T, start) /\ end - start = 1
    BY <1>6 DEF ShortByte
  <2>2. T \subseteq start .. end - 1
    BY <1>0, <2>1, CallFacts
  <2> HIDE DEF T
  <2> QED BY <1>0, <1>1, <2>1, <2>2
<1>7. CASE AfterSkip
  <2>1. pc = "skipped" /\ end - p >= STEP /\ p' = p
    BY <1>7 DEF AfterSkip, EnterMultibyte
  <2>2. ~ all_ascii(buf, p, p + STEP)
    BY <1>0, <2>1, StepFacts, CallFacts DEF Inv, SkipContract
  <2>3. PICK k \in p .. (p + STEP) - 1 : ~ (buf[k] < 128)
    BY <2>2 DEF all_ascii
  <2>4. k \in p .. end - 1
    BY <1>0, <2>1, <2>3, StepFacts, CallFacts
  <2> QED BY <2>1, <2>3, <2>4 DEF all_ascii
<1>8. CASE WordLoop
  <2>1. pc = "words" /\ end - p >= 8 /\ HighBit(Lanes(p, 8)) /\ p' = p
    BY <1>8 DEF WordLoop, EnterMultibyte
  <2>2. Lanes(p, 8) \subseteq start .. end - 1
    BY <1>0, <2>1, CallFacts DEF Lanes
  <2>3. all_ascii(buf, start, p)
    BY <2>1 DEF Inv, AsciiSoFar
  <2> QED BY <1>0, <2>1, <2>2, <2>3, FoundInRest
<1>9. CASE TailLoad
  <2>1. pc = "words" /\ AsciiOr(TailWindow, p)
    BY <1>9 DEF TailLoad
  <2>2. TailWindow \subseteq start .. end - 1
    BY <1>0, <2>1, CallFacts DEF Inv, Positions, TailWindow, Lanes
  <2>3. all_ascii(buf, start, p)
    BY <2>1 DEF Inv, AsciiSoFar
  <2> QED BY <1>0, <1>1, <2>1, <2>2, <2>3
<1>10. ~ (VerifyLong \/ EnterImpl \/ ShortEmpty \/ SkipPrefix \/ WordsDone
            \/ VerifyMultibyte \/ Terminating)
  BY DEF VerifyLong, EnterImpl, ShortEmpty, SkipPrefix, Skip, SkipAscii, SkipStop,
         SkipEnd, WordsDone, VerifyMultibyte, MultiSkip, MultiWord, MultiByte,
         MultiEnd, MultiStd, MultiStart, Terminating, Return, vars
<1> QED BY <1>2, <1>4, <1>5, <1>6, <1>7, <1>8, <1>9, <1>10
           DEF Next, VerifyShort, VerifyWords

\* The same of every step, as the action property has it.
LEMMA SlowPathSquare ==
  Inv /\ [Next]_vars => [pc # "multi" /\ pc' = "multi" => ~ all_ascii(buf, p', end)]_vars
BY SlowPathStep

(***************************************************************************)
(* verify_multibyte is entered only when the rest it is given is not all   *)
(* ASCII: neither slack nor a byte tested twice sends a call there.        *)
(***************************************************************************)
THEOREM SlowPathHasReason == Spec => SlowPathJustified
BY Invariance, SlowPathSquare, PTL DEF Spec, SlowPathJustified

-----------------------------------------------------------------------------
(***************************************************************************)
(* A step answers the call or leaves the answer alone, and a call that has *)
(* been answered changes no more.                                          *)
(***************************************************************************)
LEMMA StepShape ==
  ASSUME Next
  PROVE  \/ pc # "done" /\ call' = call /\ pc' = "done"
         \/ pc # "done" /\ call' = call /\ pc' # "done" /\ result' = result
         \/ UNCHANGED vars
<1>1. CASE VerifyLong \/ EnterImpl
  BY <1>1 DEF VerifyLong, EnterImpl, Return
<1>2. CASE VerifyShort
  BY <1>2 DEF VerifyShort, ShortEmpty, ShortSlack, ShortPair4, ShortPair2, ShortByte,
              ShortPair, AsciiOr, Return, EnterMultibyte
<1>3. CASE SkipPrefix
  BY <1>3 DEF SkipPrefix, Skip, SkipAscii, SkipStop, SkipEnd
<1>4. CASE VerifyWords
  BY <1>4 DEF VerifyWords, AfterSkip, WordLoop, TailLoad, WordsDone, AsciiOr, Return,
              EnterMultibyte
<1>5. CASE VerifyMultibyte
  BY <1>5 DEF VerifyMultibyte, MultiSkip, MultiWord, MultiByte, MultiEnd, MultiStd,
              MultiStart, Return
<1>6. CASE Terminating
  BY <1>6 DEF Terminating
<1> QED BY <1>1, <1>2, <1>3, <1>4, <1>5, <1>6 DEF Next

-----------------------------------------------------------------------------
(***************************************************************************)
(* How many pieces n bytes fall into: whole words, and single bytes after  *)
(* the last of them.  Taking a whole word away, or one byte of the last    *)
(* few, leaves fewer; taking anything away adds at most seven.             *)
(***************************************************************************)
Pieces(n) == (n \div 8) + (n % 8)

LEMMA PiecesFacts ==
  ASSUME NEW n \in Nat
  PROVE  /\ Pieces(n) \in Nat
         /\ n >= 8 => Pieces(n - 8) = Pieces(n) - 1
         /\ n \in 1 .. 7 => Pieces(n - 1) = Pieces(n) - 1
         /\ \A d \in 0 .. n : Pieces(n - d) <= Pieces(n) + 7
  BY DEF Pieces

LEMMA PiecesOfBlock ==
  ASSUME NEW n \in Nat, NEW d \in {16, 32}, n >= d
  PROVE  Pieces(n - d) < Pieces(n)
  BY DEF Pieces

\* What is added to the pieces of the rest.
Toll(at) ==
  CASE at = "entry"   -> 12
    [] at = "skip"    -> 11
    [] at = "skipped" -> 3
    [] at = "words"   -> 2
    [] at = "short"   -> 2
    [] at = "multi"   -> 1
    [] OTHER          -> 0

LEMMA Tolls ==
  /\ Toll("entry") = 12 /\ Toll("skip") = 11 /\ Toll("skipped") = 3
  /\ Toll("words") = 2 /\ Toll("short") = 2 /\ Toll("multi") = 1 /\ Toll("done") = 0
  BY DEF Toll

LEMMA StepsLeftIs == StepsLeft = Pieces(end - p) + Toll(pc)
  BY DEF StepsLeft, Pieces, Toll

LEMMA StepsLeftNext ==
  ASSUME TypeOK, TypeOK', call' = call,
         Pieces(end - p') + Toll(pc') < Pieces(end - p) + Toll(pc)
  PROVE  0 <= StepsLeft' /\ StepsLeft' < StepsLeft
<1>1. StepsLeft' = Pieces(end' - p') + Toll(pc')
  BY DEF StepsLeft, Pieces, Toll
<1>2. end' = end
  BY DEF end
<1>3. Pieces(end - p') \in Nat
  BY <1>2, CallFacts, PiecesFacts DEF TypeOK
<1>4. Toll(pc') \in Nat
  BY Tolls DEF TypeOK
<1> QED BY <1>1, <1>2, <1>3, <1>4, StepsLeftIs

(***************************************************************************)
(* What a step does to the position, from each control point to the next.  *)
(***************************************************************************)
Advances ==
  \/ pc = "entry" /\ pc' \in {"short", "skip", "done"} /\ p' = p
  \/ pc \in {"short", "words", "multi"} /\ pc' = "done" /\ p' = p
  \/ pc \in {"short", "skipped", "words"} /\ pc' = "multi" /\ p' = p
  \/ pc = "skip" /\ pc' = "skip" /\ end - p >= STEP /\ p' = p + STEP
  \/ pc = "skip" /\ pc' = "skipped" /\ p' >= p
  \/ pc = "skipped" /\ pc' = "words" /\ p' = p
  \/ pc = "words" /\ pc' = "words" /\ end - p >= 8 /\ p' = p + 8
  \/ pc = "multi" /\ pc' \in {"multi", "done"} /\ end - p >= 8 /\ p' = p + 8
  \/ pc = "multi" /\ pc' = "multi" /\ p < end /\ end - p < 8 /\ p' = p + 1

LEMMA StepAdvances ==
  ASSUME Inv, Next, pc # "done"
  PROVE  Advances /\ call' = call
<1>0. TypeOK /\ (pc \in {"entry", "short"} => p = start)
  BY DEF Inv, Positions
<1>1. CASE VerifyLong \/ EnterImpl
  BY <1>0, <1>1 DEF VerifyLong, EnterImpl, Return, Advances
<1>2. CASE VerifyShort
  <2>1. pc = "short" /\ p = start
    BY <1>0, <1>2 DEF VerifyShort, ShortEmpty, ShortSlack, ShortPair4, ShortPair2, ShortByte
  <2>2. Return(TRUE) \/ EnterMultibyte(start)
    BY <1>2 DEF VerifyShort, ShortEmpty, ShortSlack, ShortPair4, ShortPair2, ShortByte,
                ShortPair, AsciiOr
  <2> QED BY <2>1, <2>2 DEF Return, EnterMultibyte, Advances
<1>3. CASE SkipAscii
  BY <1>3 DEF SkipAscii, Advances
<1>4. CASE SkipStop
  <2>1. \A q \in Lanes(p, STEP) : q >= p
    BY <1>0, CallFacts DEF Lanes
  <2> QED BY <1>4, <2>1 DEF SkipStop, Advances
<1>5. CASE SkipEnd
  BY <1>0, <1>5, CallFacts DEF SkipEnd, Advances
<1>6. CASE VerifyWords
  BY <1>6 DEF VerifyWords, AfterSkip, WordLoop, TailLoad, WordsDone, AsciiOr, Return,
              EnterMultibyte, Advances
<1>7. CASE VerifyMultibyte
  BY <1>7 DEF VerifyMultibyte, MultiSkip, MultiWord, MultiByte, MultiEnd, MultiStd,
              MultiStart, Return, Advances
<1>8. ~ Terminating
  BY DEF Terminating
<1> QED BY <1>1, <1>2, <1>3, <1>4, <1>5, <1>6, <1>7, <1>8
           DEF Next, SkipPrefix, Skip, VerifyShort

\* What is left of [q, e) after moving from q to r.
LEMMA Gap ==
  ASSUME NEW e \in Int, NEW q \in Int, NEW r \in Int, e - q \in Nat, e - r \in Nat, r >= q
  PROVE  r - q \in 0 .. e - q /\ e - r = (e - q) - (r - q)
  OBVIOUS

(***************************************************************************)
(* Each of these brings the end nearer.  The tolls are what makes up for   *)
(* the pieces that a stop in the middle of a block may add.                *)
(***************************************************************************)
LEMMA StepsLeftFall ==
  ASSUME TypeOK, TypeOK', call' = call, Advances
  PROVE  0 <= StepsLeft' /\ StepsLeft' < StepsLeft
<1> DEFINE n == end - p
           m == end - p'
<1>0. n \in Nat /\ m \in Nat /\ end \in Int /\ p \in Int /\ p' \in Int
  <2>1. end' = end /\ start' = start
    BY DEF end, start
  <2> QED BY <2>1, CallFacts DEF TypeOK
<1>1. p' = p => m = n
  OBVIOUS
<1>2. \A d \in {1, 8, 16, 32} : p' = p + d => m = n - d
  BY <1>0
<1>3. p' >= p => \E d \in 0 .. n : m = n - d
  <2> SUFFICES ASSUME p' >= p PROVE p' - p \in 0 .. n /\ m = n - (p' - p)
    OBVIOUS
  <2>1. end - p \in Nat /\ end - p' \in Nat
    BY <1>0
  <2> QED BY <1>0, <2>1, Gap
<1>4. (end - p >= 8 <=> n >= 8) /\ (p < end <=> n > 0) /\ (end - p >= STEP <=> n >= STEP)
  BY <1>0
<1>5. end - p' = m /\ end - p = n
  OBVIOUS
<1> HIDE DEF n, m
<1>6. Pieces(n) \in Nat /\ Pieces(m) \in Nat
  BY <1>0, PiecesFacts
<1>7. CASE p' = p /\ Toll(pc') < Toll(pc)
  <2>1. Pieces(m) = Pieces(n)
    BY <1>1, <1>7
  <2>2. Toll(pc) \in Nat /\ Toll(pc') \in Nat
    BY Tolls DEF TypeOK
  <2>3. Pieces(m) + Toll(pc') < Pieces(n) + Toll(pc)
    BY <1>6, <1>7, <2>1, <2>2
  <2> QED BY <1>5, <2>3, StepsLeftNext
<1>8. CASE pc = "skip" /\ pc' = "skip" /\ end - p >= STEP /\ p' = p + STEP
  <2>1. Pieces(m) < Pieces(n)
    BY <1>0, <1>2, <1>4, <1>8, StepFacts, PiecesOfBlock
  <2> QED BY <1>5, <1>6, <1>8, <2>1, Tolls, StepsLeftNext
<1>9. CASE pc = "skip" /\ pc' = "skipped" /\ p' >= p
  <2>1. Pieces(m) <= Pieces(n) + 7
    BY <1>0, <1>3, <1>9, PiecesFacts
  <2> QED BY <1>5, <1>6, <1>9, <2>1, Tolls, StepsLeftNext
<1>10. CASE end - p >= 8 /\ p' = p + 8 /\ Toll(pc') <= Toll(pc)
  <2>1. Pieces(m) = Pieces(n) - 1
    BY <1>0, <1>2, <1>4, <1>10, PiecesFacts
  <2>2. Toll(pc) \in Nat /\ Toll(pc') \in Nat
    BY Tolls DEF TypeOK
  <2>3. Pieces(m) + Toll(pc') < Pieces(n) + Toll(pc)
    BY <1>6, <1>10, <2>1, <2>2
  <2> QED BY <1>5, <2>3, StepsLeftNext
<1>11. CASE pc = "multi" /\ pc' = "multi" /\ p < end /\ end - p < 8 /\ p' = p + 1
  <2>1. n \in 1 .. 7
    BY <1>0, <1>4, <1>11
  <2>2. Pieces(m) = Pieces(n) - 1
    BY <1>0, <1>2, <1>11, <2>1, PiecesFacts
  <2> QED BY <1>5, <1>6, <1>11, <2>2, Tolls, StepsLeftNext
<1> QED BY <1>7, <1>8, <1>9, <1>10, <1>11, Tolls DEF Advances

\* The same of every step of the code, and for every step that changes something.
LEMMA AdvanceSquare ==
  Inv /\ Inv' /\ [Next]_vars => [0 <= StepsLeft' /\ StepsLeft' < StepsLeft]_vars
<1> SUFFICES ASSUME Inv, Inv', [Next]_vars, ~ UNCHANGED vars
             PROVE  0 <= StepsLeft' /\ StepsLeft' < StepsLeft
  OBVIOUS
<1>1. Next
  OBVIOUS
<1>2. pc # "done"
  BY <1>1, StepShape
<1>3. TypeOK /\ TypeOK'
  BY DEF Inv
<1>4. Advances /\ call' = call
  BY <1>1, <1>2, StepAdvances
<1> QED BY <1>3, <1>4, StepsLeftFall

(***************************************************************************)
(* No loop of the code can run for ever, whatever the bytes, the range and *)
(* the build: each step leaves fewer steps to take.                        *)
(***************************************************************************)
THEOREM CallsAdvance == Spec => EachStepAdvances
BY Invariance, AdvanceSquare, PTL DEF Spec, EachStepAdvances

LEMMA StepsLeftIsNat == TypeOK => StepsLeft \in Nat
<1> SUFFICES ASSUME TypeOK PROVE StepsLeft \in Nat
  OBVIOUS
<1>1. Pieces(end - p) \in Nat
  BY CallFacts, PiecesFacts DEF TypeOK
<1>2. Toll(pc) \in Nat
  BY Tolls DEF TypeOK
<1> QED BY <1>1, <1>2, StepsLeftIs

LEMMA StepsLeftIsNatNext ==
  ASSUME TypeOK, TypeOK', call' = call
  PROVE  StepsLeft' \in Nat
<1>1. StepsLeft' = Pieces(end' - p') + Toll(pc')
  BY DEF StepsLeft, Pieces, Toll
<1>2. end' = end
  BY DEF end
<1>3. Pieces(end - p') \in Nat
  BY <1>2, CallFacts, PiecesFacts DEF TypeOK
<1>4. Toll(pc') \in Nat
  BY Tolls DEF TypeOK
<1> QED BY <1>1, <1>2, <1>3, <1>4

\* The measure where a call begins.
LEMMA StepsLeftAtEntry ==
  ASSUME Init
  PROVE  /\ StepsLeft <= ((end - start) \div 8) + 19
         /\ StepsLeft \in Nat /\ (end - start) \div 8 \in Nat
<1>1. Inv /\ p = start /\ pc = "entry"
  BY InitInv DEF Init, start
<1>2. end - start \in Nat
  BY <1>1, CallFacts DEF Inv, TypeOK
<1>3. Pieces(end - start) <= ((end - start) \div 8) + 7 /\ (end - start) \div 8 \in Nat
  BY <1>2 DEF Pieces
<1>4. StepsLeft = Pieces(end - start) + 12
  BY <1>1, StepsLeftIs, Tolls
<1>5. Pieces(end - start) \in Nat
  BY <1>2, PiecesFacts
<1> QED BY <1>2, <1>3, <1>4, <1>5

\* Where `steps' counts the steps taken, those taken and those left do not exceed
\* what the call began with.
Counted(steps) ==
  /\ steps \in Nat /\ StepsLeft \in Nat /\ (end - start) \div 8 \in Nat
  /\ steps + StepsLeft <= ((end - start) \div 8) + 19

(***************************************************************************)
(* A call on n bytes returns within n \div 8 + 19 steps, whatever the      *)
(* bytes, the slack and the build: the variable `steps' counts every step  *)
(* the code takes from the entry on, and never exceeds that number.        *)
(***************************************************************************)
THEOREM StepsBounded ==
  ASSUME NEW VARIABLE steps
  PROVE  /\ Init /\ steps = 0
         /\ [][Next /\ pc # "done" /\ steps' = steps + 1]_<< vars, steps >>
         => [](steps <= ((end - start) \div 8) + 19)
<1> DEFINE Step == Next /\ pc # "done" /\ steps' = steps + 1
<1>1. Init /\ steps = 0 => Inv /\ Counted(steps)
  BY InitInv, StepsLeftAtEntry DEF Counted
<1>2. Inv /\ Counted(steps) /\ [Step]_<< vars, steps >> => Inv' /\ Counted(steps)'
  <2> SUFFICES ASSUME Inv, Counted(steps), [Step]_<< vars, steps >>
               PROVE  Inv' /\ Counted(steps)'
    OBVIOUS
  <2>1. CASE Step
    <3>1. Inv'
      BY <2>1, NextInv
    <3>2. Advances /\ call' = call
      BY <2>1, StepAdvances
    <3>3. 0 <= StepsLeft' /\ StepsLeft' < StepsLeft
      BY <3>1, <3>2, StepsLeftFall DEF Inv
    <3>4. StepsLeft' \in Nat
      BY <3>1, <3>2, StepsLeftIsNatNext DEF Inv
    <3>5. end' = end /\ start' = start
      BY <3>2 DEF end, start
    <3> QED BY <2>1, <3>1, <3>3, <3>4, <3>5 DEF Counted
  <2>2. CASE UNCHANGED << vars, steps >>
    <3>1. Inv'
      BY <2>2, StutterInv
    <3>2. StepsLeft' = StepsLeft /\ end' = end /\ start' = start
      BY <2>2 DEF vars, StepsLeft, end, start
    <3> QED BY <2>2, <3>1, <3>2 DEF Counted
  <2> QED BY <2>1, <2>2
<1>3. Counted(steps) => steps <= ((end - start) \div 8) + 19
  BY DEF Counted
<1> QED BY <1>1, <1>2, <1>3, PTL

-----------------------------------------------------------------------------
(***************************************************************************)
(* The state of verify_multibyte is that of the DFA run from the start of  *)
(* the range.                                                              *)
(***************************************************************************)
Ran(q) == run(ACCEPT, buf, start, q)

LEMMA RanIsState ==
  ASSUME TypeOK, NEW q \in start .. end
  PROVE  Ran(q) \in States
<1>1. q \in Nat /\ start \in 0 .. q /\ ACCEPT \in States
  BY CallFacts DEF States
<1> QED BY <1>1, RunIsState DEF Ran

\* One byte.
LEMMA RanStep ==
  ASSUME TypeOK, NEW q \in start .. end - 1
  PROVE  Ran(q + 1) = step(Ran(q), ByteAt(q)) /\ Ran(q + 1) \in States
<1>1. q \in Nat /\ start \in 0 .. q /\ ACCEPT \in States /\ q \in start .. end
  BY CallFacts DEF States
<1>2. ByteAt(q) = buf[q] /\ buf[q] \in Byte
  BY ByteAtIs
<1>3. Ran(q + 1) = spec_step(Ran(q), buf[q])
  BY <1>1, RunSnoc DEF Ran
<1> QED BY <1>1, <1>2, <1>3, RanIsState, StepIsSpecStep, SpecStepIsState

\* Eight unrolled steps.
LEMMA RanWord ==
  ASSUME TypeOK, NEW q \in start .. end, q + 8 <= end
  PROVE  AfterWord(Ran(q), q) = Ran(q + 8)
<1>1. /\ \A i \in 0 .. 7 : q + i \in start .. end - 1 /\ (q + i) + 1 = q + (i + 1)
      /\ q + 0 = q
  BY CallFacts
<1>2. \A i \in 0 .. 7 : step(Ran(q + i), ByteAt(q + i)) = Ran(q + (i + 1))
  BY <1>1, RanStep
<1>3. /\ step(Ran(q), ByteAt(q)) = Ran(q + 1)
      /\ step(Ran(q + 1), ByteAt(q + 1)) = Ran(q + 2)
      /\ step(Ran(q + 2), ByteAt(q + 2)) = Ran(q + 3)
      /\ step(Ran(q + 3), ByteAt(q + 3)) = Ran(q + 4)
  BY <1>1, <1>2
<1>4. /\ step(Ran(q + 4), ByteAt(q + 4)) = Ran(q + 5)
      /\ step(Ran(q + 5), ByteAt(q + 5)) = Ran(q + 6)
      /\ step(Ran(q + 6), ByteAt(q + 6)) = Ran(q + 7)
      /\ step(Ran(q + 7), ByteAt(q + 7)) = Ran(q + 8)
  BY <1>2
<1> QED BY <1>3, <1>4 DEF AfterWord

\* Bytes that are all ASCII, from ACCEPT.
LEMMA RanAscii ==
  ASSUME TypeOK, NEW q \in start .. end, NEW r \in q .. end,
         Ran(q) = ACCEPT, all_ascii(buf, q, r)
  PROVE  Ran(r) = ACCEPT
<1>1. /\ r \in Nat /\ q \in 0 .. r /\ start \in 0 .. q /\ ACCEPT \in States
      /\ \A i \in q .. r - 1 : i \in start .. end - 1
  BY CallFacts DEF States
<1>2. \A i \in q .. r - 1 : buf[i] \in Ascii
  BY <1>1, ByteAtIs, SMTT(30) DEF all_ascii, Ascii, Byte
<1>3. run(ACCEPT, buf, q, r) = ACCEPT
  BY <1>1, <1>2, RunAscii
<1>4. run(ACCEPT, buf, start, r) = run(run(ACCEPT, buf, start, q), buf, q, r)
  BY <1>1, RunJoin
<1> QED BY <1>3, <1>4 DEF Ran

\* The DFA takes over at ACCEPT, where it would be after the bytes skipped.
LEMMA EntersAtAccept ==
  ASSUME Next, pc # "multi", pc' = "multi"
  PROVE  state' = ACCEPT
<1>1. ~ (VerifyLong \/ EnterImpl \/ ShortEmpty \/ SkipPrefix \/ WordsDone
            \/ VerifyMultibyte \/ Terminating)
  BY DEF VerifyLong, EnterImpl, ShortEmpty, SkipPrefix, Skip, SkipAscii, SkipStop,
         SkipEnd, WordsDone, VerifyMultibyte, MultiSkip, MultiWord, MultiByte,
         MultiEnd, MultiStd, MultiStart, Terminating, Return, vars
<1>2. CASE VerifyShort
  BY <1>1, <1>2 DEF VerifyShort, ShortSlack, ShortPair4, ShortPair2, ShortByte,
                    ShortPair, AsciiOr, EnterMultibyte, Return
<1>3. CASE VerifyWords
  BY <1>1, <1>3 DEF VerifyWords, AfterSkip, WordLoop, TailLoad, AsciiOr, EnterMultibyte, Return
<1> QED BY <1>1, <1>2, <1>3 DEF Next

\* Each step of a call keeps it so.
LEMMA StateRuns ==
  ASSUME Inv, StateIsRun, Next
  PROVE  StateIsRun'
<1> SUFFICES ASSUME pc' = "multi" PROVE state' = Ran(p')
  <2>1. call' = call
    BY StepShape DEF vars
  <2> QED BY <2>1 DEF StateIsRun, Ran, buf, start
<1>0. /\ TypeOK /\ p \in start .. end /\ start \in start .. end /\ end \in Int /\ p \in Int
      /\ Ran(start) = ACCEPT
  <2>1. TypeOK /\ p \in start .. end /\ start \in start .. end
    BY CallFacts DEF Inv
  <2>2. start \in Nat /\ start \in 0 .. start /\ ACCEPT \in States
    BY <2>1, CallFacts DEF States
  <2> QED BY <2>1, <2>2, CallFacts, UnfoldRun DEF Ran
<1>1. CASE pc # "multi"
  <2>1. state' = ACCEPT
    BY <1>1, EntersAtAccept
  <2>2. pc \in {"short", "skipped", "words"} /\ p' = p
    <3>1. pc # "done"
      BY StepShape DEF vars
    <3> QED BY <1>1, <3>1, StepAdvances DEF Advances
  <2>3. all_ascii(buf, start, p)
    BY <2>2 DEF Inv, AsciiSoFar
  <2> QED BY <1>0, <2>1, <2>2, <2>3, RanAscii
<1>2. CASE pc = "multi"
  <2>1. state = Ran(p)
    BY <1>2 DEF StateIsRun, Ran
  <2>2. VerifyMultibyte
    BY <1>2 DEF Next, VerifyLong, EnterImpl, VerifyShort, ShortEmpty, ShortSlack, ShortPair4,
                ShortPair2, ShortByte, SkipPrefix, Skip, SkipAscii, SkipStop, SkipEnd,
                VerifyWords, AfterSkip, WordLoop, TailLoad, WordsDone, Terminating
  <2>3. CASE MultiSkip
    <3>1. state = ACCEPT /\ ~ HighBit(Lanes(p, 8)) /\ p' = p + 8 /\ state' = state /\ end - p >= 8
      BY <2>3 DEF MultiSkip, Reskips
    <3>2. p + 8 \in p .. end /\ Lanes(p, 8) \subseteq start .. end - 1
      BY <1>0, <3>1, CallFacts DEF Lanes
    <3>3. all_ascii(buf, p, p + 8)
      <4>1. \A i \in p .. (p + 8) - 1 : i \in Lanes(p, 8)
        BY <1>0 DEF Lanes
      <4>2. \A i \in Lanes(p, 8) : buf[i] \in Ascii
        BY <1>0, <3>1, <3>2, NoHighBit
      <4> QED BY <4>1, <4>2 DEF all_ascii, Ascii
    <3> QED BY <1>0, <2>1, <3>1, <3>2, <3>3, RanAscii
  <2>4. CASE MultiWord
    <3>1. end - p >= 8 /\ p' = p + 8 /\ state' = AfterWord(state, p)
      BY <2>4 DEF MultiWord
    <3>2. p + 8 <= end
      BY <1>0, <3>1
    <3> QED BY <1>0, <2>1, <3>1, <3>2, RanWord
  <2>5. CASE MultiByte
    <3>1. p < end /\ p' = p + 1 /\ state' = step(state, ByteAt(p))
      BY <2>5 DEF MultiByte
    <3>2. p \in start .. end - 1
      BY <1>0, <3>1, CallFacts
    <3> QED BY <1>0, <2>1, <3>1, <3>2, RanStep
  <2>6. ~ (MultiEnd \/ MultiStd)
    BY DEF MultiEnd, MultiStd, Return
  <2> QED BY <2>2, <2>3, <2>4, <2>5, <2>6 DEF VerifyMultibyte
<1> QED BY <1>1, <1>2

(***************************************************************************)
(* However the bytes before p were consumed (skipped before                *)
(* verify_multibyte or in it, in chunks of eight, one by one), the state   *)
(* is that of one run over all of them.                                    *)
(***************************************************************************)
THEOREM StateOfTheRun == Spec => []StateIsRun
<1>1. Init => StateIsRun
  BY DEF Init, StateIsRun
<1>2. Inv /\ StateIsRun /\ [Next]_vars => StateIsRun'
  <2>1. UNCHANGED vars /\ StateIsRun => StateIsRun'
    BY DEF vars, StateIsRun, buf, start
  <2> QED BY <2>1, StateRuns
<1> QED BY <1>1, <1>2, Invariance, PTL DEF Spec

-----------------------------------------------------------------------------
(***************************************************************************)
(* Utf8Validator speaks of the same reference definition.                  *)
(***************************************************************************)
LEMMA SameReference ==
  ASSUME NEW b, NEW s, NEW e
  PROVE  Validator!is_valid_utf8(b, s, e) = is_valid_utf8(b, s, e)
<1>1. Validator!Table37 = Table37
  BY DEF Validator!Table37, Table37, Validator!cont, cont, Validator!Ascii, Ascii
<1> QED BY <1>1 DEF Validator!is_valid_utf8, is_valid_utf8, Validator!ValidFrom,
             ValidFrom, Validator!table_3_7, table_3_7, Validator!MatchesAt, MatchesAt

(***************************************************************************)
(* Each step of the code is the answer Utf8Validator allows, or no step of *)
(* it at all.                                                              *)
(***************************************************************************)
LEMMA ValidatorStep ==
  ASSUME Inv', [Next]_vars
  PROVE  [Validator!Return]_(Validator!vars)
<1>1. CASE pc # "done" /\ call' = call /\ pc' = "done"
  <2>1. result' = is_valid_utf8(call.buf, call.start, call.end)
    BY <1>1 DEF Inv, Correct, buf, start, end
  <2>2. call' = call /\ ~ (pc = "done") /\ (pc = "done")' = TRUE
    BY <1>1
  <2> QED BY <2>1, <2>2, SameReference DEF Validator!Return
<1>2. CASE pc # "done" /\ call' = call /\ pc' # "done" /\ result' = result
  BY <1>2 DEF Validator!vars
<1>3. CASE UNCHANGED vars
  BY <1>3 DEF Validator!vars, vars
<1> QED BY <1>1, <1>2, <1>3, StepShape

(***************************************************************************)
(* The safety part of ImplementsValidator: the code answers once, rightly, *)
(* and changes neither the call nor its answer afterwards.                 *)
(***************************************************************************)
THEOREM SafeValidator == Spec => Validator!Init /\ [][Validator!Return]_(Validator!vars)
<1>1. Init => Validator!Init
  <2> SUFFICES ASSUME Init PROVE Validator!Init
    OBVIOUS
  <2>1. IsCall(call) /\ (pc = "done") = FALSE /\ result = FALSE
    BY CallsAssumption DEF Init
  <2>2. Validator!IsRangeOf(call)
    BY <2>1 DEF IsCall, SLACK, Validator!IsRangeOf, Validator!Byte, Byte
  <2> QED BY <2>1, <2>2 DEF Validator!Init
<1>2. Inv' /\ [Next]_vars => [Validator!Return]_(Validator!vars)
  BY ValidatorStep
<1> QED BY <1>1, <1>2, Invariance, PTL DEF Spec
=============================================================================
