----------------------------- MODULE VerifyImpl -----------------------------
(***************************************************************************)
(* One call of verify or verify_with_slack (src/src/lib.rs), from the      *)
(* entry point to its return: the simdutf8 delegation, verify_impl with    *)
(* its ASCII fast paths, verify_short, and verify_multibyte in its DFA     *)
(* form and in its form for targets without 64-bit shifts.                 *)
(*                                                                         *)
(* Each iteration of a loop is a step, and so is each straight stretch of  *)
(* code between a load and the branch taken on it.                         *)
(***************************************************************************)
EXTENDS AsciiSkip, ShiftDfa

CONSTANTS
  Simdutf8,         \* the simdutf8 feature is enabled
  LONG_THRESHOLD,   \* the length from which it takes over
  Multibyte         \* which verify_multibyte the target has: "dfa" or "std"

ASSUME BuildAssumption ==
  /\ Simdutf8 \in BOOLEAN
  /\ LONG_THRESHOLD \in Nat
  /\ Multibyte \in {"dfa", "std"}

VARIABLES
  state,            \* the DFA state of verify_multibyte
  result            \* the answer, once pc = "done"

vars == << call, pc, p, reads, state, result >>

Init ==
  /\ call \in Calls
  /\ pc = "entry"
  /\ p = call.start
  /\ reads = {}
  /\ state = ACCEPT
  /\ result = FALSE

-----------------------------------------------------------------------------
(***************************************************************************)
(* Leaving a function: its answer is the answer of the call, or the rest   *)
(* of the range, from position q on, is left to verify_multibyte.          *)
(***************************************************************************)
Return(answer) ==
  /\ pc' = "done"
  /\ result' = answer
  /\ UNCHANGED << call, p, state >>

EnterMultibyte(q) ==
  /\ pc' = "multi"
  /\ p' = q
  /\ state' = ACCEPT
  /\ UNCHANGED << call, result >>

-----------------------------------------------------------------------------
(***************************************************************************)
(* The entry points.                                                       *)
(***************************************************************************)
Delegated == Simdutf8 /\ end - start >= LONG_THRESHOLD

\* Defect: the slice handed to simdutf8 runs to the end of the buffer.
VerifyLongToBufferEnd ==
  /\ pc = "entry"
  /\ Delegated
  /\ reads' = start .. len - 1
  /\ Return(is_valid_utf8(buf, start, len))

\* verify_long: simdutf8 (external) validates exactly buf[start .. end - 1].
VerifyLong ==
  /\ pc = "entry"
  /\ Delegated
  /\ reads' = start .. end - 1
  /\ Return(is_valid_utf8(buf, start, end))

\* verify_impl up to its first branch.
EnterImpl ==
  /\ pc = "entry"
  /\ ~ Delegated
  /\ pc' = IF end - start < 8 THEN "short" ELSE "skip"
  /\ p' = start
  /\ reads' = {}
  /\ UNCHANGED << call, state, result >>

-----------------------------------------------------------------------------
(***************************************************************************)
(* verify_short: fewer than eight bytes.                                   *)
(***************************************************************************)
AsciiOr(tested, q) ==
  IF HighBit(tested) THEN EnterMultibyte(q) ELSE Return(TRUE)

ShortEmpty ==
  /\ pc = "short"
  /\ start = end
  /\ reads' = {}
  /\ Return(TRUE)

\* Defect: the shift is one byte short, and the first slack byte is kept.
MaskedLanesWide(left) == { k \in 0 .. 7 : k + (7 - left) <= 7 }

\* Defect: the shift is one byte long, and the last byte is masked off.
MaskedLanesNarrow(left) == { k \in 0 .. 7 : k + (9 - left) <= 7 }

\* The lanes of an 8-byte word that SIGN_BITS >> ((8 - left) * 8) keeps: byte
\* lane k + (8 - left) of SIGN_BITS moves to lane k.
MaskedLanes(left) == { k \in 0 .. 7 : k + (8 - left) <= 7 }

ShortSlack ==
  /\ pc = "short"
  /\ PAD >= 8
  /\ start < end
  /\ reads' = Lanes(start, 8)
  /\ AsciiOr({ start + k : k \in MaskedLanes(end - start) }, start)

\* Two overlapping loads of n bytes, at both ends of the range.
PairLanes(n) == Lanes(start, n) \cup Lanes(end - n, n)

ShortPair(n) ==
  /\ reads' = PairLanes(n)
  /\ AsciiOr(PairLanes(n), start)

\* Defect: a three-byte range takes the four-byte loads.
ShortPair4From3 ==
  /\ pc = "short"
  /\ PAD < 8
  /\ end - start >= 3
  /\ ShortPair(4)

ShortPair4 ==
  /\ pc = "short"
  /\ PAD < 8
  /\ end - start >= 4
  /\ ShortPair(4)

ShortPair2 ==
  /\ pc = "short"
  /\ PAD < 8
  /\ end - start \in 2 .. 3
  /\ ShortPair(2)

ShortByte ==
  /\ pc = "short"
  /\ PAD < 8
  /\ end - start = 1
  /\ reads' = {start}
  /\ AsciiOr({start}, start)

VerifyShort ==
  ShortEmpty \/ ShortSlack \/ ShortPair4 \/ ShortPair2 \/ ShortByte

-----------------------------------------------------------------------------
(***************************************************************************)
(* verify_impl: eight bytes or more.                                       *)
(***************************************************************************)
SkipPrefix == Skip /\ UNCHANGED << state, result >>

\* Defect: the threshold is half a block.
AfterSkipHalf ==
  /\ pc = "skipped"
  /\ reads' = {}
  /\ IF end - p >= STEP \div 2
       THEN EnterMultibyte(p)
       ELSE pc' = "words" /\ UNCHANGED << call, p, state, result >>

\* skip stopped with a whole block left: that block is not all ASCII.
AfterSkip ==
  /\ pc = "skipped"
  /\ reads' = {}
  /\ IF end - p >= STEP
       THEN EnterMultibyte(p)
       ELSE pc' = "words" /\ UNCHANGED << call, p, state, result >>

\* Defect: the stride of the sixteen-byte block kept for eight-byte words.
WordLoopStride16 ==
  /\ pc = "words"
  /\ end - p >= 8
  /\ reads' = Lanes(p, 8)
  /\ IF HighBit(Lanes(p, 8))
       THEN EnterMultibyte(p)
       ELSE p' = p + 16 /\ UNCHANGED << call, pc, state, result >>

WordLoop ==
  /\ pc = "words"
  /\ end - p >= 8
  /\ reads' = Lanes(p, 8)
  /\ IF HighBit(Lanes(p, 8))
       THEN EnterMultibyte(p)
       ELSE p' = p + 8 /\ UNCHANGED << call, pc, state, result >>

\* Defect: the window starts at p and overruns the range.
TailWindowAtP == Lanes(p, 8)

\* Defect: the window lies one byte too far.
TailWindowLate == Lanes(end - 7, 8)

\* The last eight bytes of the range, some of which the loop has seen.
TailWindow == Lanes(end - 8, 8)

\* Defect: p is put back for the loop to scan the last eight bytes.
TailBySteppingBack ==
  /\ pc = "words"
  /\ end - p < 8
  /\ p < end
  /\ reads' = {}
  /\ p' = end - 8
  /\ UNCHANGED << call, pc, state, result >>

TailLoad ==
  /\ pc = "words"
  /\ end - p < 8
  /\ p < end
  /\ reads' = TailWindow
  /\ AsciiOr(TailWindow, p)

WordsDone ==
  /\ pc = "words"
  /\ p = end
  /\ reads' = {}
  /\ Return(TRUE)

VerifyWords == AfterSkip \/ WordLoop \/ TailLoad \/ WordsDone

-----------------------------------------------------------------------------
(***************************************************************************)
(* verify_multibyte.                                                       *)
(***************************************************************************)
MultiStart == pc = "multi" /\ Multibyte = "dfa"

\* Defect: ASCII words are skipped inside a sequence too.
ReskipsAnywhere == ~ HighBit(Lanes(p, 8))

\* Between sequences, a word of eight ASCII bytes is skipped as a whole.
Reskips == state = ACCEPT /\ ~ HighBit(Lanes(p, 8))

\* Defect: `continue' without advancing.
MultiSkipInPlace ==
  /\ MultiStart
  /\ end - p >= 8
  /\ Reskips
  /\ reads' = Lanes(p, 8)
  /\ UNCHANGED << call, pc, p, state, result >>

MultiSkip ==
  /\ MultiStart
  /\ end - p >= 8
  /\ Reskips
  /\ reads' = Lanes(p, 8)
  /\ p' = p + 8
  /\ UNCHANGED << call, pc, state, result >>

\* Defect: one of the eight unrolled steps is missing.
AfterWordSevenSteps(s, at) ==
  LET s1 == step(s,  ByteAt(at))
      s2 == step(s1, ByteAt(at + 1))
      s3 == step(s2, ByteAt(at + 2))
      s4 == step(s3, ByteAt(at + 3))
      s5 == step(s4, ByteAt(at + 4))
      s6 == step(s5, ByteAt(at + 6))
  IN  step(s6, ByteAt(at + 7))

\* The state after the eight bytes at this position, one step for each.
AfterWord(s, at) ==
  LET s1 == step(s,  ByteAt(at))
      s2 == step(s1, ByteAt(at + 1))
      s3 == step(s2, ByteAt(at + 2))
      s4 == step(s3, ByteAt(at + 3))
      s5 == step(s4, ByteAt(at + 4))
      s6 == step(s5, ByteAt(at + 5))
      s7 == step(s6, ByteAt(at + 6))
  IN  step(s7, ByteAt(at + 7))

MultiWord ==
  /\ MultiStart
  /\ end - p >= 8
  /\ ~ Reskips
  /\ reads' = Lanes(p, 8)
  /\ p' = p + 8
  /\ state' = AfterWord(state, p)
  /\ \/ state' = REJECT /\ pc' = "done" /\ result' = FALSE
     \/ state' # REJECT /\ UNCHANGED << pc, result >>
  /\ UNCHANGED call

MultiByte ==
  /\ MultiStart
  /\ end - p < 8
  /\ p < end
  /\ reads' = {p}
  /\ state' = step(state, ByteAt(p))
  /\ p' = p + 1
  /\ UNCHANGED << call, pc, result >>

\* Defect: a range that ends inside a sequence is accepted.
MultiEndUnlessRejected ==
  /\ MultiStart
  /\ p = end
  /\ reads' = {}
  /\ Return(state # REJECT)

MultiEnd ==
  /\ MultiStart
  /\ p = end
  /\ reads' = {}
  /\ Return(state = ACCEPT)

\* Defect: the slice handed to core::str runs to the end of the buffer.
MultiStdToBufferEnd ==
  /\ pc = "multi"
  /\ Multibyte = "std"
  /\ reads' = p .. len - 1
  /\ Return(is_valid_utf8(buf, p, len))

\* Without 64-bit shifts: core::str::from_utf8 (external) on the exact slice.
MultiStd ==
  /\ pc = "multi"
  /\ Multibyte = "std"
  /\ reads' = p .. end - 1
  /\ Return(is_valid_utf8(buf, p, end))

VerifyMultibyte ==
  MultiSkip \/ MultiWord \/ MultiByte \/ MultiEnd \/ MultiStd

-----------------------------------------------------------------------------
\* The call has returned and nothing is left to do.
Terminating == pc = "done" /\ UNCHANGED vars

Next ==
  \/ VerifyLong \/ EnterImpl
  \/ VerifyShort
  \/ SkipPrefix
  \/ VerifyWords
  \/ VerifyMultibyte
  \/ Terminating

(***************************************************************************)
(* The functions are sequential and wait for nothing: a call that has not  *)
(* returned goes on.                                                       *)
(***************************************************************************)
Spec == Init /\ [][Next]_vars /\ WF_vars(Next)
-----------------------------------------------------------------------------
TypeOK ==
  /\ IsCall(call)
  /\ pc \in {"entry", "short", "skip", "skipped", "words", "multi", "done"}
  /\ p \in start .. end
  /\ reads \subseteq Int
  /\ is_state(state)
  /\ result \in BOOLEAN

(***************************************************************************)
(* Every load stays inside the slice and inside the range, but for the one *)
(* load that verify_short makes with SLACK, which may reach seven bytes    *)
(* past the range and no further (the doc of SLACK, and the SAFETY comment *)
(* of every unsafe load).                                                  *)
(***************************************************************************)
LoadsAllowed ==
  /\ reads \subseteq 0 .. len - 1
  /\ reads \subseteq start .. end - 1 + (IF PAD = SLACK THEN 7 ELSE 0)
  /\ end - start >= 8 => reads \subseteq start .. end - 1

(***************************************************************************)
(* Until verify_multibyte takes over, everything before p is ASCII.  This  *)
(* is why it may be handed p instead of start, with its DFA at ACCEPT.     *)
(***************************************************************************)
AsciiSoFar ==
  pc \in {"short", "skip", "skipped", "words"} => all_ascii(buf, start, p)

(***************************************************************************)
(* verify_multibyte is entered only when a byte at or after the position   *)
(* it is given is not ASCII (its doc comment): neither the slack, nor the  *)
(* bytes the tail window reads twice, nor the bytes of another field of    *)
(* the buffer send a call down the slow path.                              *)
(***************************************************************************)
SlowPathJustified ==
  [][ pc # "multi" /\ pc' = "multi" => ~ all_ascii(buf, p', end) ]_vars

(***************************************************************************)
(* The comment on the word loop: at most one iteration with 16-byte        *)
(* blocks, at most three with 32-byte blocks.                              *)
(***************************************************************************)
WordLoopShort == pc = "words" => end - p < STEP

(***************************************************************************)
(* The position and the DFA state are all that has to be remembered of the *)
(* bytes consumed: the range is well-formed if and only if what remains    *)
(* completes it.  In particular the re-skip over ASCII words, which is     *)
(* taken only at ACCEPT, loses nothing, and a state that is REJECT in the  *)
(* middle of a chunk stays a rejection.                                    *)
(***************************************************************************)
StateSummarises ==
  pc = "multi" =>
    (is_valid_utf8(buf, start, end) <=> Completes(state, buf, p, end))

(***************************************************************************)
(* The invariant of both loops of verify_multibyte: the state is that of   *)
(* the DFA run over everything before p, here from the start of the range. *)
(* The bytes skipped before verify_multibyte took over, the words skipped  *)
(* again and the eight steps of a chunk leave it where one step for each   *)
(* byte would.                                                             *)
(***************************************************************************)
StateIsRun == pc = "multi" => state = run(ACCEPT, buf, start, p)

(***************************************************************************)
(* Functional correctness: the answer says whether the range is            *)
(* well-formed UTF-8.                                                      *)
(***************************************************************************)
Correct == pc = "done" => result = is_valid_utf8(buf, start, end)

\* How many steps the call may still take: one for each word of what is left and
\* one for each byte after the last word, and what the change of loop costs.
StepsLeft ==
  LET left == end - p
  IN  (left \div 8) + (left % 8)
        + ( CASE pc = "entry"   -> 12
              [] pc = "skip"    -> 11
              [] pc = "skipped" -> 3
              [] pc = "words"   -> 2
              [] pc = "short"   -> 2
              [] pc = "multi"   -> 1
              [] OTHER          -> 0 )

(***************************************************************************)
(* The `decreases' clauses of the loops, for the call as a whole: every    *)
(* step brings the call nearer to its end, and no hand-off from one loop   *)
(* to another gives back what was gained.  A call on n bytes thus takes at *)
(* most n \div 8 + 19 steps, whatever the bytes are.                       *)
(***************************************************************************)
EachStepAdvances == [][ 0 <= StepsLeft' /\ StepsLeft' < StepsLeft ]_vars

(***************************************************************************)
(* The comment on the NEON skip: on a block that is not all ASCII, "the    *)
(* caller's 8-byte loop re-scans the block".  verify_impl does not do so:  *)
(* with a whole block left it leaves the word loop out.                    *)
(***************************************************************************)
BlockRescanned ==
  [][ pc = "skipped" /\ end - p >= STEP /\ pc' # pc => pc' = "words" ]_vars

-----------------------------------------------------------------------------
(***************************************************************************)
(* The inductive invariant: the properties above, what each part of the    *)
(* code knows about the length of the range, and the reason why Correct    *)
(* holds, namely that the answer for the range is the answer for its rest. *)
(***************************************************************************)
Positions ==
  /\ pc \in {"entry", "short"} => p = start
  /\ pc = "short" => end - start < 8
  /\ pc \in {"skip", "skipped", "words"} => end - start >= 8
  /\ pc = "multi" /\ Multibyte = "std" => state = ACCEPT

RestDecides ==
  pc \in {"entry", "short", "skip", "skipped", "words"} =>
    (is_valid_utf8(buf, start, end) <=> is_valid_utf8(buf, p, end))

Inv ==
  /\ TypeOK
  /\ LoadsAllowed
  /\ AsciiSoFar
  /\ SkipContract
  /\ WordLoopShort
  /\ Positions
  /\ RestDecides
  /\ StateSummarises
  /\ Correct

-----------------------------------------------------------------------------
\* The call as its caller sees it.
Validator == INSTANCE Utf8Validator WITH returned <- pc = "done"

(***************************************************************************)
(* Whatever the build and the path taken, a call does what the abstract    *)
(* validator does: it answers once, rightly, and it does answer.           *)
(***************************************************************************)
ImplementsValidator == Validator!Spec
=============================================================================
