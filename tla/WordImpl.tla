------------------------------ MODULE WordImpl ------------------------------
(***************************************************************************)
(* A call of the validator once more, in the words it loads: where         *)
(* VerifyImpl asks which bytes a load covers and whether one of them is    *)
(* not ASCII, this module packs the bytes into a word in the byte order of *)
(* the target, masks it, and takes it apart again (src/src/lib.rs and      *)
(* src/src/ascii_skip.rs).  It implements VerifyImpl, with whose variables *)
(* it works.                                                               *)
(***************************************************************************)
EXTENDS VerifyImpl, Words

Bytes(at, n) == [ k \in 0 .. n - 1 |-> ByteAt(at + k) ]

load64(at) == load_raw(Bytes(at, 8), 8)
load32(at) == load_raw(Bytes(at, 4), 4)
load16(at) == load_raw(Bytes(at, 2), 2)
load8(at)  == Value[load_raw(Bytes(at, 1), 1)]

SIGN_BITS == SignBits(8)

\* The slow path from position q, or TRUE.
Branch(nonAscii, q) == IF nonAscii THEN EnterMultibyte(q) ELSE Return(TRUE)

-----------------------------------------------------------------------------
(***************************************************************************)
(* verify_short.                                                           *)
(***************************************************************************)
ShortMask(left) == sign_mask(left)

ShortSlackWord ==
  /\ pc = "short"
  /\ PAD >= 8
  /\ start < end
  /\ reads' = Lanes(start, 8)
  /\ Branch(load64(start) \cap ShortMask(end - start) # {}, start)

ShortPair4Word ==
  /\ pc = "short"
  /\ PAD < 8
  /\ end - start >= 4
  /\ reads' = PairLanes(4)
  /\ Branch((load32(start) \cup load32(end - 4)) \cap SignBits(4) # {}, start)

ShortPair2Word ==
  /\ pc = "short"
  /\ PAD < 8
  /\ end - start \in 2 .. 3
  /\ reads' = PairLanes(2)
  /\ Branch((load16(start) \cup load16(end - 2)) \cap SignBits(2) # {}, start)

ShortByteWord ==
  /\ pc = "short"
  /\ PAD < 8
  /\ end - start = 1
  /\ reads' = {start}
  /\ Branch(load8(start) >= 128, start)

VerifyShortWord ==
  ShortEmpty \/ ShortSlackWord \/ ShortPair4Word \/ ShortPair2Word \/ ShortByteWord

-----------------------------------------------------------------------------
(***************************************************************************)
(* skip: two 64-bit words ("swar"), the mask of the sign bits of 32 lanes  *)
(* ("avx2"), the maximum of 16 lanes of two vectors ORed ("neon").         *)
(***************************************************************************)
swar_word == (load64(p) \cup load64(p + 8)) \cap SIGN_BITS

movemask == { k \in 0 .. 31 : 7 \in Bits[ByteAt(p + k)] }

\* Defect: AND for OR, a lane counts only if both of its bytes do.
LaneAnd(k) == Value[Bits[ByteAt(p + k)] \cap Bits[ByteAt(p + 16 + k)]]

\* Lane k of the two vectors ORed.
Lane(k) == Value[Bits[ByteAt(p + k)] \cup Bits[ByteAt(p + 16 + k)]]

\* The greatest lane is at least m.
umaxv_reaches(m) == \E k \in 0 .. 15 : Lane(k) >= m

BlockNonAscii ==
  \/ SkipVariant = "swar" /\ swar_word # {}
  \/ SkipVariant = "avx2" /\ movemask # {}
  \/ SkipVariant = "neon" /\ umaxv_reaches(128)

SkipAsciiWord ==
  /\ pc = "skip"
  /\ end - p >= STEP
  /\ ~ BlockNonAscii
  /\ reads' = Lanes(p, STEP)
  /\ p' = p + STEP
  /\ UNCHANGED << call, pc, state, result >>

\* Defect: leading_zeros of a 32-bit mask counts lanes from the other end.
StopPositionLeading ==
  IF SkipVariant = "avx2"
    THEN p + 31 - (CHOOSE i \in movemask : \A j \in movemask : i >= j)
    ELSE p

StopPosition == IF SkipVariant = "avx2" THEN p + trailing_zeros(movemask) ELSE p

SkipStopWord ==
  /\ pc = "skip"
  /\ end - p >= STEP
  /\ BlockNonAscii
  /\ reads' = Lanes(p, STEP)
  /\ p' = StopPosition
  /\ pc' = "skipped"
  /\ UNCHANGED << call, state, result >>

SkipWord ==
  SkipAsciiWord \/ SkipStopWord \/ (SkipEnd /\ UNCHANGED << state, result >>)

-----------------------------------------------------------------------------
(***************************************************************************)
(* The word loop and the tail window of verify_impl.                       *)
(***************************************************************************)
WordLoopWord ==
  /\ pc = "words"
  /\ end - p >= 8
  /\ reads' = Lanes(p, 8)
  /\ IF load64(p) \cap SIGN_BITS # {}
       THEN EnterMultibyte(p)
       ELSE p' = p + 8 /\ UNCHANGED << call, pc, state, result >>

TailLoadWord ==
  /\ pc = "words"
  /\ end - p < 8
  /\ p < end
  /\ reads' = TailWindow
  /\ Branch(load64(end - 8) \cap SIGN_BITS # {}, p)

-----------------------------------------------------------------------------
(***************************************************************************)
(* verify_multibyte.                                                       *)
(***************************************************************************)
ReskipsWord == state = ACCEPT /\ load64(p) \cap SIGN_BITS = {}

\* Defect: `continue' without advancing.
MultiSkipWordInPlace ==
  /\ MultiStart
  /\ end - p >= 8
  /\ ReskipsWord
  /\ reads' = Lanes(p, 8)
  /\ UNCHANGED << call, pc, p, state, result >>

MultiSkipWord ==
  /\ MultiStart
  /\ end - p >= 8
  /\ ReskipsWord
  /\ reads' = Lanes(p, 8)
  /\ p' = p + 8
  /\ UNCHANGED << call, pc, state, result >>

\* The state after the eight bytes of a word, from the least significant on.
AfterLoaded(s, w) ==
  LET s1 == step(s,  byte64(w, 0))
      s2 == step(s1, byte64(w, 1))
      s3 == step(s2, byte64(w, 2))
      s4 == step(s3, byte64(w, 3))
      s5 == step(s4, byte64(w, 4))
      s6 == step(s5, byte64(w, 5))
      s7 == step(s6, byte64(w, 6))
  IN  step(s7, byte64(w, 7))

MultiWordWord ==
  /\ MultiStart
  /\ end - p >= 8
  /\ ~ ReskipsWord
  /\ reads' = Lanes(p, 8)
  /\ p' = p + 8
  /\ \E w \in {load64(p)} : state' = AfterLoaded(state, w)
  /\ \/ state' = REJECT /\ pc' = "done" /\ result' = FALSE
     \/ state' # REJECT /\ UNCHANGED << pc, result >>
  /\ UNCHANGED call

MultiByteWord ==
  /\ MultiStart
  /\ end - p < 8
  /\ p < end
  /\ reads' = {p}
  /\ state' = step(state, load8(p))
  /\ p' = p + 1
  /\ UNCHANGED << call, pc, result >>

VerifyMultibyteWord ==
  MultiSkipWord \/ MultiWordWord \/ MultiByteWord \/ MultiEnd \/ MultiStd

-----------------------------------------------------------------------------
WordNext ==
  \/ VerifyLong \/ EnterImpl
  \/ VerifyShortWord
  \/ SkipWord
  \/ AfterSkip \/ WordLoopWord \/ TailLoadWord \/ WordsDone
  \/ VerifyMultibyteWord
  \/ Terminating

WordSpec == Init /\ [][WordNext]_vars /\ WF_vars(WordNext)

(***************************************************************************)
(* In either byte order, the masks, the ORed pairs of words, the vector    *)
(* reductions and the bytes shifted out of a word tell the code what       *)
(* VerifyImpl takes them to tell: every step is a step of VerifyImpl, and  *)
(* a call that is not done goes on.                                        *)
(***************************************************************************)
ImplementsLanes == Spec
=============================================================================
