----------------------------- MODULE AsciiSkip -----------------------------
(***************************************************************************)
(* ascii_skip::skip (src/src/ascii_skip.rs) in its three builds: two       *)
(* 8-byte words per iteration ("swar"), one 32-byte vector and movemask    *)
(* ("avx2"), two 16-byte vectors and a maximum ("neon").                   *)
(***************************************************************************)
EXTENDS CallFrame

CONSTANT SkipVariant

ASSUME SkipVariantAssumption == SkipVariant \in {"swar", "avx2", "neon"}

STEP == IF SkipVariant = "swar" THEN 16 ELSE 32

\* Defect: leading_zeros for trailing_zeros, the last lane for the first.
StopsAtLast(q) ==
  IF SkipVariant = "avx2"
    THEN ByteAt(q) >= 128 /\ \A k \in q + 1 .. p + STEP - 1 : ByteAt(k) < 128
    ELSE q = p

(***************************************************************************)
(* Where skip stops in a block that is not all ASCII: the AVX2 build adds  *)
(* the number of trailing zeros of the lane mask to p, the others return   *)
(* the start of the block.                                                 *)
(***************************************************************************)
StopsAt(q) ==
  IF SkipVariant = "avx2"
    THEN ByteAt(q) >= 128 /\ \A k \in p .. q - 1 : ByteAt(k) < 128
    ELSE q = p

\* Defect: only the first half of the block is tested.
SkipAsciiHalf ==
  /\ pc = "skip"
  /\ end - p >= STEP
  /\ ~ HighBit(Lanes(p, STEP \div 2))
  /\ reads' = Lanes(p, STEP)
  /\ p' = p + STEP
  /\ UNCHANGED << call, pc >>

SkipAscii ==
  /\ pc = "skip"
  /\ end - p >= STEP
  /\ ~ HighBit(Lanes(p, STEP))
  /\ reads' = Lanes(p, STEP)
  /\ p' = p + STEP
  /\ UNCHANGED << call, pc >>

\* Defect: a loop guard that allows for half a block.
SkipStopEarly ==
  /\ pc = "skip"
  /\ end - p >= STEP \div 2
  /\ HighBit(Lanes(p, STEP))
  /\ reads' = Lanes(p, STEP)
  /\ \E q \in Lanes(p, STEP) : StopsAt(q) /\ p' = q
  /\ pc' = "skipped"
  /\ UNCHANGED call

SkipStop ==
  /\ pc = "skip"
  /\ end - p >= STEP
  /\ HighBit(Lanes(p, STEP))
  /\ reads' = Lanes(p, STEP)
  /\ \E q \in Lanes(p, STEP) : StopsAt(q) /\ p' = q
  /\ pc' = "skipped"
  /\ UNCHANGED call

SkipEnd ==
  /\ pc = "skip"
  /\ end - p < STEP
  /\ reads' = {}
  /\ pc' = "skipped"
  /\ UNCHANGED << call, p >>

Skip == SkipAscii \/ SkipStop \/ SkipEnd

(***************************************************************************)
(* The contract at the head of the file, which all three builds are        *)
(* trusted to satisfy and only one was verified for: what was skipped is   *)
(* ASCII, and skip gives up only for lack of STEP bytes or because the     *)
(* next STEP bytes are not all ASCII.                                      *)
(***************************************************************************)
SkipContract ==
  pc = "skipped" =>
    /\ p \in start .. end
    /\ all_ascii(buf, start, p)
    /\ end - p < STEP \/ ~ all_ascii(buf, p, p + STEP)
=============================================================================
