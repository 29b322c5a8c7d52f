----------------------------- MODULE WordProofs -----------------------------
(***************************************************************************)
(* What the code computes from words of bits is what VerifyImpl takes it   *)
(* to compute from bytes, in either byte order.  Every step of WordImpl is *)
(* then a step of VerifyImpl, and what is proved of the one holds for the  *)
(* other.                                                                  *)
(***************************************************************************)
EXTENDS WordImpl, VerifyProofs, LoadProofs

-----------------------------------------------------------------------------
(***************************************************************************)
(* Loads from the buffer of a call.                                        *)
(***************************************************************************)
LEMMA ByteAtTyped ==
  ASSUME TypeOK, NEW k \in Int
  PROVE  ByteAt(k) \in Byte
BY CallFacts DEF ByteAt, Byte

LEMMA BytesTyped ==
  ASSUME TypeOK, NEW at \in Int, NEW n \in {1, 2, 4, 8}
  PROVE  /\ Bytes(at, n) \in [0 .. n - 1 -> Byte]
         /\ \A k \in 0 .. n - 1 : Bytes(at, n)[k] = ByteAt(at + k)
BY ByteAtTyped DEF Bytes

\* Bit i of a word loaded from the buffer.
LEMMA LoadedBit ==
  ASSUME TypeOK, NEW at \in Int, NEW n \in {1, 2, 4, 8}, NEW i \in 0 .. 8 * n - 1
  PROVE  i \in load_raw(Bytes(at, n), n) <=> i % 8 \in Bits[ByteAt(at + (i \div 8))]
<1> DEFINE bs == Bytes(at, n)
<1>1. bs \in [0 .. n - 1 -> Byte] /\ \A k \in 0 .. n - 1 : bs[k] = ByteAt(at + k)
  BY BytesTyped
<1>2. i \in Int /\ i \div 8 \in 0 .. n - 1
  OBVIOUS
<1> HIDE DEF bs
<1>3. i \in load_raw(bs, n) <=> i % 8 \in Bits[bs[i \div 8]]
  BY <1>1, <1>2, LoadBits
<1>4. bs[i \div 8] = ByteAt(at + (i \div 8))
  BY <1>1, <1>2
<1> QED BY <1>3, <1>4 DEF bs

\* The sign bit of byte k of a loaded word.
LEMMA SignBitOfLoad ==
  ASSUME TypeOK, NEW at \in Int, NEW n \in {1, 2, 4, 8}, NEW k \in 0 .. n - 1
  PROVE  8 * k + 7 \in load_raw(Bytes(at, n), n) <=> ByteAt(at + k) >= 128
<1> DEFINE i == 8 * k + 7
<1>1. i \in 0 .. 8 * n - 1 /\ i \div 8 = k /\ i % 8 = 7
  OBVIOUS
<1>2. ByteAt(at + k) \in Byte
  BY ByteAtTyped
<1> HIDE DEF i
<1>3. i \in load_raw(Bytes(at, n), n) <=> 7 \in Bits[ByteAt(at + k)]
  BY <1>1, LoadedBit
<1>4. i \in load_raw(Bytes(at, n), n) <=> ByteAt(at + k) >= 128
  BY <1>2, <1>3, BitsFacts
<1> QED BY <1>4 DEF i

(***************************************************************************)
(* word & 0x80..80 # 0: one of the bytes loaded is not ASCII.              *)
(***************************************************************************)
LEMMA SignTest ==
  ASSUME TypeOK, NEW at \in Int, NEW n \in {1, 2, 4, 8}
  PROVE  load_raw(Bytes(at, n), n) \cap SignBits(n) # {} <=> HighBit(Lanes(at, n))
<1> DEFINE w == load_raw(Bytes(at, n), n)
<1>1. \A k \in 0 .. n - 1 : 8 * k + 7 \in w <=> ByteAt(at + k) >= 128
  BY SignBitOfLoad
<1> HIDE DEF w
<1>2. ASSUME w \cap SignBits(n) # {}
      PROVE  HighBit(Lanes(at, n))
  <2>1. PICK k \in 0 .. n - 1 : 8 * k + 7 \in w
    BY <1>2 DEF SignBits
  <2>2. at + k \in Lanes(at, n)
    BY DEF Lanes
  <2> QED BY <1>1, <2>1, <2>2 DEF HighBit
<1>3. ASSUME HighBit(Lanes(at, n))
      PROVE  w \cap SignBits(n) # {}
  <2>1. PICK j \in Lanes(at, n) : ByteAt(j) >= 128
    BY <1>3 DEF HighBit
  <2>2. j - at \in 0 .. n - 1 /\ at + (j - at) = j
    BY <2>1 DEF Lanes
  <2>3. 8 * (j - at) + 7 \in w
    BY <1>1, <2>1, <2>2
  <2>4. 8 * (j - at) + 7 \in SignBits(n)
    BY <2>2 DEF SignBits
  <2> QED BY <2>3, <2>4
<1> QED BY <1>2, <1>3 DEF w

\* The test on two words ORed.
LEMMA PairTest ==
  ASSUME TypeOK, NEW at1 \in Int, NEW at2 \in Int, NEW n \in {2, 4, 8}
  PROVE  (load_raw(Bytes(at1, n), n) \cup load_raw(Bytes(at2, n), n)) \cap SignBits(n) # {}
           <=> HighBit(Lanes(at1, n) \cup Lanes(at2, n))
<1>1. n \in {1, 2, 4, 8}
  OBVIOUS
<1>2. load_raw(Bytes(at1, n), n) \cap SignBits(n) # {} <=> HighBit(Lanes(at1, n))
  BY <1>1, SignTest
<1>3. load_raw(Bytes(at2, n), n) \cap SignBits(n) # {} <=> HighBit(Lanes(at2, n))
  BY <1>1, SignTest
<1>4. HighBit(Lanes(at1, n) \cup Lanes(at2, n))
        <=> HighBit(Lanes(at1, n)) \/ HighBit(Lanes(at2, n))
  BY DEF HighBit
<1> QED BY <1>2, <1>3, <1>4

(***************************************************************************)
(* word & (SIGN_BITS >> ((8 - left) * 8)) # 0: one of the first `left'     *)
(* bytes loaded is not ASCII.                                              *)
(***************************************************************************)
LEMMA MaskTest ==
  ASSUME TypeOK, NEW at \in Int, NEW left \in 1 .. 7
  PROVE  load64(at) \cap ShortMask(left) # {}
           <=> HighBit({ at + k : k \in MaskedLanes(left) })
<1> DEFINE w == load_raw(Bytes(at, 8), 8)
           T == { at + k : k \in MaskedLanes(left) }
<1>1. \A k \in 0 .. 7 : 8 * k + 7 \in w <=> ByteAt(at + k) >= 128
  BY SignBitOfLoad
<1>2. \A i : i \in ShortMask(left) <=> \E k \in MaskedLanes(left) : i = 8 * k + 7
  <2>1. ASSUME NEW i \in ShortMask(left)
        PROVE  \E k \in MaskedLanes(left) : i = 8 * k + 7
    <3>1. i \in 0 .. 63 /\ i + (8 - left) * 8 \in SignBits(8)
      BY DEF ShortMask, sign_mask
    <3>2. PICK m \in 0 .. 7 : i + (8 - left) * 8 = 8 * m + 7
      BY <3>1 DEF SignBits
    <3>3. m - (8 - left) \in MaskedLanes(left) /\ i = 8 * (m - (8 - left)) + 7
      BY <3>1, <3>2 DEF MaskedLanes
    <3> QED BY <3>3
  <2>2. ASSUME NEW k \in MaskedLanes(left)
        PROVE  8 * k + 7 \in ShortMask(left)
    <3>1. k \in 0 .. 7 /\ k + (8 - left) \in 0 .. 7
      BY DEF MaskedLanes
    <3>2. 8 * k + 7 \in 0 .. 63
            /\ 8 * k + 7 + (8 - left) * 8 = 8 * (k + (8 - left)) + 7
      BY <3>1
    <3> QED BY <3>1, <3>2 DEF ShortMask, sign_mask, SignBits
  <2> QED BY <2>1, <2>2
<1>3. \A k \in MaskedLanes(left) : k \in 0 .. 7
  BY DEF MaskedLanes
<1> HIDE DEF w
<1>4. w \cap ShortMask(left) # {} <=> \E k \in MaskedLanes(left) : 8 * k + 7 \in w
  BY <1>2
<1>5. HighBit(T) <=> \E k \in MaskedLanes(left) : ByteAt(at + k) >= 128
  BY DEF HighBit
<1>6. w \cap ShortMask(left) # {} <=> HighBit(T)
  BY <1>1, <1>3, <1>4, <1>5
<1> QED BY <1>6 DEF w, load64

(***************************************************************************)
(* (word >> 8k) as u8 is byte k of the load.                               *)
(***************************************************************************)
LEMMA ByteOfLoad ==
  ASSUME TypeOK, NEW at \in Int, NEW k \in 0 .. 7
  PROVE  byte64(load64(at), k) = ByteAt(at + k)
<1> DEFINE w == load_raw(Bytes(at, 8), 8)
<1>1. ByteAt(at + k) \in Byte
  BY ByteAtTyped
<1>2. 8 \in {1, 2, 4, 8}
  OBVIOUS
<1>3. \A i \in 0 .. 7 : i + 8 * k \in w <=> i \in Bits[ByteAt(at + k)]
  <2> TAKE i \in 0 .. 7
  <2> DEFINE m == i + 8 * k
  <2>1. m \in 0 .. 8 * 8 - 1 /\ m \div 8 = k /\ m % 8 = i
    OBVIOUS
  <2> HIDE DEF m
  <2>2. m \in w <=> i \in Bits[ByteAt(at + k)]
    BY <1>2, <2>1, LoadedBit
  <2> QED BY <2>2 DEF m
<1>4. Bits[ByteAt(at + k)] \in SUBSET (0 .. 7)
  BY <1>1, BitsFacts
<1> HIDE DEF w
<1>5. { i \in 0 .. 7 : i + 8 * k \in w } = Bits[ByteAt(at + k)]
  BY <1>3, <1>4
<1>6. byte64(w, k) = ByteAt(at + k)
  BY <1>1, <1>5, ValueOfBits DEF byte64
<1> QED BY <1>6 DEF w, load64

\* A load of one byte.
LEMMA Load8 ==
  ASSUME TypeOK, NEW at \in Int
  PROVE  load8(at) = ByteAt(at)
<1> DEFINE w == load_raw(Bytes(at, 1), 1)
<1>1. ByteAt(at) \in Byte
  BY ByteAtTyped
<1>2. Bits[ByteAt(at)] \in SUBSET (0 .. 7)
  BY <1>1, BitsFacts
<1>3. 1 \in {1, 2, 4, 8}
  OBVIOUS
<1>4. w \subseteq 0 .. 7
  BY <1>3, LoadIsWord
<1>5. \A i \in 0 .. 7 : i \in w <=> i \in Bits[ByteAt(at)]
  <2> TAKE i \in 0 .. 7
  <2>1. i \in 0 .. 8 * 1 - 1 /\ i \div 8 = 0 /\ i % 8 = i /\ at + 0 = at
    OBVIOUS
  <2> QED BY <1>3, <2>1, LoadedBit
<1> HIDE DEF w
<1>6. w = Bits[ByteAt(at)]
  BY <1>2, <1>4, <1>5
<1> QED BY <1>1, <1>6, ValueOfBits DEF w, load8

-----------------------------------------------------------------------------
(***************************************************************************)
(* The three block tests of skip, and the position it stops at.            *)
(***************************************************************************)
LEMMA LeastBit ==
  ASSUME NEW w \in SUBSET Nat, w # {}
  PROVE  trailing_zeros(w) \in w /\ \A j \in w : trailing_zeros(w) <= j
BY LeastOf DEF trailing_zeros

LEMMA MoveMask ==
  ASSUME TypeOK, p \in Int
  PROVE  /\ movemask \in SUBSET Nat
         /\ \A k \in Int : k \in movemask <=> k \in 0 .. 31 /\ ByteAt(p + k) >= 128
<1>1. \A k \in 0 .. 31 : ByteAt(p + k) \in Byte
  BY ByteAtTyped
<1>2. \A k \in 0 .. 31 : 7 \in Bits[ByteAt(p + k)] <=> ByteAt(p + k) >= 128
  BY <1>1, BitsFacts
<1> QED BY <1>2 DEF movemask

LEMMA LaneTest ==
  ASSUME TypeOK, p \in Int, NEW k \in 0 .. 15
  PROVE  Lane(k) >= 128 <=> ByteAt(p + k) >= 128 \/ ByteAt(p + 16 + k) >= 128
<1>1. ByteAt(p + k) \in Byte /\ ByteAt(p + 16 + k) \in Byte
  BY ByteAtTyped
<1>2. /\ Bits[ByteAt(p + k)] \in SUBSET (0 .. 7)
      /\ Bits[ByteAt(p + 16 + k)] \in SUBSET (0 .. 7)
      /\ 7 \in Bits[ByteAt(p + k)] <=> ByteAt(p + k) >= 128
      /\ 7 \in Bits[ByteAt(p + 16 + k)] <=> ByteAt(p + 16 + k) >= 128
  BY <1>1, BitsFacts
<1> DEFINE both == Bits[ByteAt(p + k)] \cup Bits[ByteAt(p + 16 + k)]
<1>3. both \in SUBSET (0 .. 7)
  BY <1>2
<1>4. 7 \in both <=> ByteAt(p + k) >= 128 \/ ByteAt(p + 16 + k) >= 128
  BY <1>2
<1> HIDE DEF both
<1>5. Value[both] >= 128 <=> 7 \in both
  BY <1>3, ValueSign
<1> QED BY <1>4, <1>5 DEF both, Lane

\* Each build finds out whether the block at p is all ASCII.
LEMMA BlockTest ==
  ASSUME TypeOK, p \in Int
  PROVE  BlockNonAscii <=> HighBit(Lanes(p, STEP))
<1>1. CASE SkipVariant = "swar"
  <2>1. swar_word # {} <=> HighBit(Lanes(p, 8) \cup Lanes(p + 8, 8))
    <3>1. p + 8 \in Int /\ 8 \in {2, 4, 8}
      OBVIOUS
    <3> QED BY <3>1, PairTest DEF swar_word, load64, SIGN_BITS
  <2>2. Lanes(p, 8) \cup Lanes(p + 8, 8) = Lanes(p, 16)
    BY DEF Lanes
  <2> QED BY <1>1, <2>1, <2>2 DEF BlockNonAscii, STEP
<1>2. CASE SkipVariant = "avx2"
  <2>1. ASSUME movemask # {}
        PROVE  HighBit(Lanes(p, 32))
    <3>1. PICK k \in 0 .. 31 : ByteAt(p + k) >= 128
      BY <2>1, MoveMask
    <3>2. p + k \in Lanes(p, 32)
      BY DEF Lanes
    <3> QED BY <3>1, <3>2 DEF HighBit
  <2>2. ASSUME HighBit(Lanes(p, 32))
        PROVE  movemask # {}
    <3>1. PICK j \in Lanes(p, 32) : ByteAt(j) >= 128
      BY <2>2 DEF HighBit
    <3>2. j - p \in 0 .. 31 /\ p + (j - p) = j
      BY DEF Lanes
    <3>3. j - p \in movemask
      BY <3>1, <3>2, MoveMask
    <3> QED BY <3>3
  <2> QED BY <1>2, <2>1, <2>2 DEF BlockNonAscii, STEP
<1>3. CASE SkipVariant = "neon"
  <2>1. ASSUME umaxv_reaches(128)
        PROVE  HighBit(Lanes(p, 32))
    <3>1. PICK k \in 0 .. 15 : Lane(k) >= 128
      BY <2>1 DEF umaxv_reaches
    <3>2. ByteAt(p + k) >= 128 \/ ByteAt(p + 16 + k) >= 128
      BY <3>1, LaneTest
    <3>3. p + k \in Lanes(p, 32) /\ p + 16 + k \in Lanes(p, 32)
      BY DEF Lanes
    <3> QED BY <3>2, <3>3 DEF HighBit
  <2>2. ASSUME HighBit(Lanes(p, 32))
        PROVE  umaxv_reaches(128)
    <3>1. PICK j \in Lanes(p, 32) : ByteAt(j) >= 128
      BY <2>2 DEF HighBit
    <3>2. CASE j < p + 16
      <4>1. j - p \in 0 .. 15 /\ p + (j - p) = j
        BY <3>2 DEF Lanes
      <4>2. Lane(j - p) >= 128
        BY <3>1, <4>1, LaneTest
      <4> QED BY <4>1, <4>2 DEF umaxv_reaches
    <3>3. CASE j >= p + 16
      <4>1. j - p - 16 \in 0 .. 15 /\ p + 16 + (j - p - 16) = j
        BY <3>3 DEF Lanes
      <4>2. Lane(j - p - 16) >= 128
        BY <3>1, <4>1, LaneTest
      <4> QED BY <4>1, <4>2 DEF umaxv_reaches
    <3>4. j \in Int
      BY DEF Lanes
    <3> QED BY <3>2, <3>3, <3>4
  <2> QED BY <1>3, <2>1, <2>2 DEF BlockNonAscii, STEP
<1> QED BY <1>1, <1>2, <1>3, SkipVariantAssumption DEF SkipVariantAssumption

\* The position skip stops at is one at which it may stop.
LEMMA StopTest ==
  ASSUME TypeOK, p \in Int, BlockNonAscii
  PROVE  StopPosition \in Lanes(p, STEP) /\ StopsAt(StopPosition)
<1>1. CASE SkipVariant # "avx2"
  <2>1. p \in Lanes(p, STEP)
    BY StepFacts DEF Lanes
  <2> QED BY <1>1, <2>1 DEF StopPosition, StopsAt
<1>2. CASE SkipVariant = "avx2"
  <2> DEFINE t == trailing_zeros(movemask)
  <2>1. movemask # {}
    BY <1>2 DEF BlockNonAscii
  <2>2. t \in movemask /\ \A j \in movemask : t <= j
    BY <2>1, MoveMask, LeastBit
  <2> HIDE DEF t
  <2>3. t \in 0 .. 31 /\ ByteAt(p + t) >= 128
    BY <2>2, MoveMask
  <2>4. \A k \in p .. p + t - 1 : ByteAt(k) < 128
    <3> SUFFICES ASSUME NEW k \in p .. p + t - 1, ~ (ByteAt(k) < 128)
                 PROVE  FALSE
      OBVIOUS
    <3>1. k - p \in 0 .. 31 /\ p + (k - p) = k /\ k - p < t /\ k - p \in Int /\ k \in Int
      BY <2>3
    <3>2. ByteAt(k) \in Byte
      BY <3>1, ByteAtTyped
    <3>3. ByteAt(k) >= 128
      BY <3>2 DEF Byte
    <3>4. k - p \in movemask
      BY <3>1, <3>3, MoveMask
    <3> QED BY <2>2, <2>3, <3>1, <3>4
  <2>5. p + t \in Lanes(p, STEP)
    BY <1>2, <2>3 DEF STEP, Lanes
  <2> QED BY <1>2, <2>3, <2>4, <2>5 DEF StopPosition, StopsAt, t
<1> QED BY <1>1, <1>2

\* It is the only one.
LEMMA StopIsOne ==
  ASSUME TypeOK, p \in Int, BlockNonAscii,
         NEW q \in Lanes(p, STEP), StopsAt(q)
  PROVE  q = StopPosition
<1>1. CASE SkipVariant # "avx2"
  BY <1>1 DEF StopPosition, StopsAt
<1>2. CASE SkipVariant = "avx2"
  <2> DEFINE r == StopPosition
  <2>1. r \in Lanes(p, STEP) /\ StopsAt(r)
    BY StopTest
  <2> HIDE DEF r
  <2>2. q \in Int /\ r \in Int /\ q >= p /\ r >= p /\ STEP = 32
    BY <1>2, <2>1 DEF Lanes, STEP
  <2>3. /\ ByteAt(q) >= 128 /\ \A k \in p .. q - 1 : ByteAt(k) < 128
        /\ ByteAt(r) >= 128 /\ \A k \in p .. r - 1 : ByteAt(k) < 128
    BY <1>2, <2>1 DEF StopsAt
  <2>4. ByteAt(q) \in Byte /\ ByteAt(r) \in Byte
    BY <2>2, ByteAtTyped
  <2>5. ~ (q < r) /\ ~ (r < q)
    BY <2>2, <2>3, <2>4 DEF Byte
  <2>6. q = r
    BY <2>2, <2>5
  <2> QED BY <2>6 DEF r
<1> QED BY <1>1, <1>2

-----------------------------------------------------------------------------
(***************************************************************************)
(* Each action on words is the action on lanes of the same name.           *)
(***************************************************************************)
LEMMA ShortWordSteps ==
  ASSUME Inv
  PROVE  VerifyShortWord <=> VerifyShort
<1>1. TypeOK /\ start \in Int /\ end \in Int /\ (pc = "short" => end - start < 8)
  BY CallFacts DEF Inv, Positions
<1>2. ShortSlackWord <=> ShortSlack
  <2>1. ASSUME pc = "short", start < end
        PROVE  load64(start) \cap ShortMask(end - start) # {}
                 <=> HighBit({ start + k : k \in MaskedLanes(end - start) })
    <3>1. end - start \in 1 .. 7
      BY <1>1, <2>1
    <3> QED BY <1>1, <3>1, MaskTest
  <2> QED BY <2>1 DEF ShortSlackWord, ShortSlack, Branch, AsciiOr
<1>3. ASSUME NEW n \in {2, 4}
      PROVE  (load_raw(Bytes(start, n), n) \cup load_raw(Bytes(end - n, n), n)) \cap SignBits(n) # {}
               <=> HighBit(PairLanes(n))
  <2>1. n \in {2, 4, 8} /\ end - n \in Int
    BY <1>1
  <2> QED BY <1>1, <2>1, PairTest DEF PairLanes
<1>4. ShortPair4Word <=> ShortPair4
  <2>1. (load32(start) \cup load32(end - 4)) \cap SignBits(4) # {} <=> HighBit(PairLanes(4))
    BY <1>3 DEF load32
  <2> QED BY <2>1 DEF ShortPair4Word, ShortPair4, ShortPair, Branch, AsciiOr
<1>5. ShortPair2Word <=> ShortPair2
  <2>1. (load16(start) \cup load16(end - 2)) \cap SignBits(2) # {} <=> HighBit(PairLanes(2))
    BY <1>3 DEF load16
  <2> QED BY <2>1 DEF ShortPair2Word, ShortPair2, ShortPair, Branch, AsciiOr
<1>6. ShortByteWord <=> ShortByte
  <2>1. load8(start) >= 128 <=> HighBit({start})
    BY <1>1, Load8 DEF HighBit
  <2> QED BY <2>1 DEF ShortByteWord, ShortByte, Branch, AsciiOr
<1> QED BY <1>2, <1>4, <1>5, <1>6 DEF VerifyShortWord, VerifyShort

LEMMA SkipWordSteps ==
  ASSUME TypeOK
  PROVE  SkipWord <=> SkipPrefix
<1>1. BlockNonAscii <=> HighBit(Lanes(p, STEP))
  BY CallFacts, BlockTest
<1>2. SkipAsciiWord <=> SkipAscii /\ UNCHANGED << state, result >>
  BY <1>1 DEF SkipAsciiWord, SkipAscii
<1>3. ASSUME BlockNonAscii
      PROVE  p' = StopPosition <=> \E q \in Lanes(p, STEP) : StopsAt(q) /\ p' = q
  BY <1>3, CallFacts, StopTest, StopIsOne
<1>4. SkipStopWord <=> SkipStop /\ UNCHANGED << state, result >>
  BY <1>1, <1>3 DEF SkipStopWord, SkipStop
<1> QED BY <1>2, <1>4 DEF SkipWord, Skip, SkipPrefix

\* The sign-bit test on the eight bytes at a position.
LEMMA WordTest ==
  ASSUME TypeOK, NEW at \in Int
  PROVE  load64(at) \cap SIGN_BITS # {} <=> HighBit(Lanes(at, 8))
<1>1. 8 \in {1, 2, 4, 8}
  OBVIOUS
<1> QED BY <1>1, SignTest DEF load64, SIGN_BITS

LEMMA WordLoopSteps ==
  ASSUME TypeOK
  PROVE  (WordLoopWord <=> WordLoop) /\ (TailLoadWord <=> TailLoad)
<1>1. p \in Int /\ end - 8 \in Int
  BY CallFacts
<1>2. load64(p) \cap SIGN_BITS # {} <=> HighBit(Lanes(p, 8))
  BY <1>1, WordTest
<1>3. load64(end - 8) \cap SIGN_BITS # {} <=> HighBit(TailWindow)
  BY <1>1, WordTest DEF TailWindow
<1> QED BY <1>2, <1>3 DEF WordLoopWord, WordLoop, TailLoadWord, TailLoad, Branch, AsciiOr

LEMMA MultibyteWordSteps ==
  ASSUME TypeOK
  PROVE  VerifyMultibyteWord <=> VerifyMultibyte
<1>1. p \in Int
  BY CallFacts
<1>2. ReskipsWord <=> Reskips
  BY <1>1, WordTest DEF ReskipsWord, Reskips
<1>3. AfterLoaded(state, load64(p)) = AfterWord(state, p)
  <2>1. /\ byte64(load64(p), 0) = ByteAt(p)     /\ byte64(load64(p), 1) = ByteAt(p + 1)
        /\ byte64(load64(p), 2) = ByteAt(p + 2) /\ byte64(load64(p), 3) = ByteAt(p + 3)
        /\ byte64(load64(p), 4) = ByteAt(p + 4) /\ byte64(load64(p), 5) = ByteAt(p + 5)
        /\ byte64(load64(p), 6) = ByteAt(p + 6) /\ byte64(load64(p), 7) = ByteAt(p + 7)
    <3>1. byte64(load64(p), 0) = ByteAt(p + 0) /\ p + 0 = p
      BY <1>1, ByteOfLoad
    <3> QED BY <1>1, <3>1, ByteOfLoad
  <2> QED BY <2>1 DEF AfterLoaded, AfterWord
<1>4. load8(p) = ByteAt(p)
  BY <1>1, Load8
<1>5. MultiSkipWord <=> MultiSkip
  BY <1>2 DEF MultiSkipWord, MultiSkip
<1>6. MultiWordWord <=> MultiWord
  <2>1. (\E w \in {load64(p)} : state' = AfterLoaded(state, w)) <=> state' = AfterWord(state, p)
    BY <1>3
  <2> QED BY <1>2, <2>1 DEF MultiWordWord, MultiWord
<1>7. MultiByteWord <=> MultiByte
  BY <1>4 DEF MultiByteWord, MultiByte
<1> QED BY <1>5, <1>6, <1>7 DEF VerifyMultibyteWord, VerifyMultibyte

(***************************************************************************)
(* The steps on words are the steps on lanes.                              *)
(***************************************************************************)
LEMMA WordStep ==
  ASSUME Inv
  PROVE  WordNext <=> Next
<1>1. TypeOK
  BY DEF Inv
<1> QED BY <1>1, ShortWordSteps, SkipWordSteps, WordLoopSteps, MultibyteWordSteps
        DEF WordNext, Next, VerifyWords

LEMMA WordInvariance == WordSpec => []Inv
<1>1. Inv /\ [WordNext]_vars => Inv'
  BY WordStep, NextInv
<1> QED BY <1>1, InitInv, PTL DEF WordSpec

(***************************************************************************)
(* The program on words, on targets of either byte order, implements the   *)
(* program on lanes: the part of ImplementsLanes without fairness.         *)
(***************************************************************************)
THEOREM WordsImplementLanes == WordSpec => Init /\ [][Next]_vars
<1>1. Inv /\ [WordNext]_vars => [Next]_vars
  BY WordStep
<1> QED BY <1>1, WordInvariance, PTL DEF WordSpec

(***************************************************************************)
(* And the program on lanes takes no step that no words give rise to: the  *)
(* abstraction adds nothing, so a behaviour TLC finds on lanes is one of   *)
(* the code in either byte order.                                          *)
(***************************************************************************)
THEOREM LanesImplementWords == Spec => Init /\ [][WordNext]_vars
<1>1. Inv /\ [Next]_vars => [WordNext]_vars
  BY WordStep
<1> QED BY <1>1, Invariance, PTL DEF Spec

-----------------------------------------------------------------------------
(***************************************************************************)
(* The answer of a call computed from words is whether its range is        *)
(* well-formed, for every slice, range, build, threshold and byte order.   *)
(***************************************************************************)
THEOREM WordCorrectness == WordSpec => []Correct
<1>1. Inv => Correct
  BY DEF Inv
<1> QED BY <1>1, WordInvariance, PTL

(***************************************************************************)
(* The slow path is taken for a byte of the rest that is not ASCII, also   *)
(* when the words are tested as a whole: the mask of verify_short, placed  *)
(* in the byte order of the target, keeps no slack byte.                   *)
(***************************************************************************)
THEOREM WordSlowPath == WordSpec => SlowPathJustified
BY WordInvariance, WordsImplementLanes, SlowPathSquare, PTL DEF SlowPathJustified

(***************************************************************************)
(* Every step on words brings the call nearer to its return.               *)
(***************************************************************************)
THEOREM WordsAdvance == WordSpec => EachStepAdvances
BY WordInvariance, WordsImplementLanes, AdvanceSquare, PTL DEF EachStepAdvances
=============================================================================
