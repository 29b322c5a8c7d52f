----------------------------- MODULE LoadProofs -----------------------------
(***************************************************************************)
(* Facts about words as sets of bits, in either byte order: what a load    *)
(* returns, bit by bit, and that it is what the crate specifies.           *)
(***************************************************************************)
EXTENDS Words, TLAPS

-----------------------------------------------------------------------------
(***************************************************************************)
(* The bits of a byte.                                                     *)
(***************************************************************************)
LEMMA BitsFacts ==
  ASSUME NEW b \in Byte
  PROVE  /\ Bits[b] \in SUBSET (0 .. 7)
         /\ 7 \in Bits[b] <=> b >= 128
<1>1. Bits[b] = { i \in 0 .. 7 : (b \div Pow2[i + 1]) % 2 = 1 }
  BY DEF Bits
<1>2. 7 \in Bits[b] <=> (b \div 128) % 2 = 1
  BY <1>1 DEF Pow2
<1>3. (b \div 128) % 2 = 1 <=> b >= 128
  BY DEF Byte
<1> QED BY <1>1, <1>2, <1>3

\* The value of a set of bits, written out.
LEMMA ValueIs ==
  ASSUME NEW bits \in SUBSET (0 .. 7)
  PROVE  Value[bits] =
           (IF 0 \in bits THEN 1 ELSE 0) + (IF 1 \in bits THEN 2 ELSE 0)
             + (IF 2 \in bits THEN 4 ELSE 0) + (IF 3 \in bits THEN 8 ELSE 0)
             + (IF 4 \in bits THEN 16 ELSE 0) + (IF 5 \in bits THEN 32 ELSE 0)
             + (IF 6 \in bits THEN 64 ELSE 0) + (IF 7 \in bits THEN 128 ELSE 0)
BY DEF Value, Pow2

\* A byte is its bits put together again.
LEMMA ValueOfBits ==
  ASSUME NEW b \in Byte
  PROVE  Value[Bits[b]] = b
<1>1. Bits[b] = { i \in 0 .. 7 : (b \div Pow2[i + 1]) % 2 = 1 }
  BY DEF Bits
<1>2. /\ 0 \in Bits[b] <=> (b \div 1) % 2 = 1
      /\ 1 \in Bits[b] <=> (b \div 2) % 2 = 1
      /\ 2 \in Bits[b] <=> (b \div 4) % 2 = 1
      /\ 3 \in Bits[b] <=> (b \div 8) % 2 = 1
      /\ 4 \in Bits[b] <=> (b \div 16) % 2 = 1
      /\ 5 \in Bits[b] <=> (b \div 32) % 2 = 1
      /\ 6 \in Bits[b] <=> (b \div 64) % 2 = 1
      /\ 7 \in Bits[b] <=> (b \div 128) % 2 = 1
  BY <1>1 DEF Pow2
<1>3. b = (IF (b \div 1) % 2 = 1 THEN 1 ELSE 0) + (IF (b \div 2) % 2 = 1 THEN 2 ELSE 0)
        + (IF (b \div 4) % 2 = 1 THEN 4 ELSE 0) + (IF (b \div 8) % 2 = 1 THEN 8 ELSE 0)
        + (IF (b \div 16) % 2 = 1 THEN 16 ELSE 0) + (IF (b \div 32) % 2 = 1 THEN 32 ELSE 0)
        + (IF (b \div 64) % 2 = 1 THEN 64 ELSE 0) + (IF (b \div 128) % 2 = 1 THEN 128 ELSE 0)
  BY DEF Byte
<1>4. Bits[b] \in SUBSET (0 .. 7)
  BY BitsFacts
<1>5. Value[Bits[b]] =
        (IF 0 \in Bits[b] THEN 1 ELSE 0) + (IF 1 \in Bits[b] THEN 2 ELSE 0)
          + (IF 2 \in Bits[b] THEN 4 ELSE 0) + (IF 3 \in Bits[b] THEN 8 ELSE 0)
          + (IF 4 \in Bits[b] THEN 16 ELSE 0) + (IF 5 \in Bits[b] THEN 32 ELSE 0)
          + (IF 6 \in Bits[b] THEN 64 ELSE 0) + (IF 7 \in Bits[b] THEN 128 ELSE 0)
  BY <1>4, ValueIs
<1> QED BY <1>2, <1>3, <1>5

\* A byte with these bits is not ASCII if and only if bit 7 is among them.
LEMMA ValueSign ==
  ASSUME NEW bits \in SUBSET (0 .. 7)
  PROVE  Value[bits] >= 128 <=> 7 \in bits
BY ValueIs

-----------------------------------------------------------------------------
(***************************************************************************)
(* A load: bit i of the word is bit i % 8 of byte i \div 8, whatever the   *)
(* byte order of the target.                                               *)
(***************************************************************************)
LEMMA LoadBits ==
  ASSUME NEW n \in {1, 2, 4, 8}, NEW bs \in [0 .. n - 1 -> Byte], NEW i \in Int
  PROVE  i \in load_raw(bs, n) <=>
           i \in 0 .. 8 * n - 1 /\ i % 8 \in Bits[bs[i \div 8]]
<1> DEFINE raw == read_unaligned(bs, n)
           Swapped(j) == 8 * Place(j \div 8, n) + (j % 8)
<1>1. \A j \in 0 .. 8 * n - 1 :
        /\ Swapped(j) \in 0 .. 8 * n - 1
        /\ Swapped(j) \div 8 = Place(j \div 8, n)
        /\ Swapped(j) % 8 = j % 8
        /\ Place(Place(j \div 8, n), n) = j \div 8
        /\ Swapped(Swapped(j)) = j
  BY DEF Place
<1>2. \A j \in Int :
        j \in raw <=> j \in 0 .. 8 * n - 1 /\ j % 8 \in Bits[bs[Place(j \div 8, n)]]
  BY DEF read_unaligned
<1>3. load_raw(bs, n) = { Swapped(j) : j \in raw }
  BY DEF load_raw, from_le
<1>4. raw \subseteq 0 .. 8 * n - 1
  BY DEF read_unaligned
<1> HIDE DEF raw, Swapped
<1>5. ASSUME i \in load_raw(bs, n)
      PROVE  i \in 0 .. 8 * n - 1 /\ i % 8 \in Bits[bs[i \div 8]]
  <2>1. PICK j \in raw : i = Swapped(j)
    BY <1>3, <1>5
  <2>2. j \in 0 .. 8 * n - 1 /\ j \in Int
    BY <1>4
  <2> QED BY <1>1, <1>2, <2>1, <2>2
<1>6. ASSUME i \in 0 .. 8 * n - 1, i % 8 \in Bits[bs[i \div 8]]
      PROVE  i \in load_raw(bs, n)
  <2>1. /\ Swapped(i) \in 0 .. 8 * n - 1 /\ Swapped(i) \in Int
        /\ Swapped(i) % 8 = i % 8
        /\ Place(Swapped(i) \div 8, n) = i \div 8
        /\ Swapped(Swapped(i)) = i
    BY <1>1, <1>6
  <2>2. Swapped(i) \in raw
    BY <1>2, <1>6, <2>1
  <2> QED BY <1>3, <2>1, <2>2
<1> QED BY <1>5, <1>6

\* A load of n bytes has no bit above bit 8 * n - 1.
LEMMA LoadIsWord ==
  ASSUME NEW n \in {1, 2, 4, 8}, NEW bs
  PROVE  load_raw(bs, n) \subseteq 0 .. 8 * n - 1 /\ load_raw(bs, n) \subseteq Int
<1>1. \A j \in read_unaligned(bs, n) : j \in 0 .. 8 * n - 1
  BY DEF read_unaligned
<1>2. \A j \in 0 .. 8 * n - 1 : 8 * Place(j \div 8, n) + (j % 8) \in 0 .. 8 * n - 1
  BY DEF Place
<1> QED BY <1>1, <1>2 DEF load_raw, from_le

(***************************************************************************)
(* A load returns what the crate specifies of it (pack64, pack32, pack16): *)
(* the bytes in little-endian order, on either kind of target.             *)
(***************************************************************************)
THEOREM LoadIsPack ==
  ASSUME NEW n \in {1, 2, 4, 8}, NEW bs \in [0 .. n - 1 -> Byte]
  PROVE  load_raw(bs, n) = pack(bs, n)
<1>1. \A k \in 0 .. n - 1 : bs[k] \in Byte /\ Bits[bs[k]] \in SUBSET (0 .. 7)
  BY BitsFacts
<1>2. load_raw(bs, n) \subseteq Int
  BY LoadIsWord
<1>3. ASSUME NEW i \in load_raw(bs, n)
      PROVE  i \in pack(bs, n)
  <2>1. i \in Int /\ i \in 0 .. 8 * n - 1 /\ i % 8 \in Bits[bs[i \div 8]]
    BY <1>2, <1>3, LoadBits
  <2>2. i \div 8 \in 0 .. n - 1 /\ i = 8 * (i \div 8) + (i % 8)
    BY <2>1
  <2> DEFINE k == i \div 8
  <2>3. i \in { 8 * k + j : j \in Bits[bs[k]] }
    BY <2>1, <2>2
  <2>4. k \in 0 .. n - 1
    BY <2>2
  <2> HIDE DEF k
  <2> QED BY <2>3, <2>4 DEF pack
<1>4. ASSUME NEW i \in pack(bs, n)
      PROVE  i \in load_raw(bs, n)
  <2>1. PICK k \in 0 .. n - 1 : \E b \in Bits[bs[k]] : i = 8 * k + b
    BY <1>4 DEF pack
  <2>2. PICK b \in Bits[bs[k]] : i = 8 * k + b
    BY <2>1
  <2>3. b \in 0 .. 7
    BY <1>1, <2>2
  <2>4. i \in Int /\ i \in 0 .. 8 * n - 1 /\ i \div 8 = k /\ i % 8 = b
    BY <2>2, <2>3
  <2> QED BY <2>2, <2>4, LoadBits
<1> QED BY <1>3, <1>4
=============================================================================
