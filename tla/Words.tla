------------------------------- MODULE Words -------------------------------
(***************************************************************************)
(* The words the code loads and tests (src/src/raw.rs, and the leaf loads  *)
(* of src/src/lib.rs).  A word of n bytes is the set of its one bits, a    *)
(* subset of 0 .. 8 * n - 1; `|' is union, `&' intersection.               *)
(***************************************************************************)
EXTENDS Utf8Table

CONSTANT Endian       \* the byte order of the target

ASSUME EndianAssumption == Endian \in {"little", "big"}

Pow2 == << 1, 2, 4, 8, 16, 32, 64, 128 >>

\* The one bits of a byte.
Bits == [ b \in Byte |-> { i \in 0 .. 7 : (b \div Pow2[i + 1]) % 2 = 1 } ]

\* The byte with these one bits.
Value ==
  [ bits \in SUBSET (0 .. 7) |->
      LET Bit(i) == IF i \in bits THEN Pow2[i + 1] ELSE 0
      IN  Bit(0) + Bit(1) + Bit(2) + Bit(3) + Bit(4) + Bit(5) + Bit(6) + Bit(7) ]

(***************************************************************************)
(* The n bytes bs[0], bs[1], ... as a word in the byte order of the        *)
(* target, and the conversion from_le, which swaps the bytes of a word on  *)
(* big-endian targets.                                                     *)
(***************************************************************************)
Place(k, n) == IF Endian = "little" THEN k ELSE n - 1 - k

read_unaligned(bs, n) ==
  { i \in 0 .. 8 * n - 1 : i % 8 \in Bits[bs[Place(i \div 8, n)]] }

from_le(w, n) == { 8 * Place(i \div 8, n) + (i % 8) : i \in w }

\* Defect: the conversion left out.
load_rawNative(bs, n) == read_unaligned(bs, n)

\* load64_raw, load32_raw, load16_raw and load8_raw, by the width n.
load_raw(bs, n) == from_le(read_unaligned(bs, n), n)

(***************************************************************************)
(* What the crate specifies of the loads: byte k is shifted left by 8 * k. *)
(***************************************************************************)
pack(bs, n) ==
  UNION { { 8 * k + i : i \in Bits[bs[k]] } : k \in 0 .. n - 1 }

\* 0x80 in each of n bytes: the sign bits.
SignBits(n) == { 8 * k + 7 : k \in 0 .. n - 1 }

\* SIGN_BITS >> ((8 - n) * 8).
sign_mask(n) == { i \in 0 .. 63 : i + (8 - n) * 8 \in SignBits(8) }

\* (w >> (8 * k)) as u8.
byte64(w, k) == Value[{ i \in 0 .. 7 : i + 8 * k \in w }]

\* The least of the one bits, of a word that has one.
trailing_zeros(w) == CHOOSE i \in w : \A j \in w : i <= j
=============================================================================
