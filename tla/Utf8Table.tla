----------------------------- MODULE Utf8Table -----------------------------
(***************************************************************************)
(* Well-formed UTF-8 as the crate specifies it (src/src/spec.rs): Unicode  *)
(* section 3.9, Table 3-7, and concatenations of its rows.                 *)
(*                                                                         *)
(* A buffer is a function b \in [0 .. n-1 -> Byte], indexed from zero as a *)
(* Rust slice is; a subrange is given by its bounds k (included) and e     *)
(* (excluded), as `buf@.subrange(k, e)' is.                                *)
(***************************************************************************)
EXTENDS Integers, Sequences

Byte  == 0 .. 255
Ascii == 0 .. 127
cont  == 128 .. 191       \* continuation bytes 10xxxxxx

(***************************************************************************)
(* The nine rows of Table 3-7.  A row is the sequence of the byte ranges   *)
(* its positions admit.                                                    *)
(***************************************************************************)
Table37 ==
  { << Ascii >>,
    << 194 .. 223, cont >>,
    << {224},      160 .. 191, cont >>,
    << 225 .. 236, cont,       cont >>,
    << {237},      128 .. 159, cont >>,
    << 238 .. 239, cont,       cont >>,
    << {240},      144 .. 191, cont, cont >>,
    << 241 .. 243, cont,       cont, cont >>,
    << {244},      128 .. 143, cont, cont >> }

\* The bytes b[k], b[k+1], ... before e match the ranges of row, one by one.
MatchesAt(row, b, k, e) ==
  /\ k + Len(row) <= e
  /\ \A i \in 1 .. Len(row) : b[k + i - 1] \in row[i]

(***************************************************************************)
(* Length of the well-formed sequence at the start of b[k .. e-1], or 0 if *)
(* no row matches.  The rows' lead bytes are pairwise disjoint, so the     *)
(* matching row is unique and the order in which the source tries them is  *)
(* immaterial.                                                             *)
(***************************************************************************)
table_3_7(b, k, e) ==
  IF \E row \in Table37 : MatchesAt(row, b, k, e)
    THEN Len(CHOOSE row \in Table37 : MatchesAt(row, b, k, e))
    ELSE 0

(***************************************************************************)
(* ValidFrom(b, e)[k]: the suffix b[k .. e-1] is a concatenation of        *)
(* well-formed sequences.                                                  *)
(***************************************************************************)
ValidFrom(b, e) ==
  LET valid[k \in 0 .. e] ==
        \/ k = e
        \/ LET n == table_3_7(b, k, e)
           IN  n > 0 /\ valid[k + n]
  IN  valid

is_valid_utf8(b, s, e) == ValidFrom(b, e)[s]

\* Every byte of b[i .. j-1] is below 0x80.
all_ascii(b, i, j) == \A k \in i .. j - 1 : b[k] < 128
=============================================================================
