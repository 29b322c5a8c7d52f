------------------------------ MODULE MCVerify ------------------------------
(***************************************************************************)
(* VerifyImpl for TLC: longer ranges, ASCII but for the sequences planted  *)
(* in them at every position.                                              *)
(***************************************************************************)
EXTENDS MCCalls

CONSTANTS
  Lengths,          \* of the ranges with one sequence planted in them
  Longest,          \* the greatest of them
  DoubleLength      \* of the ranges with two

(***************************************************************************)
(* Byte sequences to plant in an otherwise ASCII range: the first and the  *)
(* last sequences of the rows of Table 3-7, then sequences that are wrong  *)
(* by one byte (overlong, surrogate, out of range, stray, interrupted) or  *)
(* by a word of ASCII in their midst.  The empty one leaves the range all  *)
(* ASCII.                                                                  *)
(***************************************************************************)
Good ==
  { << >>, << 194, 128 >>, << 223, 191 >>, << 224, 160, 128 >>, << 228, 184, 150 >>,
    << 237, 159, 191 >>, << 239, 191, 191 >>, << 240, 144, 128, 128 >>,
    << 243, 191, 191, 191 >>, << 244, 143, 191, 191 >> }

Bad ==
  { << 128 >>, << 193, 191 >>, << 255 >>, << 195, 97 >>, << 195, 195, 169 >>,
    << 224, 159, 128 >>, << 226, 130, 97 >>, << 237, 160, 128 >>,
    << 240, 143, 191, 191 >>, << 240, 159, 140, 97 >>, << 244, 144, 128, 128 >>,
    << 195, 169, 128 >>, << 195, 97, 97, 97, 97, 97, 97, 97, 97, 169 >> }

\* n bytes, the sequence w planted at position i; cut off where the range ends.
Planted(n, i, w) ==
  [ k \in 0 .. n - 1 |-> IF k - i + 1 \in DOMAIN w THEN w[k - i + 1] ELSE 97 ]

\* The same with a two-byte sequence before it.
PlantedTwice(n, i, j, w) ==
  [ Planted(n, j, w) EXCEPT ![i] = 195, ![i + 1] = 169 ]

\* Ranges with one sequence planted.
Singles ==
  LET Spots == { t \in Lengths \X (0 .. Longest) \X (Good \cup Bad) :
                   t[2] < t[1] \/ t[2] = 0 }
  IN  { Plain(Planted(t[1], t[2], t[3]), t[1]) : t \in Spots }
        \cup { Slacked(Planted(t[1], t[2], t[3]), t[1]) : t \in Spots }

\* Ranges with two, and room for an ASCII word between them.
Doubles ==
  LET Spots == { t \in (0 .. DoubleLength - 10) \X (8 .. DoubleLength - 1) \X
                         { << 128 >>, << 225, 128, 128 >> } : t[2] >= t[1] + 8 }
      n == DoubleLength
  IN  { Plain(PlantedTwice(n, t[1], t[2], t[3]), n) : t \in Spots }
        \cup { Slacked(PlantedTwice(n, t[1], t[2], t[3]), n) : t \in Spots }

PlantedCalls == Singles \cup Doubles
=============================================================================
