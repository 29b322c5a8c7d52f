------------------------------ MODULE MCShort ------------------------------
(***************************************************************************)
(* VerifyImpl for TLC: every range of a few bytes over the edges of the    *)
(* ranges of Table 3-7.                                                    *)
(***************************************************************************)
EXTENDS MCCalls

\* Every string of n bytes over S, with and without slack.
Strings(S, n) ==
  { Plain(s, n) : s \in [0 .. n - 1 -> S] }
    \cup { Slacked(s, n) : s \in [0 .. n - 1 -> S] }

EdgeBytes ==
  { 97, 128, 143, 144, 159, 160, 191, 194, 223, 224, 225, 237, 240, 243, 244, 255 }

ShortCalls ==
  Strings(EdgeBytes, 0) \cup Strings(EdgeBytes, 1) \cup Strings(EdgeBytes, 2)
    \cup Strings(EdgeBytes, 3)
    \cup Strings({97, 128, 144, 240, 244}, 5) \cup Strings({97, 191, 225}, 7)
=============================================================================
