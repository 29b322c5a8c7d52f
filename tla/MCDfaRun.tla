------------------------------ MODULE MCDfaRun ------------------------------
(***************************************************************************)
(* DfaRun for TLC: the first and the last byte of every range that Table   *)
(* 3-7 or CLASS tells apart.                                               *)
(***************************************************************************)
EXTENDS DfaRun

EdgeBytes ==
  { 0, 127, 128, 143, 144, 159, 160, 191, 192, 193, 194, 223, 224, 225, 236,
    237, 238, 239, 240, 241, 243, 244, 245, 255 }
=============================================================================
