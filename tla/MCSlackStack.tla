---------------------------- MODULE MCSlackStack ----------------------------
(***************************************************************************)
(* SlackStack for TLC.                                                     *)
(***************************************************************************)
EXTENDS SlackStack

\* Two characters; a range from 0 to 4 of the vector ends inside one, with the
\* byte that would complete it behind the range.
FewChunks == { << 195, 169, 97 >> }
=============================================================================
