----------------------------- MODULE MCSlackBuf -----------------------------
(***************************************************************************)
(* SlackBuf for TLC.                                                       *)
(***************************************************************************)
EXTENDS SlackBuf

(***************************************************************************)
(* What the client writes: an ASCII byte, a sequence, one cut off, and     *)
(* padding of its own that would complete what precedes it.                *)
(***************************************************************************)
SomeChunks ==
  { << 97, 195, 169 >>, [ k \in 1 .. SLACK |-> 169 ] }
=============================================================================
