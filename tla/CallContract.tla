---------------------------- MODULE CallContract ----------------------------
(***************************************************************************)
(* What a caller of verify or verify_with_slack (src/src/lib.rs) must      *)
(* guarantee.  A call is a slice buf of len bytes, the range               *)
(* start .. end - 1 of it to validate, and the number pad of bytes past    *)
(* the range that are readable: none for verify, SLACK for                 *)
(* verify_with_slack.                                                      *)
(***************************************************************************)
EXTENDS Utf8Table

SLACK == 8

\* The documented preconditions of verify and of verify_with_slack.
IsCall(c) ==
  /\ c.len \in Nat
  /\ c.buf \in [0 .. c.len - 1 -> Byte]
  /\ c.start \in Nat /\ c.end \in Nat
  /\ c.start <= c.end
  /\ \/ c.pad = 0 /\ c.start = 0 /\ c.end = c.len
     \/ c.pad = SLACK /\ c.end + SLACK <= c.len
=============================================================================
