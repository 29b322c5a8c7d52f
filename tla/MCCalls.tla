------------------------------ MODULE MCCalls ------------------------------
(***************************************************************************)
(* Calls for TLC, with given content of the range.                         *)
(***************************************************************************)
EXTENDS VerifyImpl

\* verify(content).
Plain(content, n) ==
  [ buf |-> content, len |-> n, start |-> 0, end |-> n, pad |-> 0 ]

(***************************************************************************)
(* verify_with_slack on a buffer where the range is preceded by bytes that *)
(* would begin a sequence and followed by slack that would complete one.   *)
(***************************************************************************)
Slacked(content, n) ==
  [ buf |-> [ k \in 0 .. n + 10 |->
                IF k < 3 THEN 195 ELSE IF k < n + 3 THEN content[k - 3] ELSE 191 ],
    len |-> n + 11, start |-> 3, end |-> n + 3, pad |-> SLACK ]
=============================================================================
