--------------------------- MODULE Utf8Validator ---------------------------
(***************************************************************************)
(* What a validating call promises: it returns, once, and its answer says  *)
(* whether the range it was given is well-formed UTF-8.  This is the       *)
(* `ensures' clause shared by verify, verify_with_slack, verify_impl and   *)
(* verify_short (src/src/lib.rs), with termination added.                  *)
(***************************************************************************)
EXTENDS Utf8Table

VARIABLES call, returned, result

vars == << call, returned, result >>

\* A slice and a range of it.
IsRangeOf(c) ==
  /\ c.len \in Nat
  /\ c.buf \in [0 .. c.len - 1 -> Byte]
  /\ c.start \in Nat /\ c.end \in Nat
  /\ c.start <= c.end /\ c.end <= c.len

Init ==
  /\ IsRangeOf(call)
  /\ returned = FALSE
  /\ result = FALSE   \* meaningless until the call has returned

Return ==
  /\ ~ returned
  /\ returned' = TRUE
  /\ result' = is_valid_utf8(call.buf, call.start, call.end)
  /\ UNCHANGED call

Spec == Init /\ [][Return]_vars /\ WF_vars(Return)
=============================================================================
