----------------------------- MODULE CallFrame -----------------------------
(***************************************************************************)
(* What the functions of the validator share (src/src/lib.rs): the call    *)
(* being answered, the position reached, and the leaf loads.               *)
(***************************************************************************)
EXTENDS CallContract

CONSTANT Calls        \* the calls considered

ASSUME CallsAssumption == \A c \in Calls : IsCall(c)

VARIABLES
  call,     \* the arguments; a call never changes them
  pc,       \* which part of the code runs
  p,        \* position of the next byte to examine
  reads     \* indices of the bytes the last step loaded

buf   == call.buf
len   == call.len
start == call.start
end   == call.end
PAD   == call.pad

\* The n bytes a load at this position covers.
Lanes(at, n) == at .. at + n - 1

(***************************************************************************)
(* A loaded byte.  A load outside the slice is undefined behaviour; the    *)
(* property LoadsAllowed shows that there is none, so the value such a     *)
(* load is given here is immaterial.                                       *)
(***************************************************************************)
ByteAt(k) == IF k \in 0 .. len - 1 THEN buf[k] ELSE 255

\* The sign-bit test: some byte at these positions is not ASCII.
HighBit(at) == \E k \in at : ByteAt(k) >= 128
=============================================================================
