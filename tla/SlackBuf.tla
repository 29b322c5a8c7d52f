------------------------------ MODULE SlackBuf ------------------------------
(***************************************************************************)
(* SlackBuf and the other ways into the validator (src/src/lib.rs), as a   *)
(* client uses them over one vector of bytes: it fills the vector, wraps   *)
(* slices of it, validates ranges and keeps the strings it obtains, drops  *)
(* what it holds, and fills the vector again.                              *)
(*                                                                         *)
(* What the validator does with a request is one step here; SlackStack     *)
(* puts the code in its place.  Lengths and positions have the width of    *)
(* usize.                                                                  *)
(***************************************************************************)
EXTENDS CallContract, Words, FiniteSets

CONSTANTS
  UsizeMax,          \* usize::MAX
  DebugAssertions,   \* the build checks its debug assertions
  Chunks,            \* what the client may append to the vector
  Offsets,           \* positions it may pass
  MaxLen,            \* bound on the length of the vector
  MaxViews, MaxStrs  \* bounds on the number of views and strings it holds

(***************************************************************************)
(* No allocation is longer than isize::MAX, half of usize::MAX; SLACK >= 4 *)
(* is asserted at compile time.                                            *)
(***************************************************************************)
ASSUME BufAssumption ==
  /\ UsizeMax \in Nat /\ MaxLen \in Nat /\ 2 * MaxLen + 1 <= UsizeMax
  /\ DebugAssertions \in BOOLEAN
  /\ Chunks \subseteq Seq(Byte)
  /\ Offsets \subseteq 0 .. UsizeMax
  /\ SLACK >= 4

VARIABLES
  vec,       \* the vector
  filled,    \* its length when the client last wrote to it
  views,     \* the live SlackBufs: the bounds of their slices in vec
  strs,      \* the live strings: their bounds in vec
  req,       \* the last operation and its arguments
  outcome,   \* how it ended, or "running" while the validator works
  word       \* what le_u32 returned: the set of one bits

bufVars == << vec, filled, views, strs, req, outcome, word >>

-----------------------------------------------------------------------------
(***************************************************************************)
(* usize arithmetic.                                                       *)
(***************************************************************************)
wrapping_sub(a, b) == IF a >= b THEN a - b ELSE a - b + UsizeMax + 1

\* Defect: the sum wraps around.
wrapping_add(a, b) == IF a + b > UsizeMax THEN a + b - UsizeMax - 1 ELSE a + b

saturating_add(a, b) == IF a + b > UsizeMax THEN UsizeMax ELSE a + b

-----------------------------------------------------------------------------
(***************************************************************************)
(* Slices of the vector.                                                   *)
(***************************************************************************)
Length(s) == s.hi - s.lo

\* The bytes of a slice, from index zero on.
Content(s) == [ k \in 0 .. Length(s) - 1 |-> vec[s.lo + k + 1] ]

\* The whole of the vector.
Whole == [lo |-> 0, hi |-> Len(vec)]

\* The slices the client may borrow, from vec or from as_bytes of a view.
Slices ==
  { s \in [lo : Offsets, hi : Offsets \cup {Len(vec)}] :
      s.lo <= s.hi /\ s.hi <= Len(vec) }

\* Defect: a string borrows the view, not the buffer behind it.
UnborrowedByViews == views = {}

(***************************************************************************)
(* Nothing borrows the vector: what a view or a string is made of lives    *)
(* for 'a, and until then the compiler lets nobody write to the vector.    *)
(***************************************************************************)
Unborrowed == views = {} /\ strs = {}

\* Defect: the whole slice counts as payload.
payload_lenWhole(v) == Length(v)

payload_len(v) == wrapping_sub(Length(v), SLACK)

-----------------------------------------------------------------------------
(***************************************************************************)
(* The client's own steps.                                                 *)
(***************************************************************************)
Idle == outcome # "running"

Operation(fn, s, a, b) ==
  [fn |-> fn, lo |-> s.lo, hi |-> s.hi, start |-> a, end |-> b]

NoOperation == Operation("client", [lo |-> 0, hi |-> 0], 0, 0)

Quietly == req' = NoOperation /\ outcome' = "done" /\ word' = {}

Extend ==
  /\ Idle /\ Unborrowed
  /\ \E c \in Chunks :
       /\ Len(vec) + Len(c) <= MaxLen
       /\ vec' = vec \o c
       /\ filled' = Len(vec) + Len(c)
  /\ Quietly
  /\ UNCHANGED << views, strs >>

Truncate ==
  /\ Idle /\ Unborrowed
  /\ \E n \in Offsets :
       /\ n < Len(vec)
       /\ vec' = SubSeq(vec, 1, n)
       /\ filled' = n
  /\ Quietly
  /\ UNCHANGED << views, strs >>

DropView ==
  /\ Idle
  /\ \E v \in views : views' = views \ {v}
  /\ Quietly
  /\ UNCHANGED << vec, filled, strs >>

DropStr ==
  /\ Idle
  /\ \E s \in strs : strs' = strs \ {s}
  /\ Quietly
  /\ UNCHANGED << vec, filled, views >>

-----------------------------------------------------------------------------
(***************************************************************************)
(* Constructors.                                                           *)
(***************************************************************************)
Room == Cardinality(views) < MaxViews

Wrapped(s)  == views' = views \cup {s} /\ outcome' = "some"
Refused(as) == views' = views /\ outcome' = as

\* Defect: any slice that is not empty is admitted.
newNonEmpty ==
  /\ Idle /\ Room
  /\ \E s \in Slices :
       /\ req' = Operation("new", s, 0, 0)
       /\ IF Length(s) > 0 THEN Wrapped(s) ELSE Refused("none")
  /\ word' = {}
  /\ UNCHANGED << vec, filled, strs >>

new ==
  /\ Idle /\ Room
  /\ \E s \in Slices :
       /\ req' = Operation("new", s, 0, 0)
       /\ IF Length(s) >= SLACK THEN Wrapped(s) ELSE Refused("none")
  /\ word' = {}
  /\ UNCHANGED << vec, filled, strs >>

new_embedded_slack ==
  /\ Idle /\ Room
  /\ \E s \in Slices :
       /\ req' = Operation("new_embedded_slack", s, 0, 0)
       /\ IF Length(s) >= SLACK THEN Wrapped(s) ELSE Refused("panic")
  /\ word' = {}
  /\ UNCHANGED << vec, filled, strs >>

\* The caller guarantees the length; a debug build checks it.
new_unchecked ==
  /\ Idle /\ Room
  /\ \E s \in Slices :
       /\ Length(s) >= SLACK \/ DebugAssertions
       /\ req' = Operation("new_unchecked", s, 0, 0)
       /\ IF DebugAssertions /\ Length(s) < SLACK THEN Refused("panic") ELSE Wrapped(s)
  /\ word' = {}
  /\ UNCHANGED << vec, filled, strs >>

\* Defect: the padding repeats the last byte of the vector.
new_add_slackRepeating ==
  /\ Idle /\ Room /\ Unborrowed
  /\ Len(vec) + SLACK <= MaxLen
  /\ vec' = vec \o [ k \in 1 .. SLACK |-> IF vec = << >> THEN 0 ELSE vec[Len(vec)] ]
  /\ Wrapped(Whole')
  /\ req' = Operation("new_add_slack", Whole', 0, 0)
  /\ word' = {}
  /\ UNCHANGED << filled, strs >>

\* The vector is borrowed mutably, extended, and wrapped as a whole.
new_add_slack ==
  /\ Idle /\ Room /\ Unborrowed
  /\ Len(vec) + SLACK <= MaxLen
  /\ vec' = vec \o [ k \in 1 .. SLACK |-> 0 ]
  /\ Wrapped(Whole')
  /\ req' = Operation("new_add_slack", Whole', 0, 0)
  /\ word' = {}
  /\ UNCHANGED << filled, strs >>

-----------------------------------------------------------------------------
(***************************************************************************)
(* Requests: what leads to a call of the validator, and what is made of    *)
(* its answer.                                                             *)
(***************************************************************************)
\* Defect: slack that reaches the very end of the slice is refused.
SlackAssertedStrict(s, a, b) ==
  DebugAssertions => a <= b /\ saturating_add(b, SLACK) < Length(s)

\* The debug assertions of verify_with_slack.
SlackAsserted(s, a, b) ==
  DebugAssertions => a <= b /\ saturating_add(b, SLACK) <= Length(s)

\* Defect: half of the assertion is missing.
RangeAssertedEndOnly(v, a, b) == b <= payload_len(v)

\* The assertion of SlackBuf::verify.
RangeAsserted(v, a, b) == a <= b /\ b <= payload_len(v)

Starts(asserted) == outcome' = IF asserted THEN "running" ELSE "panic"

\* SlackBuf::verify, and SlackBuf::to_str, which begins by calling it.
ViewRequest(fn) ==
  \E v \in views, a \in Offsets, b \in Offsets :
    /\ req' = Operation(fn, v, a, b)
    /\ Starts(RangeAsserted(v, a, b) /\ SlackAsserted(v, a, b))

verify == Idle /\ ViewRequest("verify")

to_str == Idle /\ Cardinality(strs) < MaxStrs /\ ViewRequest("to_str")

\* Called directly: the caller guarantees the contract; a debug build checks.
verify_with_slack ==
  /\ Idle
  /\ \E s \in Slices, a \in Offsets, b \in Offsets :
       /\ (a <= b /\ b + SLACK <= Length(s)) \/ DebugAssertions
       /\ req' = Operation("verify_with_slack", s, a, b)
       /\ Starts(SlackAsserted(s, a, b))

\* The free function from_utf8, and to_str, its former name.
from_utf8 ==
  /\ Idle
  /\ Cardinality(strs) < MaxStrs
  /\ \E s \in Slices :
       /\ req' = Operation("from_utf8", s, 0, Length(s))
       /\ Starts(TRUE)

BufRequest ==
  /\ verify \/ to_str \/ verify_with_slack \/ from_utf8
  /\ word' = {}
  /\ UNCHANGED << vec, filled, views, strs >>

\* The call that is made of a request.
Request ==
  [ buf |-> Content(req), len |-> Length(req), start |-> req.start, end |-> req.end,
    pad |-> IF req.fn = "from_utf8" THEN 0 ELSE SLACK ]

\* Defect: the range is taken of the vector, not of the slice.
RangeOfRequestInVec == [lo |-> req.start, hi |-> req.end]

\* The range, taken of the slice without a check.
RangeOfRequest == [lo |-> req.lo + req.start, hi |-> req.lo + req.end]

\* The validator has answered: the string is made, or not, without a scan.
BufAnswer(valid) ==
  /\ outcome = "running"
  /\ IF req.fn \in {"to_str", "from_utf8"} /\ valid
       THEN strs' = strs \cup {RangeOfRequest}
       ELSE strs' = strs
  /\ outcome' = IF valid THEN "valid" ELSE "invalid"
  /\ UNCHANGED << vec, filled, views, req, word >>

-----------------------------------------------------------------------------
(***************************************************************************)
(* le_u32.  A byte outside the slice has no value; LoadedInSlice shows     *)
(* that none is loaded, so which one it is given here is immaterial.       *)
(***************************************************************************)
FourBytes(v, at) ==
  [ k \in 0 .. 3 |-> IF at + k < Length(v) THEN Content(v)[at + k] ELSE 255 ]

\* Defect: the position is compared with the length of the slice.
le_u32ToLength ==
  /\ Idle
  /\ \E v \in views, at \in Offsets :
       /\ req' = Operation("le_u32", v, at, at)
       /\ IF at <= Length(v)
            THEN outcome' = "loaded" /\ word' = load_raw(FourBytes(v, at), 4)
            ELSE outcome' = "panic" /\ word' = {}
  /\ UNCHANGED << vec, filled, views, strs >>

le_u32 ==
  /\ Idle
  /\ \E v \in views, at \in Offsets :
       /\ req' = Operation("le_u32", v, at, at)
       /\ IF at <= payload_len(v)
            THEN outcome' = "loaded" /\ word' = load_raw(FourBytes(v, at), 4)
            ELSE outcome' = "panic" /\ word' = {}
  /\ UNCHANGED << vec, filled, views, strs >>

-----------------------------------------------------------------------------
BufInit ==
  /\ vec = << >> /\ filled = 0
  /\ views = {} /\ strs = {}
  /\ req = NoOperation /\ outcome = "done" /\ word = {}

Client == Extend \/ Truncate \/ DropView \/ DropStr

Construct ==
  new \/ new_embedded_slack \/ new_unchecked \/ new_add_slack

BufOperation == Client \/ Construct \/ BufRequest \/ le_u32

Answered ==
  /\ outcome = "running"
  /\ BufAnswer(is_valid_utf8(Request.buf, req.start, req.end))

BufNext == BufOperation \/ Answered

\* A request is answered; nothing obliges the client to go on.
BufSpec == BufInit /\ [][BufNext]_bufVars /\ WF_bufVars(Answered)
-----------------------------------------------------------------------------
Bounds == [lo : 0 .. Len(vec), hi : 0 .. Len(vec)]

Names ==
  { "client", "new", "new_embedded_slack", "new_unchecked", "new_add_slack",
    "verify", "to_str", "verify_with_slack", "from_utf8", "le_u32" }

Operations ==
  [fn : Names, lo : Nat, hi : Nat, start : 0 .. UsizeMax, end : 0 .. UsizeMax]

BufTypeOK ==
  /\ vec \in Seq(Byte) /\ Len(vec) <= MaxLen
  /\ filled \in 0 .. Len(vec)
  /\ views \subseteq Bounds /\ strs \subseteq Bounds
  /\ req \in Operations
  /\ outcome \in {"done", "some", "none", "panic", "running", "valid", "invalid", "loaded"}
  /\ word \subseteq 0 .. 31

(***************************************************************************)
(* The invariant of the type: however a live view came about, and whatever *)
(* was done to the vector since, its slice has SLACK bytes and lies in the *)
(* vector.  Without it payload_len wraps around and every assertion that   *)
(* compares with it lets anything pass.                                    *)
(***************************************************************************)
SlackKept == \A v \in views : v.hi <= Len(vec) /\ v.lo + SLACK <= v.hi

(***************************************************************************)
(* The SAFETY comments of the unsafe calls: whenever the validator runs,   *)
(* it has been given a slice and a range that meet its contract.           *)
(***************************************************************************)
ContractKept == outcome = "running" => IsCall(Request)

(***************************************************************************)
(* from_utf8_unchecked and get_unchecked: every string the client holds    *)
(* lies in the vector and is well-formed at this moment, not only when it  *)
(* was made.                                                               *)
(***************************************************************************)
StrSound(s) ==
  /\ s.lo <= s.hi /\ s.hi <= Len(vec)
  /\ is_valid_utf8(Content(Whole), s.lo, s.hi)

StrsSound == \A s \in strs : StrSound(s)

(***************************************************************************)
(* le_u32 loads four bytes of the slice, also at payload_len where they    *)
(* are all slack, and returns them as a little-endian number.              *)
(***************************************************************************)
LoadedInSlice ==
  outcome = "loaded" =>
    /\ req.start + 4 <= Length(req)
    /\ word = pack([ k \in 0 .. 3 |-> Content(req)[req.start + k] ], 4)

(***************************************************************************)
(* The `Panics' sections, in whole numbers: a safe function panics exactly *)
(* when its documentation says so, and the debug assertions of             *)
(* verify_with_slack never add to that.  The unsafe functions have no such *)
(* section: a debug build panics exactly when their precondition is        *)
(* broken, and a release build is not called then.                         *)
(***************************************************************************)
PanicIsDue ==
  \/ /\ req.fn \in {"new_embedded_slack", "new_unchecked"}
     /\ Length(req) < SLACK
  \/ /\ req.fn \in {"verify", "to_str", "verify_with_slack"}
     /\ req.start > req.end \/ req.end + SLACK > Length(req)
  \/ /\ req.fn = "le_u32"
     /\ req.start + SLACK > Length(req)

PanicsAsDocumented == (outcome = "panic") <=> PanicIsDue

(***************************************************************************)
(* new_add_slack: all the client has written is payload of the view, and   *)
(* if the vector still carried the padding of an earlier view, which now   *)
(* is payload too, the verdict on the payload is the verdict on what the   *)
(* client wrote.                                                           *)
(***************************************************************************)
PayloadKept ==
  req.fn = "new_add_slack" =>
    /\ filled <= payload_len(req)
    /\ is_valid_utf8(Content(req), 0, payload_len(req))
         <=> is_valid_utf8(Content(req), 0, filled)

-----------------------------------------------------------------------------
(***************************************************************************)
(* The inductive invariant: the properties above but for PayloadKept,      *)
(* which follows, and what is known of the slice of the last operation and *)
(* of the bytes the client did not write.                                  *)
(***************************************************************************)
ReqKept ==
  /\ outcome = "running" =>
       req.fn \in {"verify", "to_str", "verify_with_slack", "from_utf8"}
  /\ outcome \in {"running", "loaded"} => req.lo <= req.hi /\ req.hi <= Len(vec)
  /\ req.fn = "new_add_slack" =>
       req.lo = 0 /\ req.hi = Len(vec) /\ filled + SLACK <= Len(vec)

PaddingZero == \A k \in filled + 1 .. Len(vec) : vec[k] = 0

BufInv ==
  /\ BufTypeOK
  /\ SlackKept
  /\ StrsSound
  /\ PaddingZero
  /\ ReqKept
  /\ ContractKept
  /\ LoadedInSlice
  /\ PanicsAsDocumented
=============================================================================
