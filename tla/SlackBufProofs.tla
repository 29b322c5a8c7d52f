--------------------------- MODULE SlackBufProofs ---------------------------
(***************************************************************************)
(* The promises of SlackBuf, for every vector, client, build and width of  *)
(* usize.  BufInv is inductive; each operation is dealt with by what it    *)
(* adds to the views, to the strings and to the record of the operation    *)
(* (FrameInv), and only the client's writes and new_add_slack, which need  *)
(* the vector unborrowed, touch the bytes.                                 *)
(***************************************************************************)
EXTENDS SlackBuf, Utf8TableProofs, LoadProofs

\* The vector as the type invariant has it.
LEMMA VecFacts ==
  ASSUME BufTypeOK
  PROVE  /\ Len(vec) \in Nat /\ filled \in Nat /\ filled <= Len(vec)
         /\ \A k \in 1 .. Len(vec) : vec[k] \in Byte
  BY DEF BufTypeOK

(***************************************************************************)
(* What is known of a slice, and of its bytes.                             *)
(***************************************************************************)
LEMMA SliceFacts ==
  ASSUME BufTypeOK, NEW s \in Slices
  PROVE  /\ s \in Bounds /\ s.lo \in Nat /\ s.hi \in Nat /\ s.lo <= s.hi /\ s.hi <= Len(vec)
         /\ s = [lo |-> s.lo, hi |-> s.hi] /\ Length(s) \in 0 .. MaxLen
<1>1. s \in [lo : Offsets, hi : Offsets \cup {Len(vec)}] /\ s.lo <= s.hi /\ s.hi <= Len(vec)
  BY DEF Slices
<1>2. s.lo \in Offsets /\ s.hi \in Offsets \cup {Len(vec)} /\ s = [lo |-> s.lo, hi |-> s.hi]
  BY <1>1
<1>3. \A o \in Offsets : o \in Nat
  BY BufAssumption
<1>4. s.lo \in Nat /\ s.hi \in Nat
  BY <1>2, <1>3, VecFacts
<1>5. s.lo \in 0 .. Len(vec) /\ s.hi \in 0 .. Len(vec)
  BY <1>1, <1>4, VecFacts
<1>6. Len(vec) <= MaxLen /\ MaxLen \in Nat
  BY BufAssumption DEF BufTypeOK
<1>7. Length(s) \in 0 .. MaxLen
  BY <1>1, <1>4, <1>6, VecFacts DEF Length
<1>8. s \in Bounds
  BY <1>2, <1>5 DEF Bounds
<1> QED BY <1>1, <1>2, <1>4, <1>7, <1>8

LEMMA ViewFacts ==
  ASSUME BufTypeOK, SlackKept, NEW v \in views
  PROVE  /\ v \in Bounds /\ v.lo \in Nat /\ v.hi \in Nat /\ v.lo + SLACK <= v.hi
         /\ v.hi <= Len(vec) /\ Length(v) \in SLACK .. MaxLen
         /\ payload_len(v) = Length(v) - SLACK
  BY VecFacts, BufAssumption
     DEF BufTypeOK, SlackKept, Bounds, Length, payload_len, wrapping_sub, SLACK

LEMMA ContentTyped ==
  ASSUME BufTypeOK, NEW lo \in Nat, NEW hi \in Nat, NEW s,
         s.lo = lo, s.hi = hi, lo <= hi, hi <= Len(vec)
  PROVE  /\ Content(s) \in [0 .. Length(s) - 1 -> Byte]
         /\ \A k \in 0 .. Length(s) - 1 : Content(s)[k] = vec[lo + k + 1]
<1>1. \A k \in 0 .. Length(s) - 1 : lo + k + 1 \in 1 .. Len(vec)
  BY VecFacts DEF Length
<1>2. \A k \in 0 .. Length(s) - 1 : vec[lo + k + 1] \in Byte
  BY <1>1, VecFacts
<1> QED BY <1>2 DEF Content

-----------------------------------------------------------------------------
(***************************************************************************)
(* A step that leaves the bytes alone keeps the invariant if what it adds  *)
(* is sound.                                                               *)
(***************************************************************************)
LEMMA FrameInv ==
  ASSUME BufInv, vec' = vec, filled' = filled,
         \A v \in views' : v \in views \/ (v \in Bounds /\ v.lo + SLACK <= v.hi),
         \A s \in strs' : s \in strs \/ (s \in Bounds /\ StrSound(s)),
         req' \in Operations,
         outcome' \in {"done", "some", "none", "panic", "running", "valid", "invalid", "loaded"},
         word' \subseteq 0 .. 31,
         ReqKept', ContractKept', LoadedInSlice', PanicsAsDocumented'
  PROVE  BufInv'
<1>1. BufTypeOK /\ SlackKept /\ StrsSound /\ PaddingZero
  BY DEF BufInv
<1>2. BufTypeOK'
  <2>1. Bounds' = Bounds
    BY DEF Bounds
  <2> QED BY <1>1, <2>1 DEF BufTypeOK, Operations
<1>3. SlackKept'
  <2>1. \A v \in views' : v.hi <= Len(vec) /\ v.lo + SLACK <= v.hi
    BY <1>1 DEF SlackKept, Bounds
  <2> QED BY <2>1 DEF SlackKept
<1>4. StrsSound'
  <2>1. ASSUME NEW s \in strs' PROVE StrSound(s)'
    <3>1. StrSound(s)
      BY <1>1, <2>1 DEF StrsSound
    <3>2. Content(Whole)' = Content(Whole)
      BY DEF Content, Whole, Length
    <3> QED BY <3>1, <3>2 DEF StrSound
  <2> QED BY <2>1 DEF StrsSound
<1>5. PaddingZero'
  BY <1>1 DEF PaddingZero
<1> QED BY <1>2, <1>3, <1>4, <1>5 DEF BufInv

(***************************************************************************)
(* An operation that ends at once, and neither loads nor wraps the whole   *)
(* vector, has nothing to answer for but its panics.                       *)
(***************************************************************************)
LEMMA EndedAtOnce ==
  ASSUME BufInv, vec' = vec, filled' = filled, strs' \subseteq strs,
         \A v \in views' : v \in views \/ (v \in Bounds /\ v.lo + SLACK <= v.hi),
         req' \in Operations, req'.fn # "new_add_slack",
         outcome' \in {"done", "some", "none", "panic"}, word' = {},
         PanicsAsDocumented'
  PROVE  BufInv'
<1>1. ReqKept' /\ ContractKept' /\ LoadedInSlice'
  BY DEF ReqKept, ContractKept, LoadedInSlice
<1> QED BY <1>1, FrameInv

\* The record of an operation on a slice.
LEMMA OperationTyped ==
  ASSUME NEW fn \in Names, NEW s, s.lo \in Nat, s.hi \in Nat,
         NEW a \in 0 .. UsizeMax, NEW b \in 0 .. UsizeMax
  PROVE  /\ Operation(fn, s, a, b) \in Operations
         /\ Operation(fn, s, a, b).fn = fn
         /\ Operation(fn, s, a, b).lo = s.lo /\ Operation(fn, s, a, b).hi = s.hi
         /\ Operation(fn, s, a, b).start = a /\ Operation(fn, s, a, b).end = b
  BY DEF Operation, Operations

\* The same of the client's own steps.
LEMMA NoOperationTyped ==
  NoOperation \in Operations /\ NoOperation.fn = "client"
<1>1. 0 \in 0 .. UsizeMax
  BY BufAssumption
<1>2. PICK s : s = [lo |-> 0, hi |-> 0]
  OBVIOUS
<1>3. s.lo = 0 /\ s.hi = 0
  BY <1>2
<1>4. NoOperation = Operation("client", s, 0, 0)
  BY <1>2 DEF NoOperation
<1> QED BY <1>1, <1>3, <1>4, OperationTyped DEF Names

-----------------------------------------------------------------------------
(***************************************************************************)
(* The client's steps.                                                     *)
(***************************************************************************)
\* A step that writes to the vector: nothing borrows it.
LEMMA WriteInv ==
  ASSUME BufInv, Unborrowed, Quietly, UNCHANGED << views, strs >>,
         vec' \in Seq(Byte), Len(vec') <= MaxLen, filled' = Len(vec')
  PROVE  BufInv'
<1>1. views' = {} /\ strs' = {}
  BY DEF Unborrowed
<1>2. req' = NoOperation /\ outcome' = "done" /\ word' = {}
  BY DEF Quietly
<1>3. BufTypeOK'
  BY <1>1, <1>2, NoOperationTyped DEF BufTypeOK, Operations
<1>4. SlackKept' /\ StrsSound' /\ PaddingZero'
  BY <1>1, <1>3 DEF SlackKept, StrsSound, PaddingZero
<1>5. ReqKept' /\ ContractKept' /\ LoadedInSlice' /\ PanicsAsDocumented'
  BY <1>2, NoOperationTyped
     DEF ReqKept, ContractKept, LoadedInSlice, PanicsAsDocumented, PanicIsDue
<1> QED BY <1>3, <1>4, <1>5 DEF BufInv

LEMMA ClientInv ==
  ASSUME BufInv, Client
  PROVE  BufInv'
<1>1. CASE Extend
  <2>1. PICK c \in Chunks :
          /\ Len(vec) + Len(c) <= MaxLen /\ vec' = vec \o c
          /\ filled' = Len(vec) + Len(c)
    BY <1>1 DEF Extend
  <2>2. vec \in Seq(Byte) /\ c \in Seq(Byte)
    BY BufAssumption DEF BufInv, BufTypeOK
  <2>3. vec' \in Seq(Byte) /\ Len(vec') = Len(vec) + Len(c)
    BY <2>1, <2>2
  <2> QED BY <1>1, <2>1, <2>3, WriteInv DEF Extend
<1>2. CASE Truncate
  <2>1. PICK n \in Offsets : n < Len(vec) /\ vec' = SubSeq(vec, 1, n) /\ filled' = n
    BY <1>2 DEF Truncate
  <2>2. vec \in Seq(Byte) /\ n \in Nat /\ Len(vec) <= MaxLen /\ MaxLen \in Nat
    BY BufAssumption DEF BufInv, BufTypeOK
  <2>3. vec' \in Seq(Byte) /\ Len(vec') = n
    BY <2>1, <2>2
  <2> QED BY <1>2, <2>1, <2>2, <2>3, WriteInv DEF Truncate
<1>3. CASE DropView \/ DropStr
  <2>1. /\ vec' = vec /\ filled' = filled /\ views' \subseteq views /\ strs' \subseteq strs
        /\ req' = NoOperation /\ outcome' = "done" /\ word' = {}
    BY <1>3 DEF DropView, DropStr, Quietly
  <2>2. PanicsAsDocumented'
    BY <2>1, NoOperationTyped DEF PanicsAsDocumented, PanicIsDue
  <2> QED BY <2>1, <2>2, NoOperationTyped, EndedAtOnce
<1> QED BY <1>1, <1>2, <1>3 DEF Client
-----------------------------------------------------------------------------
(***************************************************************************)
(* The constructors.  Those that wrap a slice add it to the views when it  *)
(* is long enough, and panic, if they do, when it is not.                  *)
(***************************************************************************)
LEMMA WrapInv ==
  ASSUME BufInv, NEW fn \in {"new", "new_embedded_slack", "new_unchecked"}, NEW s \in Slices,
         req' = Operation(fn, s, 0, 0), word' = {}, UNCHANGED << vec, filled, strs >>,
         \/ Length(s) >= SLACK /\ Wrapped(s)
         \/ fn = "new" /\ Refused("none")
         \/ fn # "new" /\ Length(s) < SLACK /\ Refused("panic")
  PROVE  BufInv'
<1>1. /\ s \in Bounds /\ s.lo \in Nat /\ s.hi \in Nat /\ Length(s) = s.hi - s.lo
      /\ (Length(s) >= SLACK <=> s.lo + SLACK <= s.hi)
  BY SliceFacts DEF BufInv, Length, SLACK
<1>2. /\ req' \in Operations /\ req'.fn = fn /\ req'.lo = s.lo /\ req'.hi = s.hi
  <2>1. 0 \in 0 .. UsizeMax
    BY BufAssumption
  <2> QED BY <1>1, <2>1, OperationTyped DEF Names
<1>3. \A v \in views' : v \in views \/ (v \in Bounds /\ v.lo + SLACK <= v.hi)
  BY <1>1 DEF Wrapped, Refused
<1>4. outcome' \in {"some", "none", "panic"} /\ PanicsAsDocumented'
  BY <1>1, <1>2 DEF Wrapped, Refused, PanicsAsDocumented, PanicIsDue, Length, SLACK
<1> QED BY <1>2, <1>3, <1>4, EndedAtOnce

(***************************************************************************)
(* new_add_slack has the vector to itself, and leaves one view: the whole  *)
(* of what was there and SLACK zero bytes.                                 *)
(***************************************************************************)
LEMMA AddSlackInv ==
  ASSUME BufInv, new_add_slack
  PROVE  BufInv'
<1> DEFINE n == Len(vec)
<1>1. /\ vec \in Seq(Byte) /\ n \in Nat /\ filled \in 0 .. n /\ views = {} /\ strs = {}
      /\ n + SLACK <= MaxLen /\ MaxLen \in Nat /\ PaddingZero
  BY BufAssumption DEF BufInv, BufTypeOK, new_add_slack, Unborrowed
<1>2. /\ vec' = vec \o [ k \in 1 .. SLACK |-> 0 ] /\ views' = {Whole'} /\ strs' = {}
      /\ filled' = filled /\ req' = Operation("new_add_slack", Whole', 0, 0)
      /\ outcome' = "some" /\ word' = {}
  BY <1>1 DEF new_add_slack, Wrapped
<1>3. [ k \in 1 .. SLACK |-> 0 ] \in Seq(Byte) /\ Len([ k \in 1 .. SLACK |-> 0 ]) = SLACK
  BY DEF SLACK, Byte
<1>4. /\ vec' \in Seq(Byte) /\ Len(vec') = n + SLACK
      /\ \A k \in 1 .. n : vec'[k] = vec[k]
      /\ \A k \in n + 1 .. n + SLACK : vec'[k] = 0
  BY <1>1, <1>2, <1>3, SMTT(30) DEF SLACK
<1>5. Whole' = [lo |-> 0, hi |-> n + SLACK] /\ Whole'.lo = 0 /\ Whole'.hi = n + SLACK
  BY <1>4 DEF Whole
<1>6. Whole' \in Bounds'
  BY <1>1, <1>4, <1>5 DEF Bounds, SLACK
<1>7. /\ req' \in Operations /\ req'.fn = "new_add_slack"
      /\ req'.lo = 0 /\ req'.hi = n + SLACK
  <2>1. 0 \in 0 .. UsizeMax /\ Whole'.lo \in Nat /\ Whole'.hi \in Nat
    BY <1>1, <1>5, BufAssumption DEF SLACK
  <2>2. PICK w : w = Whole'
    OBVIOUS
  <2> QED BY <1>2, <1>5, <2>1, <2>2, OperationTyped DEF Names
<1>8. BufTypeOK'
  BY <1>1, <1>2, <1>4, <1>6, <1>7 DEF BufTypeOK, Operations, SLACK
<1>9. SlackKept' /\ StrsSound'
  BY <1>1, <1>2, <1>4, <1>5 DEF SlackKept, StrsSound, SLACK
<1>10. PaddingZero'
  <2>1. ASSUME NEW k \in filled + 1 .. n + SLACK PROVE vec'[k] = 0
    <3>1. k \in Int /\ (k \in filled + 1 .. n \/ k \in n + 1 .. n + SLACK)
      BY <1>1 DEF SLACK
    <3> QED BY <1>1, <1>4, <3>1 DEF PaddingZero
  <2> QED BY <1>2, <1>4, <2>1 DEF PaddingZero
<1>11. ReqKept'
  BY <1>1, <1>2, <1>4, <1>7 DEF ReqKept, SLACK
<1>12. ContractKept' /\ LoadedInSlice' /\ PanicsAsDocumented'
  BY <1>2, <1>7 DEF ContractKept, LoadedInSlice, PanicsAsDocumented, PanicIsDue
<1> QED BY <1>8, <1>9, <1>10, <1>11, <1>12 DEF BufInv

LEMMA ConstructInv ==
  ASSUME BufInv, Construct
  PROVE  BufInv'
<1> USE DEF SLACK
<1>0. BufTypeOK /\ MaxLen \in Nat
  BY BufAssumption DEF BufInv
<1>1. CASE new
  <2>1. PICK s \in Slices :
          /\ req' = Operation("new", s, 0, 0)
          /\ IF Length(s) >= SLACK THEN Wrapped(s) ELSE Refused("none")
    BY <1>1 DEF new
  <2>2. word' = {} /\ UNCHANGED << vec, filled, strs >>
    BY <1>1 DEF new
  <2> QED BY <2>1, <2>2, WrapInv
<1>2. CASE new_embedded_slack
  <2>1. PICK s \in Slices :
          /\ req' = Operation("new_embedded_slack", s, 0, 0)
          /\ IF Length(s) >= SLACK THEN Wrapped(s) ELSE Refused("panic")
    BY <1>2 DEF new_embedded_slack
  <2>2. word' = {} /\ UNCHANGED << vec, filled, strs >>
    BY <1>2 DEF new_embedded_slack
  <2>3. Length(s) >= SLACK \/ Length(s) < SLACK
    BY <1>0, SliceFacts
  <2> QED BY <2>1, <2>2, <2>3, WrapInv
<1>3. CASE new_unchecked
  <2>1. PICK s \in Slices :
          /\ Length(s) >= SLACK \/ DebugAssertions
          /\ req' = Operation("new_unchecked", s, 0, 0)
          /\ IF DebugAssertions /\ Length(s) < SLACK THEN Refused("panic") ELSE Wrapped(s)
    BY <1>3 DEF new_unchecked
  <2>2. word' = {} /\ UNCHANGED << vec, filled, strs >>
    BY <1>3 DEF new_unchecked
  <2>3. Length(s) >= SLACK \/ Length(s) < SLACK
    BY <1>0, SliceFacts
  <2> QED BY <2>1, <2>2, <2>3, WrapInv
<1>4. CASE new_add_slack
  BY <1>4, AddSlackInv
<1> QED BY <1>1, <1>2, <1>3, <1>4 DEF Construct
-----------------------------------------------------------------------------
(***************************************************************************)
(* Requests.  A request either starts, and is then a call that meets the   *)
(* contract of the validator, or panics, and then it is due to.            *)
(***************************************************************************)
LEMMA StartInv ==
  ASSUME BufInv,
         NEW fn \in {"verify", "to_str", "verify_with_slack", "from_utf8"},
         NEW s, s.lo \in Nat, s.hi \in Nat, s.lo <= s.hi, s.hi <= Len(vec),
         NEW a \in 0 .. UsizeMax, NEW b \in 0 .. UsizeMax,
         req' = Operation(fn, s, a, b), word' = {},
         UNCHANGED << vec, filled, views, strs >>,
         \/ outcome' = "running" /\ fn = "from_utf8" /\ a = 0 /\ b = Length(s)
         \/ outcome' = "running" /\ fn # "from_utf8" /\ a <= b /\ b + SLACK <= Length(s)
         \/ outcome' = "panic" /\ fn # "from_utf8" /\ ~ (a <= b /\ b + SLACK <= Length(s))
  PROVE  BufInv'
<1>1. BufTypeOK /\ SlackKept /\ StrsSound
  BY DEF BufInv
<1>2. /\ req' \in Operations /\ req'.fn = fn /\ req'.lo = s.lo /\ req'.hi = s.hi
      /\ req'.start = a /\ req'.end = b
  BY OperationTyped DEF Names
<1>3. Length(req)' = Length(s) /\ Length(s) \in Nat /\ a \in Nat /\ b \in Nat
  BY <1>2, BufAssumption DEF Length
<1>4. Content(req)' \in [0 .. Length(s) - 1 -> Byte]
  <2>1. \A k \in 0 .. s.hi - s.lo - 1 : s.lo + k + 1 \in 1 .. Len(vec)
    BY VecFacts, <1>1, SMTT(30)
  <2>2. \A k \in 0 .. s.hi - s.lo - 1 : vec[s.lo + k + 1] \in Byte
    BY VecFacts, <1>1, <2>1
  <2> QED BY <1>2, <2>2 DEF Content, Length
<1>5. ContractKept'
  <2>1. SUFFICES ASSUME outcome' = "running" PROVE IsCall(Request)'
    BY DEF ContractKept
  <2>2. CASE fn = "from_utf8" /\ a = 0 /\ b = Length(s)
    <3>1. Request' = [ buf |-> Content(req)', len |-> Length(s), start |-> 0,
                       end |-> Length(s), pad |-> 0 ]
      BY <1>2, <1>3, <2>2 DEF Request
    <3> QED BY <1>3, <1>4, <3>1 DEF IsCall
  <2>3. CASE fn # "from_utf8" /\ a <= b /\ b + SLACK <= Length(s)
    <3>1. Request' = [ buf |-> Content(req)', len |-> Length(s), start |-> a,
                       end |-> b, pad |-> SLACK ]
      BY <1>2, <1>3, <2>3 DEF Request
    <3> QED BY <1>3, <1>4, <2>3, <3>1 DEF IsCall
  <2> QED BY <2>1, <2>2, <2>3
<1>6. ReqKept' /\ LoadedInSlice'
  BY <1>2 DEF ReqKept, LoadedInSlice
<1>7. PanicsAsDocumented'
  BY <1>2, <1>3 DEF PanicsAsDocumented, PanicIsDue, SLACK
<1>8. /\ \A v \in views' : v \in views
      /\ \A t \in strs' : t \in strs
  OBVIOUS
<1> QED BY <1>2, <1>5, <1>6, <1>7, <1>8, FrameInv

\* A sum that saturates compares with a length as the sum does.
LEMMA SaturatedCompares ==
  ASSUME NEW b \in 0 .. UsizeMax, NEW n \in 0 .. MaxLen
  PROVE  saturating_add(b, SLACK) <= n <=> b + SLACK <= n
BY BufAssumption DEF saturating_add, SLACK

\* verify and to_str: the assertions together say what the contract says.
LEMMA ViewRequestInv ==
  ASSUME BufInv, NEW fn \in {"verify", "to_str"}, ViewRequest(fn), word' = {},
         UNCHANGED << vec, filled, views, strs >>
  PROVE  BufInv'
<1>1. PICK v \in views, a \in Offsets, b \in Offsets :
        /\ req' = Operation(fn, v, a, b)
        /\ Starts(RangeAsserted(v, a, b) /\ SlackAsserted(v, a, b))
  BY DEF ViewRequest
<1>2. /\ v.lo \in Nat /\ v.hi \in Nat /\ v.lo <= v.hi /\ v.hi <= Len(vec)
      /\ Length(v) \in 0 .. MaxLen /\ payload_len(v) = Length(v) - SLACK
  BY ViewFacts, BufAssumption DEF BufInv, SLACK
<1>3. a \in 0 .. UsizeMax /\ b \in 0 .. UsizeMax /\ a \in Nat /\ b \in Nat
  BY BufAssumption
<1>4. RangeAsserted(v, a, b) <=> a <= b /\ b + SLACK <= Length(v)
  BY <1>2, <1>3 DEF RangeAsserted, SLACK
<1>5. SlackAsserted(v, a, b) <=> (DebugAssertions => a <= b /\ b + SLACK <= Length(v))
  BY <1>2, <1>3, SaturatedCompares DEF SlackAsserted
<1> QED BY <1>1, <1>2, <1>3, <1>4, <1>5, StartInv DEF Starts

LEMMA RequestInv ==
  ASSUME BufInv, BufRequest
  PROVE  BufInv'
<1>1. word' = {} /\ UNCHANGED << vec, filled, views, strs >>
  BY DEF BufRequest
<1>2. CASE verify \/ to_str
  BY <1>1, <1>2, ViewRequestInv DEF verify, to_str
<1>3. CASE verify_with_slack
  <2>1. PICK s \in Slices, a \in Offsets, b \in Offsets :
          /\ (a <= b /\ b + SLACK <= Length(s)) \/ DebugAssertions
          /\ req' = Operation("verify_with_slack", s, a, b)
          /\ Starts(SlackAsserted(s, a, b))
    BY <1>3 DEF verify_with_slack
  <2>2. /\ s.lo \in Nat /\ s.hi \in Nat /\ s.lo <= s.hi /\ s.hi <= Len(vec)
        /\ Length(s) \in 0 .. MaxLen
    BY SliceFacts DEF BufInv
  <2>3. a \in 0 .. UsizeMax /\ b \in 0 .. UsizeMax
    BY BufAssumption
  <2>4. SlackAsserted(s, a, b) <=> (DebugAssertions => a <= b /\ b + SLACK <= Length(s))
    BY <2>2, <2>3, SaturatedCompares DEF SlackAsserted
  <2> QED BY <1>1, <2>1, <2>2, <2>3, <2>4, StartInv DEF Starts
<1>4. CASE from_utf8
  <2>1. PICK s \in Slices : req' = Operation("from_utf8", s, 0, Length(s)) /\ Starts(TRUE)
    BY <1>4 DEF from_utf8
  <2>2. /\ s.lo \in Nat /\ s.hi \in Nat /\ s.lo <= s.hi /\ s.hi <= Len(vec)
        /\ Length(s) \in 0 .. MaxLen
    BY SliceFacts DEF BufInv
  <2>3. 0 \in 0 .. UsizeMax /\ Length(s) \in 0 .. UsizeMax
    BY <2>2, BufAssumption
  <2>4. outcome' = "running"
    BY <2>1 DEF Starts
  <2> QED BY <1>1, <2>1, <2>2, <2>3, <2>4, StartInv
<1> QED BY <1>2, <1>3, <1>4 DEF BufRequest
-----------------------------------------------------------------------------
(***************************************************************************)
(* Answers.  What the validator is given is a piece of the vector, so a    *)
(* verdict on the range of the request is one on the same bytes of the     *)
(* vector, and the string that is made of them is sound.                   *)
(***************************************************************************)
LEMMA RequestFacts ==
  ASSUME BufInv, outcome = "running"
  PROVE  /\ req.lo \in Nat /\ req.hi \in Nat /\ req.lo <= req.hi /\ req.hi <= Len(vec)
         /\ req.start \in Nat /\ req.end \in Nat /\ Len(vec) \in Nat
         /\ req.start <= req.end /\ req.end <= Length(req) /\ Length(req) = req.hi - req.lo
<1>1. /\ req.lo \in Nat /\ req.hi \in Nat /\ req.lo <= req.hi /\ req.hi <= Len(vec)
      /\ req.start \in Nat /\ req.end \in Nat /\ Len(vec) \in Nat
  BY BufAssumption DEF BufInv, BufTypeOK, Operations, ReqKept
<1>2. IsCall(Request)
  BY DEF BufInv, ContractKept
<1>3. /\ Request.start = req.start /\ Request.end = req.end
      /\ Request.len = Length(req) /\ Request.buf = Content(req)
  BY DEF Request
<1> QED BY <1>1, <1>2, <1>3 DEF IsCall, SLACK, Length

LEMMA PlaceInVec ==
  ASSUME NEW lo \in Nat, NEW hi \in Nat, NEW size \in Nat, NEW last \in Nat,
         lo <= hi, hi <= size, last <= hi - lo, NEW i \in 0 .. last - 1
  PROVE  /\ i \in 0 .. (hi - lo) - 1 /\ i + lo \in 0 .. size - 1
         /\ i + lo + 1 = lo + i + 1 /\ lo + i + 1 \in 1 .. size
OBVIOUS

LEMMA SameVerdict ==
  ASSUME BufInv, outcome = "running"
  PROVE  is_valid_utf8(Request.buf, req.start, req.end)
           <=> is_valid_utf8(Content(Whole), req.lo + req.start, req.lo + req.end)
<1> DEFINE b == Content(Whole)
           c == Content(req)
<1>1. b = [ k \in 0 .. Len(vec) - 1 |-> vec[k + 1] ]
  <2>1. Whole.lo = 0 /\ Whole.hi = Len(vec) /\ Length(Whole) = Len(vec)
    BY RequestFacts DEF Whole, Length
  <2>2. \A k \in 0 .. Len(vec) - 1 : vec[0 + k + 1] = vec[k + 1]
    BY RequestFacts
  <2> QED BY <2>1, <2>2 DEF Content
<1>2. \A i \in 0 .. Length(req) - 1 : c[i] = vec[req.lo + i + 1]
  BY DEF Content
<1>3. ASSUME NEW i \in 0 .. req.end - 1
      PROVE  /\ i \in 0 .. Length(req) - 1 /\ i + req.lo \in 0 .. Len(vec) - 1
             /\ i + req.lo + 1 = req.lo + i + 1 /\ req.lo + i + 1 \in 1 .. Len(vec)
  BY RequestFacts, PlaceInVec, SMTT(30)
<1>4. \A i \in 0 .. req.end - 1 : c[i] = b[i + req.lo] /\ c[i] \in Int
  <2> HIDE DEF b, c
  <2>1. \A i \in 0 .. req.end - 1 : c[i] = vec[req.lo + i + 1]
    BY <1>2, <1>3
  <2>2. \A i \in 0 .. req.end - 1 : b[i + req.lo] = vec[req.lo + i + 1]
    BY <1>1, <1>3
  <2>3. \A i \in 0 .. req.end - 1 : vec[req.lo + i + 1] \in Byte
    BY <1>3, VecFacts DEF BufInv
  <2> QED BY <2>1, <2>2, <2>3 DEF Byte
<1>5. req.start \in 0 .. req.end
  BY RequestFacts
<1>6. Request.buf = c
  BY DEF Request
<1> HIDE DEF b, c
<1>7. is_valid_utf8(c, req.start, req.end)
        <=> is_valid_utf8(b, req.start + req.lo, req.end + req.lo)
  BY <1>4, <1>5, RequestFacts, ValidShift
<1>8. req.start + req.lo = req.lo + req.start /\ req.end + req.lo = req.lo + req.end
  BY RequestFacts
<1> QED BY <1>6, <1>7, <1>8 DEF b

LEMMA RangeSound ==
  ASSUME BufInv, outcome = "running", is_valid_utf8(Request.buf, req.start, req.end)
  PROVE  RangeOfRequest \in Bounds /\ StrSound(RangeOfRequest)
<1> DEFINE r == RangeOfRequest
<1>1. r.lo = req.lo + req.start /\ r.hi = req.lo + req.end /\ r = [lo |-> r.lo, hi |-> r.hi]
  BY DEF RangeOfRequest
<1>2. r.lo \in 0 .. Len(vec) /\ r.hi \in 0 .. Len(vec) /\ r.lo <= r.hi /\ r.hi <= Len(vec)
  BY <1>1, RequestFacts
<1>3. is_valid_utf8(Content(Whole), r.lo, r.hi)
  BY <1>1, SameVerdict
<1> HIDE DEF r
<1>4. r \in Bounds
  BY <1>1, <1>2 DEF Bounds
<1>5. StrSound(r)
  BY <1>2, <1>3 DEF StrSound
<1> QED BY <1>4, <1>5 DEF r

LEMMA AnswerInv ==
  ASSUME BufInv, NEW valid, BufAnswer(valid),
         valid => is_valid_utf8(Request.buf, req.start, req.end)
  PROVE  BufInv'
<1>1. /\ outcome = "running" /\ UNCHANGED << vec, filled, views, req, word >>
      /\ outcome' \in {"valid", "invalid"}
  BY DEF BufAnswer
<1>2. \A s \in strs' : s \in strs \/ (s \in Bounds /\ StrSound(s))
  <2>1. CASE valid
    BY <1>1, <2>1, RangeSound DEF BufAnswer
  <2>2. CASE ~ valid
    BY <2>2 DEF BufAnswer
  <2> QED BY <2>1, <2>2
<1>3. req' \in Operations /\ word' \subseteq 0 .. 31
  BY <1>1 DEF BufInv, BufTypeOK
<1>4. ReqKept' /\ ContractKept' /\ LoadedInSlice'
  BY <1>1 DEF BufInv, ReqKept, ContractKept, LoadedInSlice
<1>5. PanicsAsDocumented'
  BY <1>1 DEF BufInv, PanicsAsDocumented, PanicIsDue, Length
<1>6. \A v \in views' : v \in views
  BY <1>1
<1> QED BY <1>1, <1>2, <1>3, <1>4, <1>5, <1>6, FrameInv

(***************************************************************************)
(* le_u32: a position up to the length of the payload has SLACK bytes      *)
(* behind it, and four of them make the word.                              *)
(***************************************************************************)
LEMMA LeU32Inv ==
  ASSUME BufInv, le_u32
  PROVE  BufInv'
<1>1. PICK v \in views, at \in Offsets :
        /\ req' = Operation("le_u32", v, at, at)
        /\ IF at <= payload_len(v)
             THEN outcome' = "loaded" /\ word' = load_raw(FourBytes(v, at), 4)
             ELSE outcome' = "panic" /\ word' = {}
  BY DEF le_u32
<1>2. UNCHANGED << vec, filled, views, strs >>
  BY DEF le_u32
<1>3. /\ BufTypeOK /\ v.lo \in Nat /\ v.hi \in Nat /\ v.lo <= v.hi /\ v.hi <= Len(vec)
      /\ Length(v) \in Nat /\ payload_len(v) = Length(v) - SLACK /\ Length(v) = v.hi - v.lo
  BY ViewFacts, BufAssumption DEF BufInv, SLACK, Length
<1>4. at \in 0 .. UsizeMax /\ at \in Nat
  BY BufAssumption
<1>5. /\ req' \in Operations /\ req'.fn = "le_u32" /\ req'.lo = v.lo /\ req'.hi = v.hi
      /\ req'.start = at
  BY <1>1, <1>3, <1>4, OperationTyped DEF Names
<1>6. Length(req)' = Length(v)
  BY <1>5 DEF Length
<1>7. Content(req)' = Content(v)
  BY <1>2, <1>5 DEF Content, Length
<1>8. PanicsAsDocumented'
  BY <1>1, <1>3, <1>4, <1>5, <1>6 DEF PanicsAsDocumented, PanicIsDue, SLACK
<1>9. word' \subseteq 0 .. 31
  BY <1>1, LoadIsWord
<1>10. LoadedInSlice'
  <2>1. SUFFICES ASSUME at <= payload_len(v)
                 PROVE  /\ at + 4 <= Length(v)
                        /\ word' = pack([ k \in 0 .. 3 |-> Content(v)[at + k] ], 4)
    BY <1>1, <1>5, <1>6, <1>7 DEF LoadedInSlice
  <2>2. \A k \in 0 .. 3 : at + k \in 0 .. Length(v) - 1 /\ at + k < Length(v)
    BY <1>3, <1>4, <2>1 DEF SLACK
  <2>3. at + 4 <= Length(v)
    BY <1>3, <1>4, <2>1 DEF SLACK
  <2>4. Content(v) \in [0 .. Length(v) - 1 -> Byte]
    BY <1>3, ContentTyped
  <2>5. FourBytes(v, at) = [ k \in 0 .. 3 |-> Content(v)[at + k] ]
    BY <2>2 DEF FourBytes
  <2>6. FourBytes(v, at) \in [0 .. 4 - 1 -> Byte]
    BY <2>2, <2>4, <2>5
  <2>7. load_raw(FourBytes(v, at), 4) = pack(FourBytes(v, at), 4)
    BY <2>6, LoadIsPack
  <2> QED BY <1>1, <2>1, <2>3, <2>5, <2>7
<1>11. ReqKept' /\ ContractKept'
  BY <1>1, <1>2, <1>3, <1>5 DEF ReqKept, ContractKept
<1>12. /\ \A w \in views' : w \in views
       /\ \A s \in strs' : s \in strs
  BY <1>2
<1> QED BY <1>1, <1>2, <1>5, <1>8, <1>9, <1>10, <1>11, <1>12, FrameInv
-----------------------------------------------------------------------------
LEMMA BufInitInv ==
  ASSUME BufInit
  PROVE  BufInv
<1>1. /\ vec = << >> /\ filled = 0 /\ views = {} /\ strs = {}
      /\ req = NoOperation /\ outcome = "done" /\ word = {}
  BY DEF BufInit
<1>2. BufTypeOK
  BY <1>1, NoOperationTyped, BufAssumption DEF BufTypeOK
<1>3. SlackKept /\ StrsSound /\ PaddingZero
  BY <1>1 DEF SlackKept, StrsSound, PaddingZero
<1>4. ReqKept /\ ContractKept /\ LoadedInSlice /\ PanicsAsDocumented
  BY <1>1, NoOperationTyped
     DEF ReqKept, ContractKept, LoadedInSlice, PanicsAsDocumented, PanicIsDue
<1> QED BY <1>2, <1>3, <1>4 DEF BufInv

LEMMA BufOperationInv ==
  ASSUME BufInv, BufOperation
  PROVE  BufInv'
BY ClientInv, ConstructInv, RequestInv, LeU32Inv DEF BufOperation

LEMMA BufNextInv ==
  ASSUME BufInv, BufNext
  PROVE  BufInv'
<1>1. CASE Answered
  BY <1>1, AnswerInv DEF Answered
<1> QED BY <1>1, BufOperationInv DEF BufNext

LEMMA BufStutterInv ==
  ASSUME BufInv, UNCHANGED bufVars
  PROVE  BufInv'
<1>1. \A v \in views' : v \in views
  BY DEF bufVars
<1>2. \A s \in strs' : s \in strs
  BY DEF bufVars
<1>3. ReqKept' /\ ContractKept' /\ LoadedInSlice' /\ PanicsAsDocumented'
  BY DEF bufVars, BufInv, ReqKept, ContractKept, LoadedInSlice, PanicsAsDocumented,
         PanicIsDue, Request, Content, Length
<1> QED BY <1>1, <1>2, <1>3, FrameInv DEF BufInv, BufTypeOK, bufVars

(***************************************************************************)
(* What new_add_slack wraps: the verdict on the payload is that on what    *)
(* the client wrote, since the rest of the payload is ASCII.               *)
(***************************************************************************)
LEMMA PayloadFollows ==
  ASSUME BufInv
  PROVE  PayloadKept
<1> SUFFICES ASSUME req.fn = "new_add_slack"
             PROVE  /\ filled <= payload_len(req)
                    /\ is_valid_utf8(Content(req), 0, payload_len(req))
                         <=> is_valid_utf8(Content(req), 0, filled)
  BY DEF PayloadKept
<1> DEFINE b == Content(req)
           f == payload_len(req)
<1>1. /\ BufTypeOK /\ req.lo = 0 /\ req.hi = Len(vec) /\ filled + SLACK <= Len(vec)
      /\ filled \in Nat /\ Len(vec) \in Nat /\ PaddingZero
      /\ \A k \in 1 .. Len(vec) : vec[k] \in Byte
  BY VecFacts DEF BufInv, ReqKept
<1>2. f = Len(vec) - SLACK /\ f \in Nat /\ filled \in 0 .. f
  BY <1>1 DEF payload_len, wrapping_sub, Length, SLACK
<1>3. \A i \in 0 .. f - 1 : b[i] = vec[i + 1] /\ i + 1 \in 1 .. Len(vec)
  <2>1. \A i \in 0 .. f - 1 :
          i \in 0 .. Len(vec) - 0 - 1 /\ i + 1 \in 1 .. Len(vec) /\ 0 + i + 1 = i + 1
    BY <1>1, <1>2 DEF SLACK
  <2> QED BY <1>1, <2>1 DEF Content, Length
<1> HIDE DEF b, f
<1>4. \A i \in 0 .. f - 1 : b[i] \in Int
  <2> TAKE i \in 0 .. f - 1
  <2>1. i + 1 \in 1 .. Len(vec) /\ b[i] = vec[i + 1]
    BY <1>3
  <2>2. vec[i + 1] \in Byte
    BY <1>1, <2>1
  <2> QED BY <2>1, <2>2 DEF Byte
<1>5. \A i \in filled .. f - 1 : b[i] \in Ascii
  <2> TAKE i \in filled .. f - 1
  <2>1. i \in 0 .. f - 1 /\ i + 1 \in filled + 1 .. Len(vec)
    BY <1>1, <1>2 DEF SLACK
  <2>2. b[i] = 0
    BY <1>1, <1>3, <2>1 DEF PaddingZero
  <2> QED BY <2>2 DEF Ascii
<1>6. is_valid_utf8(b, 0, filled) <=> is_valid_utf8(b, 0, f)
  BY <1>2, <1>4, <1>5, TrailingAscii, SMTT(30)
<1> QED BY <1>2, <1>6 DEF b, f

-----------------------------------------------------------------------------
(***************************************************************************)
(* The invariant of SlackBuf holds of every client: whatever it wraps,     *)
(* validates, loads, drops and overwrites, in whatever order, in either    *)
(* kind of build.                                                          *)
(***************************************************************************)
THEOREM BufInvariance == BufSpec => []BufInv
<1>1. BufInv /\ [BufNext]_bufVars => BufInv'
  BY BufNextInv, BufStutterInv
<1> QED BY BufInitInv, <1>1, PTL DEF BufSpec

\* Every live view has its slack: payload_len never wraps around.
THEOREM ViewsKeepSlack == BufSpec => []SlackKept
<1>1. BufInv => SlackKept
  BY DEF BufInv
<1> QED BY BufInvariance, <1>1, PTL

\* Every call of the validator that an operation makes meets the contract.
THEOREM ContractAlwaysKept == BufSpec => []ContractKept
<1>1. BufInv => ContractKept
  BY DEF BufInv
<1> QED BY BufInvariance, <1>1, PTL

\* Every live string lies in the vector and is well-formed, at all times.
THEOREM StringsStaySound == BufSpec => []StrsSound
<1>1. BufInv => StrsSound
  BY DEF BufInv
<1> QED BY BufInvariance, <1>1, PTL

\* le_u32 reads the slice only, and returns its bytes in little-endian order.
THEOREM LoadsStayInSlice == BufSpec => []LoadedInSlice
<1>1. BufInv => LoadedInSlice
  BY DEF BufInv
<1> QED BY BufInvariance, <1>1, PTL

\* An operation panics when its documentation says so, and only then.
THEOREM PanicsOnlyAsDocumented == BufSpec => []PanicsAsDocumented
<1>1. BufInv => PanicsAsDocumented
  BY DEF BufInv
<1> QED BY BufInvariance, <1>1, PTL

\* Padding that has become payload never changes the verdict on the payload.
THEOREM PaddingIsHarmless == BufSpec => []PayloadKept
<1>1. BufInv => PayloadKept
  BY PayloadFollows
<1> QED BY BufInvariance, <1>1, PTL

\* The types of the variables.
THEOREM BufTypesKept == BufSpec => []BufTypeOK
<1>1. BufInv => BufTypeOK
  BY DEF BufInv
<1> QED BY BufInvariance, <1>1, PTL
=============================================================================
