# A verification development for smoothutf8

TLA+ modules, TLC configurations and TLAPS proofs for `smoothutf8`, a Rust
crate that decides whether a byte range is well-formed UTF-8. Paths below are
relative to the repository; `lib.rs` is `src/lib.rs`.

## 1. The system

The crate is sequential: no threads, no I/O, nothing that outlives a call. What
makes it hard is that one answer is computed along many paths, chosen by the
length of the range, the slack behind it, the target and the features, which
hand positions and assumptions to each other, and that every path loads bytes
through unchecked pointers.

| part | source | state | operations |
|---|---|---|---|
| specification of UTF-8 | `spec.rs` 22-58 | none | `table_3_7`, `is_valid_utf8`, `all_ascii` |
| entry points | `lib.rs` 184-307 | none | `verify`, `verify_with_slack`, `verify_long`; `from_utf8`, `to_str` |
| `verify_impl` | 726-802 | position `p` | dispatch, ASCII blocks, word loop, tail window |
| `verify_short` | 622-709 | none | ranges below 8 bytes: masked load, overlapping pairs, single byte |
| `ascii_skip` | `ascii_skip.rs` | position `p` | `skip`, in a SWAR, an AVX2 and a NEON build |
| shift DFA | `lib.rs` 831-1008 | none (constant tables) | `build_rows`, `row`, `step` |
| `verify_multibyte` | 1028-1115, 817-820 | `p`, `state` | chunk loop with ASCII re-skip, tail loop; or `core::str` |
| leaf loads | 543-596, `raw.rs` | none | `load64`, `load32`, `load16`, `load8` |
| `SlackBuf` | 320-528 | a slice of at least `SLACK` bytes | constructors, `payload_len`, `verify`, `to_str`, `le_u32` |
| external validators | simdutf8, `core::str` | none | long ranges; multibyte ranges on 32-bit targets |

`verify` and `verify_with_slack` call `verify_long` or `verify_impl`;
`verify_impl` calls `verify_short`, or `skip`, its own word loop and tail
window; all of them end in an answer or in `verify_multibyte`, to which they
hand the position reached and the assumption that everything before it is
ASCII. `SlackBuf` wraps `verify_with_slack`: its four constructors establish, by
a test, an assertion, the caller's word or by appending to a vector, what the
one unsafe call in its safe `verify` relies on. `SlackBuf::to_str` and
`from_utf8` turn a verdict into a string without looking at the bytes again; the
string borrows the buffer, and the borrow checker is all that keeps the bytes
from changing under it.

What makes each part correct:

* *entry points, `verify_impl`, `verify_short`*: the answer is `is_valid_utf8` of
  the range; no load leaves the slice; bytes outside the range never matter; the
  slow path is taken only when there is a reason;
* *`skip`*: what was skipped is ASCII, and it stops only for lack of a block or at a
  block that is not all ASCII;
* *shift DFA*: the packed rows, the flat tables and Table 3-7 agree; each of the
  nine states stands for what the sequence in progress still needs;
* *`verify_multibyte`*: position and state decide the range; re-skipping loses
  nothing; a late test for rejection misses nothing;
* *leaf loads*: in either byte order of the target, the masks, the ORed words, the
  vector reductions and the bytes shifted out say of the bytes what the callers
  take them to say;
* *`SlackBuf`*: a slice shorter than `SLACK` is never wrapped, so that
  `payload_len` does not wrap around; every call of the validator meets its
  contract; no load leaves the slice; an operation panics exactly when its
  documentation says so; padding never changes a verdict; a string is
  well-formed for as long as it lives.

The places where these could go wrong, and a test would hardly tell, are listed
with their lines under `hazards` in `PROJECT.json`.

## 2. The modules

| module | models | role |
|---|---|---|
| `Utf8Table` | `spec.rs` 22-58 | well-formed UTF-8: `Table37`, `is_valid_utf8` (a recursive function) |
| `ShiftDfa` | `lib.rs` 835-1008, `spec.rs` 460-523 | the tables, the row words as sets of one bits, `step`; and `spec_step`, `spec_row`, `Completes` |
| `RuneScan` | (abstract) | what any byte-at-a-time recogniser of Table 3-7 must remember: the open rows |
| `DfaRun` | `lib.rs` 1028-1115, one `step` at a time | the DFA fed arbitrary bytes; implements `RuneScan` |
| `CallContract` | preconditions 256-307, `SLACK` 156-162 | what a caller of the validator must guarantee |
| `CallFrame` | loads 537-597 | the call, the position, the bytes loaded |
| `AsciiSkip` | `ascii_skip.rs` | the three builds of `skip` |
| `VerifyImpl` | `lib.rs` 164-307, 599-820, 1010-1115 | a whole call, from entry to answer; implements `Utf8Validator` |
| `Utf8Validator` | (abstract) | the promise of a call: one right answer, eventually |
| `Words` | `raw.rs`, `shims.rs`, `spec.rs` 60-73, 240-251, 302-305 | words as sets of one bits: loads in both byte orders, masks, extraction |
| `WordImpl` | `lib.rs` 533-802, 1010-1115, `ascii_skip.rs` | `VerifyImpl` once more, computing with words; implements `VerifyImpl` |
| `SlackBuf` | `lib.rs` 256-528 | the public types and functions, as a client uses them over one vector |
| `SlackStack` | the calls between them | `SlackBuf` with `WordImpl` behind it; implements `SlackBuf` |
| `MCDfaRun`, `MCCalls`, `MCVerify`, `MCShort`, `MCWords`, `MCSlackBuf`, `MCSlackStack` | | the instances for TLC |
| `Utf8TableProofs`, `ShiftDfaProofs`, `DfaRunProofs`, `VerifyProofs`, `LoadProofs`, `WordProofs`, `SlackBufProofs`, `SlackStackProofs` | | lemmas and theorems |

`CallContract` extends `Utf8Table`; `CallFrame` extends `CallContract`;
`AsciiSkip` extends `CallFrame`; `VerifyImpl` extends `AsciiSkip` and `ShiftDfa`,
so that a call is one state machine over `call`, `pc`, `p`, `reads`, `state` and
`result`. `WordImpl` extends `VerifyImpl` and `Words` and works with the same
variables. `SlackStack` extends `WordImpl` and `SlackBuf`. The detailed modules
are refinements of the abstract ones in two chains: `WordImpl` => `VerifyImpl` =>
`Utf8Validator`, and `SlackStack` => `SlackBuf`.

### A call: `VerifyImpl` and `WordImpl`

**State.** `call` holds the arguments: the slice (`buf`, `len`), the range
(`start`, `end`) and `pad`, the const parameter `PAD` of the code (0 from
`verify`, 8 from `verify_with_slack`). `p` is the local variable of that name.
`reads` is a history variable: the indices of the bytes the last step loaded.
`state` is the DFA state; `result` is the answer once `pc = "done"`.

**Actions.** One step is one iteration of a loop, or a straight stretch of code
with the branch taken on what it loaded. `pc` names the function or loop the
code is in:

| `pc` | code | actions |
|---|---|---|
| `entry` | `verify`, `verify_with_slack`, head of `verify_impl` | `VerifyLong`, `EnterImpl` |
| `short` | `verify_short` | `ShortEmpty`, `ShortSlack`, `ShortPair4`, `ShortPair2`, `ShortByte` |
| `skip` | loop of `ascii_skip::skip` | `SkipAscii`, `SkipStop`, `SkipEnd` |
| `skipped` | the test after it (743) | `AfterSkip` |
| `words` | word loop and tail window (761-802) | `WordLoop`, `TailLoad`, `WordsDone` |
| `multi` | `verify_multibyte` | `MultiSkip`, `MultiWord`, `MultiByte`, `MultiEnd`; `MultiStd` |

**Builds.** `SkipVariant`, `Simdutf8`, `LONG_THRESHOLD` and `Multibyte` are
constants that stand for the target and the feature set. The theorems hold for
all of their values.

**Data.** A byte is a number below 256. In `VerifyImpl` a load is the set of bytes
it covers, and a sign-bit test asks whether one of them is at least 128. That
this is what the code's arithmetic amounts to is the subject of `WordImpl`,
whose actions (`ShortSlackWord`, `SkipStopWord`, `MultiWordWord`, ...) have the
names of those they replace: there a word is the set of its one bits, `load_raw`
reads the bytes in the byte order of the target (the constant `Endian`) and
swaps them if need be, `|` and `&` are union and intersection, `ShortMask` is
`SIGN_BITS` shifted, the AVX2 skip builds the mask of 32 sign bits and counts its
trailing zeros, the NEON skip ORs two vectors and takes the greatest lane, and
the DFA is fed the bytes shifted out of a word. In both modules a row word of the
DFA is the set of its one bits, `build_rows` shifts and ORs sets, and `step` reads
six bits back.

`ByteAt` gives bytes outside the slice an arbitrary fixed value. Such a load
would be undefined behaviour; `LoadsAllowed` says, and `LoadSafety` proves, that
none happens.

### A client: `SlackBuf` and `SlackStack`

**State.** `vec` is a vector of bytes and `filled` its length when the client last
wrote to it. `views` are the live `SlackBuf`s and `strs` the live strings, each
by its bounds in `vec`. `req` holds the last operation with its slice, range or
position; `outcome` says how it ended: `"running"` while the validator works, then
`"valid"` or `"invalid"`; `"some"`, `"none"` and `"loaded"` for the operations that
return a value at once; `"panic"`; `"done"` for a step of the client. `word` is
what `le_u32` returned.

**Actions.** `new`, `new_embedded_slack`, `new_unchecked`, `new_add_slack`, `verify`,
`to_str`, `verify_with_slack`, `from_utf8` and `le_u32` are the functions of those
names, with their tests, assertions and debug assertions (`DebugAssertions`).
`Extend`, `Truncate`, `DropView` and `DropStr` are what the code between two calls
may do. `BufAnswer` is the return of the validator, and what `to_str` and
`from_utf8` make of it. In `SlackBuf` the answer is right by definition; in
`SlackStack` the request becomes a call of `WordImpl` (`Operate`), whose steps
(`Run`) lead to the answer (`Finish`). There `Calls` is empty: no call is
assumed to meet the contract of the validator, all of them come from requests.

**Borrows.** Rust's lifetimes appear as guards. A view and a string borrow the
vector for `'a`, so the steps that write to it, `new_add_slack` among them, need
`Unborrowed`. A string does *not* borrow the view it was obtained from, so
`DropView` has no such guard. The model is of one client; clients in several
threads can share a view but not write through it, so there is nothing they could
disturb.

**Integers.** Positions and lengths are `usize`, up to `UsizeMax`: `payload_len`
wraps around in a release build (in a debug build the subtraction would panic;
`SlackKept` shows that it never has to), and the debug assertion of
`verify_with_slack` saturates. `BufAssumption` says that no vector is longer than
half of `UsizeMax`, which is what the allocator guarantees (`isize::MAX`).

An unsafe function (`new_unchecked`, `verify_with_slack`) may be called by a client
that breaks its precondition if the build checks it, and must not be otherwise.

Definitions that start with the comment "Defect:" are variants of the next
definition with a plausible bug in them. `PROJECT.json` lists, for each property
of each run, the defect that violates it.

## 3. Properties

* `LoadsAllowed`: loads stay in the slice and in the range, except that the masked
  load of a range below eight bytes may reach seven bytes into the slack (the
  doc of `SLACK`).
* `AsciiSoFar`, `SkipContract`: what `skip` and the word loop have passed over is
  ASCII, and `skip` stops for one of its two documented reasons.
* `SlowPathJustified` (action): `verify_multibyte` is entered only if a byte of the
  rest it is given is not ASCII, as its doc comment says. It fails if slack bytes,
  or the bytes that overlapping loads see twice, could influence the path.
* `StateSummarises`: in `verify_multibyte`, the range is well-formed if and only if
  the bytes from `p` on complete the sequence that `state` stands for.
* `StateIsRun`: in `verify_multibyte`, `state` is `run(ACCEPT, ...)` over everything from
  the start of the range to `p`: the invariant that the annotations of both loops
  state for their part (`lib.rs` 1039, 1102), claimed of the bytes skipped before it as well.
* `EachStepAdvances` (action): every step lowers `StepsLeft`, a natural number: the
  `decreases` clauses of the loops, joined across the hand-offs between them.
* `Correct`: the answer is `is_valid_utf8` of the range.
* `ImplementsValidator`: a call implements `Utf8Validator`, with
  `returned <- pc = "done"`; liveness included, so every call returns.
* `StateNamesTheRest`, `TablesAgree`, `RejectAbsorbs`, `ImplementsRuneScan`: the DFA
  against Table 3-7, see the comments in `DfaRun`.
* `Inv`: the inductive invariant of the proofs.
* `ImplementsLanes`: every step computed with words is a step of `VerifyImpl`, on
  targets of either byte order, and a call goes on until it is answered.
* `SlackKept`: every live view has `SLACK` bytes behind its payload and lies in the
  vector, however it came about and whatever was done to the vector since.
* `ContractKept`: whenever the validator runs, it was given a slice and a range that
  meet its contract: the `SAFETY` comments of the unsafe calls.
* `StrsSound`: every string the client holds lies in the vector and is well-formed
  now, not only when it was made.
* `LoadedInSlice`: `le_u32` reads four bytes of the slice, at `payload_len` all of
  them slack, and returns them in little-endian order.
* `PanicsAsDocumented`: a safe operation panics if and only if its `Panics` section says
  so, computed in whole numbers: neither wrapping nor saturation makes a difference.
  `new_unchecked` and `verify_with_slack` are unsafe and have no such section: a debug
  build panics there exactly when the client breaks the precondition.
* `PayloadKept`: all that was written to the vector is payload of the view
  `new_add_slack` returns, and if the vector still carried the padding of an earlier
  view, the verdict on the payload is the verdict on what was written.
* `BufInv`: the inductive invariant of the proofs about `SlackBuf`.
* `VerdictsRight`: a verdict that has reached the client of the whole crate is right of
  the bytes it named, taken at their place in the vector, and a string is made of a
  range only after a favourable one.
* `RequestAdvances` (action): while a request waits, every step of the crate lowers
  `StepsLeft`. That there always is a next step is the deadlock check's to say, and
  `ImplementsSlackBuf`'s, which has every request answered.
* `ImplementsSlackBuf`: what the client sees of the whole crate is what `SlackBuf`
  promises; every request is answered.

**Fairness.** `WF_vars(Next)`: the code is sequential and blocks on nothing, so a
call that has a next step takes it. `WordImpl` has the same. In `SlackBuf` it is
`WF(Answered)` and in `SlackStack` `WF(Run \/ Finish)`: a call that has begun goes
on until it has returned. Nothing obliges a client to call, to drop or to write.

## 4. The runs

| run | build | instance | shows |
|---|---|---|---|
| `dfa` | | bytes at both ends of each range of `CLASS` and Table 3-7 | the DFA against Table 3-7, and the packed rows |
| `swar` | default | ranges of 8, 9, 15, 16, 17, 24, 25, 33 bytes | loads, hand-offs, the DFA state as a run of what is past and as a summary of what is left, answers, termination |
| `avx2` | `+avx2` | 31, 32, 33, 40, 65 bytes | a skip that stops inside a block |
| `neon` | aarch64 with simdutf8 | 32, 33, 39, 63, 64 bytes | both sides of the threshold, the delegated slice, the measure |
| `std32` | 32-bit | 2 to 23 bytes | the rest goes to `core::str`; `Inv`, `Correct` in it |
| `short` | default | all strings of up to 3 bytes over 16 values, of 5 over 5, of 7 over 3 | `verify_short` and the tail loop |
| `words_big` | default, big-endian | 1 to 5, 7, 8, 17, 19 bytes | masks, pairs and extracted bytes on words |
| `words_avx2` | `+avx2` | 6, 32, 33, 41 bytes | the lane mask and its trailing zeros |
| `words_neon` | aarch64 | 32, 41 bytes | the ORed vectors and their maximum |
| `slackbuf` | release, big-endian | vectors of up to 21 bytes, two views, two strings | the seven properties of `SlackBuf` |
| `slackstack` | debug | vectors of up to 19 bytes, one view, one string | loads, panics, verdicts and progress of the whole crate |
| `rescan` | aarch64 | 32, 39 bytes | a comment that the code contradicts (below) |

`Correct` has no line of its own in the runs that check `ImplementsValidator` (whose
`Return` demands the right answer) or `Inv` (of which it is a part).

**Bounds and why they are enough.** The code looks at lengths through 1, 2, 4,
8, `STEP` and `LONG_THRESHOLD`, and each loop repeats itself after one
iteration. The lengths lie on both sides of each of those numbers, of one and
of two blocks, and leave tails of 0, 1 and 7 bytes. `MCVerify` plants each of 22
sequences (the first and last of the rows of the table, and sequences wrong by
one byte or by a word of ASCII in their midst) at *every* position, and leaves ranges that are all ASCII; this covers every way to straddle a lane, word,
chunk, block, window or end of the range; a sequence cut off by the end is
truncated. `Doubles` plants two sequences with room for an ASCII word between
them, for the re-skip. `Slacked` surrounds the range with bytes that would begin
a sequence before it and complete one behind it. In `neon` the threshold is the
code's 64; in the other runs simdutf8 is off. Nothing else is bounded: positions
stay in the range by themselves. In `dfa`, `rune` is bounded because a sequence
has at most four bytes.

The `words` runs need each load and each mask at each value of its operands that
matters: every width, every number of lanes kept, a non-ASCII byte in every lane
of a word and of a block. The lengths have each branch of `verify_short`, one and
two blocks, a word and a tail.

The runs of `SlackBuf` bound the vector (`MaxLen`), the views and the strings
(`MaxViews`, `MaxStrs`), the positions a client may pass (`Offsets`, besides the
length) and what it appends (`Chunks`). Twenty-one bytes are two paddings and five
bytes of the client. The chunk of three bytes is a letter and a whole character of two bytes;
appended twice and truncated to five, it leaves the second character cut off. Either
can be wrapped, dropped and wrapped again, so that `PayloadKept` compares the
verdict on old padding and content with the verdict on the content where the content is
empty, whole and cut off. `UsizeMax` is 63, and 57 lies within `SLACK` of it. Position 5
(in `slackbuf`) lies inside a character in some vectors and at a boundary in others, and a slice
that begins or ends there can have no payload at all, fewer than four bytes of
slack behind a position, or less than `SLACK` bytes. The chunks have a whole
sequence, and continuation bytes that would complete a sequence cut off before
them. Two views and two strings show that it takes the last one to free the
vector. The `slackstack` run has one of each, because it adds the steps of every
call; its ranges within a view begin and end at 0 or 4, with slack
behind them, so that the masked load cuts a character in two, and `from_utf8`
takes whole slices of most lengths up to 19, which have the pairs, the skip, the
tail window and the DFA.

**Finding** (`rescan`). The doc comment of the NEON `skip` says that on a block
that is not all ASCII "the caller's 8-byte loop re-scans the block"
(`ascii_skip.rs` 81). `verify_impl` does not: with a whole block left it calls
`verify_multibyte` at once (743-746). Only the comment is affected.

## 5. The proofs

`tlapm` checks eight modules, for all values of the constants. The assumptions are
those the modules name: `CallsAssumption` (a call meets the documented
preconditions), `SkipVariantAssumption`, `BuildAssumption`, `EndianAssumption`,
`BytesAssumption` (what the DFA is fed are bytes) and `BufAssumption` (`usize` can
count the bytes of a vector). Every invariant and every action property that a
passing run checks is also a theorem; of the refinements, everything but the fairness is.

Facts about ranges of any length are proved by induction over positions. The
library's induction theorems take an operator and cannot be used; `Downward` and
`Upward` (`Utf8TableProofs`) speak of the *set* of positions a claim holds of instead,
and rest on the least element of a set of numbers (`LeastOf`).

**The table and the DFA.**

* **`ValidConcat`** (`Utf8TableProofs`): behind a well-formed range, the verdict on the
  whole is the verdict on what follows. Induction on the sequences of the first part.
* **`RowsAreSpecRows`** (`ShiftDfaProofs`): the 256 row words that `build_rows` makes of
  `CLASS` and `TRANS` are the literals of `spec_row`, bit for bit. The compile-time check
  `_CHECK_SPEC_ROW` says so for each byte; here the classes are dealt with one by one.
  With `StepIsSpecStep` it gives **`TablesAlwaysAgree`** (`DfaRunProofs`).
* **`StepIsSpecStep`** (`ShiftDfaProofs`): for every state and byte, `step` on the
  packed rows is `spec_step`. `SuccessorIsSpec` reads the successor off `CLASS` and
  `TRANS`, `BitOfField` shows that the fields of a row word do not disturb each
  other (a successor is below 64 and the fields lie six bits apart), `SumOfBits`
  puts the six bits together again.
* **`CompletesStep`**: one step of the DFA over one byte keeps
  `Completes(state, buf, p, end)`. It needs `is_valid_utf8` unfolded once. That a
  recursive function satisfies its defining equation is itself proved
  (`UnfoldValid`), with a witness that needs no induction: a suffix is
  well-formed if some set of boundaries leads from its start to the end.
* **`RunJoin`, `RunCompletes`, `RunValid`** (`ShiftDfaProofs`): `run` is the left fold of
  `spec_step` (`UnfoldRun`, proved as for `is_valid_utf8`: from the uniqueness of the
  trace that a run leaves). A run may be cut anywhere (`RunJoin`); from any state it
  ends in `ACCEPT` exactly if the bytes complete what the state stands for; and so the
  DFA accepts exactly the well-formed ranges, of any length.
* **`StateIsOpenRows`, `RejectionIsFinal`, `DfaImplementsScan`** (`DfaRunProofs`): the
  nine states are exactly the distinctions that Table 3-7 requires between
  unfinished sequences, and the DFA implements `RuneScan`, which remembers the open
  rows themselves. `StateNamesTheRest` and `TypeOK` are inductive together:
  `OpenAfter` says that a byte keeps the open rows whose next range contains it,
  and `StepInside` and `StepLead` that the step takes the state of the remaining
  ranges to the state of what remains after the first. `RuneScan` has no
  fairness, so `DfaImplementsScan` is the whole refinement.

**A call.**

* **`Invariance`** (`VerifyProofs`): `Spec => []Inv`. `Correct` alone is not inductive. What
  carries it is `RestDecides` (while only ASCII has been passed over, the answer for
  the range is the answer for its rest) on the ASCII paths and `StateSummarises` in
  `verify_multibyte`; both need `AsciiSoFar` or `TypeOK`, and the loads need the
  lengths that `Positions` records. Every way out of an ASCII path is a `Return`
  or an `EnterMultibyte`, each dealt with in one lemma.
* **`TypeCorrectness`, `LoadSafety`, `AsciiPrefix`, `SkipKeepsContract`,
  `StateIsSummary`, `Correctness`** are its corollaries: the invariants that the
  runs check, for every slice, range, build and threshold.
* **`SlowPathHasReason`**: `Spec => SlowPathJustified`, from `Inv` and a case for each
  step into `verify_multibyte`.
* **`StateOfTheRun`**: `Spec => []StateIsRun`. It is inductive together with `Inv`: a word that
  is skipped leaves a run at `ACCEPT` where it was (`RunAscii`), a chunk is eight
  times `RunSnoc` (`RanWord`), and on entry everything before `p` is ASCII (`AsciiSoFar`), so that
  the run has not left `ACCEPT` (`EntersAtAccept`).
* **`CallsAdvance`, `StepsBounded`**: each step lowers `StepsLeft`; and a call takes no more than
  one step for each word of the range and 19 more. The second speaks of a variable that counts the
  steps a call takes (`Counted`): with `Inv`, the count and `StepsLeft` together never exceed what
  `StepsLeft` was on entry (`StepsLeftAtEntry`), because each step adds one and takes off at least one.
  The measure counts the words of what is left, the bytes behind the last of them, and a
  toll for each change of loop, large enough that a hand-off never raises it although the
  next loop takes smaller strides. That every behaviour with a next step takes it is the fairness of `Spec`;
  that it then ends is this theorem.
* **`SafeValidator`**: a call begins as `Utf8Validator` begins and each of its steps is
  that module's `Return` or changes nothing it sees. `StepShape` says that a step
  goes on with the same call or returns, and `Inv` gives the answer.

**Words.**

* **`LoadIsPack`** (`LoadProofs`): whatever the byte order of the target, a load after
  its conversion is the little-endian packing of the bytes.
* **`WordsImplementLanes`** (`WordProofs`): every step computed with words is a step of
  `VerifyImpl`; so **`WordCorrectness`**, **`WordSlowPath`**, **`WordsAdvance`**, and with
  them every invariant above. **`LanesImplementWords`** is the converse: every step of
  `VerifyImpl` is one computed with words, so the lanes add no behaviour, and what TLC
  finds or does not find on them is a fact about the words. One lemma
  for each kind of test relates bits to bytes: `SignTest` (a word), `PairTest` (two
  ORed words), `MaskTest` (some lanes of a word), `BlockTest` (a vector), `StopTest`
  (where a skip stops), `ByteOfLoad` (a byte shifted out).

**The client.**

* **`BufInvariance`** (`SlackBufProofs`): `BufSpec => []BufInv`. The invariant says of views
  and strings what their constructors established (`SlackKept`, `StrsSound`). It
  survives because a step that writes needs `Unborrowed` and the others leave `vec`
  alone (`FrameInv`); that a string is well-formed *in the vector*, not only in the
  slice it was judged in, is `RangeSound`, from the fact that a verdict depends on
  the bytes of the range only (`ValidShift`). `PaddingZero` is needed for `PayloadKept`: what lies
  between `filled` and the end of the vector is ASCII, so that padding appended
  twice does not change the verdict (`PayloadFollows`, by `TrailingAscii`).
* **`ViewsKeepSlack`, `ContractAlwaysKept`, `StringsStaySound`, `LoadsStayInSlice`,
  `PanicsOnlyAsDocumented`, `PaddingIsHarmless`** are its corollaries.
* **`StackImplementsSlackBuf`** (`SlackStackProofs`): what the client sees of the whole crate
  is a behaviour of `SlackBuf`. `StackInv` adds to `BufInv` and `Inv` that the call
  under way is the request (`Linked`). `ContractKept` is what makes the call
  one that `Inv` can be claimed for, so the assumption on `Calls` is discharged
  here: it is not an assumption about the client any more. **`StackLoads`**,
  **`StackStrings`** and **`StackPanics`** follow: no load of the validator leaves the slice,
  every string is well-formed, and the crate panics where it says so, for every
  client that keeps the documented conditions.
* **`StackVerdicts`**: the correctness of the public functions, end to end. The answer of
  the call is right of the slice it was given (`Inv`), and so of the same bytes in the
  vector (`SameVerdict`); it stays so until the next operation because a step of the client that
  writes also forgets the verdict. **`StackAdvances`**: while a request waits only the
  validator takes steps, each of which lowers the measure of `CallsAdvance`.

**Against the proofs the repository has.** `src/README.md` (section Verification) describes
a Verus proof of the default x86-64 build and a RefinedRust proof of the leaf
loads. Their lemmas reappear as follows:

| `spec.rs` | here |
|---|---|
| `lemma_pack64_byte` | `LoadIsPack`, `ByteOfLoad` |
| `lemma_signbits16`, `8`, `4`, `2` | `SignTest`, `PairTest`, `BlockTest` |
| `lemma_sign_mask_bits`, `lemma_mask_zero_ascii` | `MaskTest` |
| `lemma_tz_ascii` | `StopTest` |
| `lemma_ascii_extend`, `lemma_ascii_valid`, `lemma_ascii_prefix_iff` | `AsciiSpan`, `AsciiIsValid`, `RestDecides` in `Inv` |
| `lemma_valid_concat`, `split`, `join` | `ValidConcat` |
| `lemma_row_step`, the literals of `spec_row` | `StepIsSpecStep`, `RowsAreSpecRows` |
| `lemma_run_append`, `lemma_run_join` | `RunJoin` |
| `lemma_run_snoc`, `lemma_trunc_byte64`, `lemma_chunk_snoc` | `RunSnoc`, `RanWord`, `DfaWord` |
| `lemma_run_reject` | `RunRejected` |
| `lemma_run_valid` | `RunValid` |
| loop invariants of `verify_multibyte` (`lib.rs` 1039, 1102) | `StateOfTheRun` |
| `decreases` clauses | `CallsAdvance` |

Beyond them, the proofs here cover parts which that section lists as outside: the AVX2
and NEON scans, the runtime `SlackBuf` methods, big-endian targets, and the calls
around an external validator.

**Only model-checked.** That calls return and requests are answered, as temporal
formulas: the conjunct for fairness in `ImplementsValidator`, `ImplementsLanes` and
`ImplementsSlackBuf`, since fairness speaks of `ENABLED`, which is out of the prover's
reach. What is proved of it is the measure (`CallsAdvance`, `WordsAdvance`, `StackAdvances`); that a call
which has not returned has a next step is what the deadlock checks of the runs add.

**Assumed.** simdutf8 and `core::str::from_utf8` answer rightly on the slice they
are given; a slice holds `len` initialised bytes; Rust's borrow checker enforces
what section 2 lists as guards.

## 6. Not modelled

* simdutf8 and `core::str::from_utf8` themselves: other people's code. Which slice they
  are given, and what is made of the answer, is modelled.
* The Verus proof functions of `spec.rs` are proofs of this code in another tool and do
  not run; section 5 says what answers them. Of the RefinedRust shims the two
  operations they describe are in `Words`.
* Where a vector lies in memory: a growing vector moves, which matters only to a
  borrow that Rust refuses, and failure to allocate ends the program.
* Threads: a shared view can only be read, so nothing can interleave.
* Tests, fuzz targets, benchmarks, examples, scripts, CI: no state of the program.

## 7. The plan

1. *(done)* `Utf8Table`, `ShiftDfa`, `DfaRun`; `CallFrame`, `AsciiSkip`,
   `VerifyImpl`; their runs; the invariance proofs.
2. *(done)* The leaf loads, masks and extracted bytes: `Words`, `WordImpl`.
3. *(done)* The client: `SlackBuf`, and `SlackStack` with the whole crate under it.
4. *(done)* Theorems: `DfaRun`, the safety part of `ImplementsValidator`, the words, the
   invariants of `SlackBuf`, the refinement of the stack.
5. *(done)* The packed rows as a theorem over bits, concatenation and runs of any
   length, the DFA state as a run, a measure for every call, both directions between
   words and lanes, verdicts and panics of the whole crate end to end.
6. Left: what a SlackBuf is worth to readers other than the validator, once the crate
   has some (`le_u32` is the only one); a theorem that no two of the nine states
   could be merged, which is about the design and not the correctness of the tables.
