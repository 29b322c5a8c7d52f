----------------------------- MODULE SlackStack -----------------------------
(***************************************************************************)
(* The whole crate at work (src/src/lib.rs): the requests of SlackBuf,     *)
(* answered by the code of WordImpl.  No call is assumed to meet the       *)
(* contract of the validator here: each one comes from an operation of the *)
(* client, through the checks that operation makes.                        *)
(***************************************************************************)
EXTENDS WordImpl, SlackBuf

stackVars == << call, pc, p, reads, state, result, bufVars >>

(***************************************************************************)
(* Between calls the variables of the validator are those of a finished    *)
(* call, that of an empty slice.                                           *)
(***************************************************************************)
NoCall ==
  [buf |-> [ k \in 0 .. -1 |-> 0 ], len |-> 0, start |-> 0, end |-> 0, pad |-> 0]

StackInit ==
  /\ BufInit
  /\ call = NoCall /\ pc = "done" /\ p = 0
  /\ reads = {} /\ state = ACCEPT /\ result = TRUE

\* The request becomes a call, from the entry point on.
Call ==
  /\ call' = Request'
  /\ pc' = "entry"
  /\ p' = req'.start
  /\ reads' = {}
  /\ state' = ACCEPT
  /\ result' = FALSE

Operate ==
  /\ BufOperation
  /\ IF outcome' = "running" THEN Call ELSE UNCHANGED vars

Run ==
  /\ outcome = "running"
  /\ pc # "done"
  /\ WordNext
  /\ UNCHANGED bufVars

\* The call has returned to the operation that made it.
Finish ==
  /\ pc = "done"
  /\ BufAnswer(result)
  /\ call' = NoCall /\ pc' = "done" /\ p' = 0
  /\ reads' = {} /\ state' = ACCEPT /\ result' = TRUE

StackNext == Operate \/ Run \/ Finish

(***************************************************************************)
(* The thread of a call goes on until the call is answered.                *)
(***************************************************************************)
StackSpec == StackInit /\ [][StackNext]_stackVars /\ WF_stackVars(Run \/ Finish)
-----------------------------------------------------------------------------
(***************************************************************************)
(* What from_utf8, to_str, verify and verify_with_slack return: the answer *)
(* is that of Table 3-7 for the range asked about, taken of the slice as   *)
(* it is when the answer is given, and Some comes with the string.  The    *)
(* range is found again in the vector on one side, in the loads of the     *)
(* validator on the other.                                                 *)
(***************************************************************************)
VerdictsRight ==
  outcome \in {"valid", "invalid"} =>
    /\ outcome = "valid" <=> is_valid_utf8(Content(Whole), req.lo + req.start, req.lo + req.end)
    /\ outcome = "valid" /\ req.fn \in {"to_str", "from_utf8"} => RangeOfRequest \in strs

(***************************************************************************)
(* A request that has not been answered is nearer to its answer after each *)
(* step: no operation of the client holds it up, and the loops and the     *)
(* hand-offs between them never give back what was gained.  (That there is *)
(* a next step until it is answered, ImplementsSlackBuf says.)             *)
(***************************************************************************)
RequestAdvances ==
  [][ outcome = "running" /\ outcome' = "running"
        => 0 <= StepsLeft' /\ StepsLeft' < StepsLeft ]_stackVars

(***************************************************************************)
(* What the client sees is what SlackBuf promises it: every request is     *)
(* answered, rightly, and nothing else changes meanwhile.                  *)
(***************************************************************************)
ImplementsSlackBuf == BufSpec
=============================================================================
