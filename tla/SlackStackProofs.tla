-------------------------- MODULE SlackStackProofs --------------------------
(***************************************************************************)
(* The crate as a whole: the code of the validator, called by SlackBuf,    *)
(* does what SlackBuf takes it to do, and SlackBuf never calls it but in   *)
(* accordance with its contract.  The invariant is that of SlackBuf, that  *)
(* of the call, that the call is the one requested, and that the last      *)
(* answer given was right.                                                 *)
(***************************************************************************)
EXTENDS SlackStack, SlackBufProofs, WordProofs

\* While a request is being worked on, the call is the one that was requested.
Linked ==
  /\ outcome = "running" => call = Request
  /\ outcome # "running" => pc = "done"

StackInv == BufInv /\ Inv /\ Linked /\ VerdictsRight

-----------------------------------------------------------------------------
\* The variables of the validator between calls.
Between ==
  /\ call = NoCall /\ pc = "done" /\ p = 0
  /\ reads = {} /\ state = ACCEPT /\ result = TRUE

LEMMA BetweenInv == Between => Inv
<1> SUFFICES ASSUME Between PROVE Inv
  OBVIOUS
<1>1. /\ call = NoCall /\ pc = "done" /\ p = 0
      /\ reads = {} /\ state = ACCEPT /\ result = TRUE
  BY DEF Between
<1>2. /\ IsCall(call) /\ start = 0 /\ end = 0 /\ len = 0 /\ PAD = 0
  BY <1>1 DEF NoCall, IsCall, start, end, len, PAD
<1>3. TypeOK
  BY <1>1, <1>2 DEF TypeOK, is_state, States
<1>4. result = is_valid_utf8(buf, start, end)
  BY <1>1, <1>2, <1>3, ValidFacts DEF Valid
<1>5. LoadsAllowed
  BY <1>1 DEF LoadsAllowed
<1>6. /\ AsciiSoFar /\ SkipContract /\ WordLoopShort /\ Positions
      /\ RestDecides /\ StateSummarises /\ Correct
  BY <1>1, <1>4 DEF AsciiSoFar, SkipContract, WordLoopShort, Positions, RestDecides,
              StateSummarises, Correct
<1> QED BY <1>3, <1>5, <1>6 DEF Inv

\* The same of the next state.
LEMMA FreshNext == Fresh' => Inv'
BY FreshInv, PTL

LEMMA BetweenNext == Between' => Inv'
BY BetweenInv, PTL

-----------------------------------------------------------------------------
\* No operation begins while another is under way, and none has an answer at once.
LEMMA OperationsWait ==
  ASSUME BufOperation
  PROVE  outcome # "running" /\ outcome' \notin {"valid", "invalid"}
<1>1. CASE Client
  BY <1>1 DEF Client, Extend, Truncate, DropView, DropStr, Quietly, Idle
<1>2. CASE Construct
  BY <1>2 DEF Construct, new, new_embedded_slack, new_unchecked, new_add_slack,
              Wrapped, Refused, Idle
<1>3. CASE BufRequest
  BY <1>3 DEF BufRequest, verify, to_str, verify_with_slack, from_utf8,
              ViewRequest, Starts, Idle
<1>4. CASE le_u32
  BY <1>4 DEF le_u32, Idle
<1> QED BY <1>1, <1>2, <1>3, <1>4 DEF BufOperation

\* No step of the validator changes what it was called with.
LEMMA CallStays ==
  ASSUME Next
  PROVE  call' = call
<1>1. CASE VerifyLong \/ EnterImpl
  BY <1>1 DEF VerifyLong, EnterImpl, Return
<1>2. CASE VerifyShort
  BY <1>2 DEF VerifyShort, ShortEmpty, ShortSlack, ShortPair4, ShortPair2, ShortByte,
              ShortPair, AsciiOr, Return, EnterMultibyte
<1>3. CASE SkipPrefix
  BY <1>3 DEF SkipPrefix, Skip, SkipAscii, SkipStop, SkipEnd
<1>4. CASE VerifyWords
  BY <1>4 DEF VerifyWords, AfterSkip, WordLoop, TailLoad, WordsDone, AsciiOr, Return,
              EnterMultibyte
<1>5. CASE VerifyMultibyte
  BY <1>5 DEF VerifyMultibyte, MultiSkip, MultiWord, MultiByte, MultiEnd, MultiStd, Return
<1>6. CASE Terminating
  BY <1>6 DEF Terminating, vars
<1> QED BY <1>1, <1>2, <1>3, <1>4, <1>5, <1>6 DEF Next

-----------------------------------------------------------------------------
LEMMA OperateStep ==
  ASSUME StackInv, Operate
  PROVE  StackInv' /\ BufNext
<1>1. BufInv /\ Inv /\ Linked /\ BufOperation /\ BufNext
  BY DEF StackInv, Operate, BufNext
<1>2. BufInv' /\ VerdictsRight'
  BY <1>1, BufOperationInv, OperationsWait DEF VerdictsRight
<1>3. CASE outcome' = "running"
  <2>1. Call
    BY <1>3 DEF Operate
  <2>2. IsCall(Request)'
    BY <1>2, <1>3 DEF BufInv, ContractKept
  <2>3. start' = req'.start
    BY <2>1 DEF Call, start, Request
  <2>4. Fresh'
    BY <2>1, <2>2, <2>3 DEF Fresh, Call
  <2>5. Linked'
    BY <1>3, <2>1 DEF Linked, Call
  <2> QED BY <1>1, <1>2, <2>4, <2>5, FreshNext DEF StackInv
<1>4. CASE outcome' # "running"
  <2>1. UNCHANGED vars
    BY <1>4 DEF Operate
  <2>2. Inv'
    BY <1>1, <2>1, StutterInv
  <2>3. pc' = "done"
    BY <1>1, <2>1, OperationsWait DEF Linked, vars
  <2> QED BY <1>1, <1>2, <1>4, <2>2, <2>3 DEF StackInv, Linked
<1> QED BY <1>3, <1>4

LEMMA RunStep ==
  ASSUME StackInv, Run
  PROVE  StackInv' /\ UNCHANGED bufVars
<1>1. BufInv /\ Inv /\ Linked /\ outcome = "running" /\ WordNext /\ UNCHANGED bufVars
  BY DEF StackInv, Run
<1>2. Next
  BY <1>1, WordStep
<1>3. Inv'
  BY <1>1, <1>2, NextInv
<1>4. BufInv'
  BY <1>1, BufStutterInv
<1>5. Request' = Request /\ outcome' = "running"
  BY <1>1 DEF bufVars, Request, Content, Length
<1>6. Linked' /\ VerdictsRight'
  BY <1>1, <1>2, <1>5, CallStays DEF Linked, VerdictsRight
<1> QED BY <1>1, <1>3, <1>4, <1>6 DEF StackInv

LEMMA FinishStep ==
  ASSUME StackInv, Finish
  PROVE  StackInv' /\ BufNext
<1>1. BufInv /\ Inv /\ Linked /\ pc = "done" /\ BufAnswer(result)
  BY DEF StackInv, Finish
<1>2. outcome = "running" /\ outcome' # "running" /\ call = Request
  BY <1>1 DEF BufAnswer, Linked
<1>3. buf = Request.buf /\ start = req.start /\ end = req.end
  BY <1>2 DEF buf, start, end, Request
<1>4. result = is_valid_utf8(Request.buf, req.start, req.end)
  BY <1>1, <1>3 DEF Inv, Correct
<1>5. BufInv'
  BY <1>1, <1>4, AnswerInv
<1>6. Inv'
  <2>1. Between'
    BY DEF Finish, Between
  <2> QED BY <2>1, BetweenNext
<1>7. Linked'
  BY <1>2 DEF Finish, Linked
<1>8. Answered
  BY <1>1, <1>2, <1>4 DEF Answered
<1>9. VerdictsRight'
  <2>1. result <=> is_valid_utf8(Content(Whole), req.lo + req.start, req.lo + req.end)
    BY <1>1, <1>2, <1>4, SameVerdict
  <2>2. UNCHANGED << vec, req >> /\ (outcome' = "valid" <=> result)
    BY <1>1 DEF BufAnswer
  <2>3. Content(Whole)' = Content(Whole) /\ RangeOfRequest' = RangeOfRequest
    BY <2>2 DEF Content, Whole, Length, RangeOfRequest
  <2>4. outcome' = "valid" /\ req'.fn \in {"to_str", "from_utf8"} => RangeOfRequest \in strs'
    BY <1>1, <2>2 DEF BufAnswer
  <2> QED BY <2>1, <2>2, <2>3, <2>4 DEF VerdictsRight
<1> QED BY <1>5, <1>6, <1>7, <1>8, <1>9 DEF StackInv, BufNext

LEMMA StackStep == StackInv /\ [StackNext]_stackVars => StackInv' /\ [BufNext]_bufVars
<1> SUFFICES ASSUME StackInv, [StackNext]_stackVars PROVE StackInv' /\ [BufNext]_bufVars
  OBVIOUS
<1>1. CASE StackNext
  BY <1>1, OperateStep, RunStep, FinishStep DEF StackNext
<1>2. CASE UNCHANGED stackVars
  <2>1. UNCHANGED bufVars /\ UNCHANGED vars /\ call' = call
    BY <1>2 DEF stackVars, vars
  <2>2. BufInv' /\ Inv'
    BY <2>1, BufStutterInv, StutterInv DEF StackInv
  <2>3. Linked' /\ VerdictsRight'
    BY <1>2 DEF StackInv, Linked, VerdictsRight, stackVars, bufVars, Request, Content,
                Length, Whole, RangeOfRequest
  <2> QED BY <2>1, <2>2, <2>3 DEF StackInv
<1> QED BY <1>1, <1>2

LEMMA StackInitInv == StackInit => StackInv /\ BufInit
<1> SUFFICES ASSUME StackInit PROVE StackInv /\ BufInit
  OBVIOUS
<1>1. BufInit /\ Between /\ outcome = "done"
  BY DEF StackInit, Between, BufInit
<1> QED BY <1>1, BufInitInv, BetweenInv DEF StackInv, Linked, VerdictsRight, Between

LEMMA StackInvariance == StackSpec => []StackInv
BY StackInitInv, StackStep, PTL DEF StackSpec

-----------------------------------------------------------------------------
(***************************************************************************)
(* The crate implements what SlackBuf promises: every request is answered  *)
(* as the table of well-formed sequences has it, and nothing else happens  *)
(* to what the client holds.  This is ImplementsSlackBuf without fairness. *)
(***************************************************************************)
THEOREM StackImplementsSlackBuf == StackSpec => BufInit /\ [][BufNext]_bufVars
BY StackInitInv, StackInvariance, StackStep, PTL DEF StackSpec

(***************************************************************************)
(* No load of the validator leaves the slice, whatever the client does: no *)
(* contract is assumed of the calls.                                       *)
(***************************************************************************)
THEOREM StackLoads == StackSpec => []LoadsAllowed
<1>1. StackInv => LoadsAllowed
  BY DEF StackInv, Inv
<1> QED BY <1>1, StackInvariance, PTL

(***************************************************************************)
(* The strings the client obtains from the code, not from an ideal         *)
(* validator, are well-formed for as long as it holds them.                *)
(***************************************************************************)
THEOREM StackStrings == StackSpec => []StrsSound
<1>1. StackInv => StrsSound
  BY DEF StackInv, BufInv
<1> QED BY <1>1, StackInvariance, PTL

(***************************************************************************)
(* The public functions answer rightly, end to end: from the operation of  *)
(* the client through its checks, the loads of words, the loops and the    *)
(* DFA back to the client, the verdict is that of Table 3-7 on the bytes   *)
(* of the vector.                                                          *)
(***************************************************************************)
THEOREM StackVerdicts == StackSpec => []VerdictsRight
<1>1. StackInv => VerdictsRight
  BY DEF StackInv
<1> QED BY <1>1, StackInvariance, PTL

(***************************************************************************)
(* The functions panic when their documentation says so and at no other    *)
(* time, in the code as a whole.                                           *)
(***************************************************************************)
THEOREM StackPanics == StackSpec => []PanicsAsDocumented
<1>1. StackInv => PanicsAsDocumented
  BY DEF StackInv, BufInv
<1> QED BY <1>1, StackInvariance, PTL

\* While a request waits for its answer only the validator takes steps.
LEMMA RequestSquare ==
  StackInv /\ StackInv' /\ [StackNext]_stackVars =>
    [ outcome = "running" /\ outcome' = "running"
        => 0 <= StepsLeft' /\ StepsLeft' < StepsLeft ]_stackVars
<1> SUFFICES ASSUME StackInv, StackInv', [StackNext]_stackVars, ~ UNCHANGED stackVars,
                    outcome = "running", outcome' = "running"
             PROVE  0 <= StepsLeft' /\ StepsLeft' < StepsLeft
  OBVIOUS
<1>1. Run
  BY OperationsWait DEF StackNext, Operate, Finish, BufAnswer
<1>2. Next
  BY <1>1, WordStep DEF StackInv, Run
<1>3. ~ UNCHANGED vars
  BY <1>1 DEF Run, stackVars, vars
<1>4. Inv /\ Inv'
  BY DEF StackInv
<1> QED BY <1>2, <1>3, <1>4, AdvanceSquare

(***************************************************************************)
(* Every step the crate takes for a request brings its answer nearer.      *)
(***************************************************************************)
THEOREM StackAdvances == StackSpec => RequestAdvances
BY StackInvariance, StackStep, RequestSquare, PTL DEF StackSpec, RequestAdvances
=============================================================================
