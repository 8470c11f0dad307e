------------------------- MODULE QdaExchangeProofs --------------------------
(***************************************************************************)
(* Proofs about QdaExchange: its types, that a call which succeeds did so  *)
(* on its own answer, and that an exchange implements RemoteCall.          *)
(*                                                                         *)
(* The invariant rests on one fact of qda.c: the request is written where  *)
(* the answer is looked for, and no answer has the type of a request.      *)
(***************************************************************************)
EXTENDS QdaExchange, TLAPS

\* While a call is under way its request is in the buffer's header.
HeaderIsRequest ==
    hostPc # "ready" => /\ req.call = call /\ call \in 1..MaxCalls
                        /\ qda_buf[1].type = req.type

\* A request that is being sent was never carried out, nor was any after it.
NotYetExecuted ==
    hostPc = "sending" => /\ \A e \in executed : e < call
                          /\ devicePc # "listen" => request.call < call

\* The request that the device is busy with, and the calls carried out before it.
DeviceBusy ==
    /\ executed \subseteq 1..call
    /\ devicePc # "listen" => request.call \in 1..call
    /\ devicePc = "execute" => \A e \in executed : e < request.call
    /\ devicePc = "answer" => request.call \in executed /\ answer.call = request.call
    /\ devicePc # "listen" /\ hostPc = "receiving" => request.call = call

IInv == TypeOK /\ HeaderIsRequest /\ NotYetExecuted /\ DeviceBusy /\ AnswersItsCall

-----------------------------------------------------------------------------

\* qda_pkt_type_t keeps requests and answers apart.
LEMMA AnswersAreNotRequests ==
    ASSUME NEW r \in RequestTypes
    PROVE  AnswerType(r) \in AnswerTypes /\ AnswerType(r) \notin RequestTypes
BY DEF RequestTypes, Acked, AnswerType, AnswerTypes

LEMMA OverlayType ==
    ASSUME qda_buf \in [1..MsgBlocks -> Block], NEW b \in Block, NEW n
    PROVE  Overlay(b, n) \in [1..MsgBlocks -> Block]
BY DEF Overlay

LEMMA OverlayHeader ==
    ASSUME NEW b, NEW n \in Int
    PROVE  Overlay(b, n)[1] = IF 1 <= n THEN b ELSE qda_buf[1]
BY ExchangeAssumption DEF Overlay

\* The call that is made writes its header and leaves everything else as it was.
LEMMA RequestWritten ==
    ASSUME IInv, NEW r \in Requests, NEW n \in Sizes, NEW k \in 1..MsgBlocks,
           call < MaxCalls, req' = Request(r, n), call' = call + 1,
           qda_buf' = WithRequest(Request(r, n), k)
    PROVE  /\ req' \in Block /\ req'.type \in RequestTypes /\ req'.type = r
           /\ req'.len = n /\ req'.call = call'
           /\ qda_buf' \in [1..MsgBlocks -> Block]
           /\ qda_buf'[1].type = req'.type
           /\ call' \in 1..MaxCalls
<1> USE ExchangeAssumption
<1>1. call \in 0..MaxCalls /\ qda_buf \in [1..MsgBlocks -> Block]
  BY DEF IInv, TypeOK
<1>2. r \in RequestTypes /\ n \in 0..(MsgBlocks + 1)
  BY DEF Sizes
<1>3. Request(r, n) \in Block
  BY <1>1, <1>2 DEF Request, Block
<1>4. qda_buf' = Overlay(Request(r, n), k)
  BY DEF WithRequest
<1>5. qda_buf' \in [1..MsgBlocks -> Block]
  BY <1>1, <1>3, <1>4, OverlayType
<1>6. qda_buf'[1] = Request(r, n)
  BY <1>4, OverlayHeader
<1> QED BY <1>1, <1>2, <1>3, <1>5, <1>6 DEF Request

\* A call that returns: only the answer to it makes it succeed.
LEMMA ReturnKeepsIInv ==
    ASSUME IInv, hostPc = "receiving",
           NEW b \in [1..MsgBlocks -> Block], NEW n \in Int, Return(b, n),
           b[1].type = qda_buf[1].type \/ (b[1] = answer /\ devicePc = "answer"),
           UNCHANGED <<request, answer, executed>>, devicePc' \in {devicePc, "listen"}
    PROVE  /\ IInv'
           /\ \/ accepted' = accepted /\ Abstract!Fail
              \/ Abstract!Succeed
<1> USE ExchangeAssumption
<1>1. /\ hostPc' = "ready" /\ qda_buf' = b /\ UNCHANGED <<call, req>>
      /\ req \in Block /\ req.type \in RequestTypes /\ call \in 1..MaxCalls
  BY DEF Return, IInv, TypeOK, HeaderIsRequest
<1>2. b[1] \in Block
  OBVIOUS
<1>3. CASE Matches(b, n)
  <2>1. accepted' = accepted \cup {<<call, b[1].call>>}
    BY <1>3 DEF Return
  <2>2. b[1].type = AnswerType(req.type)
    BY <1>3 DEF Matches
  <2>3. b[1] = answer /\ devicePc = "answer"
    BY <1>1, <2>2, AnswersAreNotRequests DEF IInv, HeaderIsRequest
  <2>4. b[1].call = call /\ call \in executed
    BY <2>3 DEF IInv, DeviceBusy
  <2>5. data' \subseteq Block
    <3>1. CASE req.type = "DFU_UPLOAD_REQ"
      <4>1. data' = {b[i] : i \in 1..b[1].len}
        BY <1>3, <3>1 DEF Return
      <4>2. b[1].len \in 1..MsgBlocks
        BY <2>3 DEF IInv, TypeOK
      <4> QED BY <4>1, <4>2
    <3>2. CASE req.type # "DFU_UPLOAD_REQ"
      BY <1>3, <3>2 DEF Return, IInv, TypeOK
    <3> QED BY <3>1, <3>2
  <2>6. accepted' = accepted \cup {<<call, call>>}
    BY <2>1, <2>4
  <2>7. accepted' \subseteq (0..MaxCalls) \X (0..MaxCalls)
    BY <1>1, <2>6 DEF IInv, TypeOK
  <2>8. TypeOK'
    BY <1>1, <2>5, <2>7 DEF IInv, TypeOK, AnswerLengths
  <2>9. AnswersItsCall'
    BY <2>4, <2>6 DEF IInv, AnswersItsCall
  <2>10. HeaderIsRequest' /\ NotYetExecuted' /\ DeviceBusy'
    BY <1>1 DEF IInv, HeaderIsRequest, NotYetExecuted, DeviceBusy
  <2>11. Abstract!Succeed
    BY <1>1, <2>4, <2>6 DEF Abstract!Succeed
  <2> QED BY <2>8, <2>9, <2>10, <2>11 DEF IInv
<1>4. CASE ~Matches(b, n)
  <2>1. UNCHANGED <<accepted, data>>
    BY <1>4 DEF Return
  <2>2. TypeOK'
    BY <1>1, <2>1 DEF IInv, TypeOK
  <2>3. AnswersItsCall' /\ HeaderIsRequest' /\ NotYetExecuted' /\ DeviceBusy'
    BY <1>1, <2>1 DEF IInv, AnswersItsCall, HeaderIsRequest, NotYetExecuted, DeviceBusy
  <2>4. Abstract!Fail
    BY <1>1, <2>1 DEF Abstract!Fail
  <2> QED BY <2>1, <2>2, <2>3, <2>4 DEF IInv
<1> QED BY <1>3, <1>4
-----------------------------------------------------------------------------
(* Every step keeps the invariant and is a step of RemoteCall.             *)

LEMMA InitIInv == Init => IInv /\ Abstract!Init
<1> SUFFICES ASSUME Init PROVE IInv /\ Abstract!Init
  OBVIOUS
<1> USE ExchangeAssumption
<1>1. NoBlock \in Block
  BY DEF NoBlock, Block
<1>2. TypeOK
  BY <1>1 DEF Init, TypeOK
<1>3. HeaderIsRequest /\ NotYetExecuted /\ DeviceBusy /\ AnswersItsCall
  BY DEF Init, HeaderIsRequest, NotYetExecuted, DeviceBusy, AnswersItsCall
<1>4. Abstract!Init
  BY DEF Init, Abstract!Init
<1> QED BY <1>2, <1>3, <1>4 DEF IInv

LEMMA RefuseStep ==
    ASSUME IInv, NEW r \in Requests, NEW n \in Sizes, Refuse(r, n)
    PROVE  IInv' /\ Abstract!Begin
<1> USE ExchangeAssumption
<1>1. 1 \in 1..MsgBlocks
  OBVIOUS
<1>2. /\ req' \in Block /\ qda_buf' \in [1..MsgBlocks -> Block]
      /\ call' \in 1..MaxCalls
  BY <1>1, RequestWritten DEF Refuse
<1>3. /\ hostPc = "ready" /\ hostPc' = "ready" /\ call' = call + 1
      /\ UNCHANGED <<data, accepted, deviceVars>>
  BY DEF Refuse
<1>4. TypeOK'
  BY <1>2, <1>3 DEF IInv, TypeOK, deviceVars
<1>5. HeaderIsRequest' /\ NotYetExecuted' /\ DeviceBusy' /\ AnswersItsCall'
  BY <1>2, <1>3 DEF IInv, TypeOK, HeaderIsRequest, NotYetExecuted, DeviceBusy,
      AnswersItsCall, deviceVars
<1>6. Abstract!Begin
  BY <1>3 DEF Abstract!Begin, deviceVars
<1> QED BY <1>4, <1>5, <1>6 DEF IInv

LEMMA CallStep ==
    ASSUME IInv, NEW r \in Requests, NEW n \in Sizes, Call(r, n)
    PROVE  IInv' /\ Abstract!Begin
<1> USE ExchangeAssumption
<1>1. Carried(r, n) \in 1..MsgBlocks
  BY DEF Call, TooLong, Carried, Sizes
<1>2. /\ req' \in Block /\ req'.type \in RequestTypes /\ req'.type = r
      /\ req'.len = n /\ req'.call = call'
      /\ qda_buf' \in [1..MsgBlocks -> Block] /\ qda_buf'[1].type = req'.type
      /\ call' \in 1..MaxCalls
  BY <1>1, RequestWritten DEF Call
<1>3. /\ hostPc = "ready" /\ hostPc' = "sending" /\ call' = call + 1
      /\ UNCHANGED <<data, accepted, devicePc, request, answer, executed>>
  BY DEF Call, deviceVars
<1>4. Carried(req'.type, req'.len) <= MsgBlocks
  BY <1>1, <1>2
<1>5. TypeOK'
  BY <1>2, <1>3, <1>4 DEF IInv, TypeOK
<1>6. HeaderIsRequest' /\ NotYetExecuted' /\ DeviceBusy' /\ AnswersItsCall'
  BY <1>2, <1>3 DEF IInv, TypeOK, HeaderIsRequest, NotYetExecuted, DeviceBusy, AnswersItsCall
<1>7. Abstract!Begin
  BY <1>3 DEF Abstract!Begin
<1> QED BY <1>5, <1>6, <1>7 DEF IInv

\* The request arrives at the device, and the host knows or does not.
LEMMA SentStep ==
    ASSUME IInv, Sent
    PROVE  IInv' /\ UNCHANGED Abstract!vars
<1>1. TypeOK'
  BY DEF IInv, TypeOK, HeaderIsRequest, Sent
<1>2. HeaderIsRequest' /\ NotYetExecuted' /\ DeviceBusy' /\ AnswersItsCall'
  BY DEF IInv, TypeOK, HeaderIsRequest, NotYetExecuted, DeviceBusy, AnswersItsCall, Sent
<1> QED BY <1>1, <1>2 DEF IInv, Sent, Abstract!vars

LEMMA SentUnconfirmedStep ==
    ASSUME IInv, SentUnconfirmed
    PROVE  IInv' /\ Abstract!Fail
<1>1. TypeOK'
  BY DEF IInv, TypeOK, HeaderIsRequest, SentUnconfirmed
<1>2. HeaderIsRequest' /\ NotYetExecuted' /\ DeviceBusy' /\ AnswersItsCall'
  BY DEF IInv, TypeOK, HeaderIsRequest, NotYetExecuted, DeviceBusy, AnswersItsCall, SentUnconfirmed
<1> QED BY <1>1, <1>2 DEF IInv, SentUnconfirmed, Abstract!Fail

LEMMA NotSentStep ==
    ASSUME IInv, NotSent
    PROVE  IInv' /\ Abstract!Fail
<1>1. TypeOK'
  BY DEF IInv, TypeOK, NotSent, deviceVars
<1>2. HeaderIsRequest' /\ NotYetExecuted' /\ DeviceBusy' /\ AnswersItsCall'
  BY DEF IInv, TypeOK, HeaderIsRequest, NotYetExecuted, DeviceBusy, AnswersItsCall, NotSent, deviceVars
<1> QED BY <1>1, <1>2 DEF IInv, NotSent, Abstract!Fail, deviceVars

LEMMA ReceiveStep ==
    ASSUME IInv, Received \/ NotReceived \/ \E k \in 0..MsgBlocks : ReceivedPart(k)
    PROVE  IInv' /\ (Abstract!Fail \/ Abstract!Succeed)
<1> USE ExchangeAssumption
<1>0. /\ qda_buf \in [1..MsgBlocks -> Block] /\ answer \in Block
      /\ devicePc = "answer" => answer.len \in 1..MsgBlocks
  BY DEF IInv, TypeOK
<1>1. CASE Received
  <2>1. Overlay(answer, answer.len) \in [1..MsgBlocks -> Block]
    BY <1>0, OverlayType
  <2>2. answer.len \in Int /\ Overlay(answer, answer.len)[1] = answer
    BY <1>0, <1>1, OverlayHeader DEF Received
  <2> QED BY <1>1, <2>1, <2>2, ReturnKeepsIInv DEF Received
<1>2. CASE NotReceived
  BY <1>0, <1>2, ReturnKeepsIInv DEF NotReceived, deviceVars
<1>3. ASSUME NEW k \in 0..MsgBlocks, ReceivedPart(k) PROVE IInv' /\ (Abstract!Fail \/ Abstract!Succeed)
  <2>1. Overlay(answer, k) \in [1..MsgBlocks -> Block]
    BY <1>0, OverlayType
  <2>2. Overlay(answer, k)[1] = answer \/ Overlay(answer, k)[1] = qda_buf[1]
    BY OverlayHeader
  <2> QED BY <1>3, <2>1, <2>2, ReturnKeepsIInv DEF ReceivedPart, deviceVars
<1> QED BY <1>1, <1>2, <1>3

LEMMA ExecuteStep ==
    ASSUME IInv, NEW t \in AnswerTypes, NEW n \in 1..MsgBlocks, Execute(t, n)
    PROVE  IInv' /\ \E c \in 1..call : Abstract!Execute(c)
<1> USE ExchangeAssumption
<1>1. /\ devicePc = "execute" /\ devicePc' = "answer" /\ UNCHANGED <<hostVars, request>>
      /\ executed' = executed \cup {request.call}
      /\ answer' = [type |-> t, len |-> n, call |-> request.call]
  BY DEF Execute
<1>2. request.call \in 1..call /\ \A e \in executed : e < request.call
  BY <1>1 DEF IInv, DeviceBusy
<1>3. call \in 0..MaxCalls /\ request \in Block
  BY DEF IInv, TypeOK
<1>4. answer' \in Block /\ answer'.type = t /\ answer'.len = n /\ answer'.call = request.call
  BY <1>1, <1>2, <1>3 DEF Block
<1>5. TypeOK'
  <2>1. executed' \subseteq 1..MaxCalls
    <3>1. request.call \in 1..MaxCalls
      BY <1>2, <1>3
    <3> QED BY <1>1, <3>1 DEF IInv, TypeOK
  <2>2. UNCHANGED <<hostPc, call, req, qda_buf, data, accepted, request>>
    BY <1>1 DEF hostVars
  <2>3. request.type \in RequestTypes
    BY <1>1 DEF IInv, TypeOK
  <2> QED BY <1>1, <1>4, <2>1, <2>2, <2>3 DEF IInv, TypeOK
<1>6. HeaderIsRequest' /\ NotYetExecuted' /\ DeviceBusy' /\ AnswersItsCall'
  BY <1>1, <1>2, <1>3, <1>4 DEF IInv, HeaderIsRequest, NotYetExecuted, DeviceBusy,
      AnswersItsCall, hostVars
<1>7. Abstract!Execute(request.call)
  BY <1>1, <1>2 DEF Abstract!Execute, hostVars
<1> QED BY <1>2, <1>5, <1>6, <1>7 DEF IInv

LEMMA DeviceGivesUpStep ==
    ASSUME IInv, DeviceGivesUp
    PROVE  IInv' /\ UNCHANGED Abstract!vars
<1>1. TypeOK'
  BY DEF IInv, TypeOK, DeviceGivesUp, hostVars
<1>2. HeaderIsRequest' /\ NotYetExecuted' /\ DeviceBusy' /\ AnswersItsCall'
  BY DEF IInv, HeaderIsRequest, NotYetExecuted, DeviceBusy, AnswersItsCall, DeviceGivesUp, hostVars
<1> QED BY <1>1, <1>2 DEF IInv, DeviceGivesUp, hostVars, Abstract!vars

LEMMA UnchangedStep ==
    ASSUME IInv, UNCHANGED vars
    PROVE  IInv' /\ UNCHANGED Abstract!vars
<1>1. TypeOK'
  BY DEF IInv, TypeOK, vars, hostVars, deviceVars
<1>2. HeaderIsRequest' /\ NotYetExecuted' /\ DeviceBusy' /\ AnswersItsCall'
  BY DEF IInv, HeaderIsRequest, NotYetExecuted, DeviceBusy, AnswersItsCall, vars, hostVars, deviceVars
<1> QED BY <1>1, <1>2 DEF IInv, vars, hostVars, deviceVars, Abstract!vars

LEMMA StepIsRemoteCall ==
    ASSUME IInv, [Next]_vars
    PROVE  IInv' /\ [Abstract!Next]_(Abstract!vars)
<1>1. CASE \E r \in Requests, n \in Sizes : Refuse(r, n) \/ Call(r, n)
  BY <1>1, RefuseStep, CallStep DEF Abstract!Next
<1>2. CASE Sent
  BY <1>2, SentStep
<1>3. CASE SentUnconfirmed \/ NotSent
  BY <1>3, SentUnconfirmedStep, NotSentStep DEF Abstract!Next
<1>4. CASE Received \/ NotReceived \/ \E k \in 0..MsgBlocks : ReceivedPart(k)
  BY <1>4, ReceiveStep DEF Abstract!Next
<1>5. CASE \E t \in AnswerTypes, n \in 1..MsgBlocks : Execute(t, n)
  BY <1>5, ExecuteStep DEF Abstract!Next
<1>6. CASE DeviceGivesUp
  BY <1>6, DeviceGivesUpStep
<1>7. CASE Done \/ UNCHANGED vars
  BY <1>7, UnchangedStep DEF Done
<1> QED BY <1>1, <1>2, <1>3, <1>4, <1>5, <1>6, <1>7 DEF Next

LEMMA Invariance == Spec => []IInv
<1>1. Init => IInv
  BY InitIInv
<1>2. IInv /\ [Next]_vars => IInv'
  BY StepIsRemoteCall
<1> QED BY <1>1, <1>2, PTL DEF Spec

-----------------------------------------------------------------------------
(* The theorems.                                                           *)

\* The buffer, the requests and the answers keep their types, and what
\* qda_dfu_download copies fits in qda_buf.
THEOREM TypeCorrect == Spec => []TypeOK
<1>1. IInv => TypeOK
  BY DEF IInv
<1> QED BY <1>1, Invariance, PTL

\* A call of qda.c that returns success read the answer to its own request, for any
\* buffer size, any number of calls and any failures of the transfers.
THEOREM AnswerIsFresh == Spec => []AnswersItsCall
<1>1. IInv => AnswersItsCall
  BY DEF IInv
<1> QED BY <1>1, Invariance, PTL

\* So the layer is a remote call that is carried out at most once, in order, and
\* may fail.
THEOREM ExchangeRefinement == Spec => ImplementsRemoteCall
<1>1. Init => Abstract!Init
  BY InitIInv
<1>2. IInv /\ [Next]_vars => [Abstract!Next]_(Abstract!vars)
  BY StepIsRemoteCall
<1> QED BY <1>1, <1>2, Invariance, PTL DEF Spec, ImplementsRemoteCall, Abstract!Spec
=============================================================================
