---------------------------- MODULE QdaExchange -----------------------------
(***************************************************************************)
(* The calls of qda.c.  Every one writes its request at the start of the   *)
(* static qda_buf, sends it, receives the answer into the same buffer and  *)
(* looks at the type it finds there.  What the receive callback returned   *)
(* is not looked at (but by qda_reset), so it is the request that must not *)
(* pass for an answer.                                                     *)
(*                                                                         *)
(* Sending and receiving are the two ends of an XMODEM transfer and have   *)
(* the outcomes that PackageDelivery allows.  The device, which is not in  *)
(* the repository, takes a request, carries it out and transmits its       *)
(* answer; it takes no other before it is through with the answer.         *)
(***************************************************************************)
EXTENDS Integers

CONSTANTS
    Requests,    \* the request types the host uses
    MsgBlocks,   \* blocks that fit in qda_buf: 64
    MaxCalls     \* bounds the model

Acked == {"RESET", "DFU_SET_ALT_SETTING", "DFU_DNLOAD_REQ", "DFU_CLRSTATUS", "DFU_ABORT"}

RequestTypes == Acked \cup {"DEV_DESC_REQ", "DFU_DESC_REQ", "DFU_UPLOAD_REQ",
                            "DFU_GETSTATUS_REQ", "DFU_GETSTATE_REQ"}

ASSUME ExchangeAssumption ==
    /\ Requests \subseteq RequestTypes
    /\ MsgBlocks \in Nat /\ MsgBlocks >= 2
    /\ MaxCalls \in Nat

\* The type that each call expects.
AnswerType(r) ==
    CASE r \in Acked             -> "ACK"
      [] r = "DEV_DESC_REQ"      -> "DEV_DESC_RESP"
      [] r = "DFU_DESC_REQ"      -> "DFU_DESC_RESP"
      [] r = "DFU_UPLOAD_REQ"    -> "DFU_UPLOAD_RESP"
      [] r = "DFU_GETSTATUS_REQ" -> "DFU_GETSTATUS_RESP"
      [] r = "DFU_GETSTATE_REQ"  -> "DFU_GETSTATE_RESP"

AnswerTypes == {AnswerType(r) : r \in RequestTypes} \cup {"STALL"}

\* A block of a message: the message's type and length, which are in its header,
\* and the call it belongs to.
Block == [type : RequestTypes \cup AnswerTypes \cup {"none"},
          len  : 0..(MsgBlocks + 1),
          call : 0..MaxCalls]

VARIABLES
    hostPc,     \* "ready" between calls, "sending" or "receiving" inside one
    call,       \* number of the last call
    req,        \* its request; len is what DNLOAD carries and what UPLOAD asks for
    qda_buf,
    data,       \* the blocks that qda_dfu_upload copied to its caller
    accepted,   \* <<c, a>>: call c returned success on the answer to call a
    devicePc,   \* "listen", "execute" or "answer"
    request,    \* the request the device got
    answer,     \* and its answer
    executed    \* the calls the device has carried out

hostVars   == <<hostPc, call, req, qda_buf, data, accepted>>
deviceVars == <<devicePc, request, answer, executed>>
vars       == <<hostVars, deviceVars>>

NoBlock == [type |-> "none", len |-> 0, call |-> 0]

Init ==
    /\ hostPc = "ready" /\ call = 0 /\ req = NoBlock
    /\ qda_buf = [i \in 1..MsgBlocks |-> NoBlock]
    /\ data = {} /\ accepted = {}
    /\ devicePc = "listen" /\ request = NoBlock /\ answer = NoBlock /\ executed = {}

-----------------------------------------------------------------------------
(* The host.                                                               *)

\* qda_buf with the first n blocks of message m written over what was there.
Overlay(m, n) == [i \in 1..MsgBlocks |-> IF i <= n THEN m ELSE qda_buf[i]]

\* Blocks written by the request: all but DNLOAD are a header and a few bytes.
Carried(r, n) == IF r = "DFU_DNLOAD_REQ" THEN n ELSE 1

\* Mutant of TooLong: one block past the buffer passes.
TooLongLate(r, n) == r = "DFU_DNLOAD_REQ" /\ n > MsgBlocks + 1

\* qda_dfu_download checks the length once it has filled in the header.
TooLong(r, n) == r = "DFU_DNLOAD_REQ" /\ n > MsgBlocks

\* Mutant of WithRequest: the header is put together elsewhere.
WithRequestBody(m, n) == [i \in 1..MsgBlocks |-> IF 1 < i /\ i <= n THEN m ELSE qda_buf[i]]

\* The buffer once the request is in it.
WithRequest(m, n) == Overlay(m, n)

Request(r, n) == [type |-> r, len |-> n, call |-> call + 1]

Refuse(r, n) ==
    /\ hostPc = "ready" /\ call < MaxCalls /\ TooLong(r, n)
    /\ call' = call + 1
    /\ req' = Request(r, n)
    /\ qda_buf' = WithRequest(Request(r, n), 1)
    /\ UNCHANGED <<hostPc, data, accepted, deviceVars>>

Call(r, n) ==
    /\ hostPc = "ready" /\ call < MaxCalls /\ ~TooLong(r, n)
    /\ call' = call + 1
    /\ req' = Request(r, n)
    /\ qda_buf' = WithRequest(Request(r, n), Carried(r, n))
    /\ hostPc' = "sending"
    /\ UNCHANGED <<data, accepted, deviceVars>>

\* The transfer of the request succeeds at both ends.
Sent ==
    /\ hostPc = "sending" /\ devicePc = "listen"
    /\ hostPc' = "receiving"
    /\ devicePc' = "execute" /\ request' = req
    /\ UNCHANGED <<call, req, qda_buf, data, accepted, answer, executed>>

\* It succeeds at the device only: the ACK of its EOT was lost.
SentUnconfirmed ==
    /\ hostPc = "sending" /\ devicePc = "listen"
    /\ hostPc' = "ready"
    /\ devicePc' = "execute" /\ request' = req
    /\ UNCHANGED <<call, req, qda_buf, data, accepted, answer, executed>>

\* It fails at both ends, or the device does not take part.
NotSent ==
    /\ hostPc = "sending"
    /\ hostPc' = "ready"
    /\ UNCHANGED <<call, req, qda_buf, data, accepted, deviceVars>>

\* Mutant of Matches: everything but a STALL passes.
MatchesUnlessStall(b, n) == b[1].type # "STALL"

\* The checks on what is now in the buffer.
Matches(b, n) ==
    /\ b[1].type = AnswerType(req.type)
    /\ req.type = "RESET" => n < MsgBlocks
    /\ req.type = "DFU_UPLOAD_REQ" => b[1].len <= req.len

\* The call returns, with b in the buffer and n blocks counted by the callback.
Return(b, n) ==
    /\ hostPc' = "ready" /\ qda_buf' = b
    /\ \/ /\ Matches(b, n)
          /\ accepted' = accepted \cup {<<call, b[1].call>>}
          /\ data' = IF req.type = "DFU_UPLOAD_REQ" THEN {b[i] : i \in 1..b[1].len} ELSE data
       \/ /\ ~Matches(b, n)
          /\ UNCHANGED <<accepted, data>>
    /\ UNCHANGED <<call, req>>

\* The answer is received whole; the device may see that or not.
Received ==
    /\ hostPc = "receiving" /\ devicePc = "answer"
    /\ Return(Overlay(answer, answer.len), answer.len)
    /\ devicePc' = "listen"
    /\ UNCHANGED <<request, answer, executed>>

\* The reception fails after k blocks: dfu_util_qda_receive makes that a 0.
ReceivedPart(k) ==
    /\ hostPc = "receiving" /\ devicePc = "answer" /\ k <= answer.len
    /\ Return(Overlay(answer, k), 0)
    /\ UNCHANGED deviceVars

\* It fails before the device starts to answer, or after it gave up.
NotReceived ==
    /\ hostPc = "receiving" /\ devicePc # "answer"
    /\ Return(qda_buf, 0)
    /\ UNCHANGED deviceVars

-----------------------------------------------------------------------------
(* The device.  An upload's answer is as long as the device makes it.      *)

AnswerLengths(r) == IF r = "DFU_UPLOAD_REQ" THEN 1..MsgBlocks ELSE {1}

Execute(t, n) ==
    /\ devicePc = "execute"
    /\ t \in {AnswerType(request.type), "STALL"}
    /\ n \in (IF t = "STALL" THEN {1} ELSE AnswerLengths(request.type))
    /\ executed' = executed \cup {request.call}
    /\ answer' = [type |-> t, len |-> n, call |-> request.call]
    /\ devicePc' = "answer"
    /\ UNCHANGED <<hostVars, request>>

\* Nobody takes the answer, or not all of it.
DeviceGivesUp ==
    /\ devicePc = "answer"
    /\ devicePc' = "listen"
    /\ UNCHANGED <<hostVars, request, answer, executed>>

Done == hostPc = "ready" /\ call = MaxCalls /\ devicePc = "listen" /\ UNCHANGED vars

Sizes == 1..(MsgBlocks + 1)

Next ==
    \/ \E r \in Requests, n \in Sizes : Refuse(r, n) \/ Call(r, n)
    \/ Sent \/ SentUnconfirmed \/ NotSent
    \/ Received \/ NotReceived \/ \E k \in 0..MsgBlocks : ReceivedPart(k)
    \/ \E t \in AnswerTypes, n \in 1..MsgBlocks : Execute(t, n)
    \/ DeviceGivesUp
    \/ Done

Spec == Init /\ [][Next]_vars

-----------------------------------------------------------------------------

\* Types, and the bound on the memcpy of qda_dfu_download: no request that is sent
\* is longer than the buffer it was put together in.
TypeOK ==
    /\ hostPc \in {"ready", "sending", "receiving"}
    /\ call \in 0..MaxCalls
    /\ req \in Block /\ request \in Block /\ answer \in Block
    /\ qda_buf \in [1..MsgBlocks -> Block]
    /\ data \subseteq Block
    /\ accepted \subseteq (0..MaxCalls) \X (0..MaxCalls)
    /\ devicePc \in {"listen", "execute", "answer"}
    /\ executed \subseteq 1..MaxCalls
    /\ hostPc # "ready" => req.type \in RequestTypes /\ Carried(req.type, req.len) <= MsgBlocks
    /\ devicePc # "listen" => request.type \in RequestTypes
    /\ devicePc = "answer" => answer.type \in AnswerTypes /\ answer.len \in 1..MsgBlocks

\* A call that returns success does so on the device's answer to this very call,
\* although failed receptions go unnoticed and every call shares one buffer with the
\* leftovers of those before.
AnswersItsCall == \A p \in accepted : p[1] = p[2] /\ p[1] \in executed

\* Seen from its caller, an exchange is a remote call that may fail.
Abstract == INSTANCE RemoteCall WITH busy <- hostPc # "ready"
ImplementsRemoteCall == Abstract!Spec
=============================================================================
