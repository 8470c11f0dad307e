--------------------------- MODULE XmodemDialogue ---------------------------
(***************************************************************************)
(* The calls of qda.c one after the other, each a request transmitted and  *)
(* an answer received, by program runs that follow each other on one       *)
(* serial line.  XmodemTransfer starts with an empty line and ends with    *)
(* its package; here the bytes that one package leaves behind are read by  *)
(* the next, in either direction: nothing flushes the line between two.    *)
(*                                                                         *)
(* Every call that fails ends the program, and so may SIGINT, at any point *)
(* of the dialogue; the device stays where it is.  Both ends run the code  *)
(* of xmodem.c.  The line is timely: an end times out only while the other *)
(* one waits too.                                                          *)
(***************************************************************************)
EXTENDS Integers, Sequences

CONSTANTS
    ReqBlocks,     \* blocks of every request
    AnsBlocks,     \* and of every answer
    BufBlocks,     \* blocks that fit in the buffer of either end
    PacketBytes,   \* bytes of a packet, its SOH included; 132 in the code
    MaxCalls,      \* bounds the calls,
    MaxNoise,      \* the disturbances of the line
    MaxStops       \* and the runs ended by SIGINT

ASSUME DialogueAssumption ==
    /\ ReqBlocks \in 1..BufBlocks /\ AnsBlocks \in 1..BufBlocks /\ BufBlocks \in 1..255
    /\ PacketBytes \in Nat \ {0, 1}
    /\ MaxCalls \in Nat \ {0} /\ MaxNoise \in Nat /\ MaxStops \in Nat

VARIABLES
    running,                                                  \* the program is
    call,                                                     \* calls begun so far
    sendPc, sendBlock, sendTries,                             \* the host transmits
    recvPc, recvSeq, recvBuf, recvErr, recvNak,               \* and receives,
    devSendPc, devSendBlock, devSendTries,                    \* as does the device
    devRecvPc, devRecvSeq, devRecvBuf, devRecvErr, devRecvNak,
    recvFrom, devRecvFrom,   \* the packages that the blocks in the buffer are from
    lacks, devLacks,         \* bytes that the packet being read still lacks
    toDevice, toHost,        \* the two directions of the line
    expired,                 \* the end that timed out last, in the present silence
    noise, stops,            \* disturbances and interrupts still to come
    misread                  \* control bytes that an end has found inside a packet and
                             \* acted on; the two ends do not know it

hostSend == <<sendPc, sendBlock, sendTries>>
hostRecv == <<recvPc, recvSeq, recvBuf, recvErr, recvNak, recvFrom, lacks>>
devSend  == <<devSendPc, devSendBlock, devSendTries>>
devRecv  == <<devRecvPc, devRecvSeq, devRecvBuf, devRecvErr, devRecvNak, devRecvFrom,
              devLacks>>
host     == <<running, call, hostSend, hostRecv>>
device   == <<devSend, devRecv>>
faults   == <<noise, stops>>
rest     == <<expired, faults, misread>>
vars     == <<host, device, toDevice, toHost, rest>>

\* The four instances of xmodem.c.  A transmission is that of package p.
HostSend(p) == INSTANCE XmodemTransmit WITH
    Package <- p, Blocks <- ReqBlocks,
    txPc <- sendPc, block <- sendBlock, retransmit <- sendTries, toRx <- toDevice
HostRecv == INSTANCE XmodemReceive WITH
    Package <- 0, Blocks <- AnsBlocks, rxPc <- recvPc, exp_seq_no <- recvSeq,
    buf <- recvBuf, err_cnt <- recvErr, nak <- recvNak, toTx <- toDevice
DevSend(p) == INSTANCE XmodemTransmit WITH
    Package <- p, Blocks <- AnsBlocks,
    txPc <- devSendPc, block <- devSendBlock, retransmit <- devSendTries, toRx <- toHost
DevRecv == INSTANCE XmodemReceive WITH
    Package <- 0, Blocks <- ReqBlocks, rxPc <- devRecvPc, exp_seq_no <- devRecvSeq,
    buf <- devRecvBuf, err_cnt <- devRecvErr, nak <- devRecvNak, toTx <- toHost

RequestOf(c) == 2 * c - 1
AnswerTo(c)  == 2 * c
Packages     == 1..(2 * MaxCalls)

InCall   == sendPc # "idle" \/ recvPc # "idle"
Finished == call = MaxCalls /\ ~InCall

\* The device has been on for a while, or starts with the program.
Init ==
    /\ running = FALSE /\ call = 0
    /\ HostSend(0)!TxInit /\ HostRecv!RxInit /\ DevSend(0)!TxInit /\ DevRecv!RxInit
    /\ recvFrom = {} /\ devRecvFrom = {} /\ lacks = 0 /\ devLacks = 0
    /\ expired = "none" /\ noise = MaxNoise /\ stops = MaxStops /\ misread = {}

-----------------------------------------------------------------------------
(* What an end reads.  A packet is 132 bytes: who waits for a control byte *)
(* reads it one by one, and may leave off anywhere in it.                  *)

Byte(k)     == DevRecv!Byte(k)
IsPacket(t) == t.kind \in {"SOH", "bad", "short"}

\* The bytes of a token.  The data of a packet that is short is how many it lacks, and
\* that of a tail, what is left of a packet, how many there are.
Size(t) ==
    CASE t.kind \in {"SOH", "bad"} -> PacketBytes
      [] t.kind = "short"          -> PacketBytes - t.data
      [] t.kind = "tail"           -> t.data
      [] OTHER                     -> 1

Short(t, n) == [kind |-> "short", seq |-> t.seq, data |-> n, pkg |-> t.pkg]

\* The last n bytes of a packet, as a line of their own.  The first of them is the number
\* when only the SOH is gone, and the complement when the number is gone too.
Left(t, n) ==
    LET first == CASE n = Size(t) - 1 /\ t.kind \in {"SOH", "short"} -> t.seq
                   [] n = PacketBytes - 2 /\ t.kind \in {"SOH", "tail"} /\ t.seq # 0 -> 255 - t.seq
                   [] OTHER -> 0
    IN  IF n = 0 THEN <<>> ELSE <<[kind |-> "tail", seq |-> first, data |-> n, pkg |-> 0]>>

\* What a byte inside a packet is taken for: anything, but for the number and its
\* complement.
InsideKinds == {"junk", "SOH", "C", "ACK", "NAK", "CAN", "EOT"}
NumberKind(n) ==
    CASE n = 1 -> "SOH" [] n = 4 -> "EOT" [] n = 6 -> "ACK" [] n = 21 -> "NAK"
      [] n = 24 -> "CAN" [] n = 67 -> "C" [] OTHER -> "junk"
FirstKinds(t) == IF t.seq # 0 THEN {NumberKind(t.seq)} ELSE InsideKinds

\* The bytes a transmitter may read next, with the line behind them.
Bytes(line) ==
    LET t == Head(line)
        kinds == CASE IsPacket(t) -> {"SOH"} [] t.kind = "tail" -> FirstKinds(t)
                   [] OTHER -> {t.kind}
    IN  {<<k, Left(t, Size(t) - 1) \o Tail(line)>> : k \in kinds}

\* What a receiver may read next.  An SOH inside a packet is to it the start of one, and
\* what is left of the other the first part of that.
Tokens(line) ==
    LET t == Head(line) IN
    IF t.kind # "tail" THEN {<<t, Tail(line)>>}
    ELSE {IF r[1] = "SOH" THEN <<Short(Byte("SOH"), PacketBytes - t.data), Tail(line)>>
                          ELSE <<Byte(r[1]), r[2]>> : r \in Bytes(line)}

\* A receiver that lacks n bytes of a packet reads on: it ends in the middle of what is
\* next on the line, or lacks bytes still.
Filled(line, n) ==
    IF n > Size(Head(line)) THEN Tail(line) ELSE Left(Head(line), Size(Head(line)) - n) \o Tail(line)
StillLacks(line, n) == IF n > Size(Head(line)) THEN n - Size(Head(line)) ELSE 0
Lacking(t) == IF t.kind = "short" THEN t.data ELSE 0

\* A transmitter takes a byte inside a packet for the ACK it waits for, or a receiver one
\* for the EOT behind the blocks it has.
MisreadAck(line, pc, k) ==
    IF Head(line).kind = "tail" /\ k = "ACK" /\ pc # "wait_c" THEN {"ACK"} ELSE {}
MisreadEot(line, buf, k) ==
    IF Head(line).kind = "tail" /\ k = "EOT" /\ buf # <<>> THEN {"EOT"} ELSE {}

\* The package of a block that was stored counts as received.
Stored(from, buf, t) == IF Len(buf') > Len(buf) THEN from \cup {t.pkg} ELSE from

-----------------------------------------------------------------------------
(* Timers.  Discarding ends after 300 ms, before any other wait does; all  *)
(* others are of TIMEOUT_STD, so two ends that wait time out in turn.      *)

TxWaiting(pc) == pc \in {"wait_c", "pkt", "eot"}
RxWaiting(pc) == pc \in {"read", "body", "drain"}

Silence ==
    /\ toHost = <<>> /\ (~running \/ TxWaiting(sendPc) \/ RxWaiting(recvPc))
    /\ toDevice = <<>> /\ (TxWaiting(devSendPc) \/ RxWaiting(devRecvPc))

HostTimer ==
    /\ Silence
    /\ recvPc = "drain" \/ (devRecvPc # "drain" /\ expired # "host")
    /\ expired' = IF recvPc = "drain" THEN "none" ELSE "host"

DevTimer ==
    /\ Silence
    /\ devRecvPc = "drain" \/ (recvPc # "drain" /\ (running => expired # "device"))
    /\ expired' = IF devRecvPc = "drain" THEN "none" ELSE "device"

-----------------------------------------------------------------------------
(* The host.                                                               *)

EndSend == sendPc' = "idle" /\ sendBlock' = 0 /\ sendTries' = 0

EndRecv ==
    /\ recvPc' = "idle" /\ recvSeq' = 1 /\ recvBuf' = <<>> /\ recvErr' = 0
    /\ recvNak' = "C" /\ recvFrom' = {} /\ lacks' = 0

\* Another run of the program; starting it takes longer than the device takes to
\* read what the last one wrote.
StartProgram ==
    /\ ~running /\ call < MaxCalls /\ toDevice = <<>>
    /\ running' = TRUE /\ expired' = "none"
    /\ UNCHANGED <<call, hostSend, hostRecv, device, toDevice, toHost, faults, misread>>

BeginCall ==
    /\ running /\ ~InCall /\ call < MaxCalls
    /\ call' = call + 1
    /\ HostSend(0)!TxCall
    /\ UNCHANGED <<running, hostRecv, device, toHost, rest>>

SendStep(rsp) == \E p \in Packages : p = RequestOf(call) /\ HostSend(p)!TxStep(rsp)

HostSendHear ==
    /\ toHost # <<>>
    /\ \E r \in Bytes(toHost) :
          /\ SendStep(r[1])
          /\ toHost' = r[2]
          /\ misread' = misread \cup MisreadAck(toHost, sendPc, r[1])
    /\ expired' = "none"
    /\ UNCHANGED <<running, call, hostRecv, device, faults>>

HostSendExpire ==
    /\ HostTimer /\ SendStep("ERR")
    /\ UNCHANGED <<running, call, hostRecv, device, toHost, faults, misread>>

\* Mutant of RequestSent: the result of the transmission is not looked at.
RequestSentOrNot ==
    /\ sendPc \in {"ok", "failed"}
    /\ EndSend
    /\ HostRecv!RxCall
    /\ UNCHANGED <<running, call, recvFrom, lacks, device, toHost, rest>>

RequestSent ==
    /\ sendPc = "ok"
    /\ EndSend
    /\ HostRecv!RxCall
    /\ UNCHANGED <<running, call, recvFrom, lacks, device, toHost, rest>>

HostRecvHear ==
    /\ recvPc = "read" /\ toHost # <<>>
    /\ \E r \in Tokens(toHost) :
          /\ HostRecv!RxStep(r[1])
          /\ recvFrom' = Stored(recvFrom, recvBuf, r[1])
          /\ lacks' = Lacking(r[1])
          /\ toHost' = r[2]
          /\ misread' = misread \cup MisreadEot(toHost, recvBuf, r[1].kind)
    /\ expired' = "none"
    /\ UNCHANGED <<running, call, hostSend, device, faults>>

\* The bytes that a packet lacks are taken from what comes next, and its CRC is wrong.
HostRecvFill ==
    /\ recvPc = "body" /\ toHost # <<>>
    /\ toHost' = Filled(toHost, lacks)
    /\ lacks' = StillLacks(toHost, lacks)
    /\ \/ lacks' = 0 /\ HostRecv!ReadError
       \/ lacks' > 0 /\ UNCHANGED <<recvPc, recvSeq, recvBuf, recvErr, recvNak, toDevice>>
    /\ expired' = "none"
    /\ UNCHANGED <<running, call, hostSend, recvFrom, device, faults, misread>>

HostRecvDrain ==
    /\ recvPc = "drain" /\ toHost # <<>>
    /\ toHost' = Tail(toHost)
    /\ UNCHANGED <<host, device, toDevice, rest>>

HostRecvExpire ==
    /\ RxWaiting(recvPc) /\ HostTimer /\ HostRecv!ReadError /\ lacks' = 0
    /\ UNCHANGED <<running, call, hostSend, recvFrom, device, toHost, faults, misread>>

\* The calls look at the type in the first block, not at what the callback returned:
\* without a block the buffer still holds the request.
Accepted == recvPc \in {"ok", "failed"} /\ recvBuf # <<>>
Refused  == recvPc \in {"ok", "failed"} /\ recvBuf = <<>>

CallReturns ==
    /\ Accepted
    /\ EndRecv
    /\ UNCHANGED <<running, call, hostSend, device, toDevice, toHost, rest>>

\* main exits when a call fails.  The input that was not read is gone with the port.
EndProgram ==
    /\ running' = FALSE
    /\ EndSend /\ EndRecv
    /\ toHost' = <<>>
    /\ UNCHANGED <<call, device>>

CallFails ==
    /\ sendPc = "failed" \/ Refused
    /\ EndProgram
    /\ UNCHANGED <<toDevice, rest>>

\* SIGINT.  A packet is written byte by byte, so the last one may be cut.
Cut(line) ==
    LET last == line[Len(line)] IN
    IF line # <<>> /\ last.kind = "SOH"
    THEN {line} \cup {[line EXCEPT ![Len(line)] = Short(last, n)] : n \in 1..(PacketBytes - 1)}
    ELSE {line}

Interrupted ==
    /\ InCall /\ stops > 0
    /\ stops' = stops - 1
    /\ EndProgram
    /\ toDevice' \in Cut(toDevice)
    /\ UNCHANGED <<noise, expired, misread>>

\* Nobody reads what arrives while no program runs.
Unread ==
    /\ ~running /\ toHost # <<>>
    /\ toHost' = <<>>
    /\ UNCHANGED <<host, device, toDevice, rest>>

-----------------------------------------------------------------------------
(* The device receives a request, carries it out and transmits an answer.  *)
(* It listens again after an answer or a reception that failed, and after  *)
(* a package without a block, which is what a repeated EOT makes.          *)

DevListen ==
    /\ devSendPc \in {"idle", "ok", "failed"}
    /\ devRecvPc \in {"idle", "failed"} \/ (devRecvPc = "ok" /\ devRecvBuf = <<>>)
    /\ devSendPc' = "idle" /\ devSendBlock' = 0 /\ devSendTries' = 0
    /\ devRecvPc' = "read" /\ devRecvSeq' = 1 /\ devRecvBuf' = <<>> /\ devRecvErr' = 0
    /\ devRecvNak' = "C" /\ devRecvFrom' = {} /\ devLacks' = 0
    /\ DevRecv!Answer("C")
    /\ UNCHANGED <<host, toDevice, rest>>

DevRecvHear ==
    /\ devRecvPc = "read" /\ toDevice # <<>>
    /\ \E r \in Tokens(toDevice) :
          /\ DevRecv!RxStep(r[1])
          /\ devRecvFrom' = Stored(devRecvFrom, devRecvBuf, r[1])
          /\ devLacks' = Lacking(r[1])
          /\ toDevice' = r[2]
          /\ misread' = misread \cup MisreadEot(toDevice, devRecvBuf, r[1].kind)
    /\ expired' = "none"
    /\ UNCHANGED <<host, devSend, faults>>

DevRecvFill ==
    /\ devRecvPc = "body" /\ toDevice # <<>>
    /\ toDevice' = Filled(toDevice, devLacks)
    /\ devLacks' = StillLacks(toDevice, devLacks)
    /\ \/ devLacks' = 0 /\ DevRecv!ReadError
       \/ devLacks' > 0 /\ UNCHANGED <<devRecvPc, devRecvSeq, devRecvBuf, devRecvErr, devRecvNak, toHost>>
    /\ expired' = "none"
    /\ UNCHANGED <<host, devSend, devRecvFrom, faults, misread>>

DevRecvDrain ==
    /\ devRecvPc = "drain" /\ toDevice # <<>>
    /\ toDevice' = Tail(toDevice)
    /\ UNCHANGED <<host, device, toHost, rest>>

DevRecvExpire ==
    /\ RxWaiting(devRecvPc) /\ DevTimer /\ DevRecv!ReadError /\ devLacks' = 0
    /\ UNCHANGED <<host, devRecvFrom, devSend, toDevice, faults, misread>>

DevAnswer ==
    /\ devRecvPc = "ok" /\ devRecvBuf # <<>>
    /\ devRecvPc' = "idle"
    /\ DevSend(0)!TxCall
    /\ UNCHANGED <<host, devRecvSeq, devRecvBuf, devRecvErr, devRecvNak, devRecvFrom,
                   devLacks, toDevice, rest>>

\* The request is the package that its first block is from.
DevSendStep(rsp) ==
    \E c \in 1..MaxCalls :
        RequestOf(c) \in devRecvFrom /\ DevSend(AnswerTo(c))!TxStep(rsp)

DevSendHear ==
    /\ toDevice # <<>>
    /\ \E r \in Bytes(toDevice) :
          /\ DevSendStep(r[1])
          /\ toDevice' = r[2]
          /\ misread' = misread \cup MisreadAck(toDevice, devSendPc, r[1])
    /\ expired' = "none"
    /\ UNCHANGED <<host, devRecv, faults>>

DevSendExpire ==
    /\ DevTimer /\ DevSendStep("ERR")
    /\ UNCHANGED <<host, devRecv, toDevice, faults, misread>>

-----------------------------------------------------------------------------
(* The line loses or damages what is next to be read, or loses one byte of *)
(* a packet: its SOH, its number, so that the complement takes that place, *)
(* or another.                                                             *)

Unnumbered(t) == [t EXCEPT !.seq = 255 - t.seq]

Disturbed(t) ==
    {<<>>} \cup CASE t.kind = "SOH" -> {<<[t EXCEPT !.kind = "bad"]>>, Left(t, PacketBytes - 1),
                                        <<Short(Unnumbered(t), 1)>>, <<Short(t, 1)>>}
                  [] IsPacket(t) \/ t.kind = "tail" -> {}
                  [] OTHER -> {<<Byte("junk")>>}
DisturbedLine(line) == {new \o Tail(line) : new \in Disturbed(Head(line))}

Disturb ==
    /\ InCall /\ noise > 0
    /\ noise' = noise - 1
    /\ \/ toHost # <<>> /\ toHost' \in DisturbedLine(toHost) /\ UNCHANGED toDevice
       \/ toDevice # <<>> /\ toDevice' \in DisturbedLine(toDevice) /\ UNCHANGED toHost
    /\ UNCHANGED <<host, device, expired, stops, misread>>

Done == Finished /\ UNCHANGED vars

Program ==
    \/ StartProgram \/ BeginCall
    \/ HostSendHear \/ HostSendExpire \/ RequestSent
    \/ HostRecvHear \/ HostRecvFill \/ HostRecvDrain \/ HostRecvExpire
    \/ CallReturns \/ CallFails

Device ==
    /\ ~Finished
    /\ running \/ toHost = <<>>
    /\ \/ DevListen
       \/ DevRecvHear \/ DevRecvFill \/ DevRecvDrain \/ DevRecvExpire
       \/ DevAnswer \/ DevSendHear \/ DevSendExpire

Next == Program \/ Interrupted \/ Unread \/ Device \/ Disturb \/ Done

Spec == Init /\ [][Next]_vars

\* Every read returns within its timeout, and both ends go on to their next call.
FairSpec == Spec /\ WF_vars(Program) /\ WF_vars(Unread) /\ WF_vars(Device)

-----------------------------------------------------------------------------
(* Properties.                                                             *)

\* Types, and the ranges of the counters at both ends.
TypeOK ==
    /\ running \in BOOLEAN /\ call \in 0..MaxCalls
    /\ InCall => running
    /\ {sendPc, devSendPc} \subseteq {"idle", "wait_c", "pkt", "eot", "ok", "failed"}
    /\ {recvPc, devRecvPc} \subseteq {"idle", "read", "body", "drain", "ok", "failed"}
    /\ {recvFrom, devRecvFrom} \subseteq SUBSET Packages
    /\ {recvErr, devRecvErr} \subseteq 0..DevRecv!MAX_RX_ERRORS
    /\ expired \in {"none", "host", "device"}
    /\ noise \in 0..MaxNoise /\ stops \in 0..MaxStops
    /\ misread \subseteq {"ACK", "EOT"}

\* qda.c takes an answer for the answer to its request without any number in it.
\* It is: the blocks in the buffer are from the answer to this call and none is from
\* an earlier one, whatever the calls and the runs before left on the line or made
\* the device do.  This and the next two properties hold until an end has taken a byte
\* inside a packet for the ACK it waits for, or for the EOT behind the blocks it has.
AnswersThisCall == misread = {} /\ Accepted => recvFrom = {AnswerTo(call)}

\* A reception that succeeds at the host has the whole answer, or nothing at all if
\* all it read was an EOT; qda.c then finds its own request in the buffer.
WholeAnswer == misread = {} /\ recvPc = "ok" /\ recvBuf # <<>> => Len(recvBuf) = AnsBlocks

\* The device never carries out a request put together from two: a run that was
\* interrupted and the next one, or two copies of one call's request with another's.
OneRequest == misread = {} => \E p \in Packages : devRecvFrom \subseteq {p}

\* A call made while the device listens and the line is quiet is answered, whatever
\* came before, if nothing disturbs it.
Calm == noise = 0 /\ stops = 0
DeviceListens == devRecvPc = "read" /\ devRecvSeq = 1 /\ toDevice = <<>> /\ toHost = <<>>

Recovers ==
    (Calm /\ running /\ ~InCall /\ call < MaxCalls /\ DeviceListens)
        ~> (recvPc = "ok" /\ Len(recvBuf) = AnsBlocks)

\* Every call ends: the two ends never keep each other busy for ever with answers to
\* one another's retransmissions.
EveryCallEnds == InCall ~> ~InCall
=============================================================================
