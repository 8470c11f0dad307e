------------------------ MODULE XmodemDialogueProofs ------------------------
(***************************************************************************)
(* The safety properties of XmodemDialogue hold for packages of any length *)
(* and any number of calls, runs, disturbances and interrupts, until an    *)
(* end takes a byte inside a packet for an ACK or for the EOT.             *)
(*                                                                         *)
(* Why: the line keeps its order.  What a call left on its way to the      *)
(* device is read before what the next one writes; a device that waits for *)
(* the rest of an older request does not write the 'C' that would let a    *)
(* new one begin; so an ACK reaches the host only for a packet of its own  *)
(* request.  The answer then goes in lockstep.                             *)
(***************************************************************************)
EXTENDS XmodemDialogueTypes

-----------------------------------------------------------------------------
(* The invariant.                                                          *)

\* The packages of the call under way, or of the last one.
ThisRequest == RequestOf(call)
ThisAnswer  == AnswerTo(call)

\* The device's buffer holds blocks of this call's request, or of an earlier one.
Current   == devRecvFrom = {ThisRequest}
Older     == devRecvFrom # {} /\ devRecvFrom # {ThisRequest}
\* The device transmits blocks of its answer.
Answering == devSendPc \in {"pkt", "eot"}

\* The host transmits before it receives, has blocks of this call's answer only, and
\* expects the one after those it has.
HostInv ==
    /\ sendPc # "idle" => recvPc = "idle"
    /\ recvPc = "idle" => recvBuf = <<>> /\ recvFrom = {}
    /\ recvBuf # <<>> => recvFrom # {}
    /\ recvFrom \subseteq {ThisAnswer}
    /\ recvSeq = (Len(recvBuf) + 1) % 256

\* The device does one thing at a time, answers only what it received, and has
\* blocks of one request.  It asks for the first block with 'C', for others with NAK.
DevInv ==
    /\ devSendPc # "idle" => devRecvPc = "idle"
    /\ devSendPc \in {"wait_c", "pkt", "eot"} => devRecvFrom # {}
    /\ devRecvFrom = {} => devRecvBuf = <<>>
    /\ devRecvFrom # {} => devRecvBuf # <<>> /\ devRecvNak = "NAK"
    /\ devRecvFrom = {} \/ \E c \in 1..call : devRecvFrom = {RequestOf(c)}

\* Nothing of a request is on its way to the device: before the host begins one, until
\* it reads a 'C', once the answer comes, and while the device still waits for the rest
\* of an older request.
QuietRequest ==
    \/ running /\ ~InCall
    \/ sendPc = "wait_c"
    \/ recvBuf # <<>>
    \/ Current /\ Answering
    \/ Older /\ RxWaiting(devRecvPc)

\* What is on the way to the device is of this request: its packets, its EOTs, and then
\* the 'C' with which the host asks for the answer.
RequestLine ==
    /\ OfPackage(toDevice, ThisRequest)
    /\ QuietRequest => Free(toDevice, SentKinds)
    /\ sendPc = "pkt" => Free(toDevice, {"EOT"})
    /\ NoneAfter(toDevice, {"EOT"}, PacketKinds)
    /\ sendPc # "idle" => NoneAfter(toDevice, SentKinds, {"C"})
    /\ NoneBetween(toDevice, SentKinds, {"C"}, SentKinds)

\* Once the device has blocks of this request, the 'C' it acts on is that of the
\* reception that follows, and what is left before it is EOTs.
RequestTaken ==
    Current =>
        /\ sendPc # "wait_c"
        /\ NoneAfter(toDevice, {"C"}, SentKinds)
        /\ sendPc # "idle" => Free(toDevice, {"C"})
        /\ devRecvPc = "ok" \/ devSendPc = "wait_c"
             => sendPc # "pkt" /\ Free(toDevice, PacketKinds)
        /\ Answering => sendPc = "idle"

\* A device that waits for the rest of an older request asks with NAK: nothing that it
\* writes lets the host begin the next.
StaleReception ==
    RxWaiting(devRecvPc) /\ devRecvFrom # {} /\ (~InCall \/ Older)
        => /\ Free(toHost, {"C"} \cup PacketKinds)
           /\ sendPc \in {"idle", "wait_c", "failed"} /\ recvPc = "idle"

\* An ACK on the way to the host is for a packet of this request: none comes behind a
\* 'C' or a packet of an older dialogue, and the host gets past its first packet only
\* if the device has done with older requests.
AnswerLine ==
    /\ ~running => Len(toHost) <= 1
    /\ running /\ (~InCall \/ sendPc = "wait_c")
         => NoneAfter(toHost, {"C"} \cup PacketKinds, {"ACK"})
    /\ sendPc = "pkt" => /\ NoneAfter(toHost, {"ACK"}, SentKinds)
                         /\ Older => Free(toHost, {"ACK"})
    /\ (sendPc = "pkt" /\ sendBlock > 1) \/ sendPc \in {"eot", "ok"}
         => ~Older /\ Free(toHost, SentKinds)
    /\ recvPc # "idle" => ~Older
    /\ recvBuf # <<>>
         => /\ Free(toHost, {"ACK"})
            /\ devRecvFrom = {} \/ devSendPc \in {"pkt", "eot", "ok", "failed"}

\* The device has been through its answer, or given up.
Answered == devRecvFrom = {} \/ devSendPc \in {"ok", "failed"}

\* While the host waits for the answer and the device is not at it, no packet or EOT is on
\* the way to the host, and no second 'C' follows the one that begins it.  What is left
\* of a packet may be, or be read, when the answer is over; then nothing of the request
\* is on the line.
BeforeAnswer ==
    RxWaiting(recvPc) /\ ~Answering
        => /\ Free(toHost, SentKinds \ {"tail"})
           /\ \/ Free(toHost, SentKinds) /\ recvPc # "body"
              \/ Answered /\ Free(toDevice, SentKinds)
           /\ Current => Answered \/ NoneAfter(toDevice, {"C"}, Kinds)
           /\ NoneBetween(toDevice, SentKinds, {"C"}, Kinds)

\* Every packet on the line that may be stored is block k of package p.
Repeats(line, k, p) ==
    \A i \in 1..Len(line) : line[i].kind = "SOH" => line[i].seq = k /\ line[i].pkg = p

\* The answer goes in lockstep: what the host writes is alone on the line but for what is
\* left of a packet; a block on its way is the last there and the one the device is at,
\* and the host has it or lacks it alone; so the device ends the answer when the host has
\* all blocks.
DuringAnswer ==
    RxWaiting(recvPc) /\ Answering
        => /\ Len(toDevice) <= 1
           /\ toDevice # <<>> => Free(toHost, Kinds \ {"tail"}) /\ Len(toHost) <= 1
           /\ recvPc = "body" => Len(toHost) <= 1 /\ (toDevice # <<>> => toHost = <<>>)
           /\ NoneAfter(toHost, SentKinds \ {"tail"}, Kinds)
           /\ Free(toHost, {"tail"}) \/ Len(toHost) <= 2
           /\ devSendPc = "pkt"
                => /\ Repeats(toHost, devSendBlock, ThisAnswer) /\ Free(toHost, {"EOT"})
                   /\ Len(recvBuf) \in {devSendBlock - 1, devSendBlock}
                   /\ Free(toDevice, {"ACK"}) \/ Len(recvBuf) = devSendBlock
           /\ devSendPc = "eot" => Free(toHost, {"SOH"}) /\ Len(recvBuf) = AnsBlocks

\* WholeAnswer, without what it needs.
Whole == recvPc = "ok" /\ recvBuf # <<>> => Len(recvBuf) = AnsBlocks

\* What holds as long as nothing was misread, and the inductive invariant.
DialogueInv ==
    /\ TypeInv /\ HostInv /\ DevInv /\ RequestLine /\ RequestTaken
    /\ StaleReception /\ AnswerLine /\ BeforeAnswer /\ DuringAnswer /\ Whole

SoundInv == misread = {} => DialogueInv

-----------------------------------------------------------------------------
(* Facts about lines.                                                      *)

\* What the properties of a line have to do with each other.
LEMMA FreeImplies ==
    ASSUME NEW line \in Line
    PROVE  /\ Free(line, SentKinds) => Free(line, PacketKinds) /\ Free(line, {"EOT"})
                                       /\ Free(line, {"SOH"})
           /\ Free(line, {"C"} \cup PacketKinds) <=> Free(line, {"C"}) /\ Free(line, PacketKinds)
           /\ Free(line, Kinds) <=> line = <<>>
           /\ Free(line, SentKinds)
                <=> Free(line, SentKinds \ {"tail"}) /\ Free(line, {"tail"})
           /\ Free(line, Kinds \ {"tail"})
                => Free(line, {"SOH"}) /\ Free(line, {"EOT"}) /\ Free(line, SentKinds \ {"tail"})
           /\ Free(line, SentKinds)
                => /\ \A L : NoneAfter(line, SentKinds, L)
                   /\ \A M, L : NoneBetween(line, SentKinds, M, L)
                   /\ \A K : NoneAfter(line, K, SentKinds)
                   /\ \A p : OfPackage(line, p)
           /\ Free(line, {"ACK"}) => /\ \A L : NoneAfter(line, {"ACK"}, L)
                                     /\ \A K : NoneAfter(line, K, {"ACK"})
           /\ Free(line, {"C"}) => /\ \A L : NoneAfter(line, {"C"}, L)
                                   /\ \A K : NoneAfter(line, K, {"C"})
                                   /\ \A K, L : NoneBetween(line, K, {"C"}, L)
           /\ \A K, M, L : NoneAfter(line, K, M) => NoneBetween(line, K, M, L)
           /\ \A M, L : NoneAfter(line, M, L) => \A K : NoneBetween(line, K, M, L)
           /\ Len(line) <= 1 => \A K, L : NoneAfter(line, K, L)
           /\ Len(line) <= 1 /\ line # <<>> => Tail(line) = <<>>
<1>1. Free(line, SentKinds) => Free(line, PacketKinds) /\ Free(line, {"EOT"})
                              /\ Free(line, {"SOH"})
  BY DEF Free, SentKinds, PacketKinds
<1>2. Free(line, {"C"} \cup PacketKinds) <=> Free(line, {"C"}) /\ Free(line, PacketKinds)
  BY DEF Free
<1>3. Free(line, Kinds) <=> line = <<>>
  <2>1. ASSUME line # <<>>
        PROVE  ~Free(line, Kinds)
    <3>1. Head(line) \in LineToken
      BY <2>1, HeadTail
    <3>2. Head(line).kind \in Kinds
      BY <3>1 DEF LineToken
    <3>. QED
      BY <2>1, <3>2, FreeOfHead
  <2>. QED
    BY <2>1, EmptyLine
<1>4. Free(line, SentKinds)
                => /\ \A L : NoneAfter(line, SentKinds, L)
                   /\ \A M, L : NoneBetween(line, SentKinds, M, L)
                   /\ \A K : NoneAfter(line, K, SentKinds)
  BY DEF Free, NoneAfter, NoneBetween
<1>5. Free(line, SentKinds) => \A p : OfPackage(line, p)
  BY DEF Free, OfPackage, SentKinds, PacketKinds
<1>6. Free(line, {"ACK"}) => /\ \A L : NoneAfter(line, {"ACK"}, L)
                             /\ \A K : NoneAfter(line, K, {"ACK"})
  BY DEF Free, NoneAfter
<1>7. Free(line, {"C"}) => /\ \A L : NoneAfter(line, {"C"}, L)
                           /\ \A K : NoneAfter(line, K, {"C"})
                           /\ \A K, L : NoneBetween(line, K, {"C"}, L)
  BY DEF Free, NoneAfter, NoneBetween
<1>8. \A K, M, L : NoneAfter(line, K, M) => NoneBetween(line, K, M, L)
  BY DEF NoneAfter, NoneBetween
<1>9. \A M, L : NoneAfter(line, M, L) => \A K : NoneBetween(line, K, M, L)
  BY DEF NoneAfter, NoneBetween
<1>10. Len(line) <= 1 => \A K, L : NoneAfter(line, K, L)
  BY DEF NoneAfter, Line
<1>11. Len(line) <= 1 /\ line # <<>> => Tail(line) = <<>>
  <2>1. ASSUME Len(line) <= 1, line # <<>>
        PROVE  Tail(line) = <<>>
    <3>1. Len(line) \in Nat \ {0} /\ Len(Tail(line)) = Len(line) - 1 /\ Tail(line) \in Line
      BY <2>1, HeadTail
    <3>2. Len(Tail(line)) = 0
      BY <2>1, <3>1
    <3>. QED
      BY <3>1, <3>2, EmptySeq DEF Line
  <2>. QED
    BY <2>1
<1>12. /\ Free(line, SentKinds) <=> Free(line, SentKinds \ {"tail"}) /\ Free(line, {"tail"})
       /\ Free(line, Kinds \ {"tail"})
            => Free(line, {"SOH"}) /\ Free(line, {"EOT"}) /\ Free(line, SentKinds \ {"tail"})
  BY DEF Free, Kinds, SentKinds, PacketKinds
<1>. QED
  BY <1>1, <1>2, <1>3, <1>4, <1>5, <1>6, <1>7, <1>8, <1>9, <1>10, <1>11, <1>12

\* The packets on a line stay block k of package p when it is read from.
LEMMA RepeatsReduced ==
    ASSUME NEW old \in Line, NEW new \in Line, NEW k, NEW p,
           Reduced(new, old), Repeats(old, k, p)
    PROVE  Repeats(new, k, p)
<1>1. PICK d \in {0, 1} : /\ Len(new) = Len(old) - d
                          /\ \A i \in 1..Len(new) : Demoted(new[i], old[i + d])
  BY DEF Reduced
<1>2. \A i \in 1..Len(new) : i + d \in 1..Len(old)
  BY <1>1 DEF Line
<1>. QED
  BY <1>1, <1>2 DEF Repeats, Demoted, PacketKinds

\* And when another copy of it is written.
LEMMA RepeatsAppend ==
    ASSUME NEW line \in Line, NEW t \in LineToken, NEW k, NEW p, Free(line, {"SOH"}),
           t.kind = "SOH" => t.seq = k /\ t.pkg = p
    PROVE  Repeats(Append(line, t), k, p)
<1>1. \A i \in 1..(Len(line) + 1) : i \in 1..Len(line) \/ i = Len(line) + 1
  BY DEF Line
<1>. QED
  BY <1>1, AppendLine DEF Repeats, Free

\* Calls have different requests.
LEMMA RequestsDiffer ==
    /\ \A c, d \in Nat : RequestOf(c) = RequestOf(d) => c = d
    /\ \A c, d \in Nat : {RequestOf(c)} = {RequestOf(d)} => c = d
BY DEF RequestOf

\* Of a token that is alone on the line, a read leaves a tail or nothing.
LEMMA TailAlone ==
    ASSUME NEW old \in Line, NEW new \in Line, old # <<>>, Len(old) <= 1,
           \/ new = Tail(old)
           \/ \E u \in LineToken : u.kind = "tail" /\ new = <<u>> \o Tail(old)
    PROVE  Len(new) <= 1 /\ Free(new, Kinds \ {"tail"})
<1>1. Tail(old) = <<>>
  BY FreeImplies
<1>2. CASE new = <<>>
  BY <1>2, EmptyLine
<1>3. ASSUME NEW u \in LineToken, u.kind = "tail", new = <<u>> \o Tail(old)
      PROVE  Len(new) <= 1 /\ Free(new, Kinds \ {"tail"})
  <2>1. Len(new) = 1 /\ new[1] = u
    BY <1>1, <1>3
  <2>. QED
    BY <1>3, <2>1 DEF Free
<1>. QED
  BY <1>1, <1>2, <1>3

-----------------------------------------------------------------------------
(* The program, and what happens to the line.                              *)

\* A step that only reads, loses or damages what is on the line keeps the invariant.
LEMMA LinesReduced ==
    ASSUME DialogueInv, TypeInv', UNCHANGED <<running, call, hostSend, devSend>>,
           UNCHANGED <<recvSeq, recvBuf, recvFrom, devRecvBuf, devRecvNak, devRecvFrom>>,
           \/ recvPc' = recvPc
           \/ RxWaiting(recvPc) /\ RxWaiting(recvPc'),
           \/ devRecvPc' = devRecvPc
           \/ RxWaiting(devRecvPc) /\ RxWaiting(devRecvPc'),
           Reduced(toDevice', toDevice), Reduced(toHost', toHost),
           recvPc' = "body" => recvPc = "body" \/ ~Free(toHost, SentKinds),
           DuringAnswer' \/ UNCHANGED <<recvPc, toHost>>
    PROVE  DialogueInv'
<1>. USE DEF DialogueInv
<1>1. /\ toDevice \in Line /\ toHost \in Line /\ toDevice' \in Line /\ toHost' \in Line
      /\ recvBuf \in Seq(Nat)
  BY DEF TypeInv, HostTypes
<1>2. /\ UNCHANGED <<running, call, sendPc, sendBlock>>
      /\ UNCHANGED <<recvSeq, recvBuf, recvFrom>>
      /\ UNCHANGED <<devSendPc, devSendBlock, devRecvBuf, devRecvNak, devRecvFrom>>
      /\ RxWaiting(recvPc') <=> RxWaiting(recvPc)
      /\ RxWaiting(devRecvPc') <=> RxWaiting(devRecvPc)
      /\ (recvPc' = "idle") <=> (recvPc = "idle")
      /\ (devRecvPc' = "idle") <=> (devRecvPc = "idle")
      /\ (recvPc' = "ok") <=> (recvPc = "ok")
      /\ (devRecvPc' = "ok") <=> (devRecvPc = "ok")
      /\ InCall' <=> InCall
  BY DEF hostSend, devSend, RxWaiting, InCall
<1>3. HostInv' /\ DevInv'
  BY <1>2 DEF HostInv, DevInv, ThisAnswer
<1>4. RequestLine'
  BY <1>1, <1>2, LineReduced, PackageReduced
     DEF RequestLine, QuietRequest, ThisRequest, Current, Older, Answering
<1>5. RequestTaken'
  BY <1>1, <1>2, LineReduced DEF RequestTaken, ThisRequest, Current, Answering
<1>6. StaleReception'
  BY <1>1, <1>2, LineReduced DEF StaleReception, ThisRequest, Older
<1>7. AnswerLine'
  <2>1. Len(toHost) \in Nat /\ Len(toHost') \in Nat /\ Len(toHost') <= Len(toHost)
    BY <1>1, LineReduced DEF Line
  <2>2. Len(toHost) <= 1 => Len(toHost') <= 1
    BY <2>1
  <2>3. /\ NoneAfter(toHost, {"C"} \cup PacketKinds, {"ACK"})
             => NoneAfter(toHost', {"C"} \cup PacketKinds, {"ACK"})
        /\ NoneAfter(toHost, {"ACK"}, SentKinds) => NoneAfter(toHost', {"ACK"}, SentKinds)
        /\ Free(toHost, {"ACK"}) => Free(toHost', {"ACK"})
        /\ Free(toHost, SentKinds) => Free(toHost', SentKinds)
    BY <1>1, LineReduced
  <2>. QED
    BY <1>2, <2>2, <2>3 DEF AnswerLine, ThisRequest, Older
<1>8. BeforeAnswer'
  <2>1. /\ Free(toHost, SentKinds \ {"tail"}) => Free(toHost', SentKinds \ {"tail"})
        /\ Free(toHost, SentKinds) => Free(toHost', SentKinds)
        /\ Free(toDevice, SentKinds) => Free(toDevice', SentKinds)
        /\ NoneAfter(toDevice, {"C"}, Kinds) => NoneAfter(toDevice', {"C"}, Kinds)
        /\ NoneBetween(toDevice, SentKinds, {"C"}, Kinds)
             => NoneBetween(toDevice', SentKinds, {"C"}, Kinds)
    BY <1>1, LineReduced
  <2>. QED
    BY <1>2, <2>1 DEF BeforeAnswer, ThisRequest, Current, Answering, Answered
<1>9. DuringAnswer'
  <2>1. Len(toDevice) <= 1 => Len(toDevice') <= 1
    BY <1>1, LineReduced DEF Line
  <2>2. /\ Free(toDevice, {"ACK"}) => Free(toDevice', {"ACK"})
        /\ toDevice = <<>> => toDevice' = <<>>
    BY <1>1, LineReduced
  <2>. QED
    BY <1>2, <2>1, <2>2 DEF DuringAnswer, ThisAnswer, Answering
<1>10. Whole'
  BY <1>2 DEF Whole
<1>. QED
  BY <1>3, <1>4, <1>5, <1>6, <1>7, <1>8, <1>9, <1>10

\* The receiver of the host reads from the answer, or noise disturbs it: what is left is
\* shorter or has another token in front.
LEMMA AnswerRead ==
    ASSUME DialogueInv, TypeInv', UNCHANGED <<call, recvBuf, devSend, toDevice>>,
           RxWaiting(recvPc), toHost # <<>>, Reduced(toHost', toHost),
           \/ toHost' = Tail(toHost)
           \/ \E u \in LineToken : /\ u.kind = "tail" => Head(toHost).kind \in PacketKinds
                                   /\ toHost' = <<u>> \o Tail(toHost),
           recvPc' = "body" => \/ recvPc = "body"
                               \/ /\ Head(toHost).kind \in {"tail", "short"}
                                  /\ toHost' = Tail(toHost)
    PROVE  DuringAnswer'
<1>. SUFFICES ASSUME RxWaiting(recvPc'), Answering'
              PROVE  DuringAnswer'
  BY DEF DuringAnswer
<1>1. /\ toHost \in Line /\ toHost' \in Line
      /\ Len(toHost) \in Nat \ {0} /\ Len(toHost') \in Nat /\ Len(toHost') <= Len(toHost)
      /\ Tail(toHost) \in Line /\ Len(Tail(toHost)) = Len(toHost) - 1
  BY HeadTail, LineReduced DEF DialogueInv, TypeInv, Line
<1>2. /\ Answering /\ UNCHANGED <<devSendPc, devSendBlock>> /\ ThisAnswer' = ThisAnswer
  BY DEF devSend, Answering, ThisAnswer
<1>. DEFINE A == /\ Len(toDevice) <= 1
                 /\ toDevice # <<>> => Free(toHost, Kinds \ {"tail"}) /\ Len(toHost) <= 1
            B == recvPc = "body" => Len(toHost) <= 1 /\ (toDevice # <<>> => toHost = <<>>)
            C == NoneAfter(toHost, SentKinds \ {"tail"}, Kinds)
            D == Free(toHost, {"tail"}) \/ Len(toHost) <= 2
            E == /\ devSendPc = "pkt"
                      => /\ Repeats(toHost, devSendBlock, ThisAnswer) /\ Free(toHost, {"EOT"})
                         /\ Len(recvBuf) \in {devSendBlock - 1, devSendBlock}
                         /\ Free(toDevice, {"ACK"}) \/ Len(recvBuf) = devSendBlock
                 /\ devSendPc = "eot" => Free(toHost, {"SOH"}) /\ Len(recvBuf) = AnsBlocks
<1>3. A /\ B /\ C /\ D /\ E
  BY <1>2 DEF DialogueInv, DuringAnswer
<1>4. A'
  <2>1. Free(toHost, Kinds \ {"tail"}) => Free(toHost', Kinds \ {"tail"})
    BY <1>1, LineReduced
  <2>. QED
    BY <1>1, <1>3, <2>1
<1>5. Head(toHost).kind \in SentKinds \ {"tail"} => Tail(toHost) = <<>> /\ Len(toHost) = 1
  <2>1. Head(toHost).kind \in SentKinds \ {"tail"} => Free(Tail(toHost), Kinds)
    BY <1>1, <1>3, AfterHead
  <2>2. Free(Tail(toHost), Kinds) => Tail(toHost) = <<>>
    BY <1>1, FreeImplies
  <2>3. ASSUME Tail(toHost) = <<>>
        PROVE  Len(toHost) = 1
    <3>1. Len(<<>>) = 0
      OBVIOUS
    <3>2. Len(Tail(toHost)) = 0
      BY <2>3, <3>1, Zenon
    <3>3. Len(toHost) \in Nat \ {0} /\ Len(Tail(toHost)) = Len(toHost) - 1
      BY <1>1
    <3>. QED
      BY ONLY <3>2, <3>3
  <2>. QED
    BY <2>1, <2>2, <2>3
<1>6. D'
  <2>1. CASE Free(toHost, {"tail"})
    <3>1. \A i \in 1..Len(Tail(toHost)) : Tail(toHost)[i].kind # "tail"
      BY <1>1, <2>1, HeadTail DEF Free
    <3>2. CASE toHost' = Tail(toHost)
      BY <3>1, <3>2 DEF Free
    <3>3. ASSUME NEW u \in LineToken, u.kind = "tail" => Head(toHost).kind \in PacketKinds,
                 toHost' = <<u>> \o Tail(toHost)
          PROVE  D'
      <4>1. Head(toHost).kind # "tail"
        BY <1>1, <2>1, FreeOfHead
      <4>2. CASE u.kind = "tail"
        <5>1. Len(toHost) = 1
          BY <1>5, <3>3, <4>1, <4>2 DEF SentKinds
        <5>. QED
          BY <1>1, <5>1
      <4>3. CASE u.kind # "tail"
        <5>1. /\ toHost'[1] = u /\ Len(toHost') = Len(toHost)
              /\ \A i \in 2..Len(toHost) : toHost'[i] = toHost[i]
          BY <1>1, <3>3, HeadReplaced
        <5>2. \A i \in 1..Len(toHost) : i = 1 \/ i \in 2..Len(toHost)
          BY <1>1
        <5>3. Free(toHost', {"tail"})
          BY <2>1, <4>3, <5>1, <5>2 DEF Free
        <5>. QED
          BY <5>3
      <4>. QED
        BY <4>2, <4>3
    <3>. QED
      BY <3>2, <3>3
  <2>2. CASE Len(toHost) <= 2
    BY <1>1, <2>2
  <2>. QED
    BY <1>3, <2>1, <2>2
<1>7. B'
  <2>1. ASSUME recvPc' = "body", recvPc = "body"
        PROVE  B'
    BY <1>1, <1>3, <2>1
  <2>2. ASSUME Head(toHost).kind = "short", toHost' = Tail(toHost)
        PROVE  B'
    BY <1>1, <1>5, <2>2 DEF SentKinds, PacketKinds
  <2>3. ASSUME Head(toHost).kind = "tail", toHost' = Tail(toHost)
        PROVE  B'
    <3>1. Len(toHost) <= 2
      BY <1>1, <1>3, <2>3, FreeOfHead
    <3>2. toDevice # <<>> => Tail(toHost) = <<>>
      BY <1>1, <1>3, FreeImplies
    <3>. QED
      BY <1>1, <2>3, <3>1, <3>2
  <2>. QED
    BY <2>1, <2>2, <2>3
<1>8. C' /\ E'
  <2>1. /\ NoneAfter(toHost, SentKinds \ {"tail"}, Kinds)
             => NoneAfter(toHost', SentKinds \ {"tail"}, Kinds)
        /\ Free(toHost, {"EOT"}) => Free(toHost', {"EOT"})
        /\ Free(toHost, {"SOH"}) => Free(toHost', {"SOH"})
    BY <1>1, LineReduced
  <2>2. \A k : Repeats(toHost, k, ThisAnswer) => Repeats(toHost', k, ThisAnswer)
    BY <1>1, RepeatsReduced
  <2>. QED
    BY <1>2, <1>3, <2>1, <2>2
<1>. QED
  BY <1>4, <1>6, <1>7, <1>8 DEF DuringAnswer

\* The next run starts with nothing on the way to the device.
LEMMA StartProgramKeeps ==
    ASSUME DialogueInv, TypeInv', StartProgram
    PROVE  DialogueInv'
<1>. USE DEF DialogueInv
<1>1. toHost \in Line
  BY DEF TypeInv
<1>2. /\ UNCHANGED <<call, sendPc, sendBlock>>
      /\ UNCHANGED <<recvPc, recvSeq, recvBuf, recvFrom>>
      /\ UNCHANGED <<devSendPc, devSendBlock, devRecvPc, devRecvBuf, devRecvNak, devRecvFrom>>
      /\ UNCHANGED <<toDevice, toHost>>
      /\ ~running /\ running' /\ toDevice = <<>>
  BY DEF StartProgram, device, hostSend, hostRecv, devSend, devRecv
<1>3. ~InCall
  BY <1>2 DEF TypeInv, HostTypes
<1>4. HostInv' /\ DevInv' /\ Whole'
  BY <1>2 DEF HostInv, DevInv, ThisAnswer, Whole
<1>5. RequestLine' /\ RequestTaken'
  BY <1>2, EmptyLine
     DEF RequestLine, QuietRequest, RequestTaken, ThisRequest, InCall, Current, Older, Answering
<1>6. StaleReception'
  BY <1>2 DEF StaleReception, ThisRequest, Older, InCall
<1>7. AnswerLine'
  <2>1. NoneAfter(toHost, {"C"} \cup PacketKinds, {"ACK"})
    BY <1>1, <1>2, FreeImplies DEF AnswerLine
  <2>. QED
    BY <1>2, <2>1 DEF AnswerLine, ThisRequest, Older, InCall
<1>8. BeforeAnswer' /\ DuringAnswer'
  BY <1>2, <1>3 DEF BeforeAnswer, DuringAnswer, InCall, RxWaiting
<1>. QED
  BY <1>4, <1>5, <1>6, <1>7, <1>8

\* A new call makes every request in the device an older one.
LEMMA NewCall ==
    ASSUME DialogueInv, BeginCall
    PROVE  ~Current'
<1>1. call \in Nat /\ call' = call + 1 /\ devRecvFrom' = devRecvFrom
  BY DialogueAssumption
     DEF DialogueInv, TypeInv, HostTypes, BeginCall, device, devRecv
<1>2. CASE devRecvFrom = {}
  BY <1>1, <1>2 DEF Current
<1>3. ASSUME NEW c \in 1..call, devRecvFrom = {RequestOf(c)}
      PROVE  ~Current'
  <2>1. c \in Nat /\ call + 1 \in Nat /\ c # call + 1
    BY <1>1
  <2>2. RequestOf(c) # RequestOf(call + 1)
    BY <2>1, RequestsDiffer
  <2>. QED
    BY <1>1, <1>3, <2>2 DEF Current, ThisRequest
<1>. QED
  BY <1>2, <1>3 DEF DialogueInv, DevInv

\* The host begins it with nothing of another on the line.
LEMMA BeginCallKeeps ==
    ASSUME DialogueInv, TypeInv', BeginCall
    PROVE  DialogueInv'
<1>. USE DEF DialogueInv
<1>1. toHost \in Line /\ toDevice \in Line /\ call \in Nat
  BY DialogueAssumption DEF TypeInv, HostTypes
<1>2. /\ UNCHANGED <<running, sendBlock>>
      /\ UNCHANGED <<recvPc, recvSeq, recvBuf, recvFrom>>
      /\ UNCHANGED <<devSendPc, devSendBlock, devRecvPc, devRecvBuf, devRecvNak, devRecvFrom>>
      /\ UNCHANGED <<toDevice, toHost>>
      /\ call' = call + 1 /\ running /\ ~InCall /\ sendPc' = "wait_c"
  BY DEF BeginCall, device, hostSend, hostRecv, devSend, devRecv, HostSend!TxCall
<1>3. recvPc = "idle" /\ sendPc = "idle" /\ recvBuf = <<>> /\ recvFrom = {}
  BY <1>2 DEF InCall, HostInv
<1>4. ~Current'
  BY NewCall
<1>5. HostInv' /\ Whole'
  BY <1>2, <1>3 DEF HostInv, Whole
<1>6. DevInv'
  <2>1. \A c \in 1..call : c \in 1..(call + 1)
    BY <1>1
  <2>. QED
    BY <1>2, <2>1 DEF DevInv
<1>7. Free(toDevice, SentKinds)
  BY <1>2 DEF RequestLine, QuietRequest
<1>8. RequestLine'
  BY <1>1, <1>2, <1>7, FreeImplies DEF RequestLine
<1>9. RequestTaken'
  BY <1>4 DEF RequestTaken
<1>10. StaleReception'
  BY <1>2, <1>3 DEF StaleReception
<1>11. AnswerLine'
  BY <1>2, <1>3 DEF AnswerLine
<1>12. BeforeAnswer' /\ DuringAnswer'
  BY <1>2, <1>3 DEF BeforeAnswer, DuringAnswer, RxWaiting
<1>. QED
  BY <1>5, <1>6, <1>8, <1>9, <1>10, <1>11, <1>12

\* The 'C' of the host goes behind everything of the request.
LEMMA RequestSentKeeps ==
    ASSUME DialogueInv, TypeInv', RequestSent
    PROVE  DialogueInv'
<1>. USE DEF DialogueInv
<1>1. toHost \in Line /\ toDevice \in Line
  BY DEF TypeInv, HostTypes
<1>2. /\ UNCHANGED <<running, call, recvFrom>>
      /\ UNCHANGED <<devSendPc, devSendBlock, devRecvPc, devRecvBuf, devRecvNak, devRecvFrom>>
      /\ UNCHANGED toHost
      /\ sendPc = "ok" /\ sendPc' = "idle"
      /\ recvPc = "idle" /\ recvPc' = "read" /\ recvSeq' = 1 /\ recvBuf' = <<>>
      /\ toDevice' = Append(toDevice, Byte("C"))
  BY CToken DEF RequestSent, EndSend, device, devSend, devRecv, HostRecv!RxCall, HostRecv!Answer
<1>3. running /\ InCall /\ InCall'
  BY <1>2 DEF InCall, TypeInv, HostTypes
<1>4. recvFrom = {}
  BY <1>2 DEF HostInv
<1>5. HostInv' /\ Whole'
  BY <1>2, <1>4 DEF HostInv, Whole
<1>6. DevInv'
  BY <1>2 DEF DevInv
<1>7. /\ ~Older /\ Free(toHost, SentKinds) /\ ~Older'
      /\ NoneAfter(toDevice, SentKinds, {"C"})
  BY <1>2 DEF AnswerLine, RequestLine, Older, ThisRequest
<1>8. /\ OfPackage(toDevice', ThisRequest)
      /\ Byte("C") \in LineToken /\ Byte("C").kind = "C" /\ "C" \notin SentKinds
      /\ "C" \notin PacketKinds
  BY <1>1, <1>2, CToken, PackageAppend DEF RequestLine, SentKinds, PacketKinds
<1>9. ~(Current /\ Answering) /\ ~(Current /\ Answering)'
  BY <1>2 DEF RequestTaken, Current, Answering, ThisRequest
<1>10. ~QuietRequest'
  BY <1>2, <1>3, <1>7, <1>9 DEF QuietRequest
<1>11. RequestLine'
  <2>1. NoneAfter(toDevice', {"EOT"}, PacketKinds)
    BY <1>1, <1>2, <1>8, AfterAppend DEF RequestLine
  <2>2. NoneBetween(toDevice', SentKinds, {"C"}, SentKinds)
    BY <1>1, <1>2, <1>8, BetweenAppend DEF RequestLine
  <2>. QED
    BY <1>2, <1>8, <1>10, <2>1, <2>2 DEF RequestLine, ThisRequest
<1>12. RequestTaken'
  <2>1. NoneAfter(toDevice, {"C"}, SentKinds) => NoneAfter(toDevice', {"C"}, SentKinds)
    BY <1>1, <1>2, <1>8, AfterAppend
  <2>2. Free(toDevice, PacketKinds) => Free(toDevice', PacketKinds)
    BY <1>1, <1>2, <1>8, FreeAppend
  <2>. QED
    BY <1>2, <1>9, <2>1, <2>2 DEF RequestTaken, Current, ThisRequest, Answering
<1>13. StaleReception'
  BY <1>3, <1>7 DEF StaleReception
<1>14. AnswerLine'
  BY <1>2, <1>3, <1>7 DEF AnswerLine
<1>15. ~Answering'
  BY <1>2, <1>7, <1>9 DEF Answering, DevInv, Current, Older
<1>16. BeforeAnswer'
  <2>1. Current => NoneAfter(toDevice', {"C"}, Kinds)
    <3>1. Current => NoneAfter(toDevice, {"C"}, Kinds) /\ Free(toDevice, {"C"})
      BY <1>1, <1>2, FreeImplies DEF RequestTaken
    <3>. QED
      BY <1>1, <1>2, <1>8, <3>1, AfterAppend
  <2>2. NoneBetween(toDevice, SentKinds, {"C"}, Kinds)
    BY <1>1, <1>7, FreeImplies
  <2>3. NoneBetween(toDevice', SentKinds, {"C"}, Kinds)
    BY <1>1, <1>2, <1>7, <1>8, <2>2, BetweenAppend
  <2>. QED
    BY <1>1, <1>2, <1>7, <2>1, <2>3, FreeImplies DEF BeforeAnswer, Current, ThisRequest
<1>17. DuringAnswer'
  BY <1>15 DEF DuringAnswer
<1>. QED
  BY <1>5, <1>6, <1>11, <1>12, <1>13, <1>14, <1>16, <1>17

\* A call that returns has had its answer, so its request is off the line.
LEMMA CallReturnsKeeps ==
    ASSUME DialogueInv, TypeInv', CallReturns
    PROVE  DialogueInv'
<1>. USE DEF DialogueInv
<1>1. toHost \in Line /\ toDevice \in Line
  BY DEF TypeInv, HostTypes
<1>2. /\ UNCHANGED <<running, call, sendPc, sendBlock>>
      /\ UNCHANGED <<devSendPc, devSendBlock, devRecvPc, devRecvBuf, devRecvNak, devRecvFrom>>
      /\ UNCHANGED <<toDevice, toHost>>
      /\ recvPc \in {"ok", "failed"} /\ recvBuf # <<>>
      /\ recvPc' = "idle" /\ recvSeq' = 1 /\ recvBuf' = <<>> /\ recvFrom' = {}
  BY DEF CallReturns, Accepted, EndRecv, hostSend, device, devSend, devRecv
<1>3. sendPc = "idle" /\ running
  BY <1>2 DEF HostInv, InCall, TypeInv, HostTypes
<1>4. HostInv' /\ Whole' /\ DevInv'
  BY <1>2, <1>3 DEF HostInv, Whole, DevInv
<1>5. Free(toDevice, SentKinds) /\ Free(toHost, {"ACK"})
  BY <1>2 DEF RequestLine, QuietRequest, AnswerLine
<1>6. RequestLine' /\ RequestTaken'
  BY <1>1, <1>2, <1>3, <1>5, FreeImplies
     DEF RequestLine, RequestTaken, Current, ThisRequest, Answering
<1>7. StaleReception'
  BY <1>2 DEF StaleReception, AnswerLine, DevInv, RxWaiting
<1>8. AnswerLine'
  BY <1>1, <1>2, <1>3, <1>5, FreeImplies DEF AnswerLine
<1>9. BeforeAnswer' /\ DuringAnswer'
  BY <1>2 DEF BeforeAnswer, DuringAnswer, RxWaiting
<1>. QED
  BY <1>4, <1>6, <1>7, <1>8, <1>9

\* A run that ends leaves what it wrote, perhaps cut, and what the device does.
LEMMA EndProgramKeeps ==
    ASSUME DialogueInv, TypeInv', EndProgram, Reduced(toDevice', toDevice)
    PROVE  DialogueInv'
<1>. USE DEF DialogueInv
<1>1. toDevice \in Line /\ toDevice' \in Line
  BY DEF TypeInv, HostTypes
<1>2. /\ UNCHANGED <<call, devSendPc, devSendBlock, devRecvPc, devRecvBuf, devRecvNak, devRecvFrom>>
      /\ ~running' /\ sendPc' = "idle" /\ toHost' = <<>>
      /\ recvPc' = "idle" /\ recvSeq' = 1 /\ recvBuf' = <<>> /\ recvFrom' = {}
  BY DEF EndProgram, EndSend, EndRecv, device, devSend, devRecv
<1>3. HostInv' /\ Whole' /\ DevInv'
  BY <1>2 DEF HostInv, Whole, DevInv
<1>4. RequestLine' /\ RequestTaken'
  BY <1>1, <1>2, LineReduced, PackageReduced
     DEF RequestLine, RequestTaken, QuietRequest, Current, Older, ThisRequest, Answering
<1>5. StaleReception' /\ AnswerLine'
  BY <1>2, EmptyLine DEF StaleReception, AnswerLine
<1>6. BeforeAnswer' /\ DuringAnswer'
  BY <1>2 DEF BeforeAnswer, DuringAnswer, RxWaiting
<1>. QED
  BY <1>3, <1>4, <1>5, <1>6

-----------------------------------------------------------------------------
(* The host transmits.                                                     *)

\* The host's transmitter.  A 'C' finds no device in the middle of an older request; an
\* ACK finds the device with this one.
LEMMA SendStepKeeps ==
    ASSUME DialogueInv, TypeInv', NEW rsp, SendStep(rsp),
           UNCHANGED <<running, call, hostRecv, device>>,
           Reduced(toHost', toHost),
           rsp = "ACK" => \/ sendPc = "wait_c"
                          \/ toHost # <<>> /\ Head(toHost).kind = "ACK" /\ toHost' = Tail(toHost),
           rsp = "C" => /\ toHost # <<>>
                        /\ \/ Head(toHost).kind = "C" /\ toHost' = Tail(toHost)
                           \/ Head(toHost).kind = "tail"
    PROVE  DialogueInv'
<1>. USE DEF DialogueInv
<1>1. /\ toDevice \in Line /\ toHost \in Line /\ toDevice' \in Line /\ toHost' \in Line
      /\ recvBuf \in Seq(Nat)
  BY DEF TypeInv, HostTypes
<1>2. /\ UNCHANGED <<running, call, recvPc, recvSeq, recvBuf, recvFrom>>
      /\ UNCHANGED <<devSendPc, devSendBlock, devRecvPc, devRecvBuf, devRecvNak, devRecvFrom>>
  BY DEF device, hostRecv, devSend, devRecv
<1>3. /\ sendPc \in {"wait_c", "pkt", "eot"}
      /\ sendPc' \in {"wait_c", "pkt", "eot", "ok", "failed"}
      /\ \/ \E t \in LineToken :
               /\ toDevice' = Append(toDevice, t)
               /\ \/ t.kind = "SOH" /\ t.pkg = ThisRequest /\ sendPc' = "pkt"
                  \/ t.kind = "EOT" /\ sendPc' = "eot" /\ sendPc # "wait_c"
               /\ \/ sendPc = "wait_c" /\ rsp = "C" /\ sendPc' = "pkt" /\ ~(sendBlock' > 1)
                  \/ sendPc = "pkt" /\ rsp = "ACK"
                  \/ sendPc' = sendPc /\ sendBlock' = sendBlock
         \/ /\ toDevice' = toDevice
            /\ \/ sendPc = "eot" /\ rsp = "ACK" /\ sendPc' = "ok"
               \/ sendPc = "wait_c" /\ sendPc' = "wait_c"
               \/ sendPc' = "failed"
  BY HostSends DEF ThisRequest
<1>4. recvPc = "idle" /\ recvBuf = <<>> /\ recvFrom = {} /\ running /\ InCall /\ InCall'
  BY <1>2, <1>3 DEF HostInv, InCall, TypeInv, HostTypes
<1>5. HostInv' /\ Whole' /\ DevInv'
  BY <1>2, <1>4 DEF HostInv, Whole, DevInv, ThisAnswer
<1>6. BeforeAnswer' /\ DuringAnswer'
  BY <1>2, <1>4 DEF BeforeAnswer, DuringAnswer, RxWaiting
<1>7. ASSUME sendPc = "wait_c", rsp = "C"
      PROVE  /\ ~(Older /\ RxWaiting(devRecvPc)) /\ Free(toHost', {"ACK"})
             /\ Free(toDevice, SentKinds) /\ ~Current
  <2>1. NoneAfter(toHost, {"C"} \cup PacketKinds, {"ACK"})
    BY <1>4, <1>7 DEF AnswerLine
  <2>2. Head(toHost).kind \in {"C"} \cup PacketKinds /\ toHost # <<>>
    BY <1>7 DEF PacketKinds
  <2>3. Free(Tail(toHost), {"ACK"})
    BY <1>1, <2>1, <2>2, AfterHead
  <2>4. ASSUME Head(toHost).kind = "tail"
        PROVE  Free(toHost, {"ACK"})
    <3>1. \A i \in 1..Len(toHost) : i = 1 \/ (i - 1 \in 1..Len(Tail(toHost)) /\ i = i - 1 + 1)
      BY <1>1, <2>2, HeadTail
    <3>2. toHost[1].kind = "tail"
      BY <1>1, <2>2, <2>4, HeadTail
    <3>3. \A i \in 1..Len(Tail(toHost)) : toHost[i + 1].kind # "ACK"
      BY <1>1, <2>2, <2>3, HeadTail DEF Free
    <3>4. \A i \in 1..Len(toHost) : toHost[i].kind # "ACK"
      BY <3>1, <3>2, <3>3
    <3>. QED
      BY <3>4 DEF Free
  <2>5. Free(toHost', {"ACK"})
    BY <1>1, <1>7, <2>3, <2>4, LineReduced
  <2>6. ~Free(toHost, {"C"} \cup PacketKinds)
    BY <1>1, <2>2, FreeOfHead
  <2>7. ~(Older /\ RxWaiting(devRecvPc))
    BY <2>6 DEF StaleReception, Older
  <2>8. Free(toDevice, SentKinds) /\ ~Current
    BY <1>7 DEF RequestLine, QuietRequest, RequestTaken
  <2>. QED
    BY <2>5, <2>7, <2>8
<1>8. ASSUME sendPc = "pkt", rsp = "ACK"
      PROVE  ~Older /\ Free(toHost', SentKinds)
  <2>1. Free(toHost', SentKinds)
    BY <1>1, <1>8, AfterHead DEF AnswerLine
  <2>2. ~Free(toHost, {"ACK"})
    BY <1>1, <1>8, FreeOfHead
  <2>. QED
    BY <1>8, <2>1, <2>2 DEF AnswerLine
<1>9. /\ ThisRequest' = ThisRequest /\ (Older' <=> Older) /\ (Current' <=> Current)
      /\ (Answering' <=> Answering)
  BY <1>2 DEF ThisRequest, Older, Current, Answering
<1>10. Current => sendPc # "wait_c" /\ Free(toDevice, {"C"}) /\ ~Answering
  BY <1>3 DEF RequestTaken
<1>11. StaleReception'
  <2>1. Free(toHost, {"C"} \cup PacketKinds) => Free(toHost', {"C"} \cup PacketKinds)
    BY <1>1, LineReduced
  <2>2. ASSUME RxWaiting(devRecvPc), Older
        PROVE  sendPc' \in {"wait_c", "failed"}
    <3>1. sendPc = "wait_c"
      BY <1>3, <2>2 DEF StaleReception, Older
    <3>. QED
      BY <1>3, <1>7, <2>2, <3>1
  <2>. QED
    BY <1>2, <1>4, <1>9, <2>1, <2>2 DEF StaleReception
<1>12. AnswerLine'
  <2>1. NoneAfter(toHost, {"C"} \cup PacketKinds, {"ACK"})
          => NoneAfter(toHost', {"C"} \cup PacketKinds, {"ACK"})
    BY <1>1, LineReduced
  <2>2. /\ NoneAfter(toHost, {"ACK"}, SentKinds) => NoneAfter(toHost', {"ACK"}, SentKinds)
        /\ Free(toHost, {"ACK"}) => Free(toHost', {"ACK"})
        /\ Free(toHost, SentKinds) => Free(toHost', SentKinds)
        /\ Free(toHost', {"ACK"}) => NoneAfter(toHost', {"ACK"}, SentKinds)
        /\ Free(toHost', SentKinds) => NoneAfter(toHost', {"ACK"}, SentKinds)
    BY <1>1, LineReduced, FreeImplies
  <2>3. sendPc' = "wait_c" => sendPc = "wait_c"
    BY <1>3
  <2>4. sendPc' = "pkt" => /\ NoneAfter(toHost', {"ACK"}, SentKinds)
                           /\ Older => Free(toHost', {"ACK"})
    BY <1>3, <1>7, <1>8, <2>2 DEF AnswerLine
  <2>5. (sendPc' = "pkt" /\ sendBlock' > 1) \/ sendPc' \in {"eot", "ok"}
          => ~Older /\ Free(toHost', SentKinds)
    BY <1>3, <1>8, <2>2 DEF AnswerLine
  <2>. QED
    BY <1>2, <1>4, <1>9, <2>1, <2>3, <2>4, <2>5 DEF AnswerLine
<1>13. CASE toDevice' = toDevice
  <2>1. sendPc' = "wait_c" => sendPc = "wait_c"
    BY <1>3
  <2>2. sendPc' # "pkt"
    <3>1. \A t \in LineToken : Append(toDevice, t) # toDevice
      <4>1. \A t \in LineToken : Len(Append(toDevice, t)) = Len(toDevice) + 1 /\ Len(toDevice) \in Nat
        BY <1>1, AppendLine DEF Line
      <4>. QED
        BY <4>1
    <3>. QED
      BY <1>3, <1>13, <3>1
  <2>3. RequestLine'
    BY <1>2, <1>3, <1>4, <1>9, <1>13, <2>1, <2>2 DEF RequestLine, QuietRequest
  <2>4. RequestTaken'
    BY <1>2, <1>3, <1>9, <1>10, <1>13, <2>1, <2>2 DEF RequestTaken
  <2>. QED
    BY <1>5, <1>6, <1>11, <1>12, <2>3, <2>4
<1>14. ASSUME NEW t \in LineToken, toDevice' = Append(toDevice, t),
              \/ t.kind = "SOH" /\ t.pkg = ThisRequest /\ sendPc' = "pkt"
              \/ t.kind = "EOT" /\ sendPc' = "eot" /\ sendPc # "wait_c",
              \/ sendPc = "wait_c" /\ rsp = "C" /\ sendPc' = "pkt"
              \/ sendPc = "pkt" /\ rsp = "ACK"
              \/ sendPc' = sendPc
       PROVE  DialogueInv'
  <2>1. t.kind \in SentKinds /\ t.kind # "C"
    BY <1>14 DEF SentKinds, PacketKinds
  <2>2. ~QuietRequest'
    <3>1. ~(Older /\ RxWaiting(devRecvPc))
      BY <1>3, <1>7, <1>14 DEF StaleReception, Older
    <3>. QED
      BY <1>2, <1>4, <1>9, <1>10, <1>14, <3>1 DEF QuietRequest
  <2>3. OfPackage(toDevice', ThisRequest)
    BY <1>1, <1>14, PackageAppend DEF RequestLine
  <2>4. sendPc' = "pkt" => Free(toDevice', {"EOT"})
    <3>1. ASSUME sendPc' = "pkt"
          PROVE  t.kind = "SOH" /\ Free(toDevice, {"EOT"})
      BY <1>1, <1>3, <1>7, <1>14, <3>1, FreeImplies DEF RequestLine
    <3>. QED
      BY <1>1, <1>14, <3>1, FreeAppend
  <2>5. NoneAfter(toDevice', {"EOT"}, PacketKinds)
    <3>1. t.kind = "SOH" => Free(toDevice, {"EOT"})
      BY <1>1, <1>3, <1>7, <1>14, FreeImplies DEF RequestLine
    <3>2. t.kind = "EOT" => t.kind \notin PacketKinds
      BY DEF PacketKinds
    <3>. QED
      BY <1>1, <1>14, <3>1, <3>2, AfterAppend DEF RequestLine
  <2>6. NoneAfter(toDevice', SentKinds, {"C"})
    BY <1>1, <1>3, <1>14, <2>1, AfterAppend DEF RequestLine
  <2>7. NoneBetween(toDevice', SentKinds, {"C"}, SentKinds)
    BY <1>1, <2>6, FreeImplies
  <2>8. RequestLine'
    BY <1>9, <2>2, <2>3, <2>4, <2>5, <2>6, <2>7 DEF RequestLine
  <2>9. RequestTaken'
    <3>1. ASSUME Current
          PROVE  Free(toDevice', {"C"}) /\ NoneAfter(toDevice', {"C"}, SentKinds)
      <4>1. Free(toDevice', {"C"})
        BY <1>1, <1>10, <1>14, <2>1, <3>1, FreeAppend
      <4>. QED
        BY <1>1, <4>1, FreeImplies
    <3>2. ASSUME Current, devRecvPc = "ok" \/ devSendPc = "wait_c"
          PROVE  sendPc' # "pkt" /\ Free(toDevice', PacketKinds)
      <4>1. sendPc = "eot" /\ Free(toDevice, PacketKinds)
        BY <1>3, <1>10, <3>2 DEF RequestTaken
      <4>2. t.kind = "EOT" /\ sendPc' = "eot"
        BY <1>14, <4>1
      <4>3. t.kind \notin PacketKinds
        BY <4>2 DEF PacketKinds
      <4>. QED
        BY <1>1, <1>14, <4>1, <4>2, <4>3, FreeAppend
    <3>. QED
      BY <1>2, <1>9, <1>10, <1>14, <3>1, <3>2 DEF RequestTaken
  <2>. QED
    BY <1>5, <1>6, <1>11, <1>12, <2>8, <2>9
<1>. QED
  BY <1>3, <1>13, <1>14

\* It reads a byte.
LEMMA HostSendHearKeeps ==
    ASSUME DialogueInv, TypeInv', misread' = {}, HostSendHear
    PROVE  DialogueInv'
<1>1. PICK r \in Bytes(toHost) : /\ SendStep(r[1]) /\ toHost' = r[2]
                                 /\ misread' = misread \cup MisreadAck(toHost, sendPc, r[1])
  BY DEF HostSendHear
<1>2. toHost \in Line /\ toHost # <<>>
  BY DEF HostSendHear, DialogueInv, TypeInv
<1>3. MisreadAck(toHost, sendPc, r[1]) = {}
  BY <1>1
<1>4. /\ Reduced(toHost', toHost)
      /\ r[1] = "ACK" => \/ sendPc = "wait_c"
                         \/ Head(toHost).kind = "ACK" /\ toHost' = Tail(toHost)
      /\ r[1] = "C" => \/ Head(toHost).kind = "C" /\ toHost' = Tail(toHost)
                       \/ Head(toHost).kind = "tail"
  <2>1. ~(Head(toHost).kind = "tail" /\ r[1] = "ACK" /\ sendPc # "wait_c")
    BY <1>3, MisreadKinds
  <2>. QED
    BY <1>1, <1>2, <2>1, BytesRead
<1>. QED
  BY <1>1, <1>2, <1>4, SendStepKeeps DEF HostSendHear

\* It times out.
LEMMA HostSendExpireKeeps ==
    ASSUME DialogueInv, TypeInv', HostSendExpire
    PROVE  DialogueInv'
<1>1. Reduced(toHost', toHost)
  BY SelfReduced DEF HostSendExpire, DialogueInv, TypeInv
<1>. QED
  BY <1>1, SendStepKeeps DEF HostSendExpire

-----------------------------------------------------------------------------
(* The host receives.                                                      *)

\* What the host's receiver writes when nothing of the request is on the line.
LEMMA HostAnswers ==
    ASSUME DialogueInv, TypeInv', UNCHANGED <<running, call, hostSend, device>>,
           RxWaiting(recvPc), recvPc' \notin {"idle", "body"},
           Free(toDevice, SentKinds), Reduced(toHost', toHost),
           toDevice = <<>> \/ Answering \/ recvPc = "body" \/ ~Free(toHost, SentKinds),
           NEW u \in LineToken, u.kind \in {"C", "ACK", "NAK", "CAN"},
           toDevice' = Append(toDevice, u),
           recvBuf' # <<>> => recvBuf # <<>> \/ (Current /\ Answering /\ toHost' = <<>>)
    PROVE  /\ DevInv' /\ RequestLine' /\ RequestTaken' /\ StaleReception' /\ AnswerLine'
           /\ BeforeAnswer'
           /\ toDevice = <<>> => Len(toDevice') <= 1
           /\ toDevice = <<>> /\ u.kind # "ACK" => Free(toDevice', {"ACK"})
<1>. USE DEF DialogueInv
<1>1. toDevice \in Line /\ toDevice' \in Line /\ toHost \in Line /\ toHost' \in Line
  BY DEF TypeInv
<1>2. /\ UNCHANGED <<running, call, sendPc, sendBlock, devSendPc, devSendBlock>>
      /\ UNCHANGED <<devRecvPc, devRecvBuf, devRecvNak, devRecvFrom>>
  BY DEF hostSend, device, devSend, devRecv
<1>3. sendPc = "idle" /\ running /\ InCall /\ InCall' /\ ~Older /\ recvPc # "idle"
  BY DEF RxWaiting, HostInv, InCall, TypeInv, HostTypes, AnswerLine
<1>4. /\ (Older' <=> Older) /\ (Current' <=> Current) /\ (Answering' <=> Answering)
  BY <1>2 DEF ThisRequest, Older, Current, Answering
<1>5. toDevice = <<>> => Len(toDevice') <= 1
  BY <1>1, AppendLine
<1>6. toDevice = <<>> /\ u.kind # "ACK" => Free(toDevice', {"ACK"})
  BY <1>1, FreeAppend, EmptyLine
<1>7. Free(toDevice', SentKinds)
  <2>1. u.kind \notin SentKinds
    BY DEF SentKinds, PacketKinds
  <2>. QED
    BY <1>1, <2>1, FreeAppend, EmptyLine
<1>8. /\ \A L : NoneAfter(toDevice', SentKinds, L)
      /\ \A M, L : NoneBetween(toDevice', SentKinds, M, L)
      /\ \A K : NoneAfter(toDevice', K, SentKinds)
      /\ \A p : OfPackage(toDevice', p)
      /\ Free(toDevice', PacketKinds) /\ Free(toDevice', {"EOT"})
  BY <1>1, <1>7, FreeImplies
<1>9. NoneAfter(toDevice', {"EOT"}, PacketKinds)
  BY <1>8 DEF NoneAfter, Free
<1>10. toDevice = <<>> => \A K, L : NoneAfter(toDevice', K, L)
  BY <1>1, <1>5, FreeImplies
<1>11. DevInv'
  BY <1>2 DEF DevInv
<1>12. RequestLine'
  BY <1>2, <1>3, <1>7, <1>8, <1>9 DEF RequestLine
<1>13. RequestTaken'
  BY <1>2, <1>3, <1>4, <1>8 DEF RequestTaken
<1>14. StaleReception'
  BY <1>3, <1>4 DEF StaleReception
<1>15. AnswerLine'
  <2>1. recvBuf' # <<>> => devRecvFrom = {} \/ devSendPc \in {"pkt", "eot", "ok", "failed"}
    BY DEF AnswerLine, Answering
  <2>2. recvBuf' # <<>> => Free(toHost', {"ACK"})
    BY <1>1, EmptyLine, LineReduced DEF AnswerLine
  <2>. QED
    BY <1>2, <1>3, <1>4, <2>1, <2>2 DEF AnswerLine
<1>16. BeforeAnswer'
  <2>1. /\ Free(toHost, SentKinds \ {"tail"}) => Free(toHost', SentKinds \ {"tail"})
        /\ Free(toHost, SentKinds) => Free(toHost', SentKinds)
    BY <1>1, LineReduced
  <2>2. Answered' <=> Answered
    BY <1>2 DEF Answered
  <2>. QED
    BY <1>2, <1>4, <1>7, <1>8, <1>10, <2>1, <2>2 DEF BeforeAnswer
<1>. QED
  BY <1>5, <1>6, <1>11, <1>12, <1>13, <1>14, <1>15, <1>16

\* The host's receiver times out.
LEMMA HostRecvExpireKeeps ==
    ASSUME DialogueInv, TypeInv', HostRecvExpire
    PROVE  DialogueInv'
<1>. USE DEF DialogueInv
<1>1. /\ UNCHANGED <<running, call, hostSend, device, recvFrom>>
      /\ RxWaiting(recvPc) /\ toDevice = <<>> /\ toHost = <<>> /\ toHost' = <<>>
      /\ Reduced(toHost', toHost)
  BY EmptyLine, SelfReduced DEF HostRecvExpire, HostTimer, Silence
<1>2. /\ recvPc' \in {"read", "failed"} /\ Byte(recvNak) \in LineToken
      /\ toDevice' = Append(toDevice, Byte(recvNak))
      /\ recvSeq' = recvSeq /\ recvBuf' = recvBuf
  BY HostGivesUp DEF HostRecvExpire
<1>3. Byte(recvNak).kind = recvNak /\ recvNak \in {"C", "NAK"}
  BY DEF Byte, DevRecv!Byte, TypeInv, HostTypes
<1>4. /\ DevInv' /\ RequestLine' /\ RequestTaken' /\ StaleReception' /\ AnswerLine'
      /\ BeforeAnswer' /\ Len(toDevice') <= 1 /\ Free(toDevice', {"ACK"})
  BY <1>1, <1>2, <1>3, HostAnswers, EmptyLine
<1>5. HostInv' /\ Whole'
  BY <1>1, <1>2 DEF HostInv, Whole, ThisAnswer, hostSend, RxWaiting
<1>6. DuringAnswer'
  <2>1. UNCHANGED <<devSendPc, devSendBlock>> /\ (Answering' <=> Answering)
    BY <1>1 DEF device, devSend, Answering
  <2>2. /\ \A K, L : NoneAfter(<<>>, K, L) /\ Free(<<>>, K)
        /\ \A k, p : Repeats(<<>>, k, p) /\ Len(<<>>) <= 1
    BY EmptyLine DEF Repeats
  <2>. QED
    BY <1>1, <1>2, <1>4, <2>1, <2>2 DEF DuringAnswer
<1>. QED
  BY <1>4, <1>5, <1>6

\* It reads a token: a packet is the block the device is at, an EOT comes last, or from
\* inside a packet while the host has no block.
LEMMA HostRecvHearKeeps ==
    ASSUME DialogueInv, TypeInv', misread' = {}, HostRecvHear
    PROVE  DialogueInv'
<1>. USE DEF DialogueInv
<1>1. PICK r \in Tokens(toHost) : /\ HostRecv!RxStep(r[1])
                                  /\ recvFrom' = Stored(recvFrom, recvBuf, r[1])
                                  /\ toHost' = r[2]
                                  /\ misread' = misread \cup MisreadEot(toHost, recvBuf, r[1].kind)
  BY DEF HostRecvHear
<1>. DEFINE t == r[1]
<1>2. /\ UNCHANGED <<running, call, hostSend, device>>
      /\ recvPc = "read" /\ toHost # <<>> /\ toHost \in Line /\ toDevice \in Line
      /\ toHost' \in Line /\ toDevice' \in Line
  BY DEF HostRecvHear, TypeInv
<1>3. /\ t \in LineToken /\ Reduced(toHost', toHost)
      /\ \/ t = Head(toHost) /\ toHost' = Tail(toHost) /\ Head(toHost).kind # "tail"
         \/ /\ Head(toHost).kind = "tail"
            /\ \/ t.kind = "short" /\ toHost' = Tail(toHost)
               \/ /\ t.kind \notin {"SOH", "bad", "short"}
                  /\ \/ toHost' = Tail(toHost)
                     \/ \E u \in LineToken : u.kind = "tail" /\ toHost' = <<u>> \o Tail(toHost)
      /\ Head(toHost).kind = "tail" /\ t.kind = "EOT" => recvBuf = <<>>
  <2>1. MisreadEot(toHost, recvBuf, t.kind) = {}
    BY <1>1
  <2>2. ~(Head(toHost).kind = "tail" /\ t.kind = "EOT" /\ recvBuf # <<>>)
    BY <2>1 DEF MisreadEot
  <2>3. /\ r[1] \in LineToken /\ Reduced(r[2], toHost)
        /\ \/ r[1] = Head(toHost) /\ r[2] = Tail(toHost) /\ Head(toHost).kind # "tail"
           \/ /\ Head(toHost).kind = "tail"
              /\ \/ r[1].kind = "short" /\ r[2] = Tail(toHost)
                 \/ /\ r[1].kind \notin {"SOH", "bad", "short"}
                    /\ \/ r[2] = Tail(toHost)
                       \/ \E u \in LineToken : u.kind = "tail" /\ r[2] = <<u>> \o Tail(toHost)
    BY <1>1, <1>2, TokensRead
  <2>. QED
    BY <1>1, <2>2, <2>3, Zenon
<1>. HIDE DEF t
<1>4. /\ sendPc = "idle" /\ ~Older /\ RxWaiting(recvPc)
  BY <1>2 DEF HostInv, AnswerLine, RxWaiting
<1>5. \/ /\ t.kind = "SOH" /\ t.seq = recvSeq /\ recvPc' = "read"
         /\ recvBuf' # <<>> /\ Len(recvBuf') = Len(recvBuf) + 1 /\ Len(recvBuf') > Len(recvBuf)
         /\ recvSeq' = (recvSeq + 1) % 256 
         /\ toDevice' = Append(toDevice, Byte("ACK"))
      \/ /\ recvBuf' = recvBuf /\ recvSeq' = recvSeq
         /\ ~(Len(recvBuf') > Len(recvBuf))
         /\ \/ /\ t.kind = "SOH" /\ t.seq = recvSeq - 1 /\ recvPc' = "read"
               /\ toDevice' = Append(toDevice, Byte("ACK"))
            \/ /\ t.kind = "SOH" /\ recvPc' = "failed"
               /\ toDevice' = Append(toDevice, Byte("CAN"))
            \/ /\ t.kind = "EOT" /\ recvPc' = "ok"
               /\ toDevice' = Append(toDevice, Byte("ACK"))
            \/ /\ t.kind = "bad" /\ recvPc' \in {"read", "failed"}
               /\ toDevice' = Append(toDevice, Byte(recvNak))
            \/ /\ t.kind = "short" /\ recvPc' = "body" /\ toDevice' = toDevice
            \/ /\ t.kind \notin {"SOH", "EOT", "bad", "short"}
               /\ recvPc' = "drain" /\ toDevice' = toDevice
  BY <1>1, <1>2, <1>3, HostReceives DEF t
<1>6. CASE recvBuf' = recvBuf /\ recvSeq' = recvSeq /\ ~(Len(recvBuf') > Len(recvBuf))
           /\ recvPc' \in {"body", "drain"} /\ toDevice' = toDevice
           /\ (recvPc' = "body" => t.kind = "short")
  <2>1. recvFrom' = recvFrom
    BY <1>1, <1>6 DEF Stored
  <2>2. RxWaiting(recvPc') /\ Reduced(toDevice', toDevice)
    BY <1>2, <1>6, SelfReduced DEF RxWaiting
  <2>3. /\ UNCHANGED <<running, call, hostSend, devSend>>
        /\ UNCHANGED <<recvSeq, recvBuf, recvFrom, devRecvBuf, devRecvNak, devRecvFrom, devRecvPc>>
    BY <1>2, <1>6, <2>1 DEF device, devRecv
  <2>4. /\ recvPc' = "body" => /\ Head(toHost).kind \in {"tail", "short"}
                               /\ toHost' = Tail(toHost)
        /\ \/ toHost' = Tail(toHost)
           \/ \E u \in LineToken : /\ u.kind = "tail" => Head(toHost).kind \in PacketKinds
                                   /\ toHost' = <<u>> \o Tail(toHost)
    BY <1>3, <1>6 DEF PacketKinds
  <2>5. DuringAnswer'
    BY <1>2, <1>3, <1>4, <1>6, <2>3, <2>4, AnswerRead
  <2>6. recvPc' = "body" => ~Free(toHost, SentKinds)
    BY <1>2, <2>4, FreeOfHead DEF SentKinds, PacketKinds
  <2>. QED
    BY <1>3, <1>4, <2>2, <2>3, <2>5, <2>6, LinesReduced
<1>7. ASSUME t.kind \in {"SOH", "bad", "EOT"}, Head(toHost).kind # "tail"
      PROVE  /\ Current /\ Answering /\ toHost' = <<>> /\ toDevice = <<>>
             /\ t.kind = "SOH" => /\ devSendPc = "pkt"
                                  /\ t.seq = devSendBlock /\ t.pkg = ThisAnswer
             /\ t.kind = "EOT" => devSendPc = "eot"
  <2>1. t = Head(toHost) /\ t.kind \in SentKinds \ {"tail"} /\ t.kind \in Kinds \ {"tail"}
    BY <1>3, <1>7 DEF SentKinds, PacketKinds, Kinds
  <2>2. ~Free(toHost, SentKinds \ {"tail"}) /\ ~Free(toHost, Kinds \ {"tail"})
    BY <1>2, <2>1, FreeOfHead
  <2>3. Answering /\ Current
    BY <1>4, <2>2 DEF BeforeAnswer, Answering, DevInv, Current, Older
  <2>4. NoneAfter(toHost, SentKinds \ {"tail"}, Kinds) /\ toDevice = <<>>
    BY <1>2, <1>4, <2>2, <2>3 DEF DuringAnswer
  <2>5. Free(Tail(toHost), Kinds)
    BY <1>2, <2>1, <2>4, AfterHead
  <2>6. toHost' = <<>>
    BY <1>2, <1>3, <1>7, <2>5, FreeImplies
  <2>7. t.kind = "SOH" => devSendPc = "pkt"
    BY <1>2, <1>4, <2>1, <2>3, FreeOfHead DEF DuringAnswer, Answering
  <2>8. t.kind = "EOT" => devSendPc = "eot"
    BY <1>2, <1>4, <2>1, <2>3, FreeOfHead DEF DuringAnswer, Answering
  <2>9. t.kind = "SOH" => t.seq = devSendBlock /\ t.pkg = ThisAnswer
    <3>1. t.kind = "SOH" => Repeats(toHost, devSendBlock, ThisAnswer)
      BY <1>4, <2>3, <2>7 DEF DuringAnswer
    <3>2. t.kind = "SOH" => t = toHost[1] /\ 1 \in 1..Len(toHost)
      BY <1>2, <2>1, HeadTail
    <3>. QED
      BY <3>1, <3>2 DEF Repeats
  <2>. QED
    BY <2>3, <2>4, <2>6, <2>7, <2>8, <2>9
<1>8. Answering =>
        /\ devSendPc = "pkt" => /\ devSendBlock \in 1..255
                                /\ Len(recvBuf) \in {devSendBlock - 1, devSendBlock}
        /\ devSendPc = "eot" => Len(recvBuf) = AnsBlocks
        /\ Len(recvBuf) \in Nat
  <2>1. Answering => /\ devSendPc = "pkt" => Len(recvBuf) \in {devSendBlock - 1, devSendBlock}
                     /\ devSendPc = "eot" => Len(recvBuf) = AnsBlocks
    BY <1>4 DEF DuringAnswer
  <2>2. devSendPc = "pkt" => devSendBlock \in 1..AnsBlocks
    BY DEF TypeInv, DevTypes
  <2>3. \A k \in 1..AnsBlocks : k \in 1..255
    BY DialogueAssumption
  <2>4. Len(recvBuf) \in Nat
    BY DEF TypeInv, HostTypes
  <2>. QED
    BY <2>1, <2>2, <2>3, <2>4
<1>9. /\ UNCHANGED <<devSendPc, devSendBlock>>  /\ (Answering' <=> Answering)
      /\ ThisAnswer' = ThisAnswer /\ sendPc' = sendPc
  BY <1>2 DEF device, devSend, Answering, ThisAnswer, hostSend
<1>10. /\ \A K, L : NoneAfter(<<>>, K, L) /\ Free(<<>>, K)
       /\ \A k, p : Repeats(<<>>, k, p) /\ Len(<<>>) <= 1 /\ Len(<<>>) <= 2
  BY EmptyLine DEF Repeats
<1>11. /\ Byte("ACK") \in LineToken /\ Byte("ACK").kind = "ACK"
       /\ Byte("CAN") \in LineToken /\ Byte("CAN").kind = "CAN"
       /\ Byte(recvNak) \in LineToken /\ Byte(recvNak).kind \in {"C", "NAK"}
  <2>1. {"ACK", "CAN"} \subseteq Kinds \ {"SOH", "tail", "short"}
    BY DEF Kinds, SentKinds, PacketKinds
  <2>2. recvNak \in Kinds \ {"SOH", "tail", "short"} /\ recvNak \in {"C", "NAK"}
    BY DEF Kinds, SentKinds, PacketKinds, TypeInv, HostTypes
  <2>. QED
    BY <2>1, <2>2, ByteToken
<1>12. CASE /\ t.kind = "SOH" /\ t.seq = recvSeq /\ recvPc' = "read"
            /\ recvBuf' # <<>> /\ Len(recvBuf') = Len(recvBuf) + 1 /\ Len(recvBuf') > Len(recvBuf)
            /\ recvSeq' = (recvSeq + 1) % 256
            /\ toDevice' = Append(toDevice, Byte("ACK"))
  <2>1. /\ Current /\ Answering /\ toHost' = <<>> /\ toDevice = <<>> /\ devSendPc = "pkt"
        /\ t.seq = devSendBlock /\ t.pkg = ThisAnswer
    BY <1>3, <1>7, <1>12
  <2>2. Len(recvBuf') = devSendBlock /\ recvSeq' = (Len(recvBuf') + 1) % 256
    <3>1. /\ devSendBlock \in 1..255 /\ Len(recvBuf) \in {devSendBlock - 1, devSendBlock}
          /\ Len(recvBuf) \in Nat
      BY <1>8, <2>1
    <3>2. devSendBlock = (Len(recvBuf) + 1) % 256
      BY <1>12, <2>1 DEF HostInv
    <3>3. Len(recvBuf) + 1 = devSendBlock
      BY <3>1, <3>2
    <3>. QED
      BY <1>12, <2>1, <3>3
  <2>3. recvFrom' = {ThisAnswer}
    <3>1. recvFrom' = recvFrom \cup {t.pkg}
      BY <1>1, <1>12 DEF Stored, t
    <3>. QED
      BY <2>1, <3>1 DEF HostInv
  <2>4. /\ DevInv' /\ RequestLine' /\ RequestTaken' /\ StaleReception' /\ AnswerLine'
        /\ BeforeAnswer' /\ Len(toDevice') <= 1
    BY <1>2, <1>3, <1>4, <1>11, <1>12, <2>1, HostAnswers, EmptyLine
  <2>5. HostInv' /\ Whole'
    BY <1>4, <1>9, <1>12, <2>2, <2>3 DEF HostInv, Whole
  <2>6. DuringAnswer'
    <3>1. Len(recvBuf') \in {devSendBlock - 1, devSendBlock}
      BY <2>2
    <3>. QED
      BY <1>9, <1>10, <2>1, <2>2, <2>4, <3>1 DEF DuringAnswer
  <2>. QED
    BY <2>4, <2>5, <2>6
<1>13. ASSUME recvBuf' = recvBuf, recvSeq' = recvSeq, ~(Len(recvBuf') > Len(recvBuf)),
              NEW u \in LineToken, u.kind \in {"C", "ACK", "NAK", "CAN"},
              toDevice' = Append(toDevice, u), t.kind \in {"SOH", "bad", "EOT"},
              Head(toHost).kind # "tail",
              recvPc' \in {"read", "ok", "failed"},
              recvPc' = "ok" => t.kind = "EOT",
              recvPc' = "read" /\ u.kind = "ACK" => t.kind = "SOH" /\ t.seq = recvSeq - 1
       PROVE  DialogueInv'
  <2>1. /\ Current /\ Answering /\ toHost' = <<>> /\ toDevice = <<>>
    BY <1>7, <1>13
  <2>2. /\ DevInv' /\ RequestLine' /\ RequestTaken' /\ StaleReception' /\ AnswerLine'
        /\ BeforeAnswer' /\ Len(toDevice') <= 1
        /\ u.kind # "ACK" => Free(toDevice', {"ACK"})
    BY <1>2, <1>3, <1>4, <1>13, <2>1, HostAnswers, EmptyLine
  <2>3. recvFrom' = recvFrom
    BY <1>1, <1>13 DEF Stored
  <2>4. HostInv'
    BY <1>4, <1>9, <1>13, <2>3 DEF HostInv, RxWaiting
  <2>5. Whole'
    BY <1>7, <1>8, <1>13, <2>1 DEF Whole
  <2>6. recvPc' = "read" /\ u.kind = "ACK" => Len(recvBuf) = devSendBlock
    <3>1. ASSUME recvPc' = "read", u.kind = "ACK"
          PROVE  Len(recvBuf) = devSendBlock
      <4>1. devSendBlock = recvSeq - 1 /\ devSendPc = "pkt"
        BY <1>7, <1>13, <3>1
      <4>2. /\ devSendBlock \in 1..255 /\ Len(recvBuf) \in {devSendBlock - 1, devSendBlock}
            /\ Len(recvBuf) \in Nat
        BY <1>8, <2>1, <4>1
      <4>3. devSendBlock = ((Len(recvBuf) + 1) % 256) - 1
        BY <4>1 DEF HostInv
      <4>. QED
        BY <4>2, <4>3
    <3>. QED
      BY <3>1
  <2>7. RxWaiting(recvPc') => recvPc' = "read"
    BY <1>13 DEF RxWaiting
  <2>8. DuringAnswer'
    BY <1>4, <1>9, <1>10, <1>13, <2>1, <2>2, <2>6, <2>7 DEF DuringAnswer
  <2>. QED
    BY <2>2, <2>4, <2>5, <2>8
<1>14. ASSUME recvBuf' = recvBuf, recvSeq' = recvSeq, ~(Len(recvBuf') > Len(recvBuf)),
              recvPc' = "ok", toDevice' = Append(toDevice, Byte("ACK")), t.kind = "EOT",
              Head(toHost).kind = "tail"
       PROVE  DialogueInv'
  <2>1. recvBuf = <<>> /\ recvBuf' = <<>> /\ recvFrom' = recvFrom
    BY <1>1, <1>3, <1>14 DEF Stored
  <2>2. ~Free(toHost, SentKinds)
    BY <1>2, <1>14, FreeOfHead DEF SentKinds, PacketKinds
  <2>3. Free(toDevice, SentKinds)
    <3>1. CASE Answering
      BY <1>4, <3>1 DEF DevInv, Current, Older, Answering, RequestLine, QuietRequest
    <3>2. CASE ~Answering
      BY <1>4, <2>2, <3>2 DEF BeforeAnswer
    <3>. QED
      BY <3>1, <3>2
  <2>4. /\ DevInv' /\ RequestLine' /\ RequestTaken' /\ StaleReception' /\ AnswerLine'
        /\ BeforeAnswer'
    BY <1>2, <1>3, <1>4, <1>11, <1>14, <2>1, <2>2, <2>3, HostAnswers
  <2>5. HostInv' /\ Whole'
    BY <1>4, <1>9, <1>14, <2>1 DEF HostInv, Whole
  <2>6. DuringAnswer'
    BY <1>14 DEF DuringAnswer, RxWaiting
  <2>. QED
    BY <2>4, <2>5, <2>6
<1>15. CASE /\ recvBuf' = recvBuf /\ recvSeq' = recvSeq /\ ~(Len(recvBuf') > Len(recvBuf))
            /\ recvPc' \notin {"body", "drain"}
  <2>1. t.kind \in {"SOH", "bad"} => Head(toHost).kind # "tail"
    BY <1>3
  <2>. QED
    BY <1>5, <1>11, <1>13, <1>14, <1>15, <2>1
<1>. QED
  BY <1>5, <1>6, <1>12, <1>15

\* It reads on in a packet that lost bytes, and fails when it has as many as one has.
LEMMA HostRecvFillKeeps ==
    ASSUME DialogueInv, TypeInv', HostRecvFill
    PROVE  DialogueInv'
<1>. USE DEF DialogueInv
<1>1. /\ UNCHANGED <<running, call, hostSend, device, recvFrom>>
      /\ recvPc = "body" /\ toHost # <<>> /\ toHost \in Line /\ toDevice \in Line
      /\ toHost' \in Line /\ toDevice' \in Line
      /\ RxWaiting(recvPc)
  BY DEF HostRecvFill, TypeInv, RxWaiting
<1>2. /\ Reduced(toHost', toHost)
      /\ lacks' > 0 => toHost' = Tail(toHost)
      /\ \/ toHost' = Tail(toHost)
         \/ /\ Head(toHost).kind \in PacketKinds
            /\ \E u \in LineToken : u.kind = "tail" /\ toHost' = <<u>> \o Tail(toHost)
  <2>1. lacks \in 1..(PacketBytes - 1)
    BY <1>1 DEF TypeInv, HostTypes
  <2>. QED
    BY <1>1, <2>1, FilledLine DEF HostRecvFill
<1>3. /\ UNCHANGED <<devSendPc, devSendBlock>> /\ (Answering' <=> Answering)
      /\ ThisAnswer' = ThisAnswer /\ UNCHANGED sendPc
  BY <1>1 DEF device, devSend, Answering, ThisAnswer, hostSend
<1>4. CASE UNCHANGED <<recvPc, recvSeq, recvBuf, recvErr, recvNak, toDevice>>
  <2>1. /\ UNCHANGED <<call, recvBuf, devSend, recvSeq, running, hostSend>>
        /\ UNCHANGED <<devRecvPc, devRecvBuf, devRecvNak, devRecvFrom>>
    BY <1>1, <1>4 DEF device, devRecv
  <2>2. DuringAnswer'
    BY <1>1, <1>2, <1>4, <2>1, AnswerRead
  <2>. QED
    BY <1>1, <1>2, <1>4, <2>1, <2>2, LinesReduced, SelfReduced
<1>5. CASE HostRecv!ReadError
  <2>1. /\ recvPc' \in {"read", "failed"} /\ Byte(recvNak) \in LineToken
        /\ toDevice' = Append(toDevice, Byte(recvNak))
        /\ recvSeq' = recvSeq /\ recvBuf' = recvBuf
    BY <1>1, <1>5, HostGivesUp
  <2>2. Byte(recvNak).kind = recvNak /\ recvNak \in {"C", "NAK"}
    BY DEF Byte, DevRecv!Byte, TypeInv, HostTypes
  <2>3. toDevice = <<>> \/ ~Answering
    BY <1>1 DEF DuringAnswer
  <2>4. Free(toDevice, SentKinds)
    BY <1>1, <2>3, EmptyLine DEF BeforeAnswer
  <2>5. /\ DevInv' /\ RequestLine' /\ RequestTaken' /\ StaleReception' /\ AnswerLine'
        /\ BeforeAnswer'
        /\ toDevice = <<>> => Len(toDevice') <= 1 /\ Free(toDevice', {"ACK"})
    BY <1>1, <1>2, <2>1, <2>2, <2>4, HostAnswers
  <2>6. HostInv' /\ Whole'
    BY <1>1, <1>3, <2>1 DEF HostInv, Whole, ThisAnswer
  <2>7. DuringAnswer'
    <3>. SUFFICES ASSUME RxWaiting(recvPc'), Answering
                  PROVE  DuringAnswer'
      BY <1>3 DEF DuringAnswer
    <3>1. toDevice = <<>> /\ Len(toHost) <= 1 /\ recvPc' # "body"
      BY <1>1, <2>1, <2>3 DEF DuringAnswer
    <3>2. /\ Len(toHost') <= 1 /\ Len(toHost') <= 2 /\ Free(toHost', Kinds \ {"tail"})
      <4>1. \/ toHost' = Tail(toHost)
            \/ \E u \in LineToken : u.kind = "tail" /\ toHost' = <<u>> \o Tail(toHost)
        BY <1>2
      <4>2. Len(toHost') <= 1 /\ Free(toHost', Kinds \ {"tail"})
        BY <1>1, <3>1, <4>1, TailAlone
      <4>3. Len(toHost') \in Nat
        BY <1>1 DEF Line
      <4>. QED
        BY <4>2, <4>3
    <3>3. /\ \A K, L : NoneAfter(toHost', K, L)
          /\ Free(toHost', {"SOH"}) /\ Free(toHost', {"EOT"})
          /\ \A k, p : Repeats(toHost', k, p)
      BY <1>1, <3>2, FreeImplies DEF Repeats, Free
    <3>. QED
      BY <1>1, <1>3, <2>1, <2>5, <3>1, <3>2, <3>3 DEF DuringAnswer
  <2>. QED
    BY <2>5, <2>6, <2>7
<1>. QED
  BY <1>4, <1>5 DEF HostRecvFill

-----------------------------------------------------------------------------
(* The device receives.                                                    *)

\* The device listens again, which forgets what it had.
LEMMA DevListenKeeps ==
    ASSUME DialogueInv, TypeInv', running \/ toHost = <<>>, DevListen
    PROVE  DialogueInv'
<1>. USE DEF DialogueInv
<1>1. toHost \in Line /\ toDevice \in Line
  BY DEF TypeInv
<1>2. /\ UNCHANGED <<running, call, sendPc, sendBlock, recvPc, recvSeq, recvBuf, recvFrom, toDevice>>
      /\ devSendPc \in {"idle", "ok", "failed"} /\ devSendPc' = "idle"
      /\ devRecvPc' = "read" /\ devRecvBuf' = <<>> /\ devRecvFrom' = {}
      /\ toHost' = Append(toHost, Byte("C"))
  BY CToken DEF DevListen, DevRecv!Answer, host, hostSend, hostRecv
<1>3. HostInv' /\ Whole' /\ DevInv'
  BY <1>2 DEF HostInv, Whole, DevInv, ThisAnswer
<1>4. ~Current' /\ ~Older' /\ ~Answering' /\ ~Answering /\ (InCall' <=> InCall)
  BY <1>2 DEF Current, Older, Answering, InCall
<1>5. QuietRequest' => QuietRequest
  BY <1>2, <1>4 DEF QuietRequest
<1>6. RequestLine' /\ RequestTaken' /\ StaleReception'
  BY <1>2, <1>4, <1>5 DEF RequestLine, RequestTaken, StaleReception, ThisRequest
<1>7. Byte("C") \in LineToken /\ Byte("C").kind = "C" /\ "C" \notin SentKinds
  BY CToken DEF SentKinds, PacketKinds
<1>8. /\ Free(toHost, SentKinds) => Free(toHost', SentKinds)
      /\ Free(toHost, {"ACK"}) => Free(toHost', {"ACK"})
  BY <1>1, <1>2, <1>7, FreeAppend
<1>9. /\ NoneAfter(toHost, {"C"} \cup PacketKinds, {"ACK"})
           => NoneAfter(toHost', {"C"} \cup PacketKinds, {"ACK"})
      /\ NoneAfter(toHost, {"ACK"}, SentKinds) => NoneAfter(toHost', {"ACK"}, SentKinds)
  BY <1>1, <1>2, <1>7, AfterAppend
<1>10. ~running => Len(toHost') <= 1
  BY <1>1, <1>2, <1>7, AppendLine
<1>11. AnswerLine'
  BY <1>2, <1>4, <1>8, <1>9, <1>10 DEF AnswerLine
<1>12. BeforeAnswer'
  <2>1. Answered'
    BY <1>2 DEF Answered
  <2>2. Free(toHost, SentKinds \ {"tail"}) => Free(toHost', SentKinds \ {"tail"})
    BY <1>1, <1>2, <1>7, FreeAppend
  <2>. QED
    BY <1>2, <1>4, <1>8, <2>1, <2>2 DEF BeforeAnswer
<1>13. DuringAnswer'
  BY <1>4 DEF DuringAnswer
<1>. QED
  BY <1>3, <1>6, <1>11, <1>12, <1>13

\* What the device's receiver writes: an ACK only for something of this request, a 'C'
\* only with an empty buffer.
LEMMA DevControls ==
    ASSUME DialogueInv, TypeInv', running \/ toHost = <<>>, UNCHANGED <<host, devSend>>,
           RxWaiting(devRecvPc), Reduced(toDevice', toDevice),
           NEW u \in LineToken, u.kind \in {"C", "ACK", "NAK", "CAN"},
           toHost' = Append(toHost, u),
           u.kind = "ACK" => ~Free(toDevice, SentKinds),
           u.kind = "C" => devRecvFrom = {} /\ devRecvFrom' = {},
           \/ devRecvFrom' = devRecvFrom
           \/ /\ devRecvFrom = {} /\ devRecvFrom' = {ThisRequest} /\ u.kind = "ACK"
              /\ toDevice # <<>> /\ Head(toDevice).kind = "SOH" /\ toDevice' = Tail(toDevice)
              /\ devRecvPc' # "ok",
           devRecvPc' = "ok" /\ Current'
              => /\ toDevice # <<>> /\ Head(toDevice).kind = "EOT"
                 /\ toDevice' = Tail(toDevice),
           DevInv'
    PROVE  DialogueInv'
<1>. USE DEF DialogueInv
<1>1. /\ toDevice \in Line /\ toHost \in Line /\ toDevice' \in Line /\ toHost' \in Line
  BY DEF TypeInv
<1>2. /\ UNCHANGED <<running, call, sendPc, sendBlock, recvPc, recvSeq, recvBuf, recvFrom>>
      /\ UNCHANGED <<devSendPc, devSendBlock>>
  BY DEF host, hostSend, hostRecv, devSend
<1>3. HostInv' /\ Whole'
  BY <1>2 DEF HostInv, Whole, ThisAnswer
<1>4. /\ devSendPc = "idle" /\ ~Answering /\ ~Answering' /\ ThisRequest' = ThisRequest
      /\ (InCall' <=> InCall) /\ (Older' => Older)
  BY <1>2 DEF DevInv, RxWaiting, Answering, ThisRequest, Older, InCall
<1>5. ~Free(toDevice, SentKinds) => ~Older
  BY DEF RequestLine, QuietRequest
<1>6. ASSUME devRecvFrom' # devRecvFrom
      PROVE  ~Free(toDevice, SentKinds)
  BY <1>1, <1>6, FreeOfHead DEF SentKinds, PacketKinds
<1>7. RequestLine'
  <2>1. QuietRequest' => QuietRequest
    BY <1>2, <1>4 DEF QuietRequest
  <2>. QED
    BY <1>1, <1>2, <1>4, <2>1, LineReduced, PackageReduced DEF RequestLine
<1>8. ASSUME devRecvFrom' # devRecvFrom
      PROVE  /\ NoneAfter(toDevice', {"C"}, SentKinds)
             /\ sendPc # "idle" => Free(toDevice', {"C"})
             /\ sendPc # "wait_c"
             /\ NoneBetween(toDevice, SentKinds, {"C"}, Kinds)
                  => NoneAfter(toDevice', {"C"}, Kinds)
  <2>1. Head(toDevice).kind \in SentKinds /\ toDevice # <<>> /\ toDevice' = Tail(toDevice)
    BY <1>8 DEF SentKinds, PacketKinds
  <2>2. NoneAfter(toDevice', {"C"}, SentKinds)
    BY <1>1, <2>1, BetweenHead DEF RequestLine
  <2>3. sendPc # "idle" => Free(toDevice', {"C"})
    BY <1>1, <2>1, AfterHead DEF RequestLine
  <2>4. sendPc # "wait_c"
    BY <1>6, <1>8 DEF RequestLine, QuietRequest
  <2>5. NoneBetween(toDevice, SentKinds, {"C"}, Kinds) => NoneAfter(toDevice', {"C"}, Kinds)
    BY <1>1, <2>1, BetweenHead
  <2>. QED
    BY <2>2, <2>3, <2>4, <2>5
<1>9. ASSUME devRecvPc' = "ok", Current'
      PROVE  sendPc # "pkt" /\ Free(toDevice', PacketKinds)
  <2>1. sendPc # "pkt"
    BY <1>1, <1>9, FreeOfHead DEF RequestLine
  <2>2. Free(toDevice', PacketKinds)
    BY <1>1, <1>9, AfterHead DEF RequestLine
  <2>. QED
    BY <2>1, <2>2
<1>10. RequestTaken'
  <2>1. CASE devRecvFrom' # devRecvFrom
    BY <1>2, <1>4, <1>8, <1>9, <2>1 DEF RequestTaken
  <2>2. CASE devRecvFrom' = devRecvFrom
    <3>1. Current' <=> Current
      BY <1>4, <2>2 DEF Current
    <3>2. /\ NoneAfter(toDevice, {"C"}, SentKinds) => NoneAfter(toDevice', {"C"}, SentKinds)
          /\ Free(toDevice, {"C"}) => Free(toDevice', {"C"})
      BY <1>1, LineReduced
    <3>. QED
      BY <1>2, <1>4, <1>9, <3>1, <3>2 DEF RequestTaken
  <2>. QED
    BY <2>1, <2>2
<1>11. u.kind \notin SentKinds
  BY DEF SentKinds, PacketKinds
<1>12. StaleReception'
  <2>1. ASSUME devRecvFrom' # {}, Free(toHost, {"C"} \cup PacketKinds)
        PROVE  Free(toHost', {"C"} \cup PacketKinds)
    <3>1. u.kind \notin {"C"} \cup PacketKinds
      BY <1>11, <2>1 DEF SentKinds
    <3>. QED
      BY <1>1, <2>1, <3>1, FreeAppend
  <2>2. CASE devRecvFrom' = devRecvFrom
    <3>1. Older' <=> Older
      BY <1>4, <2>2 DEF Older
    <3>. QED
      BY <1>2, <1>4, <2>1, <2>2, <3>1 DEF StaleReception
  <2>3. CASE devRecvFrom' # devRecvFrom
    <3>1. ~Older'
      BY <1>4, <2>3 DEF Older
    <3>2. ASSUME ~InCall
          PROVE  /\ Free(toHost', {"C"} \cup PacketKinds)
                 /\ sendPc = "idle" /\ recvPc = "idle"
      <4>1. toHost = <<>>
        BY <1>6, <2>3, <3>2 DEF RequestLine, QuietRequest
      <4>2. devRecvFrom' # {} /\ Free(toHost, {"C"} \cup PacketKinds)
        BY <2>3, <4>1, EmptyLine
      <4>. QED
        BY <2>1, <3>2, <4>2 DEF InCall
    <3>. QED
      BY <1>2, <1>4, <3>1, <3>2 DEF StaleReception
  <2>. QED
    BY <2>2, <2>3
<1>13. /\ Free(toHost, SentKinds) => Free(toHost', SentKinds)
       /\ NoneAfter(toHost, {"ACK"}, SentKinds) => NoneAfter(toHost', {"ACK"}, SentKinds)
  BY <1>1, <1>11, FreeAppend, AfterAppend
<1>14. ASSUME Free(toDevice, SentKinds)
       PROVE  /\ Free(toHost, {"ACK"}) => Free(toHost', {"ACK"})
              /\ NoneAfter(toHost, {"C"} \cup PacketKinds, {"ACK"})
                   => NoneAfter(toHost', {"C"} \cup PacketKinds, {"ACK"})
              /\ devRecvFrom' = devRecvFrom
  <2>1. u.kind \notin {"ACK"}
    BY <1>14
  <2>. QED
    BY <1>1, <1>6, <1>14, <2>1, FreeAppend, AfterAppend
<1>15. AnswerLine'
  <2>1. ~running => Len(toHost') <= 1
    BY <1>1, AppendLine
  <2>2. sendPc = "pkt" => ~Older
    BY DEF StaleReception, Older
  <2>3. running /\ (~InCall \/ sendPc = "wait_c")
         => NoneAfter(toHost', {"C"} \cup PacketKinds, {"ACK"})
    BY <1>14 DEF AnswerLine, RequestLine, QuietRequest
  <2>4. recvBuf # <<>> => Free(toHost', {"ACK"}) /\ devRecvFrom' = {}
    BY <1>4, <1>14 DEF AnswerLine, RequestLine, QuietRequest
  <2>. QED
    BY <1>2, <1>4, <1>13, <2>1, <2>2, <2>3, <2>4 DEF AnswerLine
<1>16. BeforeAnswer'
  <2>1. /\ NoneBetween(toDevice, SentKinds, {"C"}, Kinds)
             => NoneBetween(toDevice', SentKinds, {"C"}, Kinds)
        /\ NoneAfter(toDevice, {"C"}, Kinds) => NoneAfter(toDevice', {"C"}, Kinds)
        /\ Free(toDevice, SentKinds) => Free(toDevice', SentKinds)
    BY <1>1, LineReduced
  <2>2. devRecvFrom' = devRecvFrom => (Current' <=> Current) /\ (Answered' <=> Answered)
    BY <1>2, <1>4 DEF Current, Answered
  <2>3. Free(toHost, SentKinds \ {"tail"}) => Free(toHost', SentKinds \ {"tail"})
    BY <1>1, <1>11, FreeAppend
  <2>. SUFFICES ASSUME RxWaiting(recvPc)
                PROVE  BeforeAnswer'
    BY <1>2 DEF BeforeAnswer
  <2>4. /\ Free(toHost, SentKinds \ {"tail"})
        /\ \/ Free(toHost, SentKinds) /\ recvPc # "body"
           \/ Answered /\ Free(toDevice, SentKinds)
        /\ Current => Answered \/ NoneAfter(toDevice, {"C"}, Kinds)
        /\ NoneBetween(toDevice, SentKinds, {"C"}, Kinds)
    BY <1>4 DEF BeforeAnswer
  <2>5. \/ Free(toHost', SentKinds) /\ recvPc # "body"
        \/ Answered' /\ Free(toDevice', SentKinds)
    BY <1>13, <1>14, <2>1, <2>2, <2>4
  <2>6. Current' => Answered' \/ NoneAfter(toDevice', {"C"}, Kinds)
    BY <1>8, <2>1, <2>2, <2>4
  <2>. QED
    BY <1>2, <2>1, <2>3, <2>4, <2>5, <2>6 DEF BeforeAnswer
<1>17. DuringAnswer'
  BY <1>4 DEF DuringAnswer
<1>. QED
  BY <1>3, <1>7, <1>10, <1>12, <1>15, <1>16, <1>17

\* A read of the device that failed.
LEMMA DevNaks ==
    ASSUME DialogueInv, TypeInv', running \/ toHost = <<>>, UNCHANGED <<host, devSend>>,
           RxWaiting(devRecvPc), DevRecv!ReadError, UNCHANGED devRecvFrom,
           Reduced(toDevice', toDevice)
    PROVE  DialogueInv'
<1>. USE DEF DialogueInv
<1>1. /\ devRecvPc' \in {"read", "failed"} /\ Byte(devRecvNak) \in LineToken
      /\ toHost' = Append(toHost, Byte(devRecvNak))
      /\ devRecvBuf' = devRecvBuf /\ devRecvNak' = devRecvNak
  BY DevGivesUp
<1>2. Byte(devRecvNak).kind = devRecvNak /\ devRecvNak \in {"C", "NAK"}
  BY DEF Byte, DevRecv!Byte, TypeInv, DevTypes
<1>3. DevInv'
  BY <1>1 DEF DevInv, host, devSend, RxWaiting
<1>4. devRecvNak = "C" => devRecvFrom = {}
  BY DEF DevInv
<1>. QED
  BY <1>1, <1>2, <1>3, <1>4, DevControls

\* It timed out.
LEMMA DevRecvExpireKeeps ==
    ASSUME DialogueInv, TypeInv', running \/ toHost = <<>>, DevRecvExpire
    PROVE  DialogueInv'
<1>1. Reduced(toDevice', toDevice)
  BY SelfReduced DEF DevRecvExpire, DialogueInv, TypeInv
<1>. QED
  BY <1>1, DevNaks DEF DevRecvExpire

\* It reads on in a packet that lost bytes.
LEMMA DevRecvFillKeeps ==
    ASSUME DialogueInv, TypeInv', running \/ toHost = <<>>, DevRecvFill
    PROVE  DialogueInv'
<1>. USE DEF DialogueInv
<1>1. /\ toDevice \in Line /\ toHost \in Line /\ toDevice # <<>> /\ devRecvPc = "body"
      /\ UNCHANGED <<host, devSend, devRecvFrom>>
  BY DEF TypeInv, DevRecvFill
<1>2. Reduced(toDevice', toDevice)
  <2>1. devLacks \in 1..(PacketBytes - 1)
    BY <1>1 DEF TypeInv, DevTypes
  <2>. QED
    BY <1>1, <2>1, FilledLine DEF DevRecvFill
<1>3. CASE DevRecv!ReadError
  BY <1>1, <1>2, <1>3, DevNaks DEF RxWaiting
<1>4. CASE UNCHANGED <<devRecvPc, devRecvSeq, devRecvBuf, devRecvErr, devRecvNak, toHost>>
  <2>1. Reduced(toHost', toHost)
    BY <1>1, <1>4, SelfReduced
  <2>. QED
    BY <1>1, <1>2, <1>4, <2>1, LinesReduced DEF host, hostRecv
<1>. QED
  BY <1>3, <1>4 DEF DevRecvFill

\* The device's receiver reads a token: a packet is of this request, since none of it is
\* on the line while an older one is in the buffer.
LEMMA DevRecvHearKeeps ==
    ASSUME DialogueInv, TypeInv', misread' = {}, running \/ toHost = <<>>, DevRecvHear
    PROVE  DialogueInv'
<1>. USE DEF DialogueInv
<1>1. PICK r \in Tokens(toDevice) : /\ DevRecv!RxStep(r[1])
                                    /\ devRecvFrom' = Stored(devRecvFrom, devRecvBuf, r[1])
                                    /\ toDevice' = r[2]
                                    /\ misread' = misread \cup
                                         MisreadEot(toDevice, devRecvBuf, r[1].kind)
  BY DEF DevRecvHear
<1>. DEFINE t == r[1]
<1>2. /\ UNCHANGED <<host, devSend>>
      /\ devRecvPc = "read" /\ toDevice # <<>> /\ toHost \in Line /\ toDevice \in Line
      /\ toHost' \in Line /\ toDevice' \in Line
  BY DEF DevRecvHear, TypeInv
<1>3. /\ t \in LineToken /\ Reduced(toDevice', toDevice)
      /\ t.kind \in {"SOH", "bad"} \/ (t.kind = "EOT" /\ Current)
            => t = Head(toDevice) /\ toDevice' = Tail(toDevice)
      /\ t = Head(toDevice) \/ Head(toDevice).kind = "tail"
  <2>1. Current => devRecvBuf # <<>>
    BY DEF DevInv, Current
  <2>2. MisreadEot(toDevice, devRecvBuf, t.kind) = {}
    BY <1>1
  <2>3. ~(Head(toDevice).kind = "tail" /\ t.kind = "EOT" /\ devRecvBuf # <<>>)
    BY <2>2 DEF MisreadEot
  <2>4. /\ r[1] \in LineToken /\ Reduced(r[2], toDevice)
        /\ \/ r[1] = Head(toDevice) /\ r[2] = Tail(toDevice)
           \/ Head(toDevice).kind = "tail" /\ r[1].kind \notin {"SOH", "bad"}
    BY <1>1, <1>2, TokensRead
  <2>. QED
    BY <1>1, <2>1, <2>3, <2>4, Zenon
<1>. HIDE DEF t
<1>4. RxWaiting(devRecvPc) /\ devSendPc = "idle" /\ devSendPc' = "idle" /\ call' = call
  BY <1>2 DEF DevInv, RxWaiting, devSend, host
<1>5. \/ /\ t.kind = "SOH" /\ devRecvPc' = "read" /\ devRecvBuf' # <<>>
         /\ Len(devRecvBuf') > Len(devRecvBuf) /\ devRecvNak' = "NAK"
         /\ toHost' = Append(toHost, Byte("ACK"))
      \/ /\ devRecvBuf' = devRecvBuf /\ devRecvNak' = devRecvNak
         /\ ~(Len(devRecvBuf') > Len(devRecvBuf))
         /\ \/ /\ t.kind = "SOH" /\ devRecvPc' = "read"
               /\ toHost' = Append(toHost, Byte("ACK"))
            \/ /\ t.kind = "SOH" /\ devRecvPc' = "failed"
               /\ toHost' = Append(toHost, Byte("CAN"))
            \/ /\ t.kind = "EOT" /\ devRecvPc' = "ok"
               /\ toHost' = Append(toHost, Byte("ACK"))
            \/ /\ t.kind = "bad" /\ devRecvPc' \in {"read", "failed"}
               /\ toHost' = Append(toHost, Byte(devRecvNak))
            \/ /\ devRecvPc' \in {"body", "drain"} /\ toHost' = toHost
  BY <1>1, <1>2, <1>3, DevReceives DEF t
<1>6. ~(Len(devRecvBuf') > Len(devRecvBuf)) => devRecvFrom' = devRecvFrom
  BY <1>1 DEF Stored
<1>7. t.kind \in {"SOH", "EOT", "bad"} => ~Free(toDevice, SentKinds)
  BY <1>2, <1>3, FreeOfHead DEF SentKinds, PacketKinds
<1>8. /\ Byte("ACK") \in LineToken /\ Byte("ACK").kind = "ACK"
      /\ Byte("CAN") \in LineToken /\ Byte("CAN").kind = "CAN"
      /\ Byte(devRecvNak) \in LineToken /\ Byte(devRecvNak).kind = devRecvNak
      /\ devRecvNak \in {"C", "NAK"}
  <2>1. {"ACK", "CAN"} \subseteq Kinds \ {"SOH", "tail", "short"}
    BY DEF Kinds, SentKinds, PacketKinds
  <2>2. devRecvNak \in Kinds \ {"SOH", "tail", "short"} /\ devRecvNak \in {"C", "NAK"}
    BY DEF Kinds, SentKinds, PacketKinds, TypeInv, DevTypes
  <2>. QED
    BY <2>1, <2>2, ByteToken
<1>9. CASE /\ t.kind = "SOH" /\ devRecvPc' = "read" /\ devRecvBuf' # <<>>
           /\ Len(devRecvBuf') > Len(devRecvBuf) /\ devRecvNak' = "NAK"
           /\ toHost' = Append(toHost, Byte("ACK"))
  <2>1. t.pkg = ThisRequest
    <3>1. t = toDevice[1] /\ 1 \in 1..Len(toDevice)
      BY <1>2, <1>3, <1>9, HeadTail
    <3>. QED
      BY <1>9, <3>1 DEF RequestLine, OfPackage
  <2>2. ~Older
    BY <1>4, <1>7, <1>9 DEF RequestLine, QuietRequest
  <2>3. devRecvFrom' = {ThisRequest}
    <3>1. devRecvFrom' = devRecvFrom \cup {t.pkg}
      BY <1>1, <1>9 DEF Stored, t
    <3>. QED
      BY <2>1, <2>2, <3>1 DEF Older
  <2>4. call \in 1..call
    <3>1. RequestOf(call) \in Packages
      BY <1>3, <1>9, <2>1 DEF LineToken, ThisRequest
    <3>2. 2 * call - 1 >= 1 /\ call \in Nat
      BY <3>1, DialogueAssumption DEF RequestOf, Packages, TypeInv, HostTypes
    <3>. QED
      BY <3>2
  <2>5. DevInv'
    BY <1>4, <1>9, <2>3, <2>4 DEF DevInv, ThisRequest
  <2>6. \/ devRecvFrom' = devRecvFrom
        \/ devRecvFrom = {} /\ devRecvFrom' = {ThisRequest}
    BY <2>2, <2>3 DEF Older
  <2>. QED
    BY <1>2, <1>3, <1>4, <1>7, <1>8, <1>9, <2>5, <2>6, DevControls
<1>10. ASSUME devRecvBuf' = devRecvBuf, devRecvNak' = devRecvNak, devRecvFrom' = devRecvFrom,
              NEW u \in LineToken, u.kind \in {"C", "ACK", "NAK", "CAN"},
              toHost' = Append(toHost, u), devRecvPc' \in {"read", "ok", "failed"},
              u.kind = "ACK" => t.kind \in {"SOH", "EOT"},
              u.kind = "C" => devRecvNak = "C",
              devRecvPc' = "ok" => t.kind = "EOT"
       PROVE  DialogueInv'
  <2>1. DevInv'
    BY <1>4, <1>10 DEF DevInv
  <2>2. u.kind = "C" => devRecvFrom = {} /\ devRecvFrom' = {}
    BY <1>10 DEF DevInv
  <2>3. Current' <=> Current
    BY <1>4, <1>10 DEF Current, ThisRequest
  <2>. QED
    BY <1>2, <1>3, <1>4, <1>7, <1>10, <2>1, <2>2, <2>3, DevControls
<1>11. CASE /\ devRecvBuf' = devRecvBuf /\ devRecvNak' = devRecvNak
            /\ ~(Len(devRecvBuf') > Len(devRecvBuf))
            /\ devRecvPc' \in {"body", "drain"} /\ toHost' = toHost
  <2>1. RxWaiting(devRecvPc') /\ Reduced(toHost', toHost)
    BY <1>2, <1>11, SelfReduced DEF RxWaiting
  <2>2. /\ UNCHANGED <<running, call, hostSend, devSend>>
        /\ UNCHANGED <<recvSeq, recvBuf, recvFrom, recvPc, devRecvBuf, devRecvNak, devRecvFrom>>
    BY <1>2, <1>6, <1>11 DEF host, hostRecv
  <2>3. UNCHANGED <<recvPc, toHost>> /\ recvPc' = recvPc
    BY <1>11, <2>2
  <2>. QED
    BY <1>3, <1>4, <2>1, <2>2, <2>3, LinesReduced
<1>12. CASE /\ devRecvBuf' = devRecvBuf /\ devRecvNak' = devRecvNak
            /\ ~(Len(devRecvBuf') > Len(devRecvBuf))
            /\ \/ /\ t.kind = "SOH" /\ devRecvPc' = "read"
                  /\ toHost' = Append(toHost, Byte("ACK"))
               \/ /\ t.kind = "SOH" /\ devRecvPc' = "failed"
                  /\ toHost' = Append(toHost, Byte("CAN"))
               \/ /\ t.kind = "EOT" /\ devRecvPc' = "ok"
                  /\ toHost' = Append(toHost, Byte("ACK"))
               \/ /\ t.kind = "bad" /\ devRecvPc' \in {"read", "failed"}
                  /\ toHost' = Append(toHost, Byte(devRecvNak))
  BY <1>6, <1>8, <1>10, <1>12
<1>. QED
  BY <1>5, <1>9, <1>11, <1>12

\* The device begins to transmit its answer.
LEMMA DevAnswerKeeps ==
    ASSUME DialogueInv, TypeInv', DevAnswer
    PROVE  DialogueInv'
<1>. USE DEF DialogueInv
<1>1. /\ UNCHANGED <<running, call, sendPc, sendBlock, recvPc, recvSeq, recvBuf, recvFrom>>
      /\ UNCHANGED <<devRecvBuf, devRecvNak, devRecvFrom, toDevice, toHost>>
      /\ devRecvPc = "ok" /\ devRecvPc' = "idle" /\ devRecvBuf # <<>>
      /\ devSendPc = "idle" /\ devSendPc' = "wait_c"
  BY DEF DevAnswer, DevSend!TxCall, host, hostSend, hostRecv
<1>2. /\ ~Answering /\ ~Answering' /\ (Current' <=> Current) /\ (Older' <=> Older)
      /\ ThisRequest' = ThisRequest /\ (InCall' <=> InCall)
      /\ ~RxWaiting(devRecvPc')
  BY <1>1 DEF Answering, Current, Older, ThisRequest, InCall, RxWaiting
<1>3. devRecvFrom # {} /\ recvBuf = <<>>
  BY <1>1 DEF DevInv, AnswerLine
<1>4. HostInv' /\ Whole' /\ DevInv'
  BY <1>1, <1>3 DEF HostInv, Whole, DevInv, ThisAnswer
<1>5. QuietRequest' => QuietRequest
  BY <1>1, <1>2 DEF QuietRequest
<1>6. RequestLine' /\ RequestTaken' /\ StaleReception'
  BY <1>1, <1>2, <1>5 DEF RequestLine, RequestTaken, StaleReception
<1>7. AnswerLine'
  BY <1>1, <1>2, <1>3 DEF AnswerLine
<1>8. BeforeAnswer' /\ DuringAnswer'
  BY <1>1, <1>2, <1>3 DEF BeforeAnswer, DuringAnswer, Answered
<1>. QED
  BY <1>4, <1>6, <1>7, <1>8

-----------------------------------------------------------------------------
(* The device transmits.                                                   *)

\* The device's transmitter.  It starts on the 'C' of the host's reception, and an ACK
\* finds the host with the block the device is at.
LEMMA DevSendStepKeeps ==
    ASSUME DialogueInv, TypeInv', running \/ toHost = <<>>, NEW rsp, DevSendStep(rsp),
           UNCHANGED <<host, devRecv>>, Reduced(toDevice', toDevice),
           rsp = "ACK" => \/ devSendPc = "wait_c"
                          \/ toDevice # <<>> /\ Head(toDevice).kind = "ACK",
           rsp = "C" => toDevice # <<>> /\ Head(toDevice).kind \in {"C", "tail"},
           toDevice # <<>> /\ Head(toDevice).kind \notin PacketKinds
             => toDevice' = Tail(toDevice),
           toDevice = <<>> => toHost = <<>>
    PROVE  DialogueInv'
<1>. USE DEF DialogueInv
<1>1. /\ toDevice \in Line /\ toHost \in Line /\ toDevice' \in Line /\ toHost' \in Line
      /\ recvBuf \in Seq(Nat) /\ devSendBlock \in Nat
  BY DialogueAssumption DEF TypeInv, HostTypes, DevTypes
<1>2. /\ UNCHANGED <<running, call, sendPc, sendBlock, recvPc, recvSeq, recvBuf, recvFrom>>
      /\ UNCHANGED <<devRecvPc, devRecvBuf, devRecvNak, devRecvFrom>>
  BY DEF host, hostSend, hostRecv, devRecv
<1>3. PICK c \in 1..MaxCalls :
           /\ RequestOf(c) \in devRecvFrom
           /\ devSendPc \in {"wait_c", "pkt", "eot"}
           /\ \/ \E t \in LineToken :
                    /\ toHost' = Append(toHost, t)
                    /\ \/ /\ t.kind = "SOH" /\ t.pkg = AnswerTo(c) /\ devSendPc' = "pkt"
                          /\ t.seq = devSendBlock'
                       \/ t.kind = "EOT" /\ devSendPc' = "eot" /\ devSendPc # "wait_c"
                    /\ \/ devSendPc = "wait_c" /\ rsp = "C" /\ devSendBlock' = 1
                       \/ /\ devSendPc = "pkt" /\ rsp = "ACK"
                          /\ devSendBlock' = devSendBlock + 1
                          /\ devSendPc' = "eot" => devSendBlock = AnsBlocks
                       \/ devSendPc' = devSendPc /\ devSendBlock' = devSendBlock
              \/ /\ toHost' = toHost
                 /\ \/ devSendPc' \in {"ok", "failed"} /\ devSendPc \in {"pkt", "eot"}
                    \/ devSendPc = "wait_c" /\ devSendPc' \in {"wait_c", "failed"}
  BY DevSends
<1>4. devRecvPc = "idle" /\ ~RxWaiting(devRecvPc)
  BY <1>3 DEF DevInv, RxWaiting
<1>5. HostInv' /\ Whole' /\ DevInv'
  <2>1. devRecvFrom # {}
    BY <1>3
  <2>. QED
    BY <1>2, <1>4, <2>1 DEF HostInv, Whole, DevInv, ThisAnswer
<1>6. /\ Current \/ Older
      /\ (Current' <=> Current) /\ (Older' <=> Older) /\ ~(Current /\ Older)
      /\ ThisRequest' = ThisRequest /\ ThisAnswer' = ThisAnswer /\ (InCall' <=> InCall)
  BY <1>2, <1>3 DEF Current, Older, ThisRequest, ThisAnswer, InCall
<1>7. Current => AnswerTo(c) = ThisAnswer
  <2>1. Current => RequestOf(c) = RequestOf(call)
    BY <1>3 DEF Current, ThisRequest
  <2>2. c \in Nat /\ call \in Nat
    BY DialogueAssumption DEF TypeInv, HostTypes
  <2>. QED
    BY <2>1, <2>2, RequestsDiffer DEF ThisAnswer
<1>8. /\ Free(toHost, {"ACK"}) => Free(toHost', {"ACK"})
      /\ NoneAfter(toHost, {"C"} \cup PacketKinds, {"ACK"})
           => NoneAfter(toHost', {"C"} \cup PacketKinds, {"ACK"})
      /\ ~running => Len(toHost') <= 1
  <2>1. ASSUME NEW t \in LineToken, toHost' = Append(toHost, t), t.kind # "ACK"
        PROVE  /\ Free(toHost, {"ACK"}) => Free(toHost', {"ACK"})
               /\ NoneAfter(toHost, {"C"} \cup PacketKinds, {"ACK"})
                   => NoneAfter(toHost', {"C"} \cup PacketKinds, {"ACK"})
               /\ ~running => Len(toHost') <= 1
    <3>1. ~running => Len(toHost') <= 1
      BY <1>1, <2>1, AppendLine
    <3>. QED
      BY <1>1, <2>1, <3>1, FreeAppend, AfterAppend
  <2>2. ASSUME toHost' = toHost
        PROVE  ~running => Len(toHost') <= 1
    BY <2>2 DEF AnswerLine
  <2>. QED
    BY <1>3, <2>1, <2>2
<1>9. ASSUME Current, devSendPc = "wait_c", rsp = "C"
      PROVE  /\ sendPc = "idle" /\ Free(toDevice', SentKinds)
             /\ RxWaiting(recvPc) => toDevice' = <<>>
  <2>1. Head(toDevice).kind = "C" /\ toDevice # <<>> /\ toDevice' = Tail(toDevice)
    <3>1. Free(toDevice, PacketKinds)
      BY <1>9 DEF RequestTaken
    <3>2. toDevice # <<>> /\ Head(toDevice).kind \notin PacketKinds
      BY <1>1, <1>9, <3>1, FreeOfHead
    <3>. QED
      BY <1>9, <3>2 DEF PacketKinds
  <2>2. ~Free(toDevice, {"C"})
    BY <1>1, <2>1, FreeOfHead
  <2>3. sendPc = "idle" /\ NoneAfter(toDevice, {"C"}, SentKinds)
    BY <1>9, <2>2 DEF RequestTaken
  <2>4. Free(Tail(toDevice), SentKinds)
    BY <1>1, <2>1, <2>3, AfterHead
  <2>5. ASSUME RxWaiting(recvPc)
        PROVE  toDevice' = <<>>
    <3>1. NoneAfter(toDevice, {"C"}, Kinds)
      BY <1>3, <1>9, <2>5 DEF BeforeAnswer, Answering, Answered
    <3>2. Free(Tail(toDevice), Kinds)
      BY <1>1, <2>1, <3>1, AfterHead
    <3>. QED
      BY <1>1, <2>1, <3>2, FreeImplies
  <2>. QED
    BY <2>1, <2>3, <2>4, <2>5
<1>10. ASSUME Current, Answering, RxWaiting(recvPc)
       PROVE  /\ toDevice' = <<>>
              /\ Free(toHost, Kinds \ {"tail"}) /\ Len(toHost) <= 1
              /\ recvPc = "body" => toHost = <<>>
  <2>1. CASE toDevice = <<>>
    <3>1. toHost = <<>> /\ Len(toHost) <= 1
      BY <2>1
    <3>. QED
      BY <1>1, <2>1, <3>1, LineReduced, EmptyLine
  <2>2. CASE toDevice # <<>>
    <3>1. /\ Len(toDevice) <= 1 /\ Free(toHost, Kinds \ {"tail"}) /\ Len(toHost) <= 1
          /\ recvPc = "body" => toHost = <<>>
      BY <1>10, <2>2 DEF DuringAnswer
    <3>2. Free(toDevice, SentKinds)
      BY <1>10 DEF RequestLine, QuietRequest
    <3>3. Head(toDevice).kind \notin PacketKinds
      BY <1>1, <2>2, <3>2, FreeOfHead, FreeImplies
    <3>. QED
      BY <1>1, <2>2, <3>1, <3>3, FreeImplies
  <2>. QED
    BY <2>1, <2>2
<1>11. /\ Current /\ toHost' # toHost => sendPc = "idle"
       /\ Current /\ Answering' => sendPc = "idle"
       /\ devSendPc' = "wait_c" => devSendPc = "wait_c"
  BY <1>3, <1>9 DEF RequestTaken, Answering
<1>12. RequestLine'
  <2>1. QuietRequest' => QuietRequest \/ (Current /\ devSendPc = "wait_c" /\ rsp = "C")
    BY <1>2, <1>3, <1>6 DEF QuietRequest, Answering
  <2>2. QuietRequest' => Free(toDevice', SentKinds)
    BY <1>1, <1>9, <2>1, LineReduced DEF RequestLine
  <2>. QED
    BY <1>1, <1>2, <1>6, <2>2, LineReduced, PackageReduced DEF RequestLine
<1>13. RequestTaken'
  BY <1>1, <1>2, <1>4, <1>6, <1>11, LineReduced DEF RequestTaken
<1>14. StaleReception'
  BY <1>2, <1>4 DEF StaleReception
<1>15. AnswerLine'
  <2>1. sendPc = "pkt" => /\ NoneAfter(toHost', {"ACK"}, SentKinds)
                          /\ Older => Free(toHost', {"ACK"})
    <3>1. CASE Older
      BY <1>1, <1>8, <3>1, FreeImplies DEF AnswerLine
    <3>2. CASE Current
      BY <1>6, <1>11, <3>2 DEF AnswerLine
    <3>. QED
      BY <1>6, <3>1, <3>2
  <2>2. (sendPc = "pkt" /\ sendBlock > 1) \/ sendPc \in {"eot", "ok"}
          => ~Older /\ Free(toHost', SentKinds)
    BY <1>6, <1>11 DEF AnswerLine
  <2>3. recvBuf # <<>> => devSendPc' \in {"pkt", "eot", "ok", "failed"}
    BY <1>3 DEF AnswerLine
  <2>. QED
    BY <1>2, <1>6, <1>8, <2>1, <2>2, <2>3 DEF AnswerLine
<1>16. BeforeAnswer'
  <2>. SUFFICES ASSUME RxWaiting(recvPc), ~Answering'
                PROVE  /\ Free(toHost', SentKinds \ {"tail"})
                       /\ \/ Free(toHost', SentKinds) /\ recvPc # "body"
                          \/ Answered' /\ Free(toDevice', SentKinds)
                       /\ Current => Answered' \/ NoneAfter(toDevice', {"C"}, Kinds)
                       /\ NoneBetween(toDevice', SentKinds, {"C"}, Kinds)
    BY <1>2, <1>6 DEF BeforeAnswer
  <2>1. Current
    BY <1>6 DEF AnswerLine, RxWaiting
  <2>2. toHost' = toHost
    BY <1>3 DEF Answering
  <2>3. CASE Answering
    <3>1. toDevice' = <<>> /\ Free(toHost, Kinds \ {"tail"})
      BY <1>10, <2>1, <2>3
    <3>2. Answered'
      BY <1>3, <2>3 DEF Answered, Answering
    <3>. QED
      BY <1>1, <2>2, <3>1, <3>2, EmptyLine, FreeImplies
  <2>4. CASE ~Answering
    <3>1. ~Answered
      BY <1>3, <2>4 DEF Answered, Answering
    <3>2. /\ Free(toHost, SentKinds) /\ Free(toHost, SentKinds \ {"tail"}) /\ recvPc # "body"
          /\ NoneAfter(toDevice, {"C"}, Kinds)
          /\ NoneBetween(toDevice, SentKinds, {"C"}, Kinds)
      BY <2>1, <2>4, <3>1 DEF BeforeAnswer
    <3>. QED
      BY <1>1, <2>2, <3>2, LineReduced
  <2>. QED
    BY <2>3, <2>4
<1>17. DuringAnswer'
  <2>. SUFFICES ASSUME RxWaiting(recvPc), Answering'
                PROVE  DuringAnswer'
    BY <1>2 DEF DuringAnswer
  <2>1. Current
    BY <1>6 DEF AnswerLine, RxWaiting
  <2>2. PICK t \in LineToken :
                    /\ toHost' = Append(toHost, t)
                    /\ \/ /\ t.kind = "SOH" /\ t.pkg = ThisAnswer /\ devSendPc' = "pkt"
                          /\ t.seq = devSendBlock'
                       \/ t.kind = "EOT" /\ devSendPc' = "eot" /\ devSendPc # "wait_c"
                    /\ \/ devSendPc = "wait_c" /\ rsp = "C" /\ devSendBlock' = 1
                       \/ /\ devSendPc = "pkt" /\ rsp = "ACK"
                          /\ devSendBlock' = devSendBlock + 1
                          /\ devSendPc' = "eot" => devSendBlock = AnsBlocks
                       \/ devSendPc' = devSendPc /\ devSendBlock' = devSendBlock
    BY <1>3, <1>7, <2>1 DEF Answering
  <2>3. /\ toDevice' = <<>> /\ Free(toHost, SentKinds \ {"tail"})
        /\ Free(toHost, {"tail"}) \/ Len(toHost) <= 1
        /\ recvPc = "body" => toHost = <<>>
    <3>1. CASE Answering
      BY <1>1, <1>10, <2>1, <3>1, FreeImplies
    <3>2. CASE ~Answering
      <4>1. devSendPc = "wait_c" /\ ~Answered /\ rsp = "C"
        BY <1>3, <2>2, <3>2 DEF Answering, Answered
      <4>2. Free(toHost, SentKinds) /\ recvPc # "body"
        BY <3>2, <4>1 DEF BeforeAnswer
      <4>. QED
        BY <1>1, <1>9, <2>1, <4>1, <4>2, FreeImplies
    <3>. QED
      BY <3>1, <3>2
  <2>4. /\ recvPc = "body" => Len(toHost') <= 1
        /\ Free(toHost', {"tail"}) \/ Len(toHost') <= 2
    <3>1. toHost = <<>> => Len(toHost') <= 1
      BY <1>1, <2>2, AppendLine
    <3>2. Len(toHost') = Len(toHost) + 1 /\ Len(toHost) \in Nat
      BY <1>1, <2>2, AppendLine DEF Line
    <3>3. Free(toHost, {"tail"}) => Free(toHost', {"tail"})
      BY <1>1, <2>2, FreeAppend
    <3>. QED
      BY <2>3, <3>1, <3>2, <3>3
  <2>5. NoneAfter(toHost', SentKinds \ {"tail"}, Kinds)
    <3>1. NoneAfter(toHost, SentKinds \ {"tail"}, Kinds)
      BY <2>3 DEF Free, NoneAfter
    <3>. QED
      BY <1>1, <2>2, <2>3, <3>1, AfterAppend
  <2>6. ASSUME devSendPc' = "pkt"
        PROVE  Repeats(toHost', devSendBlock', ThisAnswer) /\ Free(toHost', {"EOT"})
    <3>1. t.kind = "SOH" /\ t.seq = devSendBlock' /\ t.pkg = ThisAnswer
      BY <2>2, <2>6
    <3>2. Free(toHost, {"SOH"}) /\ Free(toHost, {"EOT"})
      BY <2>3 DEF Free, SentKinds, PacketKinds
    <3>. QED
      BY <1>1, <2>2, <3>1, <3>2, RepeatsAppend, FreeAppend
  <2>7. devSendPc' = "eot" => Free(toHost', {"SOH"})
    <3>1. Free(toHost, {"SOH"})
      BY <2>3 DEF Free, SentKinds, PacketKinds
    <3>. QED
      BY <1>1, <2>2, <3>1, FreeAppend
  <2>8. CASE devSendPc = "wait_c"
    <3>1. recvBuf = <<>> /\ devSendBlock' = 1 /\ devSendPc' = "pkt"
      BY <1>3, <2>2, <2>8 DEF AnswerLine
    <3>2. Len(recvBuf) \in {devSendBlock' - 1, devSendBlock'}
      BY <3>1
    <3>. QED
      BY <1>2, <1>6, <2>3, <2>4, <2>5, <2>6, <3>1, <3>2, EmptyLine DEF DuringAnswer
  <2>9. CASE devSendPc # "wait_c" /\ devSendPc' = devSendPc /\ devSendBlock' = devSendBlock
    BY <1>2, <1>3, <1>6, <2>3, <2>4, <2>5, <2>6, <2>7, <2>9, EmptyLine
       DEF DuringAnswer, Answering
  <2>10. CASE /\ devSendPc = "pkt" /\ rsp = "ACK" /\ devSendBlock' = devSendBlock + 1
              /\ devSendPc' = "eot" => devSendBlock = AnsBlocks
    <3>1. ~Free(toDevice, {"ACK"})
      BY <1>1, <2>10, FreeOfHead
    <3>2. Len(recvBuf) = devSendBlock
      BY <2>10, <3>1 DEF DuringAnswer, Answering
    <3>3. Len(recvBuf) \in {devSendBlock' - 1, devSendBlock'}
      BY <1>1, <2>10, <3>2
    <3>4. devSendPc' = "eot" => Len(recvBuf) = AnsBlocks
      BY <2>10, <3>2
    <3>. QED
      BY <1>2, <1>6, <2>3, <2>4, <2>5, <2>6, <2>7, <3>3, <3>4, EmptyLine DEF DuringAnswer
  <2>. QED
    BY <2>2, <2>8, <2>9, <2>10
<1>. QED
  BY <1>5, <1>12, <1>13, <1>14, <1>15, <1>16, <1>17

\* It reads a byte.
LEMMA DevSendHearKeeps ==
    ASSUME DialogueInv, TypeInv', misread' = {}, running \/ toHost = <<>>, DevSendHear
    PROVE  DialogueInv'
<1>1. PICK r \in Bytes(toDevice) : /\ DevSendStep(r[1]) /\ toDevice' = r[2]
                                   /\ misread' = misread \cup MisreadAck(toDevice, devSendPc, r[1])
  BY DEF DevSendHear
<1>2. toDevice \in Line /\ toDevice # <<>>
  BY DEF DevSendHear, DialogueInv, TypeInv
<1>3. MisreadAck(toDevice, devSendPc, r[1]) = {}
  BY <1>1
<1>4. /\ Reduced(toDevice', toDevice)
      /\ r[1] = "ACK" => devSendPc = "wait_c" \/ Head(toDevice).kind = "ACK"
      /\ r[1] = "C" => Head(toDevice).kind \in {"C", "tail"}
      /\ Head(toDevice).kind \notin PacketKinds => toDevice' = Tail(toDevice)
  <2>1. ~(Head(toDevice).kind = "tail" /\ r[1] = "ACK" /\ devSendPc # "wait_c")
    BY <1>3, MisreadKinds
  <2>. QED
    BY <1>1, <1>2, <2>1, BytesRead
<1>. QED
  BY <1>1, <1>2, <1>4, DevSendStepKeeps DEF DevSendHear

\* It times out.
LEMMA DevSendExpireKeeps ==
    ASSUME DialogueInv, TypeInv', running \/ toHost = <<>>, DevSendExpire
    PROVE  DialogueInv'
<1>1. toDevice = <<>> /\ toHost = <<>> /\ Reduced(toDevice', toDevice)
  BY SelfReduced DEF DevSendExpire, DevTimer, Silence, DialogueInv, TypeInv
<1>. QED
  BY <1>1, DevSendStepKeeps DEF DevSendExpire

-----------------------------------------------------------------------------
(* The dialogue.                                                           *)

\* The line is empty at first.
LEMMA DialogueInit == Init => DialogueInv
<1>. SUFFICES ASSUME Init PROVE DialogueInv
  OBVIOUS
<1>1. /\ running = FALSE /\ sendPc = "idle" /\ devSendPc = "idle"
      /\ toDevice = <<>> /\ toHost = <<>>
  BY DEF Init, HostSend!TxInit, DevSend!TxInit
<1>2. /\ recvPc = "idle" /\ recvSeq = 1 /\ recvBuf = <<>> /\ recvFrom = {}
      /\ devRecvPc = "idle" /\ devRecvBuf = <<>> /\ devRecvFrom = {}
  BY DEF Init, HostRecv!RxInit, DevRecv!RxInit
<1>3. HostInv /\ DevInv /\ Whole
  BY <1>1, <1>2 DEF HostInv, DevInv, Whole
<1>4. RequestLine /\ RequestTaken /\ StaleReception
  BY <1>1, <1>2, EmptyLine DEF RequestLine, RequestTaken, StaleReception, Current
<1>5. AnswerLine /\ BeforeAnswer /\ DuringAnswer
  BY <1>1, <1>2, EmptyLine DEF AnswerLine, BeforeAnswer, DuringAnswer, RxWaiting
<1>. QED
  BY <1>3, <1>4, <1>5, TypeInit DEF DialogueInv

\* Every step after which nothing was misread keeps the invariant.
LEMMA DialogueNext ==
    ASSUME DialogueInv, misread' = {}, [Next]_vars
    PROVE  DialogueInv'
<1>1. TypeInv'
  BY TypeNext DEF DialogueInv
<1>2. toDevice \in Line /\ toHost \in Line
  BY DEF DialogueInv, TypeInv
<1>3. ASSUME UNCHANGED <<host, device>>, Reduced(toDevice', toDevice), Reduced(toHost', toHost),
             DuringAnswer' \/ UNCHANGED toHost
      PROVE  DialogueInv'
  <2>1. /\ UNCHANGED <<running, call, hostSend, devSend>>
        /\ UNCHANGED <<recvPc, recvSeq, recvBuf, recvFrom>>
        /\ UNCHANGED <<devRecvPc, devRecvBuf, devRecvNak, devRecvFrom>>
    BY <1>3 DEF host, device, hostRecv, devRecv
  <2>. QED
    BY <1>1, <1>3, <2>1, LinesReduced
<1>4. ASSUME UNCHANGED <<host, device, toDevice>>, toHost # <<>>, Reduced(toHost', toHost),
             \/ toHost' = Tail(toHost)
             \/ \E u \in LineToken : /\ u.kind = "tail" => Head(toHost).kind \in PacketKinds
                                     /\ toHost' = <<u>> \o Tail(toHost)
      PROVE  DialogueInv'
  <2>1. UNCHANGED <<call, recvBuf, recvPc, devSend>>
    BY <1>4 DEF host, device, hostRecv
  <2>2. CASE RxWaiting(recvPc)
    <3>1. DuringAnswer'
      BY <1>1, <1>4, <2>1, <2>2, AnswerRead
    <3>. QED
      BY <1>2, <1>3, <1>4, <3>1, SelfReduced
  <2>3. CASE ~RxWaiting(recvPc)
    <3>1. DuringAnswer'
      BY <2>1, <2>3 DEF DuringAnswer
    <3>. QED
      BY <1>2, <1>3, <1>4, <3>1, SelfReduced
  <2>. QED
    BY <2>2, <2>3
<1>5. CASE Program
  <2>1. CASE HostRecvDrain
    BY <1>2, <1>4, <2>1, HeadTail DEF HostRecvDrain
  <2>2. CASE CallFails
    BY <1>1, <1>2, <2>2, EndProgramKeeps, SelfReduced DEF CallFails
  <2>. QED
    BY <1>1, <1>5, <2>1, <2>2, StartProgramKeeps, BeginCallKeeps, HostSendHearKeeps,
       HostSendExpireKeeps, RequestSentKeeps, HostRecvHearKeeps, HostRecvFillKeeps,
       HostRecvExpireKeeps, CallReturnsKeeps DEF Program
<1>6. CASE Interrupted
  BY <1>1, <1>2, <1>6, EndProgramKeeps, CutLine DEF Interrupted
<1>7. CASE Unread
  <2>1. Len(toHost) <= 1
    BY <1>7 DEF Unread, DialogueInv, AnswerLine
  <2>2. toHost' = Tail(toHost)
    BY <1>2, <1>7, <2>1, FreeImplies DEF Unread
  <2>. QED
    BY <1>2, <1>4, <1>7, <2>2, HeadTail DEF Unread
<1>8. CASE Device
  <2>1. running \/ toHost = <<>>
    BY <1>8 DEF Device
  <2>2. CASE DevRecvDrain
    BY <1>2, <1>3, <2>2, HeadTail, SelfReduced DEF DevRecvDrain
  <2>. QED
    BY <1>1, <1>8, <2>1, <2>2, DevListenKeeps, DevRecvHearKeeps, DevRecvFillKeeps,
       DevRecvExpireKeeps, DevAnswerKeeps, DevSendHearKeeps, DevSendExpireKeeps DEF Device
<1>9. CASE Disturb
  <2>1. CASE toHost # <<>> /\ toHost' \in DisturbedLine(toHost) /\ UNCHANGED toDevice
    <3>1. /\ Reduced(toHost', toHost)
          /\ \/ toHost' = Tail(toHost)
             \/ \E u \in LineToken : /\ u.kind \in {"bad", "short", "tail", "junk"}
                                     /\ u.kind # "junk" => Head(toHost).kind = "SOH"
                                     /\ toHost' = <<u>> \o Tail(toHost)
      BY <1>2, <2>1, NoiseReduces
    <3>2. \A u : u.kind = "tail" /\ (u.kind # "junk" => Head(toHost).kind = "SOH")
                   => Head(toHost).kind \in PacketKinds
      BY DEF PacketKinds
    <3>. QED
      BY <1>4, <1>9, <2>1, <3>1, <3>2 DEF Disturb
  <2>2. CASE toDevice # <<>> /\ toDevice' \in DisturbedLine(toDevice) /\ UNCHANGED toHost
    BY <1>2, <1>3, <1>9, <2>2, NoiseReduces, SelfReduced DEF Disturb
  <2>. QED
    BY <1>9, <2>1, <2>2 DEF Disturb
<1>10. CASE UNCHANGED vars
  BY <1>2, <1>3, <1>10, SelfReduced DEF vars
<1>. QED
  BY <1>5, <1>6, <1>7, <1>8, <1>9, <1>10 DEF Next, Done

\* What was misread stays on record.
LEMMA MisreadGrows ==
    ASSUME [Next]_vars, misread' = {}
    PROVE  misread = {}
<1>1. CASE Program
  BY <1>1 DEF Program, StartProgram, BeginCall, HostSendHear, HostSendExpire, RequestSent,
     HostRecvHear, HostRecvFill, HostRecvDrain, HostRecvExpire, CallReturns, CallFails, rest
<1>2. CASE Device
  BY <1>2 DEF Device, DevListen, DevRecvHear, DevRecvFill, DevRecvDrain, DevRecvExpire,
     DevAnswer, DevSendHear, DevSendExpire, rest
<1>. QED
  BY <1>1, <1>2 DEF Next, Interrupted, Unread, Disturb, Done, vars, rest

\* Until something is, the invariant holds, whatever noise, interrupts, retries and earlier
\* runs there were.
LEMMA DialogueInvariant == Spec => []SoundInv
<1>1. Init => SoundInv
  BY DialogueInit DEF SoundInv
<1>2. SoundInv /\ [Next]_vars => SoundInv'
  BY DialogueNext, MisreadGrows DEF SoundInv
<1>. QED
  BY <1>1, <1>2, PTL DEF Spec

\* An answer that a call of qda.c accepts is the answer to its own request, for any
\* lengths of request and answer and any number of calls, runs, interrupts and
\* disturbances, as long as neither end has taken a byte inside a packet for the ACK it
\* waits for or for the EOT behind its blocks: although nothing in a packet tells which
\* call it is from, and nothing flushes the line between two packages.
THEOREM AcceptedIsTheAnswer == Spec => []AnswersThisCall
<1>1. SoundInv => AnswersThisCall
  BY DEF SoundInv, DialogueInv, HostInv, AnswersThisCall, Accepted, ThisAnswer
<1>. QED
  BY <1>1, DialogueInvariant, PTL

\* xmodem_receive_package succeeds at the host only with every block of the answer, or
\* with none, under the same condition: retries, duplicates and packets that lost bytes
\* do not make it return part of one as a package.
THEOREM AnswerIsWhole == Spec => []WholeAnswer
<1>1. SoundInv => WholeAnswer
  BY DEF SoundInv, DialogueInv, Whole, WholeAnswer
<1>. QED
  BY <1>1, DialogueInvariant, PTL

\* The device never has blocks of two requests in its buffer, under the same condition, not
\* even when a run was interrupted in the middle of one and another run sends the next.
THEOREM RequestsAreNotMixed == Spec => []OneRequest
<1>1. ASSUME misread = {}, DialogueInv
      PROVE  OneRequest
  <2>1. CASE devRecvFrom = {}
    <3>1. 1 \in Packages
      BY DialogueAssumption DEF Packages
    <3>. QED
      BY <2>1, <3>1 DEF OneRequest
  <2>2. ASSUME NEW c \in 1..call, devRecvFrom = {RequestOf(c)}
        PROVE  OneRequest
    <3>1. RequestOf(c) \in Packages
      BY <1>1, <2>2 DEF DialogueInv, TypeInv, DevTypes
    <3>. QED
      BY <2>2, <3>1 DEF OneRequest
  <2>. QED
    BY <1>1, <2>1, <2>2 DEF DialogueInv, DevInv
<1>2. SoundInv => OneRequest
  BY <1>1 DEF SoundInv, OneRequest
<1>. QED
  BY <1>2, DialogueInvariant, PTL
=============================================================================
