------------------------- MODULE XmodemTimelyProofs -------------------------
(***************************************************************************)
(* What holds of a transfer when no answer is late: the two ends agree.    *)
(* The line may lose or garble what it carries and, if no packet number    *)
(* reads as an EOT, lose single bytes of it.  There is then at most one    *)
(* packet, EOT or answer on the two lines together, with what is left of   *)
(* one damaged packet before it.                                           *)
(***************************************************************************)
EXTENDS XmodemTransferProofs

TimelyLine ==
    /\ MaxLate = 0
    /\ NoiseKinds \subseteq {"lose", "garble"} \/ Blocks < EOT

\* The answers that may be on their way: an ACK is for the block being sent, which
\* the receiver has, or for the EOT, which has ended the reception.
Answers ==
    {t \in Token : /\ t.kind # "SOH"
                   /\ t.kind = "ACK" => \/ txPc = "pkt" /\ block = Len(buf)
                                        \/ txPc = "eot" /\ rxPc = "ok"}

\* With its first byte gone, t does not read as an EOT.
NoHiddenEot(t) == Blocks < EOT => t.seq # EOT

\* What may be on its way to the receiver: the current packet, or the EOT.
Sendings ==
    {t \in Token : /\ t.kind \in {"SOH", "bad", "EOT"} /\ NoHiddenEot(t)
                   /\ t.kind = "SOH" => txPc = "pkt" /\ t.data = block
                   /\ t.kind = "EOT" => txPc = "eot"}

\* What noise, or a byte taken for another packet, leaves of one of these.
Damage ==
    {t \in Token : /\ t.kind \in {"junk", "tail", "short"} /\ NoHiddenEot(t)
                   /\ t.kind = "short" => Blocks < EOT}

AtMostOne(S) == {<<>>} \cup {<<t>> : t \in S}

\* The line to the receiver, if S may be on its way.
Arrivals(S) ==
    AtMostOne(S) \cup AtMostOne(Damage) \cup (Damage \X S)

NotYetSending == txPc \in {"idle", "wait_c"}

\* Where the two ends are, relative to each other.
Progress ==
    /\ rxPc = "idle" => NotYetSending /\ toTx = <<>>
    /\ NotYetSending => toRx = <<>> /\ buf = <<>> /\ rxPc # "ok"
    /\ txPc = "pkt" => (block = Len(buf) \/ block = Len(buf) + 1) /\ rxPc # "ok"
    /\ txPc \in {"eot", "ok"} => Len(buf) = Blocks
    /\ rxPc = "ok" => Len(buf) = Blocks
    /\ txPc = "ok" => rxPc = "ok"

\* What is on the lines.  A receiver inside a short packet has read all that was left
\* of the one before.
OneInFlight ==
    /\ ~TxReturned => toTx \in AtMostOne(Answers)
    /\ RxWaiting => toRx \in Arrivals(Sendings)
    /\ ~TxReturned /\ RxWaiting => toTx = <<>> \/ toRx \in AtMostOne(Damage)
    /\ rxPc = "body" => /\ Blocks < EOT /\ toRx \in AtMostOne(Sendings \cup Damage)
                        /\ ~TxReturned => toTx = <<>> \/ toRx = <<>>

TInv == IInv /\ Progress /\ OneInFlight

-----------------------------------------------------------------------------
(* Lines with at most one token, or with two.                              *)

LEMMA OneToken ==
    ASSUME NEW S, NEW q \in AtMostOne(S)
    PROVE  q # <<>> => Head(q) \in S /\ Tail(q) = <<>>
<1>1. CASE q = <<>>
  BY <1>1
<1>2. CASE q # <<>>
  <2>1. PICK t \in S : q = <<t>>
    BY <1>2 DEF AtMostOne
  <2>2. Head(q) = t /\ Tail(q) = <<>>
    BY <2>1
  <2> QED BY <1>2, <2>1, <2>2
<1> QED BY <1>1, <1>2

LEMMA FirstToken == \A q, t : q = <<>> => Append(q, t) = <<t>>
OBVIOUS

LEMMA OneOf ==
    ASSUME NEW S
    PROVE  /\ <<>> \in AtMostOne(S) /\ \A t \in S : <<t>> \in AtMostOne(S)
           /\ AtMostOne(S) \subseteq Arrivals(S) /\ AtMostOne(Damage) \subseteq Arrivals(S)
           /\ \A T : S \subseteq T => AtMostOne(S) \subseteq AtMostOne(T)
BY DEF AtMostOne, Arrivals

LEMMA TwoTokens ==
    ASSUME NEW S
    PROVE  /\ \A d \in Damage, t \in S : <<d, t>> \in Arrivals(S)
           /\ \A q \in Arrivals(S) : \/ q \in AtMostOne(S) \/ q \in AtMostOne(Damage)
                                     \/ \E d \in Damage, t \in S : q = <<d, t>>
BY DEF Arrivals

LEMMA PairConcat == \A a, b : <<a>> \o <<b>> = <<a, b>> /\ Append(<<a>>, b) = <<a, b>>
<1> TAKE a, b
<1> DEFINE S == {a, b}  p == <<a>> \o <<b>>
<1>1. a \in S /\ b \in S
  OBVIOUS
<1> HIDE DEF S
<1>2. <<a>> \in Seq(S) /\ <<b>> \in Seq(S) /\ <<a, b>> \in Seq(S)
  BY <1>1
<1>3. p \in Seq(S) /\ Len(p) = 2 /\ p[1] = a /\ p[2] = b
  BY <1>2, ConcatProperties
<1>4. Len(<<a, b>>) = 2 /\ <<a, b>>[1] = a /\ <<a, b>>[2] = b
  OBVIOUS
<1>5. \A i \in 1..2 : i = 1 \/ i = 2
  OBVIOUS
<1> HIDE DEF p
<1>6. p = <<a, b>>
  BY <1>2, <1>3, <1>4, <1>5, SeqEqual
<1>7. Append(<<a>>, b) = p
  BY <1>1, <1>2, AppendIsConcat DEF p
<1> QED BY <1>6, <1>7 DEF p

\* What the receiver reads: what was sent, alone, or damage with no more than what
\* was sent behind it.
LEMMA FirstArrival ==
    ASSUME NEW q \in Arrivals(Sendings), q # <<>>
    PROVE  \/ Head(q) \in Sendings /\ Tail(q) = <<>> /\ q \notin AtMostOne(Damage)
           \/ /\ Head(q) \in Damage /\ Tail(q) \in AtMostOne(Sendings)
              /\ q \in AtMostOne(Damage) => Tail(q) = <<>>
<1>1. CASE q \in AtMostOne(Damage)
  <2>1. Head(q) \in Damage /\ Tail(q) = <<>>
    BY <1>1, OneToken
  <2> QED BY <2>1, OneOf
<1>2. CASE q \in AtMostOne(Sendings) /\ q \notin AtMostOne(Damage)
  BY <1>2, OneToken
<1>3. ASSUME NEW d \in Damage, NEW s \in Sendings, q = <<d, s>>
      PROVE  Head(q) = d /\ Tail(q) = <<s>> /\ q \notin AtMostOne(Damage)
  <2>1. Head(q) = d /\ Tail(q) = <<s>>
    BY <1>3
  <2>2. Tail(q) # <<>>
    BY <2>1
  <2> QED BY <2>1, <2>2, OneToken
<1>4. CASE q \notin AtMostOne(Sendings) /\ q \notin AtMostOne(Damage)
  <2>1. PICK d \in Damage, s \in Sendings : q = <<d, s>>
    BY <1>4, TwoTokens
  <2> QED BY <1>3, <2>1, OneOf
<1> QED BY <1>1, <1>2, <1>4

\* What a transmitter writes goes behind the damage.
LEMMA LastArrival ==
    ASSUME NEW S, NEW q \in AtMostOne(Damage), NEW s \in S
    PROVE  Append(q, s) \in Arrivals(S)
<1>1. CASE q = <<>>
  <2>1. Append(q, s) = <<s>>
    BY <1>1
  <2> QED BY <2>1, OneOf
<1>2. ASSUME NEW d \in Damage, q = <<d>>
      PROVE  Append(q, s) \in Arrivals(S)
  <2>1. Append(q, s) = <<d, s>>
    BY <1>2, PairConcat
  <2> QED BY <2>1, TwoTokens
<1> QED BY <1>1, <1>2 DEF AtMostOne

\* On a timely line an end times out only when both lines are empty, or its own is
\* and the other end has returned.
LEMMA TimersAreTimely ==
    ASSUME TimelyLine, TypeOK
    PROVE  /\ TxTimer => toTx = <<>> /\ RxQuiet
           /\ RxTimer => toRx = <<>> /\ TxQuiet
BY DEF TimelyLine, TypeOK, TxTimer, RxTimer, Timer

LEMMA InitTInv == Init => TInv
<1> SUFFICES ASSUME Init PROVE TInv
  OBVIOUS
<1>1. IInv
  BY InitIInv
<1>2. Progress
  BY DEF Init, TxInit, RxInit, Progress, NotYetSending
<1>3. OneInFlight
  BY OneOf DEF Init, TxInit, RxInit, OneInFlight, RxWaiting
<1> QED BY <1>1, <1>2, <1>3 DEF TInv

-----------------------------------------------------------------------------
(* The transmitter's steps.                                                *)

\* A packet of the package, and the EOT, may be sent.
LEMMA PacketMaySend ==
    ASSUME NEW k \in 1..Blocks, txPc' = "pkt", block' = k
    PROVE  Packet(k) \in Sendings'
<1>1. Packet(k) \in Token /\ Packet(k).kind = "SOH" /\ Packet(k).data = k
  BY PacketIsHonest DEF Honest, Packet
<1>2. Blocks < EOT => Packet(k).seq # EOT
  BY PackageAssumption DEF Packet, Uint8, EOT
<1> QED BY <1>1, <1>2 DEF Sendings, NoHiddenEot

LEMMA EotMaySend ==
    ASSUME txPc' = "eot"
    PROVE  Byte("EOT") \in Sendings'
<1>1. Byte("EOT") \in Token /\ Byte("EOT").kind = "EOT" /\ Byte("EOT").seq = 0
  BY ByteIsHonest DEF ControlKinds, Byte
<1> QED BY <1>1 DEF Sendings, NoHiddenEot, EOT

\* It is written when nothing but damage is on the lines.
LEMMA WriteTimely ==
    ASSUME OneInFlight, NEW s \in Sendings', toRx' = Append(toRx, s),
           RxWaiting => toRx \in AtMostOne(Damage), rxPc = "body" => toRx = <<>>,
           toTx' = <<>>, UNCHANGED rxVars
    PROVE  OneInFlight'
<1>1. rxPc' = rxPc
  BY DEF rxVars
<1>2. RxWaiting' => toRx' \in Arrivals(Sendings')
  BY <1>1, LastArrival DEF RxWaiting
<1>3. rxPc = "body" => toRx' \in AtMostOne(Sendings' \cup Damage)
  <2>1. rxPc = "body" => toRx' = <<s>>
    BY FirstToken
  <2> QED BY <2>1 DEF AtMostOne
<1>4. Damage' = Damage
  BY DEF Damage, NoHiddenEot
<1> QED BY <1>1, <1>2, <1>3, <1>4, OneOf DEF OneInFlight

\* Nothing is written when nothing but damage is on the lines.
LEMMA NoWriteTimely ==
    ASSUME OneInFlight, toRx' = toRx,
           RxWaiting => toRx \in AtMostOne(Damage), rxPc = "body" => toRx = <<>>,
           toTx' = <<>>, UNCHANGED rxVars
    PROVE  OneInFlight'
<1>1. rxPc' = rxPc
  BY DEF rxVars
<1>2. RxWaiting' => toRx' \in Arrivals(Sendings')
  BY <1>1, OneOf DEF RxWaiting
<1> QED BY <1>1, <1>2, OneOf DEF OneInFlight

\* The next block, or the EOT.
LEMMA SendFromTimely ==
    ASSUME TInv, NEW k \in 1..(Blocks + 1), k = Len(buf) + 1, SendFrom(k),
           rxPc # "ok", rxPc # "idle",
           RxWaiting => toRx \in AtMostOne(Damage), rxPc = "body" => toRx = <<>>,
           toTx' = <<>>, UNCHANGED rxVars
    PROVE  Progress' /\ OneInFlight'
<1> USE PackageAssumption
<1>0. buf \in Seq(0..Blocks)
  BY DEF TInv, IInv, TypeOK, RxTypeOK
<1>a. PICK n \in Nat : n = Len(buf)
  BY <1>0, LenProperties
<1>1. CASE k <= Blocks
  <2>1. txPc' = "pkt" /\ block' = k /\ toRx' = Append(toRx, Packet(k))
    BY <1>1 DEF SendFrom
  <2>2. Packet(k) \in Sendings'
    BY <1>1, <2>1, PacketMaySend
  <2>3. OneInFlight'
    BY <2>1, <2>2, WriteTimely DEF TInv
  <2>4. Progress'
    BY <2>1 DEF TInv, Progress, NotYetSending, rxVars
  <2> QED BY <2>3, <2>4
<1>2. CASE k > Blocks
  <2>1. txPc' = "eot" /\ block' = k /\ toRx' = Append(toRx, Byte("EOT"))
    BY <1>2 DEF SendFrom
  <2>2. Byte("EOT") \in Sendings'
    BY <2>1, EotMaySend
  <2>3. OneInFlight'
    BY <2>1, <2>2, WriteTimely DEF TInv
  <2>4. Len(buf) = Blocks
    BY <1>2, <1>a
  <2>5. Progress'
    BY <2>1, <2>4 DEF TInv, Progress, NotYetSending, rxVars
  <2> QED BY <2>3, <2>5
<1> QED BY <1>1, <1>2

\* A step on a byte heard, or on a timeout, with nothing left on the line to the
\* transmitter, and only damage on the other if the receiver still waits.
LEMMA TxStepTimely ==
    ASSUME TInv, NEW rsp, TxStep(rsp),
           rsp = "ACK" => \/ txPc = "pkt" /\ block = Len(buf)
                          \/ txPc = "eot" /\ rxPc = "ok",
           rxPc # "idle",
           RxWaiting => toRx \in AtMostOne(Damage), rxPc = "body" => toRx = <<>>,
           toTx' = <<>>, UNCHANGED rxVars
    PROVE  Progress' /\ OneInFlight'
<1> USE PackageAssumption
<1>1. CASE StartTransmit(rsp)
  <2>1. buf = <<>> /\ rxPc # "ok" /\ rxPc # "idle" /\ SendFrom(1)
    BY <1>1 DEF StartTransmit, TInv, Progress, NotYetSending
  <2>2. Len(buf) = 0
    BY <2>1
  <2> QED BY <2>1, <2>2, SendFromTimely
<1>2. CASE PacketAcked(rsp)
  <2>1. /\ block = Len(buf) /\ rxPc # "ok" /\ rxPc # "idle"
        /\ block \in 1..Blocks /\ SendFrom(block + 1)
    BY <1>2 DEF PacketAcked, TInv, Progress, NotYetSending, IInv, TypeOK, TxTypeOK
  <2>2. block + 1 \in 1..(Blocks + 1)
    BY <2>1
  <2> QED BY <2>1, <2>2, SendFromTimely
<1>3. CASE EotAcked(rsp)
  <2>1. OneInFlight'
    BY <1>3, NoWriteTimely DEF EotAcked, TInv
  <2>2. Progress'
    BY <1>3 DEF EotAcked, TInv, Progress, NotYetSending, rxVars
  <2> QED BY <2>1, <2>2
<1>4. CASE Retry(rsp)
  <2>1. /\ toRx' = toRx \o Current /\ toRx \in Seq(Token)
        /\ UNCHANGED <<txPc, block, rxPc, buf>>
    BY <1>4 DEF Retry, rxVars, TInv, IInv, TypeOK, TxTypeOK
  <2>2. CASE txPc \in {"pkt", "eot"}
    <3>1. PICK s \in Sendings' : Current = <<s>>
      <4>1. txPc = "pkt" => block \in 1..Blocks
        BY DEF TInv, IInv, TypeOK, TxTypeOK
      <4> QED BY <2>1, <2>2, <4>1, PacketMaySend, EotMaySend DEF Current
    <3>2. s \in Token
      BY <3>1 DEF Sendings
    <3>3. toRx' = Append(toRx, s)
      BY <2>1, <3>1, <3>2, AppendIsConcat
    <3>4. OneInFlight'
      BY <3>1, <3>3, WriteTimely DEF TInv
    <3>5. Progress'
      BY <2>1, <2>2 DEF TInv, Progress, NotYetSending
    <3> QED BY <3>4, <3>5
  <2>3. CASE txPc \notin {"pkt", "eot"}
    <3>1. Current = <<>>
      BY <2>3 DEF Current
    <3>2. toRx' = toRx
      BY <2>1, <3>1, ConcatEmptySeq
    <3>3. OneInFlight'
      BY <3>2, NoWriteTimely DEF TInv
    <3>4. Progress'
      BY <2>1, <3>2 DEF TInv, Progress, NotYetSending
    <3> QED BY <3>3, <3>4
  <2> QED BY <2>2, <2>3
<1>5. CASE RetriesExceeded(rsp)
  <2>1. txPc' = "failed" /\ UNCHANGED <<rxPc, buf, block, toRx>>
    BY <1>5 DEF RetriesExceeded, rxVars
  <2>2. Progress'
    BY <2>1 DEF TInv, Progress, NotYetSending
  <2>3. OneInFlight'
    BY <2>1, NoWriteTimely DEF TInv
  <2> QED BY <2>2, <2>3
<1> QED BY <1>1, <1>2, <1>3, <1>4, <1>5 DEF TxStep

-----------------------------------------------------------------------------
(* The receiver's steps.                                                   *)

\* An answer written on an empty line, by a receiver that then waits for a packet or
\* returns.
LEMMA AnswerTimely ==
    ASSUME NEW k \in ControlKinds, Answer(k), ~TxReturned => toTx = <<>>,
           k = "ACK" => (\/ txPc = "pkt" /\ block = Len(buf)
                         \/ txPc = "eot" /\ rxPc = "ok")',
           UNCHANGED txVars, toRx' \in AtMostOne(Damage), rxPc' # "body"
    PROVE  OneInFlight'
<1>1. ~TxReturned' => toTx' = <<Byte(k)>>
  BY FirstToken DEF Answer, TxReturned, txVars
<1>2. Byte(k) \in Answers'
  <2>1. Byte(k) \in Token /\ Byte(k).kind = k /\ k # "SOH"
    BY ByteIsHonest DEF Byte, ControlKinds
  <2> QED BY <2>1 DEF Answers
<1>3. toRx' \in Arrivals(Sendings')
  BY OneOf
<1> QED BY <1>1, <1>2, <1>3, OneOf DEF OneInFlight

LEMMA ReadErrorTimely ==
    ASSUME TInv, RxWaiting, ReadError, ~TxReturned => toTx = <<>>,
           UNCHANGED txVars, toRx' \in AtMostOne(Damage), NotYetSending => toRx' = <<>>
    PROVE  Progress' /\ OneInFlight'
<1>1. nak \in ControlKinds /\ nak # "ACK" /\ Answer(nak)
  BY DEF ReadError, TInv, IInv, TypeOK, RxTypeOK, ControlKinds
<1>2. rxPc' \in {"read", "failed"} /\ buf' = buf /\ txPc' = txPc /\ block' = block
  BY DEF ReadError, txVars
<1>3. OneInFlight'
  BY <1>1, <1>2, AnswerTimely
<1>4. Progress'
  BY <1>2 DEF TInv, Progress, NotYetSending, RxWaiting
<1> QED BY <1>3, <1>4

\* What was sent is read: it is the packet the transmitter is at, or the EOT.
LEMMA SentStepTimely ==
    ASSUME TInv, rxPc = "read", NEW t \in Sendings, t \in Honest, toRx' = <<>>,
           ~TxReturned => toTx = <<>>, RxStep(t), UNCHANGED txVars
    PROVE  Progress' /\ OneInFlight'
<1> USE PackageAssumption
<1>1. toRx' \in AtMostOne(Damage)
  BY OneOf
<1>3. PICK n \in Nat : n = Len(buf)
  BY LenProperties DEF TInv, IInv, TypeOK, RxTypeOK
<1>4. UNCHANGED <<txPc, block>>
  BY DEF txVars
<1>5. t.kind = "SOH" => txPc = "pkt" /\ t.data = block
  BY DEF Sendings
<1>6. t.kind = "EOT" => txPc = "eot"
  BY DEF Sendings
<1> USE DEF ControlKinds
<1>a. CASE StorePacket(t)
  <2>1. t.data = n + 1 /\ Len(buf') = n + 1 /\ buf' # <<>>
    BY <1>3, <1>a, StoredBlock DEF TInv
  <2>2. txPc = "pkt" /\ block = n + 1 /\ rxPc' = "read" /\ Answer("ACK")
    BY <1>5, <1>a, <2>1 DEF StorePacket
  <2>3. Progress'
    BY <1>4, <2>1, <2>2 DEF Progress, NotYetSending
  <2>4. OneInFlight'
    BY <1>1, <1>4, <2>1, <2>2, AnswerTimely
  <2> QED BY <2>3, <2>4
<1>b. CASE DropDuplicate(t)
  <2>1. txPc = "pkt" /\ t.data = block /\ Answer("ACK") /\ UNCHANGED rxVars
    BY <1>5, <1>b DEF DropDuplicate
  <2>2. block = n
    <3>1. t.seq = Uint8(block) /\ t.seq = Uint8(n + 1) - 1
      BY <1>3, <1>b, <2>1 DEF DropDuplicate, IsDuplicate, Honest, TInv, IInv, BufIsPrefix
    <3>2. Uint8(n + 1) # Uint8(n + 1) - 1
      BY DEF Uint8
    <3>3. block # n + 1
      BY <3>1, <3>2
    <3> QED BY <1>3, <2>1, <3>3 DEF TInv, Progress
  <2>3. Progress'
    BY <1>4, <2>1 DEF TInv, Progress, NotYetSending, rxVars
  <2>4. OneInFlight'
    BY <1>1, <1>3, <1>4, <2>1, <2>2, AnswerTimely DEF rxVars
  <2> QED BY <2>3, <2>4
<1>c. CASE CancelReception(t)
  <2>1. txPc = "pkt" /\ Answer("CAN") /\ rxPc' = "failed" /\ UNCHANGED buf
    BY <1>5, <1>c DEF CancelReception
  <2>2. Progress'
    BY <1>4, <2>1 DEF TInv, Progress, NotYetSending
  <2>3. OneInFlight'
    BY <1>1, <2>1, AnswerTimely
  <2> QED BY <2>2, <2>3
<1>d. CASE EndReception(t)
  <2>1. txPc = "eot" /\ Answer("ACK") /\ rxPc' = "ok" /\ UNCHANGED buf
    BY <1>6, <1>d DEF EndReception
  <2>2. Progress'
    BY <1>4, <2>1 DEF TInv, Progress, NotYetSending
  <2>3. OneInFlight'
    BY <1>1, <1>4, <2>1, AnswerTimely
  <2> QED BY <2>2, <2>3
<1>e. CASE CorruptedPacket(t)
  BY <1>1, <1>e, ReadErrorTimely DEF CorruptedPacket, RxWaiting
<1>f. ~ShortPacket(t) /\ ~UnexpectedByte(t)
  BY DEF ShortPacket, UnexpectedByte, Sendings
<1> QED BY <1>a, <1>b, <1>c, <1>d, <1>e, <1>f DEF RxStep

\* Damage is read: nothing is written yet.
LEMMA DamageStepTimely ==
    ASSUME TInv, rxPc = "read", NEW t \in Damage, ~NotYetSending,
           toRx' \in AtMostOne(Sendings),
           ~TxReturned => toTx = <<>> \/ toRx' = <<>>, RxStep(t), UNCHANGED txVars
    PROVE  Progress' /\ OneInFlight'
<1>1. /\ rxPc' \in {"body", "drain"} /\ UNCHANGED <<buf, toTx, txPc, block>>
      /\ rxPc' = "body" => Blocks < EOT
  BY DEF RxStep, StorePacket, DropDuplicate, CancelReception, EndReception, CorruptedPacket,
      ShortPacket, UnexpectedByte, Damage, txVars
<1>2. Sendings' = Sendings /\ Damage' = Damage
  BY <1>1 DEF Sendings, Damage, NoHiddenEot
<1>3. ~TxReturned => toTx \in AtMostOne(Answers)
  BY DEF TInv, OneInFlight
<1>4. Answers' = Answers
  BY <1>1 DEF Answers, TInv, Progress, RxWaiting
<1>5. toRx' \in Arrivals(Sendings) /\ toRx' \in AtMostOne(Sendings \cup Damage)
  BY OneOf
<1>6. OneInFlight'
  BY <1>1, <1>2, <1>3, <1>4, <1>5, OneOf DEF OneInFlight, TxReturned
<1>7. Progress'
  BY <1>1 DEF TInv, Progress, NotYetSending
<1> QED BY <1>6, <1>7

LEMMA RxStepTimely ==
    ASSUME TInv, rxPc = "read", toRx # <<>>, toRx' = Tail(toRx),
           RxStep(Head(toRx)), UNCHANGED txVars
    PROVE  Progress' /\ OneInFlight'
<1>1. RxWaiting /\ toRx \in Arrivals(Sendings) /\ ~NotYetSending
  BY DEF TInv, OneInFlight, Progress, RxWaiting
<1>2. Head(toRx) \in Honest
  BY HeadTailProperties DEF TInv, IInv
<1>3. ~TxReturned => toTx = <<>> \/ toRx \in AtMostOne(Damage)
  BY <1>1 DEF TInv, OneInFlight
<1> QED BY <1>1, <1>2, <1>3, FirstArrival, SentStepTimely, DamageStepTimely

-----------------------------------------------------------------------------
(* The invariant.                                                          *)

\* What is left of a token without its first byte is damage, or nothing.
LEMMA BeheadTimely ==
    ASSUME NEW t \in Sendings \cup Damage, Blocks < EOT
    PROVE  Behead(t) \in AtMostOne(Damage)
<1>1. t \in Token /\ t.seq # EOT
  BY DEF Sendings, Damage, NoHiddenEot
<1>2. Byte("tail") \in Damage
  <2>1. Byte("tail") \in Token
    BY ByteIsHonest DEF DamagedKinds
  <2> QED BY <2>1 DEF Damage, Byte, NoHiddenEot, EOT
<1>3. CASE t.kind \in {"SOH", "bad", "short"} /\ t.seq = SOH
  <2>1. [t EXCEPT !.kind = "short", !.seq = 255 - SOH] \in Damage
    <3> DEFINE u == [t EXCEPT !.kind = "short", !.seq = 255 - SOH]
    <3>1. 255 - SOH = 254 /\ 254 \in 0..255 /\ EOT = 4
      BY DEF SOH, EOT
    <3>2. u \in Token /\ u.kind = "short" /\ u.seq = 254
      BY <1>1, <3>1 DEF Token, DamagedKinds
    <3> HIDE DEF u
    <3>3. u \in Damage
      BY <3>1, <3>2 DEF Damage, NoHiddenEot
    <3> QED BY <3>3 DEF u
  <2>2. Behead(t) = <<[t EXCEPT !.kind = "short", !.seq = 255 - SOH]>>
    BY <1>1, <1>3 DEF Behead, BeheadPacket
  <2> QED BY <2>1, <2>2, OneOf
<1>4. CASE t.kind \in {"SOH", "bad", "short"} /\ t.seq # SOH
  <2>1. Behead(t) = <<Byte("tail")>>
    BY <1>1, <1>4 DEF Behead, BeheadPacket
  <2> QED BY <1>2, <2>1, OneOf
<1>5. CASE t.kind = "tail"
  <2>1. Behead(t) = <<t>> /\ t \in Damage
    BY <1>5 DEF Behead, Sendings
  <2> QED BY <2>1, OneOf
<1>6. CASE t.kind \notin {"SOH", "bad", "short", "tail"}
  <2>1. Behead(t) = <<>>
    BY <1>6 DEF Behead
  <2> QED BY <2>1, OneOf
<1> QED BY <1>3, <1>4, <1>5, <1>6

\* What noise leaves of what was sent.
LEMMA DisturbedSent ==
    ASSUME TimelyLine, NEW n \in NoiseKinds, NEW t \in Sendings, CanDisturb(n, t)
    PROVE  Disturbed(n, t) \in AtMostOne(Sendings) \cup AtMostOne(Damage)
<1>1. n \in {"lose", "garble", "short", "soh"} /\ t \in Token /\ NoHiddenEot(t)
  BY NoiseAssumption DEF Sendings
<1>2. n \in {"short", "soh"} => Blocks < EOT
  BY DEF TimelyLine
<1>3. CASE n = "lose"
  BY <1>3, OneOf DEF Disturbed
<1>4. CASE n = "garble" /\ IsPacket(t)
  <2>1. [t EXCEPT !.kind = "bad"] \in Sendings
    <3>1. [t EXCEPT !.kind = "bad"] \in Token
      BY <1>1 DEF Token, DamagedKinds
    <3>2. [t EXCEPT !.kind = "bad"].kind = "bad" /\ [t EXCEPT !.kind = "bad"].seq = t.seq
      BY <1>1 DEF Token
    <3> QED BY <1>1, <3>1, <3>2 DEF Sendings, NoHiddenEot
  <2> QED BY <1>4, <2>1, OneOf DEF Disturbed
<1>5. CASE n = "garble" /\ ~IsPacket(t)
  <2>1. Byte("junk") \in Damage
    <3>1. Byte("junk") \in Token
      BY ByteIsHonest DEF DamagedKinds
    <3> QED BY <3>1 DEF Damage, Byte, NoHiddenEot, EOT
  <2> QED BY <1>5, <2>1, OneOf DEF Disturbed
<1>6. CASE n = "short"
  <2>1. [t EXCEPT !.kind = "short"] \in Damage
    <3>1. [t EXCEPT !.kind = "short"] \in Token
      BY <1>1 DEF Token, DamagedKinds
    <3>2. /\ [t EXCEPT !.kind = "short"].kind = "short"
          /\ [t EXCEPT !.kind = "short"].seq = t.seq
      BY <1>1 DEF Token
    <3> QED BY <1>1, <1>2, <1>6, <3>1, <3>2 DEF Damage, NoHiddenEot
  <2> QED BY <1>6, <2>1, OneOf DEF Disturbed
<1>7. CASE n = "soh"
  BY <1>2, <1>7, BeheadTimely DEF Disturbed
<1> QED BY <1>1, <1>3, <1>4, <1>5, <1>6, <1>7

\* Noise leaves of damage only damage.
LEMMA DisturbedDamage ==
    ASSUME NEW n \in NoiseKinds, NEW t \in Damage, CanDisturb(n, t)
    PROVE  Disturbed(n, t) \in AtMostOne(Damage)
<1>1. n \in {"lose", "garble"} /\ ~IsPacket(t)
  BY NoiseAssumption DEF CanDisturb, IsPacket, Damage
<1>2. Byte("junk") \in Damage
  <2>1. Byte("junk") \in Token
    BY ByteIsHonest DEF DamagedKinds
  <2> QED BY <2>1 DEF Damage, Byte, NoHiddenEot, EOT
<1> QED BY <1>1, <1>2, OneOf DEF Disturbed

\* Noise on the line to the receiver.
LEMMA DisturbedArrivals ==
    ASSUME TimelyLine, NEW q \in Arrivals(Sendings), q # <<>>, NEW n \in NoiseKinds,
           CanDisturb(n, Head(q))
    PROVE  LET r == Disturbed(n, Head(q)) \o Tail(q)
           IN  /\ r \in Arrivals(Sendings)
               /\ q \in AtMostOne(Damage) => r \in AtMostOne(Damage)
               /\ q \in AtMostOne(Sendings \cup Damage)
                      => r \in AtMostOne(Sendings \cup Damage)
<1> DEFINE r == Disturbed(n, Head(q)) \o Tail(q)
<1>0. \A S : \A p \in AtMostOne(S) : p \o <<>> = p /\ <<>> \o p = p
  BY DEF AtMostOne
<1>1. CASE Head(q) \in Sendings /\ Tail(q) = <<>> /\ q \notin AtMostOne(Damage)
  <2>1. r = Disturbed(n, Head(q)) /\ r \in AtMostOne(Sendings) \cup AtMostOne(Damage)
    <3>1. Disturbed(n, Head(q)) \in AtMostOne(Sendings) \cup AtMostOne(Damage)
      BY <1>1, DisturbedSent
    <3> QED BY <1>0, <1>1, <3>1
  <2> QED BY <1>1, <2>1, OneOf DEF Arrivals
<1>2. CASE /\ Head(q) \in Damage /\ Tail(q) \in AtMostOne(Sendings)
           /\ q \in AtMostOne(Damage) => Tail(q) = <<>>
  <2>1. Disturbed(n, Head(q)) \in AtMostOne(Damage)
    BY <1>2, DisturbedDamage
  <2>2. CASE Tail(q) = <<>>
    <3>1. r = Disturbed(n, Head(q))
      BY <1>0, <2>1, <2>2
    <3> QED BY <2>1, <3>1, OneOf
  <2>3. CASE Tail(q) # <<>>
    <3>1. PICK s \in Sendings : Tail(q) = <<s>>
      BY <1>2, <2>3 DEF AtMostOne
    <3>2. r \in Arrivals(Sendings)
      <4>1. CASE Disturbed(n, Head(q)) = <<>>
        <5>1. r = <<>> \o <<s>>
          BY <3>1, <4>1
        <5>2. <<>> \o <<s>> = <<s>>
          OBVIOUS
        <5> QED BY <3>1, <5>1, <5>2, OneOf
      <4>2. ASSUME NEW d \in Damage, Disturbed(n, Head(q)) = <<d>>
            PROVE  r \in Arrivals(Sendings)
        <5>1. r = <<d, s>>
          BY <3>1, <4>2, PairConcat
        <5> QED BY <3>1, <5>1, TwoTokens
      <4> QED BY <2>1, <4>1, <4>2 DEF AtMostOne
    <3>3. q \notin AtMostOne(Damage) /\ q \notin AtMostOne(Sendings \cup Damage)
      BY <2>3, OneToken
    <3> QED BY <3>2, <3>3
  <2> QED BY <2>2, <2>3
<1> QED BY <1>1, <1>2, FirstArrival

\* Noise on the line to the transmitter: an answer is lost or means nothing.
LEMMA DisturbedAnswers ==
    ASSUME NEW q \in AtMostOne(Answers), q # <<>>, NEW n \in NoiseKinds,
           CanDisturb(n, Head(q))
    PROVE  Disturbed(n, Head(q)) \o Tail(q) \in AtMostOne(Answers)
<1>1. Tail(q) = <<>> /\ n \in {"lose", "garble"} /\ ~IsPacket(Head(q))
  BY OneToken, NoiseAssumption DEF CanDisturb, IsPacket, Answers
<1>2. Byte("junk") \in Answers
  <2>1. Byte("junk") \in Token
    BY ByteIsHonest DEF DamagedKinds
  <2> QED BY <2>1 DEF Answers, Byte
<1>3. Disturbed(n, Head(q)) = <<>> \/ Disturbed(n, Head(q)) = <<Byte("junk")>>
  BY <1>1 DEF Disturbed
<1>4. <<>> \o <<>> = <<>> /\ <<Byte("junk")>> \o <<>> = <<Byte("junk")>>
  OBVIOUS
<1> QED BY <1>1, <1>2, <1>3, <1>4, OneOf

\* No step but the transmitter's and the receiver's own changes what they may send.
LEMMA SameEnds ==
    ASSUME UNCHANGED <<txVars, rxVars>>
    PROVE  /\ Sendings' = Sendings /\ Answers' = Answers /\ Damage' = Damage
           /\ UNCHANGED <<txPc, block, rxPc, buf>>
BY DEF Sendings, Answers, Damage, NoHiddenEot, txVars, rxVars

LEMMA NextTInv ==
    ASSUME TimelyLine, TInv, Next
    PROVE  Progress' /\ OneInFlight'
<1>0. TypeOK
  BY DEF TInv, IInv
<1>1. CASE StartTx
  <2>1. /\ txPc = "idle" /\ txPc' = "wait_c" /\ UNCHANGED <<rxPc, buf, toTx>>
        /\ toRx = <<>> /\ toRx' = <<>>
    BY <1>1 DEF StartTx, TxCall, rxVars, TInv, Progress, NotYetSending
  <2>2. Progress'
    BY <2>1 DEF TInv, Progress, NotYetSending
  <2>3. ~TxReturned' => toTx' \in AtMostOne(Answers')
    <3>1. toTx \in AtMostOne(Answers) /\ Answers \subseteq Answers'
      BY <2>1 DEF TInv, OneInFlight, TxReturned, Answers
    <3> QED BY <2>1, <3>1, OneOf
  <2>4. OneInFlight'
    BY <2>1, <2>3, OneOf DEF TInv, OneInFlight
  <2> QED BY <2>2, <2>4
<1>2. CASE TxHear
  <2>1. ~TxReturned /\ toTx \in AtMostOne(Answers) /\ toTx # <<>>
    BY <1>2 DEF TInv, OneInFlight, TxReturned, TxHear, TxStep, StartTransmit, PacketAcked,
        EotAcked, Retry, RetriesExceeded, TxWaiting
  <2>2. Head(toTx) \in Answers /\ toTx' = <<>>
    BY <1>2, <2>1, OneToken DEF TxHear
  <2>3. /\ rxPc # "idle"
        /\ RxWaiting => toRx \in AtMostOne(Damage)
        /\ rxPc = "body" => toRx = <<>>
    BY <2>1 DEF TInv, Progress, OneInFlight
  <2> QED BY <1>2, <2>2, <2>3, TxStepTimely DEF TxHear, Answers
<1>3. CASE TxExpire
  <2>1. toTx = <<>> /\ RxQuiet
    BY <1>0, <1>3, TimersAreTimely DEF TxExpire
  <2>2. /\ rxPc # "idle"
        /\ RxWaiting => toRx \in AtMostOne(Damage)
        /\ rxPc = "body" => toRx = <<>>
    BY <2>1, OneOf DEF RxQuiet, RxReturned, RxWaiting
  <2> QED BY <1>3, <2>1, <2>2, TxStepTimely DEF TxExpire
<1>4. CASE StartRx
  <2>1. NotYetSending /\ toTx = <<>> /\ toRx = <<>> /\ rxPc = "idle"
    BY <1>4 DEF StartRx, RxCall, TInv, Progress
  <2>2. /\ rxPc' = "read" /\ buf' = <<>> /\ toRx' = <<>> /\ Answer("C")
        /\ UNCHANGED txVars
    BY <1>4, <2>1 DEF StartRx, RxCall
  <2>3. OneInFlight'
    BY <2>1, <2>2, AnswerTimely, OneOf DEF ControlKinds
  <2>4. Progress'
    BY <2>1, <2>2 DEF Progress, NotYetSending, txVars
  <2> QED BY <2>3, <2>4
<1>5. CASE RxHear
  BY <1>5, RxStepTimely DEF RxHear
<1>6. CASE RxEatByte
  <2>1. /\ rxPc = "body" /\ toRx # <<>> /\ ReadError /\ RxWaiting /\ UNCHANGED txVars
        /\ toRx' = Behead(Head(toRx)) \o Tail(toRx)
    BY <1>6 DEF RxEatByte, RxWaiting
  <2>2. /\ Blocks < EOT /\ toRx \in AtMostOne(Sendings \cup Damage)
        /\ ~TxReturned => toTx = <<>>
    BY <2>1 DEF TInv, OneInFlight
  <2>3. Head(toRx) \in Sendings \cup Damage /\ Tail(toRx) = <<>> /\ ~NotYetSending
    BY <2>1, <2>2, OneToken DEF TInv, Progress
  <2>4. Behead(Head(toRx)) \in AtMostOne(Damage)
    BY <2>2, <2>3, BeheadTimely
  <2>5. \A p \in AtMostOne(Damage) : p \o <<>> = p
    BY DEF AtMostOne
  <2>6. toRx' \in AtMostOne(Damage)
    BY <2>1, <2>3, <2>4, <2>5
  <2> QED BY <2>1, <2>2, <2>3, <2>6, ReadErrorTimely
<1>7. CASE RxDrain
  <2>1. /\ RxWaiting /\ rxPc = "drain" /\ toRx # <<>> /\ toRx' = Tail(toRx)
        /\ UNCHANGED <<txVars, rxVars, toTx>>
    BY <1>7 DEF RxDrain, RxWaiting
  <2>2. toRx \in Arrivals(Sendings) /\ ~NotYetSending
    BY <2>1 DEF TInv, OneInFlight, Progress
  <2>3. /\ toRx' \in AtMostOne(Sendings)
        /\ toRx \in AtMostOne(Damage) => toRx' = <<>>
    BY <2>1, <2>2, FirstArrival, OneOf
  <2>4. Progress'
    BY <2>1, <2>2, SameEnds DEF TInv, Progress, NotYetSending
  <2>5. OneInFlight'
    BY <2>1, <2>3, SameEnds, OneOf DEF TInv, OneInFlight, TxReturned, RxWaiting
  <2> QED BY <2>4, <2>5
<1>8. CASE RxExpire
  <2>1. toRx = <<>> /\ TxQuiet
    BY <1>0, <1>8, TimersAreTimely DEF RxExpire
  <2>2. ~TxReturned => toTx = <<>>
    BY <2>1 DEF TxQuiet
  <2> QED BY <1>8, <2>1, <2>2, ReadErrorTimely, OneOf DEF RxExpire
<1>9. CASE DisturbToRx
  <2>1. RxWaiting /\ toRx # <<>> /\ UNCHANGED <<txVars, rxVars, toTx>>
    BY <1>9 DEF DisturbToRx
  <2>2. PICK n \in NoiseKinds : /\ CanDisturb(n, Head(toRx))
                                /\ toRx' = Disturbed(n, Head(toRx)) \o Tail(toRx)
    BY <1>9 DEF DisturbToRx
  <2>3. toRx \in Arrivals(Sendings) /\ ~NotYetSending
    BY <2>1 DEF TInv, OneInFlight, Progress
  <2>4. /\ toRx' \in Arrivals(Sendings)
        /\ toRx \in AtMostOne(Damage) => toRx' \in AtMostOne(Damage)
        /\ toRx \in AtMostOne(Sendings \cup Damage)
               => toRx' \in AtMostOne(Sendings \cup Damage)
    BY <2>1, <2>2, <2>3, DisturbedArrivals
  <2>5. Progress'
    BY <2>1, <2>3, SameEnds DEF TInv, Progress, NotYetSending
  <2>6. OneInFlight'
    BY <2>1, <2>4, SameEnds DEF TInv, OneInFlight, TxReturned, RxWaiting
  <2> QED BY <2>5, <2>6
<1>10. CASE DisturbToTx
  <2>1. ~TxReturned /\ toTx # <<>> /\ UNCHANGED <<txVars, rxVars, toRx>>
    BY <1>10 DEF DisturbToTx, TxWaiting, TxReturned
  <2>2. PICK n \in NoiseKinds : /\ CanDisturb(n, Head(toTx))
                                /\ toTx' = Disturbed(n, Head(toTx)) \o Tail(toTx)
    BY <1>10 DEF DisturbToTx
  <2>3. toTx \in AtMostOne(Answers) /\ rxPc # "idle"
    BY <2>1 DEF TInv, OneInFlight, Progress
  <2>4. toTx' \in AtMostOne(Answers)
    BY <2>1, <2>2, <2>3, DisturbedAnswers
  <2>5. Progress'
    BY <2>1, <2>3, SameEnds DEF TInv, Progress, NotYetSending
  <2>6. OneInFlight'
    BY <2>1, <2>4, SameEnds DEF TInv, OneInFlight, TxReturned, RxWaiting
  <2> QED BY <2>5, <2>6
<1>11. CASE Done
  BY <1>11, SameEnds DEF Done, vars, TInv, Progress, NotYetSending, OneInFlight,
      TxReturned, RxWaiting
<1> QED BY <1>1, <1>2, <1>3, <1>4, <1>5, <1>6, <1>7, <1>8, <1>9, <1>10, <1>11 DEF Next

LEMMA UnchangedTInv ==
    ASSUME TInv, UNCHANGED vars
    PROVE  TInv'
BY UnchangedIInv, SameEnds DEF TInv, vars, Progress, NotYetSending, OneInFlight,
    TxReturned, RxWaiting

LEMMA TimelyInvariance ==
    ASSUME TimelyLine
    PROVE  Spec => []TInv
<1>1. TInv /\ [Next]_vars => TInv'
  BY NextType, NextBuf, NextTInv, UnchangedTInv DEF TInv, IInv
<1> QED BY InitTInv, <1>1, PTL DEF Spec

\* The block being sent is the one the receiver has just stored or the one it waits
\* for, so an ACK is never taken for the wrong packet.
THEOREM TimelyLockstep ==
    ASSUME TimelyLine
    PROVE  Spec => []Lockstep
<1>1. TInv => Lockstep
  <2> SUFFICES ASSUME TInv, txPc = "pkt" PROVE block - Len(buf) \in {0, 1}
    BY DEF Lockstep
  <2>1. PICK n \in Nat : n = Len(buf)
    BY LenProperties DEF TInv, IInv, TypeOK, RxTypeOK
  <2>2. block = n \/ block = n + 1
    BY <2>1 DEF TInv, Progress
  <2>3. block - n \in {0, 1}
    BY <2>1, <2>2
  <2> QED BY <2>1, <2>3
<1> QED BY <1>1, TimelyInvariance, PTL

\* xmodem_transmit_package returns success only if xmodem_receive_package did, with
\* every block: the EOT is acknowledged once and by the end that was given it.
THEOREM TimelyAgreement ==
    ASSUME TimelyLine
    PROVE  Spec => []Agreement
<1>1. TInv => Agreement
  BY DEF TInv, Progress, Agreement
<1> QED BY <1>1, TimelyInvariance, PTL

\* xmodem_receive_package returns success only with the whole package.
THEOREM TimelyWholePackage ==
    ASSUME TimelyLine
    PROVE  Spec => []WholePackage
<1>1. TInv => WholePackage
  BY DEF TInv, Progress, WholePackage
<1> QED BY <1>1, TimelyInvariance, PTL

-----------------------------------------------------------------------------
(* The transfer implements PackageDelivery.                                *)

\* A step of the transmitter is silent, Confirm or SenderGivesUp.
LEMMA TxStepDelivers ==
    ASSUME TInv, NEW rsp, TxStep(rsp), UNCHANGED rxVars,
           rsp = "ACK" => txPc = "pkt" \/ (txPc = "eot" /\ rxPc = "ok")
    PROVE  [Delivery!Next]_(Delivery!vars)
<1>0. UNCHANGED <<rxPc, buf>>
  BY DEF rxVars
<1>1. CASE StartTransmit(rsp)
  BY <1>0, <1>1 DEF StartTransmit, SendFrom, Status, Delivery!vars
<1>2. CASE PacketAcked(rsp)
  BY <1>0, <1>2 DEF PacketAcked, SendFrom, Status, Delivery!vars
<1>3. CASE EotAcked(rsp)
  BY <1>0, <1>3 DEF EotAcked, Status, Delivery!Confirm, Delivery!Next
<1>4. CASE Retry(rsp)
  BY <1>0, <1>4 DEF Retry, Status, Delivery!vars
<1>5. CASE RetriesExceeded(rsp)
  BY <1>0, <1>5 DEF RetriesExceeded, TxWaiting, Status, Delivery!SenderGivesUp, Delivery!Next
<1> QED BY <1>1, <1>2, <1>3, <1>4, <1>5 DEF TxStep

LEMMA ReadErrorDelivers ==
    ASSUME RxWaiting, ReadError, UNCHANGED txVars
    PROVE  [Delivery!Next]_(Delivery!vars)
<1>1. UNCHANGED <<txPc, buf>> /\ rxPc' \in {"read", "failed"}
  BY DEF ReadError, txVars
<1>2. CASE rxPc' = "read"
  BY <1>1, <1>2 DEF RxWaiting, Status, Delivery!vars
<1>3. CASE rxPc' = "failed"
  BY <1>1, <1>3 DEF RxWaiting, Status, Delivery!ReceiverGivesUp, Delivery!Next
<1> QED BY <1>1, <1>2, <1>3

\* A step of the receiver is silent, Deliver, Complete or ReceiverGivesUp.
LEMMA RxStepDelivers ==
    ASSUME TInv, rxPc = "read", NEW t \in Honest, t \in Sendings \cup Damage,
           RxStep(t), UNCHANGED txVars
    PROVE  [Delivery!Next]_(Delivery!vars)
<1>0. UNCHANGED txPc
  BY DEF txVars
<1>1. CASE StorePacket(t)
  <2>1. PICK n \in Nat : n = Len(buf) /\ t.data = n + 1 /\ n + 1 <= Blocks
    BY <1>1, StoredBlock DEF TInv
  <2>2. Len(buf) < Blocks /\ buf' = Append(buf, Len(buf) + 1)
    BY <1>1, <2>1, PackageAssumption DEF StorePacket
  <2>3. rxPc' = rxPc
    BY <1>1 DEF StorePacket
  <2> QED BY <1>0, <2>2, <2>3 DEF Status, Delivery!Deliver, Delivery!Next
<1>2. CASE DropDuplicate(t)
  BY <1>0, <1>2 DEF DropDuplicate, rxVars, Delivery!vars
<1>3. CASE CancelReception(t)
  BY <1>0, <1>3 DEF CancelReception, Status, Delivery!ReceiverGivesUp, Delivery!Next
<1>4. CASE EndReception(t)
  <2>1. Len(buf) = Blocks
    BY <1>4 DEF EndReception, Sendings, Damage, TInv, Progress
  <2> QED BY <1>0, <1>4, <2>1 DEF EndReception, Status, Delivery!Complete, Delivery!Next
<1>5. CASE CorruptedPacket(t)
  BY <1>5, ReadErrorDelivers DEF CorruptedPacket, RxWaiting
<1>6. CASE ShortPacket(t)
  BY <1>0, <1>6 DEF ShortPacket, Status, Delivery!vars
<1>7. CASE UnexpectedByte(t)
  BY <1>0, <1>7 DEF UnexpectedByte, Status, Delivery!vars
<1> QED BY <1>1, <1>2, <1>3, <1>4, <1>5, <1>6, <1>7 DEF RxStep

LEMMA NextDelivers ==
    ASSUME TimelyLine, TInv, Next
    PROVE  [Delivery!Next]_(Delivery!vars)
<1>1. CASE StartTx
  BY <1>1 DEF StartTx, TxCall, rxVars, Status, Delivery!vars
<1>2. CASE TxHear
  <2>1. ~TxReturned /\ toTx \in AtMostOne(Answers) /\ toTx # <<>>
    BY <1>2 DEF TInv, OneInFlight, TxReturned, TxHear, TxStep, StartTransmit, PacketAcked,
        EotAcked, Retry, RetriesExceeded, TxWaiting
  <2>2. Head(toTx) \in Answers
    BY <2>1, OneToken
  <2> QED BY <1>2, <2>2, TxStepDelivers DEF TxHear, Answers
<1>3. CASE TxExpire
  BY <1>3, TxStepDelivers DEF TxExpire
<1>4. CASE StartRx
  <2>1. rxPc = "idle" /\ rxPc' = "read" /\ buf' = buf /\ txPc' = txPc
    BY <1>4 DEF StartRx, RxCall, TInv, Progress, txVars
  <2> QED BY <2>1 DEF Status, Delivery!vars
<1>5. CASE RxHear
  <2>1. rxPc = "read" /\ toRx # <<>> /\ RxStep(Head(toRx)) /\ UNCHANGED txVars
    BY <1>5 DEF RxHear
  <2>2. Head(toRx) \in Sendings \cup Damage
    BY <2>1, FirstArrival DEF TInv, OneInFlight, RxWaiting
  <2>3. Head(toRx) \in Honest
    BY <2>1, HeadTailProperties DEF TInv, IInv
  <2> QED BY <2>1, <2>2, <2>3, RxStepDelivers
<1>6. CASE RxEatByte
  BY <1>6, ReadErrorDelivers DEF RxEatByte, RxWaiting
<1>7. CASE RxDrain
  BY <1>7 DEF RxDrain, txVars, rxVars, Delivery!vars
<1>8. CASE RxExpire
  BY <1>8, ReadErrorDelivers DEF RxExpire
<1>9. CASE DisturbToRx
  BY <1>9 DEF DisturbToRx, txVars, rxVars, Delivery!vars
<1>10. CASE DisturbToTx
  BY <1>10 DEF DisturbToTx, txVars, rxVars, Delivery!vars
<1>11. CASE Done
  BY <1>11 DEF Done, vars, txVars, rxVars, Delivery!vars
<1> QED BY <1>1, <1>2, <1>3, <1>4, <1>5, <1>6, <1>7, <1>8, <1>9, <1>10, <1>11 DEF Next

\* Seen from outside, a timely transfer does what PackageDelivery promises: blocks in
\* order, success at the receiver only with all of them, and success at the
\* transmitter only after that.
THEOREM TimelyRefinement ==
    ASSUME TimelyLine
    PROVE  Spec => ImplementsDelivery
<1>1. Init => Delivery!Init
  BY DEF Init, TxInit, RxInit, Status, Delivery!Init
<1>2. TInv /\ [Next]_vars => [Delivery!Next]_(Delivery!vars)
  <2>1. ASSUME TInv, UNCHANGED vars PROVE UNCHANGED Delivery!vars
    BY <2>1 DEF vars, txVars, rxVars, Delivery!vars
  <2> QED BY <2>1, NextDelivers
<1> QED BY <1>1, <1>2, TimelyInvariance, PTL DEF Spec, ImplementsDelivery, Delivery!Spec

-----------------------------------------------------------------------------
(* No false cancel.  The packet that the receiver reads is the one that it *)
(* expects or the one before, so CAN is never the answer.  Packet 255 is   *)
(* the exception: exp_seq_no has wrapped to 0, and exp_seq_no - 1 to -1.   *)

LEMMA NothingToCancel ==
    ASSUME TInv, Blocks < 255, Blocks <= BufBlocks,
           NEW t \in Honest, t \in Sendings \cup Damage
    PROVE  ~CancelReception(t)
<1> USE PackageAssumption
<1> SUFFICES ASSUME t.kind = "SOH" PROVE IsDuplicate(t) \/ (IsExpected(t) /\ HasRoom)
  BY DEF CancelReception
<1>1. PICK n \in Nat : n = Len(buf)
  BY LenProperties DEF TInv, IInv, TypeOK, RxTypeOK
<1>2. /\ txPc = "pkt" /\ t.data = block /\ t.data \in 1..Blocks
      /\ t.seq = Uint8(t.data)
  BY DEF Sendings, Damage, Honest
<1>3. block = n \/ block = n + 1
  BY <1>1, <1>2 DEF TInv, Progress
<1>4. exp_seq_no = Uint8(n + 1)
  BY <1>1 DEF TInv, IInv, BufIsPrefix
<1>5. CASE block = n
  <2>1. Uint8(n) = Uint8(n + 1) - 1
    BY <1>2, <1>5 DEF Uint8
  <2> QED BY <1>2, <1>4, <1>5, <2>1 DEF IsDuplicate
<1>6. CASE block = n + 1
  <2>1. n < BufBlocks
    BY <1>2, <1>6
  <2> QED BY <1>1, <1>2, <1>4, <1>6, <2>1 DEF IsExpected, HasRoom
<1> QED BY <1>3, <1>5, <1>6

\* A reception is ended by an error only when it is the last one tolerated.
LEMMA LastError ==
    ASSUME TypeOK, RxWaiting, ReadError
    PROVE  rxPc' = "failed" => err_cnt' = MAX_RX_ERRORS
BY DEF TypeOK, RxTypeOK, ReadError, MAX_RX_ERRORS

LEMMA NextNoCancel ==
    ASSUME TInv, Blocks < 255, NoFalseCancel, Next
    PROVE  NoFalseCancel'
<1>0. TypeOK
  BY DEF TInv, IInv
<1>1. CASE UNCHANGED <<rxPc, err_cnt>>
  BY <1>1 DEF NoFalseCancel
<1>2. CASE StartRx
  BY <1>2 DEF StartRx, RxCall, NoFalseCancel
<1>3. CASE RxHear
  <2>1. rxPc = "read" /\ toRx # <<>> /\ RxStep(Head(toRx))
    BY <1>3 DEF RxHear
  <2>2. Head(toRx) \in Sendings \cup Damage
    BY <2>1, FirstArrival DEF TInv, OneInFlight, RxWaiting
  <2>3. Head(toRx) \in Honest
    BY <2>1, HeadTailProperties DEF TInv, IInv
  <2>4. Blocks <= BufBlocks => ~CancelReception(Head(toRx))
    BY <2>2, <2>3, NothingToCancel
  <2>5. CASE ReadError
    BY <1>0, <2>1, <2>5, LastError DEF NoFalseCancel, RxWaiting
  <2>6. CASE CancelReception(Head(toRx))
    BY <2>4, <2>6 DEF NoFalseCancel
  <2>7. ReadError \/ CancelReception(Head(toRx)) \/ rxPc' # "failed"
    BY <2>1 DEF RxStep, StorePacket, DropDuplicate, EndReception, CorruptedPacket,
        ShortPacket, UnexpectedByte, rxVars
  <2> QED BY <2>5, <2>6, <2>7 DEF NoFalseCancel
<1>4. CASE RxEatByte \/ RxExpire
  <2>1. RxWaiting /\ ReadError
    BY <1>4 DEF RxEatByte, RxExpire, RxWaiting
  <2> QED BY <1>0, <2>1, LastError DEF NoFalseCancel
<1>5. CASE ~StartRx /\ ~RxHear /\ ~RxEatByte /\ ~RxExpire
  BY <1>1, <1>5 DEF Next, StartTx, TxHear, TxExpire, RxDrain, DisturbToRx, DisturbToTx,
      Done, rxVars, vars
<1> QED BY <1>2, <1>3, <1>4, <1>5

\* On a timely line a reception whose package fits fails for one reason only, too many
\* errors since the last new packet: the sequence checks of xmodem_read_pkt never
\* refuse a packet of their own transmitter, for any package of less than 255 blocks.
THEOREM TimelyNoFalseCancel ==
    ASSUME TimelyLine, Blocks < 255
    PROVE  Spec => []NoFalseCancel
<1>1. Init => NoFalseCancel
  BY DEF Init, RxInit, NoFalseCancel
<1>2. TInv /\ NoFalseCancel /\ [Next]_vars => NoFalseCancel'
  <2>1. ASSUME NoFalseCancel, UNCHANGED vars PROVE NoFalseCancel'
    BY <2>1 DEF NoFalseCancel, vars, rxVars
  <2> QED BY <2>1, NextNoCancel
<1> QED BY <1>1, <1>2, TimelyInvariance, PTL DEF Spec
=============================================================================
