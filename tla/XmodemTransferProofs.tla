------------------------ MODULE XmodemTransferProofs ------------------------
(***************************************************************************)
(* What holds of a transfer for every package length, buffer size, noise   *)
(* and timing: its types, and that the receiver stores the blocks in order.*)
(***************************************************************************)
EXTENDS XmodemTransfer, SequenceTheorems, TLAPS

\* A token that carries the block its number says, if it is an intact packet.
Honest == {t \in Token : t.kind = "SOH" => t.data \in 1..Blocks /\ t.seq = Uint8(t.data)}

\* The number expected next is one more than the blocks stored, modulo 256.
BufIsPrefix ==
    /\ \A i \in 1..Len(buf) : buf[i] = i
    /\ exp_seq_no = Uint8(Len(buf) + 1)
    /\ Len(buf) <= Blocks /\ Len(buf) <= BufBlocks

\* The inductive invariant behind InOrderDelivery.
IInv == TypeOK /\ toRx \in Seq(Honest) /\ BufIsPrefix

-----------------------------------------------------------------------------
(* What the ends write is a token, and noise makes no intact packet.       *)

LEMMA OneTwoTokens ==
    ASSUME NEW S, NEW a \in S, NEW b \in S
    PROVE  <<a>> \in Seq(S) /\ <<a, b>> \in Seq(S) /\ <<>> \in Seq(S)
OBVIOUS

\* A token whose kind has become a kind of damage, and whatever else, is honest.
LEMMA DamagedIsHonest ==
    ASSUME NEW t \in Token, NEW k \in DamagedKinds
    PROVE  [t EXCEPT !.kind = k] \in Honest
<1>1. [t EXCEPT !.kind = k] \in Token /\ [t EXCEPT !.kind = k].kind = k
  BY DEF Token
<1>2. k # "SOH"
  BY DEF DamagedKinds
<1> QED BY <1>1, <1>2 DEF Honest

LEMMA RenumberedIsHonest ==
    ASSUME NEW t \in Token, NEW k \in DamagedKinds, NEW n \in 0..255
    PROVE  [t EXCEPT !.kind = k, !.seq = n] \in Honest
<1>1. [t EXCEPT !.kind = k, !.seq = n] \in Token
  BY DEF Token
<1>2. [t EXCEPT !.kind = k, !.seq = n].kind = k
  BY DEF Token
<1>3. k # "SOH"
  BY DEF DamagedKinds
<1> QED BY <1>1, <1>2, <1>3 DEF Honest

LEMMA ByteIsHonest ==
    ASSUME NEW k \in ControlKinds \cup DamagedKinds
    PROVE  Byte(k) \in Honest /\ Byte(k) \in Token
BY PackageAssumption DEF Byte, Honest, Token, ControlKinds, DamagedKinds

LEMMA PacketIsHonest ==
    ASSUME NEW k \in 1..Blocks
    PROVE  Packet(k) \in Honest
BY PackageAssumption DEF Packet, Honest, Token, Uint8

LEMMA BeheadIsHonest ==
    ASSUME NEW t \in Token
    PROVE  Behead(t) \in Seq(Honest)
<1>1. BeheadPacket(t) \in Seq(Honest)
  <2>1. CASE t.seq = EOT
    <3>1. Byte("EOT") \in Honest /\ Byte("tail") \in Honest
      BY ByteIsHonest DEF ControlKinds, DamagedKinds
    <3>2. BeheadPacket(t) = <<Byte("EOT"), Byte("tail")>>
      BY <2>1 DEF BeheadPacket, EOT, SOH
    <3> QED BY <3>1, <3>2, OneTwoTokens
  <2>2. CASE t.seq = SOH
    <3>1. [t EXCEPT !.kind = "short", !.seq = 255 - SOH] \in Honest
      <4>1. "short" \in DamagedKinds /\ 255 - SOH \in 0..255
        BY DEF SOH, DamagedKinds
      <4> QED BY <4>1, RenumberedIsHonest
    <3>2. t.seq # EOT
      BY <2>2 DEF SOH, EOT
    <3> QED BY <2>2, <3>1, <3>2, OneTwoTokens DEF BeheadPacket
  <2>3. CASE t.seq # EOT /\ t.seq # SOH
    <3>1. Byte("tail") \in Honest
      BY ByteIsHonest DEF DamagedKinds
    <3> QED BY <2>3, <3>1, OneTwoTokens DEF BeheadPacket
  <2> QED BY <2>1, <2>2, <2>3
<1>2. CASE t.kind \in {"SOH", "bad", "short"}
  BY <1>1, <1>2 DEF Behead
<1>3. CASE t.kind = "tail"
  <2>1. t \in Honest BY <1>3 DEF Honest
  <2> QED BY <1>3, <2>1, OneTwoTokens DEF Behead
<1>4. CASE t.kind \notin {"SOH", "bad", "short", "tail"}
  BY <1>4 DEF Behead
<1> QED BY <1>2, <1>3, <1>4

LEMMA DisturbedIsHonest ==
    ASSUME NEW n \in {"lose", "garble", "short", "soh"}, NEW t \in Token
    PROVE  Disturbed(n, t) \in Seq(Honest)
<1>1. CASE n = "lose"
  BY <1>1 DEF Disturbed
<1>2. CASE n = "garble" /\ IsPacket(t)
  <2>1. [t EXCEPT !.kind = "bad"] \in Honest
    <3>1. "bad" \in DamagedKinds BY DEF DamagedKinds
    <3> QED BY <3>1, DamagedIsHonest
  <2> QED BY <1>2, <2>1, OneTwoTokens DEF Disturbed
<1>3. CASE n = "garble" /\ ~IsPacket(t)
  <2>1. Byte("junk") \in Honest
    BY ByteIsHonest DEF DamagedKinds
  <2> QED BY <1>3, <2>1, OneTwoTokens DEF Disturbed
<1>4. CASE n = "short"
  <2>1. [t EXCEPT !.kind = "short"] \in Honest
    <3>1. "short" \in DamagedKinds BY DEF DamagedKinds
    <3> QED BY <3>1, DamagedIsHonest
  <2> QED BY <1>4, <2>1, OneTwoTokens DEF Disturbed
<1>5. CASE n = "soh"
  BY <1>5, BeheadIsHonest DEF Disturbed
<1> QED BY <1>1, <1>2, <1>3, <1>4, <1>5

-----------------------------------------------------------------------------
(* Each end's steps keep its types; the transmitter writes honest tokens.  *)

LEMMA AppendHonest ==
    ASSUME NEW S, NEW s \in Seq(S), NEW t \in S
    PROVE  Append(s, t) \in Seq(S)
OBVIOUS

LEMMA SendFromType ==
    ASSUME TxTypeOK, toRx \in Seq(Honest),
           NEW k \in 1..(Blocks + 1), SendFrom(k)
    PROVE  TxTypeOK' /\ toRx' \in Seq(Honest)
<1> USE PackageAssumption
<1>1. CASE k <= Blocks
  <2>1. k \in 1..Blocks /\ Packet(k) \in Honest
    BY <1>1, PacketIsHonest
  <2>2. txPc' = "pkt" /\ block' = k /\ toRx' = Append(toRx, Packet(k))
    BY <1>1 DEF SendFrom
  <2>3. toRx' \in Seq(Honest) /\ toRx' \in Seq(Token)
    BY <2>1, <2>2, AppendHonest DEF Honest, TxTypeOK
  <2> QED BY <2>1, <2>2, <2>3 DEF SendFrom, TxTypeOK, MAX_RETRANSMIT
<1>2. CASE k > Blocks
  <2>1. Byte("EOT") \in Honest
    BY ByteIsHonest DEF ControlKinds
  <2>2. txPc' = "eot" /\ block' = Blocks + 1 /\ toRx' = Append(toRx, Byte("EOT"))
    BY <1>2 DEF SendFrom
  <2>3. toRx' \in Seq(Honest) /\ toRx' \in Seq(Token)
    BY <2>1, <2>2, AppendHonest DEF Honest, TxTypeOK
  <2> QED BY <2>2, <2>3 DEF SendFrom, TxTypeOK, MAX_RETRANSMIT
<1> QED BY <1>1, <1>2

LEMMA TxStepType ==
    ASSUME TxTypeOK, toRx \in Seq(Honest), NEW rsp, TxStep(rsp)
    PROVE  TxTypeOK' /\ toRx' \in Seq(Honest)
<1> USE PackageAssumption
<1>1. CASE StartTransmit(rsp)
  BY <1>1, SendFromType DEF StartTransmit
<1>2. CASE PacketAcked(rsp)
  <2>1. block + 1 \in 1..(Blocks + 1)
    BY <1>2 DEF PacketAcked, TxTypeOK
  <2> QED BY <1>2, <2>1, SendFromType DEF PacketAcked
<1>3. CASE EotAcked(rsp)
  BY <1>3 DEF EotAcked, TxTypeOK
<1>4. CASE Retry(rsp)
  <2>1. Current \in Seq(Honest) /\ Current \in Seq(Token)
    <3>1. CASE txPc = "pkt"
      <4>1. Packet(block) \in Honest
        BY <3>1, PacketIsHonest DEF TxTypeOK
      <4>2. Current = <<Packet(block)>>
        BY <3>1 DEF Current
      <4> QED BY <4>1, <4>2, OneTwoTokens DEF Honest
    <3>2. CASE txPc = "eot"
      <4>1. Byte("EOT") \in Honest
        BY ByteIsHonest DEF ControlKinds
      <4>2. Current = <<Byte("EOT")>>
        BY <3>2 DEF Current
      <4> QED BY <4>1, <4>2, OneTwoTokens DEF Honest
    <3>3. CASE txPc \notin {"pkt", "eot"}
      BY <3>3, OneTwoTokens DEF Current
    <3> QED BY <3>1, <3>2, <3>3
  <2>2. toRx' \in Seq(Honest) /\ toRx' \in Seq(Token)
    BY <1>4, <2>1, ConcatProperties DEF Retry, TxTypeOK
  <2> QED BY <1>4, <2>2 DEF Retry, TxTypeOK, MAX_RETRANSMIT
<1>5. CASE RetriesExceeded(rsp)
  BY <1>5 DEF RetriesExceeded, TxWaiting, TxTypeOK
<1> QED BY <1>1, <1>2, <1>3, <1>4, <1>5 DEF TxStep

LEMMA AnswerType ==
    ASSUME toTx \in Seq(Token), NEW k \in ControlKinds, Answer(k)
    PROVE  toTx' \in Seq(Token)
BY ByteIsHonest, AppendHonest DEF Answer

LEMMA ReadErrorType ==
    ASSUME RxTypeOK, RxWaiting, ReadError
    PROVE  RxTypeOK'
<1>1. nak \in ControlKinds
  BY DEF RxTypeOK, ControlKinds
<1>2. toTx' \in Seq(Token)
  BY <1>1, AnswerType DEF ReadError, RxTypeOK
<1>3. err_cnt' \in 0..MAX_RX_ERRORS /\ (RxWaiting' => err_cnt' < MAX_RX_ERRORS)
  BY DEF ReadError, RxTypeOK, RxWaiting, MAX_RX_ERRORS
<1> QED BY <1>2, <1>3 DEF ReadError, RxTypeOK

LEMMA RxStepType ==
    ASSUME RxTypeOK, rxPc = "read", NEW t \in Token, RxStep(t)
    PROVE  RxTypeOK'
<1>0. \A k \in ControlKinds : Answer(k) => toTx' \in Seq(Token)
  BY AnswerType DEF RxTypeOK
<1>1. CASE StorePacket(t)
  <2>1. toTx' \in Seq(Token)
    BY <1>0, <1>1 DEF StorePacket, ControlKinds
  <2>2. buf' \in Seq(0..Blocks)
    BY <1>1, AppendHonest DEF StorePacket, RxTypeOK, Token
  <2>3. exp_seq_no' \in 0..255
    BY <1>1 DEF StorePacket, RxTypeOK, Uint8
  <2> QED BY <1>1, <2>1, <2>2, <2>3 DEF StorePacket, RxTypeOK, RxWaiting, MAX_RX_ERRORS
<1>2. CASE DropDuplicate(t)
  <2>1. toTx' \in Seq(Token)
    BY <1>0, <1>2 DEF DropDuplicate, ControlKinds
  <2> QED BY <1>2, <2>1 DEF DropDuplicate, rxVars, RxTypeOK, RxWaiting
<1>3. CASE CancelReception(t)
  <2>1. toTx' \in Seq(Token)
    BY <1>0, <1>3 DEF CancelReception, ControlKinds
  <2> QED BY <1>3, <2>1 DEF CancelReception, RxTypeOK, RxWaiting
<1>4. CASE EndReception(t)
  <2>1. toTx' \in Seq(Token)
    BY <1>0, <1>4 DEF EndReception, ControlKinds
  <2> QED BY <1>4, <2>1 DEF EndReception, RxTypeOK, RxWaiting
<1>5. CASE CorruptedPacket(t)
  BY <1>5, ReadErrorType DEF CorruptedPacket, RxWaiting
<1>6. CASE ShortPacket(t)
  BY <1>6 DEF ShortPacket, RxTypeOK, RxWaiting
<1>7. CASE UnexpectedByte(t)
  BY <1>7 DEF UnexpectedByte, RxTypeOK, RxWaiting
<1> QED BY <1>1, <1>2, <1>3, <1>4, <1>5, <1>6, <1>7 DEF RxStep

-----------------------------------------------------------------------------
(* The invariant.                                                          *)

LEMMA InitIInv == Init => IInv
<1> SUFFICES ASSUME Init PROVE IInv
  OBVIOUS
<1> USE PackageAssumption, NoiseAssumption
<1>1. TypeOK
  <2>1. TxTypeOK
    BY OneTwoTokens DEF Init, TxInit, TxTypeOK, MAX_RETRANSMIT
  <2>2. RxTypeOK
    BY DEF Init, RxInit, RxTypeOK, RxWaiting, MAX_RX_ERRORS
  <2> QED BY <2>1, <2>2 DEF Init, TypeOK
<1>2. toRx \in Seq(Honest) /\ BufIsPrefix
  BY DEF Init, TxInit, RxInit, BufIsPrefix, Uint8
<1> QED BY <1>1, <1>2 DEF IInv

\* Types and the honesty of the line, action by action.
LEMMA NextType ==
    ASSUME TypeOK, toRx \in Seq(Honest), Next
    PROVE  TypeOK' /\ toRx' \in Seq(Honest)
<1> USE DEF TypeOK
<1>0. toRx # <<>> => /\ Head(toRx) \in Token /\ Head(toRx) \in Honest
                     /\ Tail(toRx) \in Seq(Token) /\ Tail(toRx) \in Seq(Honest)
  BY HeadTailProperties DEF TxTypeOK
<1>1. CASE StartTx
  BY <1>1 DEF StartTx, TxCall, rxVars, TxTypeOK, RxTypeOK, RxWaiting, MAX_RETRANSMIT
<1>2. CASE TxHear
  <2>1. TxTypeOK' /\ toRx' \in Seq(Honest)
    BY <1>2, TxStepType DEF TxHear
  <2>2. toTx' \in Seq(Token)
    BY <1>2, HeadTailProperties DEF TxHear, RxTypeOK
  <2> QED BY <1>2, <2>1, <2>2 DEF TxHear, rxVars, RxTypeOK, RxWaiting
<1>3. CASE TxExpire
  <2>1. TxTypeOK' /\ toRx' \in Seq(Honest)
    BY <1>3, TxStepType DEF TxExpire
  <2>2. late' \in 0..MaxLate
    BY <1>3, NoiseAssumption DEF TxExpire, TxTimer, Timer
  <2> QED BY <1>3, <2>1, <2>2 DEF TxExpire, rxVars, RxTypeOK, RxWaiting
<1>4. CASE StartRx
  <2>1. toTx' \in Seq(Token)
    BY <1>4, AnswerType DEF StartRx, RxCall, RxTypeOK, ControlKinds
  <2>2. RxTypeOK'
    BY <1>4, <2>1, PackageAssumption DEF StartRx, RxCall, RxTypeOK, RxWaiting, MAX_RX_ERRORS
  <2> QED BY <1>4, <2>2 DEF StartRx, txVars, TxTypeOK
<1>5. CASE RxHear
  <2>1. RxTypeOK'
    BY <1>0, <1>5, RxStepType DEF RxHear
  <2> QED BY <1>0, <1>5, <2>1 DEF RxHear, txVars, TxTypeOK
<1>6. CASE RxEatByte
  <2>1. RxTypeOK'
    BY <1>6, ReadErrorType DEF RxEatByte, RxWaiting
  <2>2. Behead(Head(toRx)) \in Seq(Honest) /\ Behead(Head(toRx)) \in Seq(Token)
    BY <1>0, <1>6, BeheadIsHonest, SeqMonotonic DEF RxEatByte, Honest
  <2>3. toRx' \in Seq(Honest) /\ toRx' \in Seq(Token)
    BY <1>0, <1>6, <2>2, ConcatProperties DEF RxEatByte
  <2> QED BY <1>6, <2>1, <2>3 DEF RxEatByte, txVars, TxTypeOK
<1>7. CASE RxDrain
  BY <1>0, <1>7 DEF RxDrain, txVars, rxVars, TxTypeOK, RxTypeOK, RxWaiting
<1>8. CASE RxExpire
  <2>1. RxTypeOK'
    BY <1>8, ReadErrorType DEF RxExpire
  <2>2. late' \in 0..MaxLate
    BY <1>8, NoiseAssumption DEF RxExpire, RxTimer, Timer
  <2> QED BY <1>8, <2>1, <2>2 DEF RxExpire, txVars, TxTypeOK
<1>9. CASE DisturbToRx
  <2>1. PICK n \in NoiseKinds : toRx' = Disturbed(n, Head(toRx)) \o Tail(toRx)
    BY <1>9 DEF DisturbToRx
  <2>2. Disturbed(n, Head(toRx)) \in Seq(Honest)
    BY <1>0, <1>9, NoiseAssumption, DisturbedIsHonest DEF DisturbToRx
  <2>3. Disturbed(n, Head(toRx)) \in Seq(Token)
    BY <2>2, SeqMonotonic DEF Honest
  <2>4. toRx' \in Seq(Honest) /\ toRx' \in Seq(Token)
    BY <1>0, <1>9, <2>1, <2>2, <2>3, ConcatProperties DEF DisturbToRx
  <2>5. noise' \in 0..MaxNoise
    BY <1>9, NoiseAssumption DEF DisturbToRx
  <2> QED BY <1>9, <2>4, <2>5 DEF DisturbToRx, txVars, rxVars, TxTypeOK, RxTypeOK, RxWaiting
<1>10. CASE DisturbToTx
  <2>1. PICK n \in NoiseKinds : toTx' = Disturbed(n, Head(toTx)) \o Tail(toTx)
    BY <1>10 DEF DisturbToTx
  <2>2. Head(toTx) \in Token /\ Tail(toTx) \in Seq(Token)
    BY <1>10, HeadTailProperties DEF DisturbToTx, RxTypeOK
  <2>3. Disturbed(n, Head(toTx)) \in Seq(Token)
    BY <2>2, NoiseAssumption, DisturbedIsHonest, SeqMonotonic DEF Honest
  <2>4. toTx' \in Seq(Token)
    BY <2>1, <2>2, <2>3, ConcatProperties
  <2>5. noise' \in 0..MaxNoise
    BY <1>10, NoiseAssumption DEF DisturbToTx
  <2> QED BY <1>10, <2>4, <2>5 DEF DisturbToTx, txVars, rxVars, TxTypeOK, RxTypeOK, RxWaiting
<1>11. CASE Done
  BY <1>11 DEF Done, vars, txVars, rxVars, TxTypeOK, RxTypeOK, RxWaiting
<1> QED BY <1>1, <1>2, <1>3, <1>4, <1>5, <1>6, <1>7, <1>8, <1>9, <1>10, <1>11 DEF Next

LEMMA UnchangedIInv ==
    ASSUME IInv, UNCHANGED vars
    PROVE  IInv'
BY DEF IInv, TypeOK, TxTypeOK, RxTypeOK, RxWaiting, BufIsPrefix, vars, txVars, rxVars

\* Uint8 tells the numbers of the package apart, and none from 256.
LEMMA NumbersAreDistinct ==
    ASSUME NEW j \in 1..255, NEW k \in 1..256, Uint8(j) = Uint8(k)
    PROVE  j = k
BY DEF Uint8

\* The packet that is stored carries the block after the last one stored.
LEMMA StoredBlock ==
    ASSUME IInv, NEW t \in Honest, StorePacket(t)
    PROVE  \E n \in Nat :
              /\ n = Len(buf) /\ t.data = n + 1
              /\ n + 1 <= Blocks /\ n < BufBlocks
              /\ Len(buf') = n + 1
              /\ \A i \in 1..n : buf'[i] = buf[i]
              /\ buf'[n + 1] = n + 1
<1> USE PackageAssumption
<1>1. buf \in Seq(0..Blocks)
  BY DEF IInv, TypeOK, RxTypeOK
<1>2. PICK n \in Nat : n = Len(buf)
  BY <1>1, LenProperties
<1>3. exp_seq_no = Uint8(n + 1) /\ n <= Blocks
  BY <1>2 DEF IInv, BufIsPrefix
<1>4. t.data \in 1..Blocks /\ Uint8(t.data) = Uint8(n + 1) /\ n < BufBlocks
  BY <1>2, <1>3 DEF StorePacket, IsExpected, HasRoom, Honest
<1>5. t.data = n + 1
  <2>1. t.data \in 1..255
    BY <1>4
  <2>2. n + 1 \in 1..256
    BY <1>3
  <2> QED BY <1>4, <2>1, <2>2, NumbersAreDistinct
<1>6. /\ Len(buf') = n + 1
      /\ \A i \in 1..n : buf'[i] = buf[i]
      /\ buf'[n + 1] = n + 1
  <2>1. t.data \in 0..Blocks
    BY <1>4
  <2> QED BY <1>1, <1>2, <1>5, <2>1, AppendProperties DEF StorePacket
<1> QED BY <1>2, <1>4, <1>5, <1>6

LEMMA BufStep ==
    ASSUME IInv, NEW t \in Honest, StorePacket(t)
    PROVE  BufIsPrefix'
<1> USE PackageAssumption
<1>1. PICK n \in Nat :
         /\ n = Len(buf) /\ t.data = n + 1
         /\ n + 1 <= Blocks /\ n < BufBlocks
         /\ Len(buf') = n + 1
         /\ \A i \in 1..n : buf'[i] = buf[i]
         /\ buf'[n + 1] = n + 1
  BY StoredBlock
<1>2. \A i \in 1..n : buf[i] = i
  BY <1>1 DEF IInv, BufIsPrefix
<1>3. \A i \in 1..(n + 1) : buf'[i] = i
  <2> SUFFICES ASSUME NEW i \in 1..(n + 1) PROVE buf'[i] = i
    OBVIOUS
  <2>1. i \in 1..n \/ i = n + 1
    OBVIOUS
  <2> QED BY <1>1, <1>2, <2>1
<1>4. exp_seq_no' = Uint8(n + 1 + 1)
  BY <1>1 DEF IInv, BufIsPrefix, StorePacket, Uint8
<1>5. n + 1 <= BufBlocks
  BY <1>1
<1> QED BY <1>1, <1>3, <1>4, <1>5 DEF BufIsPrefix

LEMMA NextBuf ==
    ASSUME IInv, Next
    PROVE  BufIsPrefix'
<1>1. CASE UNCHANGED <<buf, exp_seq_no>>
  BY <1>1 DEF IInv, BufIsPrefix
<1>2. CASE StartRx
  BY <1>2, PackageAssumption DEF StartRx, RxCall, BufIsPrefix, Uint8
<1>3. CASE RxHear
  <2>1. Head(toRx) \in Honest
    BY <1>3, HeadTailProperties DEF RxHear, IInv
  <2>2. StorePacket(Head(toRx)) \/ UNCHANGED <<buf, exp_seq_no>>
    BY <1>3 DEF RxHear, RxStep, DropDuplicate, CancelReception, EndReception,
        CorruptedPacket, ShortPacket, UnexpectedByte, ReadError, rxVars
  <2> QED BY <1>1, <2>1, <2>2, BufStep
<1>4. CASE ~StartRx /\ ~RxHear
  BY <1>1, <1>4 DEF Next, StartTx, TxHear, TxExpire, RxEatByte, RxDrain, RxExpire,
      DisturbToRx, DisturbToTx, Done, ReadError, rxVars, vars
<1> QED BY <1>2, <1>3, <1>4

LEMMA Invariance == Spec => []IInv
<1>1. IInv /\ [Next]_vars => IInv'
  BY NextType, NextBuf, UnchangedIInv DEF IInv
<1> QED BY InitIInv, <1>1, PTL DEF Spec

-----------------------------------------------------------------------------
(* The theorems.                                                           *)

\* Every counter of the two retry loops stays in its range and the line carries
\* only what xmodem.c writes or noise leaves of it, whatever the constants.
THEOREM TypeCorrect == Spec => []TypeOK
<1>1. IInv => TypeOK
  BY DEF IInv
<1> QED BY Invariance, <1>1, PTL

\* xmodem_receive_package stores the blocks of the package in order, each once, and
\* within its buffer: for every package the numbering can bear, every buffer size,
\* any number of disturbances and any timing of the two ends.
THEOREM DeliveryInOrder == Spec => []InOrderDelivery
<1>1. IInv => InOrderDelivery
  <2> SUFFICES ASSUME IInv PROVE InOrderDelivery
    OBVIOUS
  <2>1. buf \in Seq(0..Blocks)
    BY DEF IInv, TypeOK, RxTypeOK
  <2>2. buf = [i \in 1..Len(buf) |-> buf[i]]
    BY <2>1, LenProperties
  <2> QED BY <2>2 DEF IInv, BufIsPrefix, InOrderDelivery
<1> QED BY Invariance, <1>1, PTL

-----------------------------------------------------------------------------
(* No early end.  While the transmitter is not through the package, what   *)
(* is on the line is no EOT, and turns into none when it loses a byte.     *)

FewBlocks == Blocks < EOT

Unending == {t \in Honest : t.kind # "EOT" /\ t.seq # EOT}

NotEnded ==
    /\ txPc \in {"idle", "wait_c"} => block = 0
    /\ block <= Blocks => toRx \in Seq(Unending) /\ rxPc # "ok"

\* What noise leaves of such a token is such a token.
LEMMA BeheadIsUnending ==
    ASSUME NEW t \in Unending
    PROVE  Behead(t) \in Seq(Unending)
<1>0. t \in Token /\ t.kind # "EOT" /\ t.seq # EOT
  BY DEF Unending, Honest
<1>1. Byte("tail") \in Unending
  BY ByteIsHonest DEF Unending, DamagedKinds, Byte, EOT
<1>2. [t EXCEPT !.kind = "short", !.seq = 255 - SOH] \in Unending
  <2>1. "short" \in DamagedKinds /\ 255 - SOH \in 0..255 /\ 255 - SOH # EOT
    BY DEF SOH, EOT, DamagedKinds
  <2>2. [t EXCEPT !.kind = "short", !.seq = 255 - SOH] \in Honest
    BY <1>0, <2>1, RenumberedIsHonest
  <2> QED BY <1>0, <2>1, <2>2 DEF Unending, Token
<1>3. BeheadPacket(t) \in Seq(Unending)
  BY <1>0, <1>1, <1>2, OneTwoTokens DEF BeheadPacket
<1> QED BY <1>3, OneTwoTokens DEF Behead

LEMMA DisturbedIsUnending ==
    ASSUME NEW n \in {"lose", "garble", "short", "soh"}, NEW t \in Unending
    PROVE  Disturbed(n, t) \in Seq(Unending)
<1>0. t \in Token /\ t.seq # EOT
  BY DEF Unending, Honest
<1>1. \A k \in {"bad", "short"} : [t EXCEPT !.kind = k] \in Unending
  <2> TAKE k \in {"bad", "short"}
  <2>1. k \in DamagedKinds /\ k # "EOT"
    BY DEF DamagedKinds
  <2>2. [t EXCEPT !.kind = k] \in Honest
    BY <1>0, <2>1, DamagedIsHonest
  <2> QED BY <1>0, <2>1, <2>2 DEF Unending, Token
<1>2. Byte("junk") \in Unending
  BY ByteIsHonest DEF Unending, DamagedKinds, Byte, EOT
<1>3. CASE n = "lose"
  BY <1>3 DEF Disturbed
<1>4. CASE n = "garble" /\ IsPacket(t)
  BY <1>1, <1>4, OneTwoTokens DEF Disturbed
<1>5. CASE n = "garble" /\ ~IsPacket(t)
  BY <1>2, <1>5, OneTwoTokens DEF Disturbed
<1>6. CASE n = "short"
  BY <1>1, <1>6, OneTwoTokens DEF Disturbed
<1>7. CASE n = "soh"
  BY <1>7, BeheadIsUnending DEF Disturbed
<1> QED BY <1>3, <1>4, <1>5, <1>6, <1>7

\* With so few blocks, no packet has the number of an EOT.
LEMMA PacketIsUnending ==
    ASSUME FewBlocks, NEW k \in 1..Blocks
    PROVE  Packet(k) \in Unending
<1>1. Uint8(k) # EOT
  BY PackageAssumption DEF FewBlocks, Uint8, EOT
<1> QED BY <1>1, PacketIsHonest DEF Unending, Packet

LEMMA SendFromNotEnded ==
    ASSUME FewBlocks, NEW k \in 1..(Blocks + 1), SendFrom(k), block < k,
           block \in 0..(Blocks + 1), NotEnded, UNCHANGED rxPc
    PROVE  NotEnded'
<1>1. CASE k <= Blocks
  <2>1. toRx \in Seq(Unending) /\ rxPc # "ok"
    BY <1>1, PackageAssumption DEF NotEnded
  <2>2. Packet(k) \in Unending
    BY <1>1, PacketIsUnending
  <2>3. ~(k > Blocks)
    BY <1>1, PackageAssumption
  <2>4. txPc' = "pkt" /\ toRx' = Append(toRx, Packet(k))
    BY <2>3 DEF SendFrom
  <2>5. toRx' \in Seq(Unending)
    BY <2>1, <2>2, <2>4, AppendHonest
  <2> QED BY <2>1, <2>4, <2>5 DEF NotEnded
<1>2. CASE k > Blocks
  <2>0. ~(k <= Blocks)
    BY <1>2, PackageAssumption
  <2>1. txPc' = "eot" /\ block' = k
    BY <2>0 DEF SendFrom
  <2>2. ~(block' <= Blocks)
    BY <2>0, <2>1
  <2> QED BY <2>1, <2>2 DEF NotEnded
<1> QED BY <1>1, <1>2, PackageAssumption

LEMMA TxStepNotEnded ==
    ASSUME FewBlocks, TxTypeOK, NotEnded, NEW rsp, TxStep(rsp), UNCHANGED rxPc
    PROVE  NotEnded'
<1> USE PackageAssumption
<1>0. block \in 0..(Blocks + 1)
  BY DEF TxTypeOK
<1>1. CASE StartTransmit(rsp)
  <2>1. SendFrom(1) /\ block < 1
    BY <1>1 DEF StartTransmit, NotEnded
  <2> QED BY <1>0, <2>1, SendFromNotEnded
<1>2. CASE PacketAcked(rsp)
  <2>1. block + 1 \in 1..(Blocks + 1) /\ block < block + 1
    BY <1>2 DEF PacketAcked, TxTypeOK
  <2> QED BY <1>0, <1>2, <2>1, SendFromNotEnded DEF PacketAcked
<1>3. CASE EotAcked(rsp) \/ RetriesExceeded(rsp)
  <2>1. txPc' \in {"ok", "failed"} /\ UNCHANGED <<block, toRx>>
    BY <1>3 DEF EotAcked, RetriesExceeded
  <2> QED BY <2>1 DEF NotEnded
<1>4. CASE Retry(rsp)
  <2>1. toRx' = toRx \o Current /\ UNCHANGED <<txPc, block>>
    BY <1>4 DEF Retry
  <2>2. block <= Blocks => Current \in Seq(Unending)
    <3>1. CASE txPc = "pkt"
      <4>1. Packet(block) \in Unending
        BY <3>1, PacketIsUnending DEF TxTypeOK
      <4> QED BY <3>1, <4>1, OneTwoTokens DEF Current
    <3>2. CASE txPc = "eot"
      BY <3>2 DEF TxTypeOK
    <3>3. CASE txPc \notin {"pkt", "eot"}
      BY <3>3 DEF Current
    <3> QED BY <3>1, <3>2, <3>3
  <2>3. block <= Blocks => toRx' \in Seq(Unending)
    BY <2>1, <2>2, ConcatProperties DEF NotEnded
  <2> QED BY <2>1, <2>3 DEF NotEnded
<1> QED BY <1>1, <1>2, <1>3, <1>4 DEF TxStep

LEMMA NextNotEnded ==
    ASSUME FewBlocks, TypeOK, NotEnded, Next
    PROVE  NotEnded'
<1>0. block <= Blocks /\ toRx # <<>> =>
         Head(toRx) \in Unending /\ Tail(toRx) \in Seq(Unending)
  BY HeadTailProperties DEF NotEnded
<1>1. CASE StartTx
  BY <1>1 DEF StartTx, TxCall, rxVars, NotEnded
<1>2. CASE TxHear \/ TxExpire
  BY <1>2, TxStepNotEnded DEF TxHear, TxExpire, rxVars, TypeOK
<1>3. CASE StartRx
  BY <1>3 DEF StartRx, RxCall, txVars, NotEnded
<1>4. CASE RxHear
  <2>1. block <= Blocks => Head(toRx).kind # "EOT"
    BY <1>0, <1>4 DEF RxHear, Unending
  <2>2. block <= Blocks => rxPc' # "ok"
    BY <1>4, <2>1 DEF RxHear, RxStep, StorePacket, DropDuplicate, CancelReception,
        EndReception, CorruptedPacket, ShortPacket, UnexpectedByte, ReadError, rxVars
  <2> QED BY <1>0, <1>4, <2>2 DEF RxHear, txVars, NotEnded
<1>5. CASE RxEatByte
  <2>1. block <= Blocks => toRx' \in Seq(Unending)
    BY <1>0, <1>5, BeheadIsUnending, ConcatProperties DEF RxEatByte
  <2>2. rxPc' # "ok"
    BY <1>5 DEF RxEatByte, ReadError
  <2> QED BY <1>5, <2>1, <2>2 DEF RxEatByte, txVars, NotEnded
<1>6. CASE RxDrain
  BY <1>0, <1>6 DEF RxDrain, txVars, rxVars, NotEnded
<1>7. CASE RxExpire
  <2>1. rxPc' # "ok"
    BY <1>7 DEF RxExpire, ReadError
  <2> QED BY <1>7, <2>1 DEF RxExpire, txVars, NotEnded
<1>8. CASE DisturbToRx
  <2>1. PICK n \in NoiseKinds : toRx' = Disturbed(n, Head(toRx)) \o Tail(toRx)
    BY <1>8 DEF DisturbToRx
  <2>2. block <= Blocks => toRx' \in Seq(Unending)
    BY <1>0, <1>8, <2>1, NoiseAssumption, DisturbedIsUnending, ConcatProperties
       DEF DisturbToRx
  <2> QED BY <1>8, <2>2 DEF DisturbToRx, txVars, rxVars, NotEnded
<1>9. CASE DisturbToTx \/ Done
  BY <1>9 DEF DisturbToTx, Done, vars, txVars, rxVars, NotEnded
<1> QED BY <1>1, <1>2, <1>3, <1>4, <1>5, <1>6, <1>7, <1>8, <1>9 DEF Next

\* xmodem_receive_package reports success only after every block has been sent and
\* acknowledged, whatever is lost, damaged or late, as long as no packet number reads
\* as an EOT.
THEOREM SuccessIsNotEarly ==
    ASSUME FewBlocks
    PROVE  Spec => []NoEarlyEnd
<1>1. Init => NotEnded
  BY DEF Init, TxInit, RxInit, NotEnded
<1>2. TypeOK /\ NotEnded /\ [Next]_vars => NotEnded'
  <2>1. ASSUME NotEnded, UNCHANGED vars PROVE NotEnded'
    BY <2>1 DEF NotEnded, vars, txVars, rxVars
  <2> QED BY <2>1, NextNotEnded
<1>3. TypeOK /\ NotEnded => NoEarlyEnd
  BY PackageAssumption DEF TypeOK, TxTypeOK, NotEnded, NoEarlyEnd
<1> QED BY <1>1, <1>2, <1>3, TypeCorrect, PTL DEF Spec
=============================================================================
