--------------------------- MODULE XmodemTransfer ---------------------------
(***************************************************************************)
(* One package sent by xmodem_transmit_package at one end of the serial    *)
(* line to xmodem_receive_package at the other: the QDA layer makes every  *)
(* request and every response such a transfer.  The line keeps the order   *)
(* of bytes, and may lose or change a bounded number of them.              *)
(*                                                                         *)
(* Both ends wait TIMEOUT_STD, 3 s, so an end may time out while the other *)
(* one's answer is on its way.  Such an answer is late, and is read as the *)
(* answer to what was sent after it; a bounded number of them are.  Any    *)
(* number of timeouts happen when no answer is coming.                     *)
(***************************************************************************)
EXTENDS XmodemTransmit, XmodemReceive

CONSTANTS
    NoiseKinds,    \* what the line does to what it carries
    MaxNoise,      \* how often; bounds the model
    MaxLate        \* how many answers are late; bounds the model

ASSUME NoiseAssumption ==
    /\ NoiseKinds \subseteq {"lose", "garble", "short", "soh"}
    /\ MaxNoise \in Nat /\ MaxLate \in Nat

VARIABLES
    noise,         \* disturbances still to come
    late           \* late answers still to come

vars == <<txVars, rxVars, toRx, toTx, noise, late>>

Init == TxInit /\ RxInit /\ noise = MaxNoise /\ late = MaxLate

TxReturned == txPc \in {"ok", "failed"}
RxReturned == rxPc \in {"ok", "failed"}

-----------------------------------------------------------------------------
(* Timeouts.  An end is quiet when it will write nothing before it reads   *)
(* something or waits TIMEOUT_STD itself: discarding bytes ends after the  *)
(* 300 ms of TIMEOUT_ERR, long before the other end times out.             *)

TxQuiet == TxReturned \/ (TxWaiting /\ toTx = <<>>)
RxQuiet == RxReturned \/ (rxPc \in {"read", "body"} /\ toRx = <<>>)

\* The time runs out at an end that no answer is on its way to, or despite one.
Timer(timely) == IF timely THEN UNCHANGED late ELSE late > 0 /\ late' = late - 1
TxTimer == Timer(toTx = <<>> /\ RxQuiet)
RxTimer == Timer(toRx = <<>> /\ TxQuiet)

-----------------------------------------------------------------------------
(* Steps of the two calls.                                                 *)

StartTx == TxCall /\ UNCHANGED <<rxVars, toTx, noise, late>>

TxHear ==
    /\ toTx # <<>>
    /\ toTx' = Tail(toTx)
    /\ TxStep(Head(toTx).kind)
    /\ UNCHANGED <<rxVars, noise, late>>

TxExpire ==
    /\ TxTimer
    /\ TxStep("ERR")
    /\ UNCHANGED <<rxVars, toTx, noise>>

StartRx == RxCall /\ UNCHANGED <<txVars, toRx, noise, late>>

RxHear ==
    /\ rxPc = "read" /\ toRx # <<>>
    /\ toRx' = Tail(toRx)
    /\ RxStep(Head(toRx))
    /\ UNCHANGED <<txVars, noise, late>>

\* The byte that a short packet lacks is taken from what comes next.
RxEatByte ==
    /\ rxPc = "body" /\ toRx # <<>>
    /\ toRx' = Behead(Head(toRx)) \o Tail(toRx)
    /\ ReadError
    /\ UNCHANGED <<txVars, noise, late>>

RxDrain ==
    /\ rxPc = "drain" /\ toRx # <<>>
    /\ toRx' = Tail(toRx)
    /\ UNCHANGED <<txVars, rxVars, toTx, noise, late>>

\* Mutant of RxExpire: a timeout inside a packet is not reported.
RxExpireOutside ==
    /\ RxTimer /\ rxPc \in {"read", "drain"}
    /\ ReadError
    /\ UNCHANGED <<txVars, toRx, noise>>

\* The timeout of a read, or the 300 ms of silence that end the discarding.
RxExpire ==
    /\ RxTimer /\ RxWaiting
    /\ ReadError
    /\ UNCHANGED <<txVars, toRx, noise>>

-----------------------------------------------------------------------------
(* The line.  It disturbs what is next to be read, before it is read.      *)

IsPacket(t) == t.kind = "SOH"

\* All that the noise kind n can leave of the token t.
Disturbed(n, t) ==
    CASE n = "lose"                  -> <<>>
      [] n = "garble" /\ IsPacket(t)  -> <<[t EXCEPT !.kind = "bad"]>>
      [] n = "garble" /\ ~IsPacket(t) -> <<Byte("junk")>>
      [] n = "short"                 -> <<[t EXCEPT !.kind = "short"]>>
      [] n = "soh"                   -> Behead(t)

CanDisturb(n, t) == n \in {"short", "soh"} => IsPacket(t)

DisturbToRx ==
    /\ noise > 0 /\ RxWaiting /\ toRx # <<>>
    /\ \E n \in NoiseKinds :
          /\ CanDisturb(n, Head(toRx))
          /\ toRx' = Disturbed(n, Head(toRx)) \o Tail(toRx)
    /\ noise' = noise - 1
    /\ UNCHANGED <<txVars, rxVars, toTx, late>>

DisturbToTx ==
    /\ noise > 0 /\ TxWaiting /\ toTx # <<>>
    /\ \E n \in NoiseKinds :
          /\ CanDisturb(n, Head(toTx))
          /\ toTx' = Disturbed(n, Head(toTx)) \o Tail(toTx)
    /\ noise' = noise - 1
    /\ UNCHANGED <<txVars, rxVars, toRx, late>>

Done == TxReturned /\ RxReturned /\ UNCHANGED vars

Next ==
    \/ StartTx \/ TxHear \/ TxExpire
    \/ StartRx \/ RxHear \/ RxEatByte \/ RxDrain \/ RxExpire
    \/ DisturbToRx \/ DisturbToTx
    \/ Done

Spec == Init /\ [][Next]_vars

\* Every read returns within its timeout, and both ends make their call.
Fairness ==
    /\ WF_vars(StartTx) /\ WF_vars(TxHear \/ TxExpire)
    /\ WF_vars(StartRx) /\ WF_vars(RxHear \/ RxEatByte \/ RxDrain \/ RxExpire)

FairSpec == Spec /\ Fairness

-----------------------------------------------------------------------------
(* Properties that hold whatever the timing.                               *)

\* Types, and the ranges that the retry counters must stay in.
TypeOK == TxTypeOK /\ RxTypeOK /\ noise \in 0..MaxNoise /\ late \in 0..MaxLate

\* The receive buffer is a prefix of the package: retransmissions, duplicate
\* acknowledgements and a transmitter that has run ahead neither repeat, skip nor
\* reorder a block (the sequence checks at the end of xmodem_read_pkt), and
\* data_cnt stays within the buffer the caller gave.
InOrderDelivery ==
    /\ buf = [i \in 1..Len(buf) |-> i]
    /\ Len(buf) <= BufBlocks

\* xmodem_receive_package succeeds only after the transmitter has been through
\* the whole package.  Not so once a packet number reads as an EOT: Blocks < EOT.
NoEarlyEnd == rxPc = "ok" => block > Blocks

\* Every call returns, however answers, errors and timeouts interleave: the loops
\* over retransmit and err_cnt end, and duplicates cannot keep them going.
TransmitReturns == txPc = "wait_c" ~> TxReturned
ReceiveReturns  == rxPc = "read" ~> RxReturned

-----------------------------------------------------------------------------
(* Properties of a timely line, MaxLate = 0, and Blocks < EOT if it can    *)
(* lose a byte of a packet.                                                *)

\* The transmitter is never more than the block in flight ahead of the receiver.
Lockstep == txPc = "pkt" => block - Len(buf) \in {0, 1}

\* Success at one end means the whole package at the other.
Agreement == txPc = "ok" => rxPc = "ok" /\ Len(buf) = Blocks
WholePackage == rxPc = "ok" => Len(buf) = Blocks

\* A package that fits is never cancelled: the receiver gives up only after
\* MAX_RX_ERRORS errors since the last new packet.
NoFalseCancel ==
    rxPc = "failed" /\ Blocks <= BufBlocks => err_cnt = MAX_RX_ERRORS

\* Past the first block, one disturbance is made good by the retries of the two
\* ends.  There are two exceptions.  A packet that loses a byte from its middle
\* takes a byte of its own retransmission, and the discarding that follows may take
\* the last one.  And the errors in err_cnt need not be consecutive: a duplicate does
\* not clear it, so one more error may be the last.
FreshBlock ==
    /\ txPc = "pkt" /\ block > 1 /\ toRx = <<Packet(block)>>
    /\ retransmit = MAX_RETRANSMIT - 1 /\ err_cnt < MAX_RX_ERRORS - 1

OneDisturbanceTolerated ==
    [](rxPc # "body") => ((FreshBlock /\ noise <= 1) ~> (rxPc = "ok"))

\* All of this together: a timely transfer implements PackageDelivery.
Status(pc) == IF pc \in {"ok", "failed"} THEN pc ELSE "busy"

Delivery == INSTANCE PackageDelivery
                WITH got <- buf, sender <- Status(txPc), receiver <- Status(rxPc)

ImplementsDelivery == Delivery!Spec
=============================================================================
