--------------------------- MODULE XmodemTransmit ---------------------------
(***************************************************************************)
(* xmodem_transmit_package with the two retry loops it calls, as one state *)
(* machine that sits in xmodem_getc between two steps.  A step is given    *)
(* what that xmodem_getc left in rsp: a byte, or "ERR" when it timed out.  *)
(* The writes the code does before its next xmodem_getc belong to the step.*)
(***************************************************************************)
EXTENDS XmodemPacket

VARIABLES
    txPc,        \* where the call stands: "idle" before it, "ok"/"failed" after it
    block,       \* block being sent (pkt_no); Blocks + 1 once it is the EOT
    retransmit,  \* attempts left in the current retry loop
    toRx         \* the line from the transmitter to the receiver

txVars == <<txPc, block, retransmit>>

TxInit == txPc = "idle" /\ block = 0 /\ retransmit = 0 /\ toRx = <<>>

\* What the current loop waits for, and what it writes before each attempt.
Wanted  == IF txPc = "wait_c" THEN "C" ELSE "ACK"
Current == CASE txPc = "pkt" -> <<Packet(block)>>
             [] txPc = "eot" -> <<Byte("EOT")>>
             [] OTHER        -> <<>>

TxWaiting == txPc \in {"wait_c", "pkt", "eot"}

\* The call: the loop that waits for the receiver's 'C' begins.
TxCall ==
    /\ txPc = "idle"
    /\ txPc' = "wait_c"
    /\ retransmit' = MAX_RETRANSMIT - 1
    /\ UNCHANGED <<block, toRx>>

\* Mutant of SendFrom: the loop ends one block early.
SendFromShort(k) ==
    /\ block' = k
    /\ retransmit' = MAX_RETRANSMIT - 1
    /\ \/ k < Blocks /\ txPc' = "pkt" /\ toRx' = Append(toRx, Packet(k))
       \/ k >= Blocks /\ txPc' = "eot" /\ toRx' = Append(toRx, Byte("EOT"))

\* Top of the while (len) loop: a packet while there is data, then the EOT.
SendFrom(k) ==
    /\ block' = k
    /\ retransmit' = MAX_RETRANSMIT - 1
    /\ \/ k <= Blocks /\ txPc' = "pkt" /\ toRx' = Append(toRx, Packet(k))
       \/ k > Blocks /\ txPc' = "eot" /\ toRx' = Append(toRx, Byte("EOT"))

\* Mutant of StartTransmit: the NAK of plain XMODEM starts it as well.
StartOnNak(rsp) == txPc = "wait_c" /\ rsp \in {"C", "NAK"} /\ SendFrom(1)

StartTransmit(rsp) == txPc = "wait_c" /\ rsp = "C" /\ SendFrom(1)

\* Mutant of PacketAcked: the return value of xmodem_getc is tested, not the byte.
PacketAnswered(rsp) == txPc = "pkt" /\ rsp \notin {"NAK", "C", "CAN"} /\ SendFrom(block + 1)

PacketAcked(rsp) == txPc = "pkt" /\ rsp = "ACK" /\ SendFrom(block + 1)

\* Mutant of EotAcked: the same for the EOT.
EotAnswered(rsp) ==
    /\ txPc = "eot" /\ rsp # "NAK"
    /\ txPc' = "ok"
    /\ UNCHANGED <<block, retransmit, toRx>>

EotAcked(rsp) ==
    /\ txPc = "eot" /\ rsp = "ACK"
    /\ txPc' = "ok"
    /\ UNCHANGED <<block, retransmit, toRx>>

\* Mutant of Retry: a timeout does not use up an attempt.
RetryOnTimeout(rsp) ==
    /\ TxWaiting /\ rsp # Wanted /\ retransmit > 0
    /\ retransmit' = IF rsp = "ERR" THEN retransmit ELSE retransmit - 1
    /\ toRx' = toRx \o Current
    /\ UNCHANGED <<txPc, block>>

\* Anything else, CAN included, only uses up an attempt.
Retry(rsp) ==
    /\ TxWaiting /\ rsp # Wanted /\ retransmit > 0
    /\ retransmit' = retransmit - 1
    /\ toRx' = toRx \o Current
    /\ UNCHANGED <<txPc, block>>

\* Mutant of RetriesExceeded: a timeout does not end the loop.
RetriesAnswered(rsp) ==
    /\ TxWaiting /\ rsp \notin {Wanted, "ERR"} /\ retransmit = 0
    /\ txPc' = "failed"
    /\ UNCHANGED <<block, retransmit, toRx>>

RetriesExceeded(rsp) ==
    /\ TxWaiting /\ rsp # Wanted /\ retransmit = 0
    /\ txPc' = "failed"
    /\ UNCHANGED <<block, retransmit, toRx>>

TxStep(rsp) ==
    \/ StartTransmit(rsp)
    \/ PacketAcked(rsp)
    \/ EotAcked(rsp)
    \/ Retry(rsp)
    \/ RetriesExceeded(rsp)

TxTypeOK ==
    /\ txPc \in {"idle", "wait_c", "pkt", "eot", "ok", "failed"}
    /\ block \in 0..(Blocks + 1)
    /\ retransmit \in 0..(MAX_RETRANSMIT - 1)
    /\ txPc = "pkt" => block \in 1..Blocks
    /\ txPc \in {"eot", "ok"} => block = Blocks + 1
    /\ toRx \in Seq(Token)
=============================================================================
