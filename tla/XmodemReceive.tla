--------------------------- MODULE XmodemReceive ----------------------------
(***************************************************************************)
(* xmodem_receive_package and xmodem_read_pkt, as one state machine that   *)
(* sits in xmodem_getc between two steps.  A step is given the token it    *)
(* read, and ends with the byte the code writes before it reads again:     *)
(* the loop writes cmd once a round, and once more when it is left.        *)
(***************************************************************************)
EXTENDS XmodemPacket

VARIABLES
    rxPc,        \* "read" at the first byte of a packet, "body" inside one that is
                 \* short, "drain" while discarding; "idle" before the call and
                 \* "ok"/"failed" after it
    exp_seq_no,
    buf,         \* the blocks stored so far; data_cnt is their length
    err_cnt,
    nak,
    toTx         \* the line from the receiver to the transmitter

rxVars == <<rxPc, exp_seq_no, buf, err_cnt, nak>>

RxInit ==
    /\ rxPc = "idle" /\ exp_seq_no = 1 /\ buf = <<>> /\ err_cnt = 0 /\ nak = "C"
    /\ toTx = <<>>

RxWaiting == rxPc \in {"read", "body", "drain"}

Answer(k) == toTx' = Append(toTx, Byte(k))

RxCall ==
    /\ rxPc = "idle"
    /\ rxPc' = "read"
    /\ exp_seq_no' = 1 /\ buf' = <<>> /\ err_cnt' = 0 /\ nak' = "C"
    /\ Answer("C")

\* Mutant of IsDuplicate: exp_seq_no is taken after its increment.
IsDuplicateLate(t) == t.seq = exp_seq_no - 2

\* Mutant of IsExpected: packets that run ahead are taken too.
IsExpectedOrLater(t) == t.seq >= exp_seq_no

\* The packet is the one before the expected one.  exp_seq_no - 1 is an int, so
\* with exp_seq_no = 0 it is -1 and no packet is a duplicate.
IsDuplicate(t) == t.seq = exp_seq_no - 1
IsExpected(t)  == t.seq = exp_seq_no
HasRoom        == Len(buf) < BufBlocks

\* SOH: the expected packet, intact.
StorePacket(t) ==
    /\ t.kind = "SOH" /\ IsExpected(t) /\ HasRoom
    /\ buf' = Append(buf, t.data)
    /\ exp_seq_no' = Uint8(exp_seq_no + 1)
    /\ err_cnt' = 0
    /\ nak' = "NAK"
    /\ Answer("ACK")
    /\ UNCHANGED rxPc

\* Mutants of DropDuplicate: nak for a duplicate, and a duplicate stored again.
NakDuplicate(t) ==
    /\ t.kind = "SOH" /\ IsDuplicate(t)
    /\ Answer(nak)
    /\ UNCHANGED rxVars

StoreDuplicate(t) ==
    /\ t.kind = "SOH" /\ IsDuplicate(t)
    /\ buf' = Append(buf, t.data)
    /\ Answer("ACK")
    /\ UNCHANGED <<rxPc, exp_seq_no, err_cnt, nak>>

\* DUP: acknowledged and dropped; it leaves err_cnt as it is.
DropDuplicate(t) ==
    /\ t.kind = "SOH" /\ IsDuplicate(t)
    /\ Answer("ACK")
    /\ UNCHANGED rxVars

\* CAN: out of sequence, or no room for the payload.
CancelReception(t) ==
    /\ t.kind = "SOH" /\ ~IsDuplicate(t) /\ ~(IsExpected(t) /\ HasRoom)
    /\ rxPc' = "failed"
    /\ Answer("CAN")
    /\ UNCHANGED <<exp_seq_no, buf, err_cnt, nak>>

EndReception(t) ==
    /\ t.kind = "EOT"
    /\ rxPc' = "ok"
    /\ Answer("ACK")
    /\ UNCHANGED <<exp_seq_no, buf, err_cnt, nak>>

\* Mutant of ReadError: the loop tests err_cnt before it counts the error.
ReadErrorLate ==
    /\ err_cnt' = err_cnt + 1
    /\ rxPc' = IF err_cnt < MAX_RX_ERRORS THEN "read" ELSE "failed"
    /\ Answer(nak)
    /\ UNCHANGED <<exp_seq_no, buf, nak>>

\* ERR, whatever the cause: nak again, and give up at the last tolerated error.
\* The nak that the loop would write next is the one written on leaving it.
ReadError ==
    /\ err_cnt' = err_cnt + 1
    /\ rxPc' = IF err_cnt + 1 < MAX_RX_ERRORS THEN "read" ELSE "failed"
    /\ Answer(nak)
    /\ UNCHANGED <<exp_seq_no, buf, nak>>

\* All bytes are there and the CRC or the sequence fields are wrong.
CorruptedPacket(t) == t.kind = "bad" /\ ReadError

\* The packet starts well, but the bytes run out before its end.
ShortPacket(t) ==
    /\ t.kind = "short"
    /\ rxPc' = "body"
    /\ UNCHANGED <<exp_seq_no, buf, err_cnt, nak, toTx>>

\* Neither SOH nor EOT: discard bytes until the line falls silent.
UnexpectedByte(t) ==
    /\ t.kind \notin {"SOH", "EOT", "bad", "short"}
    /\ rxPc' = "drain"
    /\ UNCHANGED <<exp_seq_no, buf, err_cnt, nak, toTx>>

RxStep(t) ==
    \/ StorePacket(t)
    \/ DropDuplicate(t)
    \/ CancelReception(t)
    \/ EndReception(t)
    \/ CorruptedPacket(t)
    \/ ShortPacket(t)
    \/ UnexpectedByte(t)

RxTypeOK ==
    /\ rxPc \in {"idle", "read", "body", "drain", "ok", "failed"}
    /\ exp_seq_no \in 0..255
    /\ buf \in Seq(0..Blocks)
    /\ err_cnt \in 0..MAX_RX_ERRORS
    /\ RxWaiting => err_cnt < MAX_RX_ERRORS
    /\ nak \in {"C", "NAK"}
    /\ toTx \in Seq(Token)
=============================================================================
