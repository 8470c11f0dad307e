----------------------------- MODULE XmodemCrc ------------------------------
(***************************************************************************)
(* The bytes of an XMODEM packet and its CRC, of which XmodemPacket only   *)
(* says whether they are intact.  A packet is the sequence of the bytes    *)
(* that follow its SOH: seq_no, ~seq_no, the payload and the CRC.  The     *)
(* payload may have any length here: 128 is a constant of the source.      *)
(***************************************************************************)
EXTENDS Binary

POLY == {12, 5, 0}   \* 0x1021

\* The bits of data, the most significant one of its first byte being number 1.
BitAt(data, i) == 7 - ((i - 1) % 8) \in Bits(data[((i - 1) \div 8) + 1])

Ones(data) == {i \in 1..(8 * Len(data)) : BitAt(data, i)}

\* Mutant of ShiftIn: the bit that is tested is the one of the second loop.
ShiftInEarly(crc, bit) ==
    LET c == {b + 1 : b \in crc} \cup (IF bit THEN {0} ELSE {})
    IN  (IF 15 \in c THEN Plus(c, POLY) ELSE c) \ {16}

\* One turn of an inner loop.  crc is 32 bits wide, but a bit above 15 is not looked at
\* after the turn that set it, and not returned.
ShiftIn(crc, bit) ==
    LET c == {b + 1 : b \in crc} \cup (IF bit THEN {0} ELSE {})
    IN  (IF 16 \in c THEN Plus(c, POLY) ELSE c) \ {16}

\* crc after each of n turns, of which those in ones shift in a 1.
Turns(ones, n) ==
    LET crc[i \in 0..n] == IF i = 0 THEN {} ELSE ShiftIn(crc[i - 1], i \in ones)
    IN  crc

\* The payload's bits and then sixteen zeros.
crc_xmodem(data) ==
    LET n == 8 * Len(data) + 16
    IN  Turns(Ones(data), n)[n]

xmodem_send_pkt(data, pkt_no) ==
    LET crc == crc_xmodem(data)
    IN  <<pkt_no, 255 - pkt_no>> \o data \o <<ByteOf(crc, 1), ByteOf(crc, 0)>>

Payload(pkt) == SubSeq(pkt, 3, Len(pkt) - 2)
CrcRecv(pkt) == Register(<<pkt[Len(pkt)], pkt[Len(pkt) - 1]>>)

\* Mutant of PacketOK: the packet number is not checked.
PacketOKCrc(pkt) == crc_xmodem(Payload(pkt)) = CrcRecv(pkt)

PacketOK(pkt) == pkt[1] = 255 - pkt[2] /\ crc_xmodem(Payload(pkt)) = CrcRecv(pkt)

\* What xmodem_read_pkt makes of a packet all of whose bytes came.
xmodem_read_pkt(pkt, exp_seq_no) ==
    IF ~PacketOK(pkt) THEN "ERR"
    ELSE CASE pkt[1] = exp_seq_no - 1 -> "DUP"
           [] pkt[1] = exp_seq_no     -> "SOH"
           [] OTHER                   -> "CAN"
=============================================================================
