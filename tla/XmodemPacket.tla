---------------------------- MODULE XmodemPacket ----------------------------
(***************************************************************************)
(* What travels on the serial line when XMODEM runs over it, one token per *)
(* thing that one end writes in a single go: a control byte, or a whole    *)
(* 132-byte packet.  A token of kind "SOH" is an intact packet.  The kinds *)
(* that no end ever writes are what the line makes of a token:             *)
(*   "bad"    a packet with all its bytes and a wrong CRC or ~seq_no       *)
(*   "short"  a packet that lost a byte after its SOH                      *)
(*   "tail"   what follows the first byte of a packet that lost its SOH    *)
(*   "junk"   a control byte turned into a byte with no meaning            *)
(***************************************************************************)
EXTENDS Integers, Sequences

CONSTANTS
    Package,    \* the package handed to xmodem_transmit_package: no two are equal
    Blocks,     \* its length in blocks
    BufBlocks   \* whole blocks that fit in the buffer of xmodem_receive_package

\* pkt_no and exp_seq_no are uint8_t.  A QDA message is at most 8192 bytes, 64
\* blocks, so no caller reaches the wrap; 255 is what the numbering can bear.
ASSUME PackageAssumption ==
    /\ Package \in Nat /\ Blocks \in 1..255 /\ BufBlocks \in Nat

\* A packet is sent, or a byte, this many times; so many RX errors end a reception.
MAX_RETRANSMIT == 3
MAX_RX_ERRORS  == 5

\* The values of the two control bytes that a packet number can be taken for.
SOH == 1
EOT == 4

Uint8(n) == n % 256

ControlKinds == {"C", "ACK", "NAK", "CAN", "EOT"}
DamagedKinds == {"bad", "short", "tail", "junk"}

\* Block number k of the package stands for its contents: no two blocks are equal.
Token == [kind : ControlKinds \cup DamagedKinds \cup {"SOH"},
          seq  : 0..255,
          data : 0..Blocks,
          pkg  : {0, Package}]

Byte(k)   == [kind |-> k, seq |-> 0, data |-> 0, pkg |-> 0]
Packet(k) == [kind |-> "SOH", seq |-> Uint8(k), data |-> k, pkg |-> Package]

\* The rest of a packet whose SOH is gone starts with seq_no, which the reader
\* takes for a control byte: number 4 reads as an EOT, and number 1 as the SOH of
\* a packet one byte short, whose seq_no is the ~seq_no that was sent.
BeheadPacket(t) ==
    CASE t.seq = EOT -> <<Byte("EOT"), Byte("tail")>>
      [] t.seq = SOH -> <<[t EXCEPT !.kind = "short", !.seq = 255 - SOH]>>
      [] OTHER       -> <<Byte("tail")>>

\* What is left of a token when its first byte is gone.
Behead(t) ==
    CASE t.kind \in {"SOH", "bad", "short"} -> BeheadPacket(t)
      [] t.kind = "tail"                    -> <<t>>
      [] OTHER                              -> <<>>
=============================================================================
