-------------------------- MODULE MCXmodemDialogue --------------------------
(***************************************************************************)
(* XmodemDialogue for TLC, and two statements of xmodem.h and xmodem.c     *)
(* that it checks.                                                         *)
(***************************************************************************)
EXTENDS XmodemDialogue

\* xmodem.h:68: xmodem_transmit_package returns the "number of bytes actually
\* transmitted" on success, so after a success the device does not hold a part of
\* the request only.
SuccessIsDelivery == sendPc = "ok" => Len(devRecvBuf) \in {0, ReqBlocks}

\* xmodem.c:164: xmodem_send_pkt_with_retry returns 0 when "the packet has been
\* transmitted and an ACK received", so when the host goes on from a packet of a
\* request, the device has taken a block of that request.
AckIsForTheRequest ==
    [][sendPc = "pkt" /\ sendBlock' = sendBlock + 1
           => RequestOf(call) \in devRecvFrom]_vars
=============================================================================
