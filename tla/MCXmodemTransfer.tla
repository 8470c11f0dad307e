-------------------------- MODULE MCXmodemTransfer --------------------------
(***************************************************************************)
(* XmodemTransfer for TLC, and a comment of xmodem.c that it checks.       *)
(***************************************************************************)
EXTENDS XmodemTransfer

AnyNoise == {"lose", "garble", "short", "soh"}

\* xmodem.c:264: a "corrupted/lost SOH" makes the reader discard the packet and
\* reply with a NAK; it never ends the reception.
LostSohIsDiscarded == rxPc = "ok" => block > Blocks
=============================================================================
