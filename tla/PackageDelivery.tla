--------------------------- MODULE PackageDelivery --------------------------
(***************************************************************************)
(* What an XMODEM transfer promises, seen from outside: the receiver gets  *)
(* the blocks in order, one at a time, each once; it succeeds only with    *)
(* the whole package; and the sender reports success only after it did.    *)
(* Either end may give up at any time before it succeeds.                  *)
(***************************************************************************)
EXTENDS Naturals, Sequences

CONSTANT Blocks

VARIABLES got, sender, receiver

vars == <<got, sender, receiver>>

Init == got = <<>> /\ sender = "busy" /\ receiver = "busy"

Deliver ==
    /\ receiver = "busy" /\ Len(got) < Blocks
    /\ got' = Append(got, Len(got) + 1)
    /\ UNCHANGED <<sender, receiver>>

Complete ==
    /\ receiver = "busy" /\ Len(got) = Blocks
    /\ receiver' = "ok"
    /\ UNCHANGED <<got, sender>>

Confirm ==
    /\ sender = "busy" /\ receiver = "ok"
    /\ sender' = "ok"
    /\ UNCHANGED <<got, receiver>>

SenderGivesUp   == sender = "busy" /\ sender' = "failed" /\ UNCHANGED <<got, receiver>>
ReceiverGivesUp == receiver = "busy" /\ receiver' = "failed" /\ UNCHANGED <<got, sender>>

Next == Deliver \/ Complete \/ Confirm \/ SenderGivesUp \/ ReceiverGivesUp

Spec == Init /\ [][Next]_vars
=============================================================================
