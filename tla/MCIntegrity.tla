----------------------------- MODULE MCIntegrity ----------------------------
(***************************************************************************)
(* Integrity for TLC.                                                      *)
(***************************************************************************)
EXTENDS Integrity

SomeImages   == {<<>>, <<7, 128, 255>>}
SomePayloads == {<<0, 0>>, <<1, 4>>, <<170, 85>>}
SomeLengths  == {0, 15, 17, 19, 20, 255}
=============================================================================
