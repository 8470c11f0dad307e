---------------------------- MODULE MCDfuProgram ----------------------------
(***************************************************************************)
(* DfuProgram for TLC.                                                     *)
(***************************************************************************)
EXTENDS DfuProgram

SomeNames == {"-", "fw"}
=============================================================================
