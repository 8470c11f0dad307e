----------------------------- MODULE MCDfuSession ---------------------------
(***************************************************************************)
(* DfuSession for TLC, and what main says it does in dfuERROR.             *)
(***************************************************************************)
EXTENDS DfuSession

\* Below 0, within a page, above it, and above what len holds.
SomeSizes == {-3, 0, 1, 3, 4, 5}
SomePages == {0, 3}
SomeReported == {0, 2}
SomePacketSizes == {0, 2}

\* main.c:685: a device found in dfuERROR has its status cleared.
ErrorIsCleared == (pc = "clear" /\ state = "dfuERROR") ~> (state # "dfuERROR" \/ Exited)
=============================================================================
