------------------------------ MODULE DfuDevice -----------------------------
(***************************************************************************)
(* The device at the other end of a session, as the host's code takes it   *)
(* to be: the DFU states of usb_dfu.h, the requests of qda.c in the states *)
(* where main.c and dfu_load.c send them, and a stall for any other.  The  *)
(* device is not in the repository.                                        *)
(***************************************************************************)
EXTENDS Integers, Sequences

CONSTANTS
    Memory,       \* how much firmware the device has to upload
    Reported,     \* the transfer sizes it may report, with or without DfuSe
    MaxBusy       \* polls that find it at work on a block; bounds the model

ASSUME DeviceAssumption == Memory \in Nat /\ Reported \subseteq Nat /\ MaxBusy \in Nat

AppStates      == {"appIDLE", "appDETACH"}
BusyStates     == {"dfuDNLOAD_SYNC", "dfuDNBUSY"}
ManifestStates == {"dfuMANIFEST_SYNC", "dfuMANIFEST"}
DfuStates      == AppStates \cup BusyStates \cup ManifestStates \cup
                  {"dfuIDLE", "dfuDNLOAD_IDLE", "dfuUPLOAD_IDLE", "dfuMANIFEST_WAIT_RST", "dfuERROR"}

VARIABLES
    state,        \* bState
    work,         \* polls left that find the device at work
    flash,        \* the chunks of the download under way
    manifested,   \* the chunks that a completion packet ended
    position,     \* how much of the memory has been uploaded
    answer        \* to the request under way, "none" until it was carried out

deviceVars == <<state, work, flash, manifested, position, answer>>

Answer(t)     == [type |-> t, state |-> state, status |-> "OK", len |-> 0, dfuse |-> FALSE]
NoAnswer      == [type |-> "none", state |-> "dfuIDLE", status |-> "OK", len |-> 0, dfuse |-> FALSE]
Acknowledge   == answer' = Answer("ACK")

\* A download left incomplete by an earlier session.
Leftover == [trans |-> 0, from |-> 0, len |-> 1, old |-> TRUE]

DeviceInit ==
    /\ state \in DfuStates
    /\ work \in (IF state \in BusyStates \cup ManifestStates THEN 0..MaxBusy ELSE {0})
    /\ flash = IF state \in BusyStates \cup {"dfuDNLOAD_IDLE"} THEN <<Leftover>> ELSE <<>>
    /\ manifested = <<>> /\ position = 0 /\ answer = NoAnswer

\* Writing a block ends in the state that takes the next one, or in an error;
\* manifestation in one of the states that a tolerant and an intolerant device take.
Outcomes ==
    CASE state \in BusyStates     -> {"dfuDNLOAD_IDLE", "dfuERROR"}
      [] state \in ManifestStates -> {"dfuIDLE", "dfuMANIFEST_WAIT_RST", "dfuERROR"}
      [] OTHER                    -> {state}

BusyState == CASE state \in BusyStates     -> "dfuDNBUSY"
               [] state \in ManifestStates -> "dfuMANIFEST"

\* bStatus is an error in dfuERROR, and may be one elsewhere: main.c allows for it.
GetStatus(r) ==
    /\ r.type = "DFU_GETSTATUS_REQ"
    /\ \/ work > 0 /\ work' = work - 1 /\ state' = BusyState
       \/ work = 0 /\ work' = 0 /\ state' \in Outcomes
    /\ \E s \in {"OK", "err"} :
          /\ state' = "dfuERROR" => s = "err"
          /\ answer' = [Answer("DFU_GETSTATUS_RESP") EXCEPT !.state = state', !.status = s]
    /\ UNCHANGED <<flash, manifested, position>>

\* Requests that are carried out in any state and leave it.
Describe(r) ==
    /\ r.type = "DFU_DESC_REQ"
    /\ \E n \in Reported, d \in BOOLEAN :
          answer' = [Answer("DFU_DESC_RESP") EXCEPT !.len = n, !.dfuse = d]
    /\ UNCHANGED <<state, work, flash, manifested, position>>

SetAltOrGetState(r) ==
    /\ r.type \in {"DFU_SET_ALT_SETTING", "DFU_GETSTATE_REQ"}
    /\ Acknowledge
    /\ UNCHANGED <<state, work, flash, manifested, position>>

Download(r) ==
    /\ r.type = "DFU_DNLOAD_REQ" /\ r.chunk.len > 0
    /\ \/ state = "dfuIDLE" /\ flash' = <<r.chunk>>
       \/ state = "dfuDNLOAD_IDLE" /\ flash' = Append(flash, r.chunk)
    /\ state' = "dfuDNLOAD_SYNC" /\ work' \in 0..MaxBusy
    /\ Acknowledge
    /\ UNCHANGED <<manifested, position>>

Complete(r) ==
    /\ r.type = "DFU_DNLOAD_REQ" /\ r.chunk.len = 0 /\ state = "dfuDNLOAD_IDLE"
    /\ manifested' = flash
    /\ state' = "dfuMANIFEST_SYNC" /\ work' \in 0..MaxBusy
    /\ Acknowledge
    /\ UNCHANGED <<flash, position>>

Upload(r) ==
    /\ r.type = "DFU_UPLOAD_REQ" /\ state \in {"dfuIDLE", "dfuUPLOAD_IDLE"}
    /\ LET from == IF state = "dfuIDLE" THEN 0 ELSE position
           n    == IF Memory - from < r.chunk.len THEN Memory - from ELSE r.chunk.len
       IN  /\ answer' = [Answer("DFU_UPLOAD_RESP") EXCEPT !.len = n]
           /\ position' = from + n
           /\ state' = IF n < r.chunk.len THEN "dfuIDLE" ELSE "dfuUPLOAD_IDLE"
    /\ UNCHANGED <<work, flash, manifested>>

Abort(r) ==
    /\ r.type = "DFU_ABORT" /\ state \in {"dfuDNLOAD_IDLE", "dfuUPLOAD_IDLE"}
    /\ state' = "dfuIDLE"
    /\ Acknowledge
    /\ UNCHANGED <<work, flash, manifested, position>>

Reset(r) ==
    /\ r.type = "RESET"
    /\ state' = "appIDLE" /\ work' = 0
    /\ Acknowledge
    /\ UNCHANGED <<flash, manifested, position>>

Stall(r) ==
    /\ \/ r.type = "DFU_DNLOAD_REQ" /\ r.chunk.len > 0 /\ state \notin {"dfuIDLE", "dfuDNLOAD_IDLE"}
       \/ r.type = "DFU_DNLOAD_REQ" /\ r.chunk.len = 0 /\ state # "dfuDNLOAD_IDLE"
       \/ r.type = "DFU_UPLOAD_REQ" /\ state \notin {"dfuIDLE", "dfuUPLOAD_IDLE"}
    /\ state' = "dfuERROR" /\ work' = 0
    /\ answer' = Answer("STALL")
    /\ UNCHANGED <<flash, manifested, position>>

Execute(r) ==
    /\ answer.type = "none"
    /\ \/ Describe(r) \/ SetAltOrGetState(r) \/ GetStatus(r)
       \/ Download(r) \/ Complete(r) \/ Upload(r)
       \/ Abort(r) \/ Reset(r) \/ Stall(r)
=============================================================================
