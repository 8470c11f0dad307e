---------------------------- MODULE MCQdaExchange ---------------------------
(***************************************************************************)
(* QdaExchange for TLC, and what the headers say of an upload.             *)
(***************************************************************************)
EXTENDS QdaExchange

AllRequests == RequestTypes

\* qda.h:175: qda_dfu_upload returns the "length of downloaded data", so that much
\* of what it hands to its caller was received by this call.
UploadIsReceived ==
    (hostPc = "ready" /\ req.type = "DFU_UPLOAD_REQ" /\ <<call, call>> \in accepted)
        => \A b \in data : b.call = call
=============================================================================
