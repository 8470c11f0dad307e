----------------------------- MODULE DfuSession -----------------------------
(***************************************************************************)
(* A run of dfu-util-qda from the detach on: main of main.c with           *)
(* dfuload_do_upload and dfuload_do_dnload.  The program makes one QDA     *)
(* call after the other, so pc names the call under way.  A call is a      *)
(* RemoteCall: the device may carry it out, and it returns with the        *)
(* device's answer or fails, whether it was carried out or not.  Only the  *)
(* answer to an upload may be taken for one though a part of it is stale.  *)
(***************************************************************************)
EXTENDS DfuDevice

CONSTANTS
    Size,          \* bytes of firmware in the file, its suffix apart
    UserSizes,     \* what the user may give with -t; 0 stands for no -t
    PacketSizes,   \* what bMaxPacketSize0, which nothing sets, may hold
    PageSizes,     \* the limit on the transfer size; 0 where none is compiled in
    LenMod,        \* len is a uint16_t: 65536
    MaxPayload,    \* the data that fits in a DNLOAD request: 8184
    MaxAnswer,     \* and in the answer to an UPLOAD: 8186
    FirstBlock,    \* of which the first XMODEM block holds: 122
    TransMod,      \* transaction is an unsigned short: 65536
    MaxStray       \* how far before the file a negative size leads; bounds the model

ASSUME SessionAssumption ==
    /\ Size \in Nat /\ UserSizes \subseteq Int /\ PacketSizes \subseteq Nat
    /\ PageSizes \subseteq Nat
    /\ {LenMod, MaxPayload, TransMod} \subseteq Nat \ {0}
    /\ {MaxAnswer, FirstBlock, MaxStray} \subseteq Nat

VARIABLES
    pc,         \* the QDA call under way, or how the program exited
    mode, userSize, finalReset, fileDfuse,    \* the command line and the file,
    pageSize,   \* and the platform
    reported,   \* func_dfu: the transfer size and whether the version is DfuSe's
    xfer,       \* transfer_size
    sent,       \* bytes_sent; below 0 it leads out of the file
    transaction,
    file,       \* what the upload wrote, as chunks of the device's memory, and
                \* whether they are all of it or stale bytes in part
    found       \* the state in which the session found the device

commandLine == <<mode, userSize, finalReset, fileDfuse, pageSize>>
hostVars    == <<pc, commandLine, reported, xfer, sent, transaction, file, found>>
vars        == <<hostVars, deviceVars>>

Modes == {"MODE_UPLOAD", "MODE_DOWNLOAD", "MODE_LIST"}

Init ==
    /\ DeviceInit /\ found = state
    /\ pc = "detach"
    /\ mode \in Modes /\ userSize \in UserSizes
    /\ finalReset \in BOOLEAN /\ fileDfuse \in BOOLEAN /\ pageSize \in PageSizes
    /\ reported = NoAnswer
    /\ xfer = 0 /\ sent = 0 /\ transaction = 0 /\ file = <<>>

Exited == pc \in {"exit_ok", "exit_error"}

-----------------------------------------------------------------------------
(* The calls.                                                              *)

Chunk(n) == [trans |-> transaction, from |-> sent, len |-> n, old |-> FALSE]

Least(m, n) == IF m < n THEN m ELSE n

\* Mutant of ChunkSize: the last chunk is as long as the others.
ChunkSizeFull == xfer

\* The next chunk of a download, as bytes_sent counts it.
ChunkSize == Least(Size - sent, xfer)

RequestType ==
    CASE pc = "desc"                                 -> "DFU_DESC_REQ"
      [] pc = "alt"                                  -> "DFU_SET_ALT_SETTING"
      [] pc \in {"status", "recheck", "poll", "manifest"} -> "DFU_GETSTATUS_REQ"
      \* dfu_clear_status is qda_dfu_getstate
      [] pc \in {"clear", "clear_warning"}           -> "DFU_GETSTATE_REQ"
      [] pc = "abort"                                -> "DFU_ABORT"
      [] pc \in {"dnload", "complete"}               -> "DFU_DNLOAD_REQ"
      [] pc = "upload"                               -> "DFU_UPLOAD_REQ"
      [] pc = "reset"                                -> "RESET"

\* The int is converted to the uint16_t of qda.c.
RequestLength == CASE pc = "dnload" -> ChunkSize % LenMod
                   [] pc = "upload" -> xfer % LenMod
                   [] OTHER         -> 0

Calling == pc \notin {"detach", "exit_ok", "exit_error"}

\* qda_dfu_download refuses what does not fit in its buffer, of what is left of it.
Refused == pc = "dnload" /\ RequestLength > MaxPayload

DeviceExecutes ==
    /\ Calling /\ ~Refused
    /\ Execute([type |-> RequestType, chunk |-> Chunk(RequestLength)])
    /\ UNCHANGED hostVars

\* The call under way returns success.
Returned(p) ==
    /\ pc = p /\ answer.type \notin {"none", "STALL"}
    /\ answer' = NoAnswer
    /\ UNCHANGED <<state, work, flash, manifested, position>>

Goto(p) == pc' = p

SameTransfer == UNCHANGED <<commandLine, reported, xfer, sent, transaction, file, found>>

-----------------------------------------------------------------------------
(* The failure of a call.  In dfu_load.c it may only end the transfer.     *)

AfterTransfer == IF finalReset THEN "reset" ELSE "exit_ok"

\* dfuload_do_dnload returns bytes_sent, and only a negative value is a failure.
AfterDownload == IF sent < 0 THEN "exit_error" ELSE AfterTransfer

\* Mutant of OnFailure: a failed block of a download does not stop the transfer.
OnFailureComplete ==
    IF pc = "dnload" THEN "complete" ELSE IF pc = "manifest" THEN AfterDownload ELSE "exit_error"

OnFailure == IF pc \in {"dnload", "manifest"} THEN AfterDownload ELSE "exit_error"

CallFails ==
    /\ Calling
    /\ Goto(OnFailure)
    /\ answer' = NoAnswer
    /\ SameTransfer
    /\ UNCHANGED <<state, work, flash, manifested, position>>

Detach ==
    /\ pc = "detach"
    /\ pc' \in {"desc", "exit_error"}
    /\ SameTransfer /\ UNCHANGED deviceVars

-----------------------------------------------------------------------------
(* Up to the transfer.                                                     *)

GotDesc ==
    /\ Returned("desc")
    /\ reported' = answer
    /\ Goto("alt")
    /\ UNCHANGED <<commandLine, xfer, sent, transaction, file, found>>

AltSet == Returned("alt") /\ Goto("status") /\ SameTransfer

Incomplete == {"dfuDNLOAD_IDLE", "dfuUPLOAD_IDLE"}

\* Mutant of MustAbort: an incomplete download is taken up where it was left.
MustAbortUpload == answer.state = "dfuUPLOAD_IDLE"

MustAbort == answer.state \in Incomplete

\* The user's size, or else the device's, within the limits; 0 is none.  A negative one
\* is below any page, and as an unsigned above any packet.
TransferSize ==
    LET asked   == IF userSize # 0 THEN userSize ELSE reported.len
        limited == IF pageSize = 0 THEN asked ELSE Least(asked, pageSize)
    IN  IF asked = 0 THEN {0}
        ELSE {IF limited \in 0..(m - 1) THEN m ELSE limited : m \in PacketSizes}

FirstCall == CASE mode = "MODE_UPLOAD"               -> "upload"
               [] mode = "MODE_DOWNLOAD" /\ Size > 0 -> "dnload"
               [] mode = "MODE_DOWNLOAD" /\ Size = 0 -> "complete"
               [] OTHER                              -> "exit_error"

\* DfuSe is not built in; the file's IDs may not match; the upload's file may exist.
Dfuse == reported.dfuse \/ (mode = "MODE_DOWNLOAD" /\ fileDfuse)

\* There is no memory for the buffer of an upload of negative size.
StartTransfer ==
    \E n \in TransferSize :
        /\ xfer' = n
        /\ \/ n # 0 /\ (mode = "MODE_UPLOAD" => n > 0) /\ ~Dfuse /\ Goto(FirstCall)
           \/ Goto("exit_error")
        /\ UNCHANGED <<commandLine, reported, sent, transaction, file, found>>

StatusInApp     == Returned("status") /\ answer.state \in AppStates /\ Goto("exit_error") /\ SameTransfer
StatusInError   == Returned("status") /\ answer.state = "dfuERROR" /\ Goto("clear") /\ SameTransfer
StatusMustAbort == Returned("status") /\ MustAbort /\ Goto("abort") /\ SameTransfer

\* dfuIDLE, or any state that the switch does not name.
Ready == ~MustAbort /\ answer.state \notin AppStates \cup {"dfuERROR"}

StatusReady   == Returned("status") /\ Ready /\ answer.status = "OK" /\ StartTransfer
StatusWarning == Returned("status") /\ Ready /\ answer.status # "OK" /\ Goto("clear_warning") /\ SameTransfer

StatusAgain == (Returned("clear") \/ Returned("abort")) /\ Goto("status") /\ SameTransfer
Recheck     == Returned("clear_warning") /\ Goto("recheck") /\ SameTransfer
RecheckedOK == Returned("recheck") /\ answer.status = "OK" /\ StartTransfer
RecheckedNotOK == Returned("recheck") /\ answer.status # "OK" /\ Goto("exit_error") /\ SameTransfer

-----------------------------------------------------------------------------
(* dfuload_do_dnload.                                                      *)

BlockSent ==
    /\ Returned("dnload")
    /\ sent' = sent + ChunkSize /\ sent' >= -MaxStray
    /\ transaction' = (transaction + 1) % TransMod
    /\ Goto("poll")
    /\ UNCHANGED <<commandLine, reported, xfer, file, found>>

\* What comes before the file in memory may be read as the next block, or not at all.
Crash ==
    /\ pc = "dnload" /\ sent < 0
    /\ Goto("exit_error")
    /\ answer' = NoAnswer
    /\ SameTransfer
    /\ UNCHANGED <<state, work, flash, manifested, position>>

\* Mutant of StillWriting: one look at the status is enough.
NotPolled == FALSE

StillWriting == answer.state \notin {"dfuDNLOAD_IDLE", "dfuERROR"}

PollAgain == Returned("poll") /\ StillWriting /\ UNCHANGED pc /\ SameTransfer

BlockWritten ==
    /\ Returned("poll") /\ ~StillWriting /\ answer.status = "OK"
    /\ Goto(IF sent < Size THEN "dnload" ELSE "complete")
    /\ SameTransfer

BlockFailed ==
    /\ Returned("poll") /\ ~StillWriting /\ answer.status # "OK"
    /\ Goto(AfterDownload)
    /\ SameTransfer

Completed == Returned("complete") /\ Goto("manifest") /\ SameTransfer

\* Mutant of Manifesting: only dfuIDLE ends the manifestation.
ManifestingUntilIdle == answer.state # "dfuIDLE"

Manifesting == answer.state \in ManifestStates

ManifestAgain == Returned("manifest") /\ Manifesting /\ UNCHANGED pc /\ SameTransfer

\* Whatever else the state is, it is "Done!".
Manifested == Returned("manifest") /\ ~Manifesting /\ Goto(AfterTransfer) /\ SameTransfer

-----------------------------------------------------------------------------
(* dfuload_do_upload, and the reset.                                       *)

\* Mutant of LastBlock: the upload ends with any block.
AnyBlock == answer.len <= xfer

LastBlock == answer.len < xfer

\* The call looks only at the first block of the answer.  A reception that failed after it
\* leaves in the buffer what was there before, and one of more than the buffer always does.
Received ==
    CASE answer.len <= FirstBlock -> {TRUE} [] answer.len > MaxAnswer -> {FALSE} [] OTHER -> BOOLEAN

BlockReceived ==
    /\ Returned("upload")
    /\ \E whole \in Received :
          file' = Append(file, [trans |-> transaction, from |-> position - answer.len,
                                len |-> answer.len, whole |-> whole])
    /\ transaction' = (transaction + 1) % TransMod
    /\ Goto(IF LastBlock THEN AfterTransfer ELSE "upload")
    /\ UNCHANGED <<commandLine, reported, xfer, sent, found>>

ResetDone == Returned("reset") /\ Goto("exit_ok") /\ SameTransfer

Done == Exited /\ UNCHANGED vars

Host ==
    \/ Detach \/ CallFails
    \/ GotDesc \/ AltSet
    \/ StatusInApp \/ StatusInError \/ StatusMustAbort \/ StatusReady \/ StatusWarning
    \/ StatusAgain \/ Recheck \/ RecheckedOK \/ RecheckedNotOK
    \/ BlockSent \/ Crash \/ PollAgain \/ BlockWritten \/ BlockFailed
    \/ Completed \/ ManifestAgain \/ Manifested
    \/ BlockReceived \/ ResetDone

Next == Host \/ DeviceExecutes \/ Done

Spec == Init /\ [][Next]_vars

\* Every call returns, by the timeouts of XMODEM.
FairSpec == Spec /\ WF_vars(Host)

-----------------------------------------------------------------------------

ChunkType == [trans : 0..(TransMod - 1), from : Int, len : Nat, old : BOOLEAN]

\* Types, and bytes_sent within the file, but for a negative transfer size.
TypeOK ==
    /\ state \in DfuStates /\ work \in 0..MaxBusy
    /\ flash \in Seq(ChunkType) /\ manifested \in Seq(ChunkType)
    /\ position \in 0..Memory
    /\ sent \in -MaxStray..Size /\ transaction \in 0..(TransMod - 1) /\ xfer \in Int
    /\ sent < 0 => xfer < 0
    /\ mode \in Modes /\ found \in DfuStates

\* The chunks of s are bytes 0 to n - 1, in order, each once, and their requests
\* were numbered one after the other.
Follows(c, b) == c.trans = (b.trans + 1) % TransMod /\ c.from = b.from + b.len

Covers(s, n) ==
    /\ s # <<>> => s[1].trans = 0 /\ s[1].from = 0
    /\ \A i \in 2..Len(s) : Follows(s[i], s[i - 1])
    /\ n = IF s = <<>> THEN 0 ELSE s[Len(s)].from + s[Len(s)].len

\* The transfer size in force is one that a uint16_t holds.  It is where main.c limits it to
\* a page of less than 64 KB, or takes the device's; the properties say nothing of others.
SizeFits == xfer \in 0..(LenMod - 1)

\* What the device has of the download under way is what bytes_sent says, give or
\* take the block in flight, and nothing of a download left incomplete before: the
\* loop of dfuload_do_dnload, and the abort of main before it.  Not so for a device
\* found at work on a block, with a bStatus that is not OK: the second look at its
\* status does not look at bState, so what it was at work on is not aborted.
DownloadInOrder ==
    SizeFits /\ found \notin BusyStates /\ pc \in {"dnload", "poll", "complete", "manifest"} /\ sent > 0 =>
        /\ \A i \in 1..Len(flash) : ~flash[i].old
        /\ Covers(flash, sent) \/ (pc = "dnload" /\ Covers(flash, sent + ChunkSize))

\* The device is told that a download is complete only when it has the whole file,
\* however calls fail: a failed block is never followed by the completion packet.
OnlyWholeIsManifested ==
    SizeFits /\ found \notin BusyStates /\ manifested # <<>> => Covers(manifested, Size)

\* If an upload exits with 0, every byte of the device's memory has its place in the
\* file, in order and with nothing behind it, whether it is the device's byte or, after an
\* answer that was received in part, a stale one.
UploadIsWhole == SizeFits /\ pc = "exit_ok" /\ mode = "MODE_UPLOAD" => Covers(file, Memory)

\* A device that is at rest when the session starts never has a reason to stall a
\* request: it is not sent a block, a completion or an upload it is not ready for.
\* Not so for an empty file, which is a completion packet and nothing before it.
Quiet == AppStates \cup Incomplete \cup {"dfuIDLE"}

NeverStalled == SizeFits /\ Size > 0 /\ found \in Quiet => answer.type # "STALL"

\* And the session comes to its end: the loops on status_again, on the status after
\* a block and on the status of the manifestation are left.
SessionEnds == []SizeFits => (found \in Quiet ~> Exited)
=============================================================================
