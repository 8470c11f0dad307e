-------------------------- MODULE DfuSessionProofs --------------------------
(***************************************************************************)
(* Proofs about DfuSession: what the device has of a download, what an     *)
(* upload leaves in the file, and that no request is stalled.              *)
(***************************************************************************)
EXTENDS DfuSession, SequenceTheorems, TLAPS

-----------------------------------------------------------------------------
(* The inductive invariant.                                                *)

Before   == {"detach", "desc", "alt", "status", "clear", "abort"}
Checking == {"clear_warning", "recheck"}
Loading  == {"dnload", "poll", "complete", "manifest"}
Calls    == Before \cup Checking \cup Loading \cup {"upload", "reset", "exit_ok", "exit_error"}

AnswerTypes == {"none", "ACK", "STALL", "DFU_DESC_RESP", "DFU_GETSTATUS_RESP", "DFU_UPLOAD_RESP"}
AnswerSet == [type : AnswerTypes, state : DfuStates, status : {"OK", "err"}, len : Nat, dfuse : BOOLEAN]
FileChunk == [trans : 0..(TransMod - 1), from : Int, len : Nat, whole : BOOLEAN]

Types ==
    /\ TypeOK
    /\ pc \in Calls
    /\ answer \in AnswerSet /\ reported \in AnswerSet
    /\ userSize \in Int /\ pageSize \in Nat
    /\ file \in Seq(FileChunk)
    /\ work > 0 => state \in BusyStates \cup ManifestStates
    /\ pc \in Before \cup Checking => xfer = 0

\* The number of the request that comes after the chunks of s.
NextTrans(s) == IF s = <<>> THEN 0 ELSE (s[Len(s)].trans + 1) % TransMod

\* Chunks 0 to n - 1, the last of them sent with the request before number t.
Through(s, n, t) == Covers(s, n) /\ t = NextTrans(s)

Answered == answer.type # "none"

\* Nothing has been transferred before the transfer.
NotStarted ==
    pc \in Before \cup Checking =>
        sent = 0 /\ transaction = 0 /\ file = <<>> /\ position = 0 /\ manifested = <<>>

\* An answer to DFU_GETSTATUS tells the state the device is in.
Seen ==
    pc \in {"status", "recheck", "poll", "manifest"} /\ Answered =>
        answer.state = state /\ (state = "dfuERROR" => answer.status = "err")

\* What a transfer in progress says of the options.
Going ==
    /\ pc \in Loading => mode = "MODE_DOWNLOAD" /\ xfer > 0
    /\ pc = "upload" => mode = "MODE_UPLOAD" /\ xfer > 0
    /\ pc = "dnload" => sent < Size
    /\ pc = "complete" => sent = Size

\* A device that an earlier session did not leave at work on a block has nothing
\* to add to when the transfer starts.
Cleared ==
    found \notin BusyStates =>
        /\ pc \in Before => state \notin BusyStates
        /\ pc \in Checking => state \notin BusyStates \cup {"dfuDNLOAD_IDLE"}
        /\ pc \in {"dnload", "complete"} /\ sent = 0 /\ ~Answered =>
               state \notin BusyStates \cup {"dfuDNLOAD_IDLE"}

\* The device has what the host has sent.
OurOwn(s) == \A i \in 1..Len(s) : ~s[i].old
Holds(n, t) == OurOwn(flash) /\ Through(flash, n, t)

Downloading ==
    found \notin BusyStates =>
        /\ pc = "dnload" /\ sent = 0 => transaction = 0
        /\ pc = "dnload" /\ sent > 0 => Holds(sent, transaction) \/ Answered
        /\ pc = "dnload" /\ answer.type = "ACK" =>
               Holds(sent + ChunkSize, (transaction + 1) % TransMod)
        /\ pc \in {"poll", "complete", "manifest"} /\ sent > 0 => Holds(sent, transaction)
        /\ manifested # <<>> => Covers(manifested, Size)

\* And is in a state to take the next request.
Following ==
    /\ pc = "dnload" /\ sent > 0 /\ ~Answered => state = "dfuDNLOAD_IDLE"
    /\ pc = "dnload" /\ answer.type = "ACK" => state \in BusyStates
    /\ pc = "dnload" /\ Answered => answer.type \in {"ACK", "STALL"}
    /\ pc = "dnload" /\ sent > 0 => answer.type # "STALL"
    /\ pc = "poll" => sent > 0 /\ state \in BusyStates \cup {"dfuDNLOAD_IDLE", "dfuERROR"}
    /\ pc = "poll" /\ ~Answered => state \in BusyStates
    /\ pc = "complete" /\ sent > 0 /\ ~Answered => state = "dfuDNLOAD_IDLE"

\* The file holds what the device has sent.
Uploading ==
    /\ pc = "upload" /\ ~Answered =>
           /\ Through(file, position, transaction)
           /\ file # <<>> => state = "dfuUPLOAD_IDLE"
           /\ file = <<>> => position = 0
    /\ pc = "upload" /\ answer.type = "DFU_UPLOAD_RESP" =>
           /\ answer.len <= position
           /\ Through(file, position - answer.len, transaction)
           /\ IF answer.len < xfer THEN position = Memory ELSE state = "dfuUPLOAD_IDLE"
    /\ pc = "upload" /\ Answered => answer.type \in {"DFU_UPLOAD_RESP", "STALL"}
    /\ pc \in {"reset", "exit_ok"} /\ mode = "MODE_UPLOAD" => Covers(file, Memory)

\* A device at rest is in dfuIDLE when the transfer starts.
AtRest ==
    Size > 0 /\ found \in Quiet =>
        /\ pc \in Before => state \in Quiet
        /\ pc \in Checking => state = "dfuIDLE"
        /\ pc = "dnload" /\ sent = 0 /\ ~Answered => state = "dfuIDLE"
        /\ pc = "upload" /\ ~Answered => state \in {"dfuIDLE", "dfuUPLOAD_IDLE"}
        /\ answer.type # "STALL"

Parts == NotStarted /\ Seen /\ Going /\ Cleared /\ Downloading /\ Following /\ Uploading /\ AtRest

\* They hold of a transfer size that fits, which one not yet known does.
Fitting == Types /\ SizeFits /\ Parts

IInv == Types /\ (SizeFits => Parts)

-----------------------------------------------------------------------------
(* Chunks.                                                                 *)

\* One more chunk, with the next number and from where the last one ended.
LEMMA ThroughAppend ==
    ASSUME NEW S, NEW s \in Seq(S), NEW c, NEW n, Through(s, n, c.trans), c.from = n
    PROVE  Through(Append(s, c), n + c.len, (c.trans + 1) % TransMod)
<1> DEFINE t == Append(s, c)
<1>1. PICK k \in Nat : k = Len(s)
  BY LenProperties
<1>2. /\ Len(t) = k + 1 /\ t # <<>> /\ t[k + 1] = c
      /\ \A i \in 1..k : t[i] = s[i]
  BY <1>1, AppendProperties
<1> HIDE DEF t
<1>3. s = <<>> <=> k = 0
  BY <1>1, EmptySeq
<1>4. t[1].trans = 0 /\ t[1].from = 0
  BY <1>1, <1>2, <1>3 DEF Through, Covers, NextTrans
<1>5. \A i \in 2..Len(t) : Follows(t[i], t[i - 1])
  <2> SUFFICES ASSUME NEW i \in 2..(k + 1) PROVE Follows(t[i], t[i - 1])
    BY <1>2
  <2>1. CASE i = k + 1
    <3>1. s # <<>> /\ k \in 1..k /\ t[i - 1] = s[k]
      BY <2>1, <1>2, <1>3
    <3> QED
      BY <2>1, <3>1, <1>1, <1>2 DEF Through, Covers, NextTrans, Follows
  <2>2. CASE i \in 2..k
    BY <2>2, <1>1, <1>2 DEF Through, Covers
  <2>3. i = k + 1 \/ i \in 2..k
    OBVIOUS
  <2> QED
    BY <2>1, <2>2, <2>3
<1>6. Covers(t, n + c.len)
  BY <1>1, <1>2, <1>4, <1>5 DEF Covers
<1>7. (c.trans + 1) % TransMod = NextTrans(t)
  BY <1>1, <1>2 DEF NextTrans
<1> QED
  BY <1>6, <1>7 DEF Through, t

\* The first chunk.
LEMMA ThroughFirst ==
    ASSUME NEW c, c.trans = 0, c.from = 0, c.len \in Nat
    PROVE  Through(<<c>>, c.len, 1 % TransMod)
<1> DEFINE t == <<c>>
<1>1. Len(t) = 1 /\ t[1] = c /\ t # <<>>
  OBVIOUS
<1> HIDE DEF t
<1>2. Covers(t, c.len)
  <2>1. t[1].trans = 0 /\ t[1].from = 0 /\ \A i \in 2..Len(t) : FALSE
    BY <1>1
  <2>2. c.len = t[Len(t)].from + t[Len(t)].len
    BY <1>1
  <2> QED
    BY <1>1, <2>1, <2>2 DEF Covers
<1>3. 1 % TransMod = NextTrans(t)
  BY <1>1 DEF NextTrans
<1> QED
  BY <1>2, <1>3 DEF Through, t

\* One more chunk of this session.
LEMMA OurOwnAppend ==
    ASSUME NEW s \in Seq(ChunkType), OurOwn(s), NEW c \in ChunkType, ~c.old
    PROVE  OurOwn(Append(s, c))
<1>1. PICK k \in Nat : k = Len(s)
  BY LenProperties
<1>2. Len(Append(s, c)) = k + 1 /\ Append(s, c)[k + 1] = c
      /\ \A i \in 1..k : Append(s, c)[i] = s[i]
  BY <1>1, AppendProperties
<1> QED
  BY <1>1, <1>2 DEF OurOwn

-----------------------------------------------------------------------------
(* Types.                                                                  *)

\* The types hold where the session begins.
LEMMA InitTypes == Init => Types
<1> SUFFICES ASSUME Init PROVE Types
  OBVIOUS
<1> USE SessionAssumption, DeviceAssumption
<1>1. state \in DfuStates /\ work \in 0..MaxBusy /\ position \in 0..Memory
  BY DEF Init, DeviceInit, DfuStates, AppStates, BusyStates, ManifestStates
<1>2. manifested \in Seq(ChunkType) /\ file \in Seq(FileChunk)
  BY EmptySeq DEF Init, DeviceInit
<1>3. flash \in Seq(ChunkType)
  <2>1. Leftover \in ChunkType
    BY DEF Leftover, ChunkType
  <2>2. <<Leftover>> \in Seq(ChunkType) /\ <<>> \in Seq(ChunkType)
    BY <2>1, EmptySeq
  <2>3. flash = <<Leftover>> \/ flash = <<>>
    BY DEF Init, DeviceInit
  <2> QED
    BY <2>2, <2>3
<1>4. NoAnswer \in AnswerSet
  BY DEF NoAnswer, AnswerSet, AnswerTypes, DfuStates
<1>5. answer \in AnswerSet /\ reported \in AnswerSet
  BY <1>4 DEF Init, DeviceInit
<1>6. pc \in Calls /\ userSize \in Int /\ pageSize \in Nat
  BY DEF Init, Calls, Before
<1>7. sent = 0 /\ 0 \in -MaxStray..Size /\ transaction \in 0..(TransMod - 1) /\ xfer = 0
      /\ mode \in Modes /\ found \in DfuStates
  BY <1>1 DEF Init
<1>8. work > 0 => state \in BusyStates \cup ManifestStates
  BY DEF Init, DeviceInit
<1> QED
  BY <1>1, <1>2, <1>3, <1>5, <1>6, <1>7, <1>8 DEF Types, TypeOK

DeviceTyped ==
    /\ state \in DfuStates /\ work \in 0..MaxBusy
    /\ flash \in Seq(ChunkType) /\ manifested \in Seq(ChunkType)
    /\ position \in 0..Memory
    /\ answer \in AnswerSet
    /\ work > 0 => state \in BusyStates \cup ManifestStates

HostTyped ==
    /\ sent \in -MaxStray..Size /\ transaction \in 0..(TransMod - 1) /\ xfer \in Int
    /\ sent < 0 => xfer < 0
    /\ mode \in Modes /\ found \in DfuStates
    /\ pc \in Calls /\ reported \in AnswerSet /\ userSize \in Int /\ pageSize \in Nat
    /\ file \in Seq(FileChunk)
    /\ pc \in Before \cup Checking => xfer = 0

\* A length that fits is not changed by the conversion.
LEMMA ShortLength == \A n \in 0..(LenMod - 1) : n % LenMod = n
BY SessionAssumption

\* A length is one of qda.c, whatever it was in dfu_load.c.
LEMMA AnyLength == \A n \in Int : n % LenMod \in Nat
BY SessionAssumption

\* A transaction number stays an unsigned short.
LEMMA NextTransaction ==
    ASSUME HostTyped, transaction' = (transaction + 1) % TransMod
    PROVE  transaction' \in 0..(TransMod - 1)
<1>1. \A t \in Nat : (t + 1) % TransMod \in 0..(TransMod - 1)
  BY SessionAssumption
<1>2. transaction \in Nat
  BY SessionAssumption DEF HostTyped
<1> QED
  BY <1>1, <1>2

\* What the host asks for.
LEMMA RequestIsTyped ==
    ASSUME Types
    PROVE  /\ ChunkSize \in Int /\ sent + ChunkSize <= Size
           /\ ChunkSize < 0 => xfer < 0
           /\ sent < 0 => ChunkSize < 0
           /\ RequestLength \in Nat
           /\ Chunk(RequestLength) \in ChunkType
<1> USE SessionAssumption
<1>1. /\ ChunkSize \in Int /\ sent + ChunkSize <= Size
      /\ ChunkSize < 0 => xfer < 0
      /\ sent < 0 => ChunkSize < 0
  BY DEF Types, TypeOK, ChunkSize, Least
<1>2. RequestLength \in Nat
  BY <1>1, AnyLength DEF Types, TypeOK, RequestLength
<1> QED
  BY <1>1, <1>2 DEF Types, TypeOK, Chunk, ChunkType

\* The chunks of a size that fits are chunks of the file.
LEMMA ChunkIsShort ==
    ASSUME Types, SizeFits
    PROVE  /\ sent \in 0..Size /\ ChunkSize \in 0..(LenMod - 1) /\ sent + ChunkSize \in 0..Size
           /\ xfer > 0 /\ sent < Size => ChunkSize > 0
           /\ ChunkSize % LenMod = ChunkSize /\ xfer % LenMod = xfer
<1> USE SessionAssumption
<1>1. sent \in 0..Size /\ ChunkSize \in 0..(LenMod - 1) /\ sent + ChunkSize \in 0..Size
      /\ (xfer > 0 /\ sent < Size => ChunkSize > 0)
  <2>1. xfer \in 0..(LenMod - 1) /\ Size \in Nat /\ LenMod \in Nat
    BY DEF SizeFits
  <2>2. sent \in 0..Size
    BY <2>1 DEF Types, TypeOK
  <2> QED
    BY ONLY <2>1, <2>2 DEF ChunkSize, Least
<1>2. ChunkSize % LenMod = ChunkSize
  BY <1>1, ShortLength
<1>3. xfer % LenMod = xfer
  BY ShortLength DEF SizeFits
<1> QED
  BY <1>1, <1>2, <1>3

\* The types of the two sides are kept by different steps.
LEMMA TypesSplit == Types <=> DeviceTyped /\ HostTyped
BY DEF Types, TypeOK, DeviceTyped, HostTyped

\* An answer is a record like any other.
LEMMA AnswerIsTyped ==
    ASSUME DeviceTyped, NEW t \in AnswerTypes
    PROVE  /\ Answer(t) \in AnswerSet
           /\ Answer(t).type = t /\ Answer(t).state = state
           /\ \A n \in Nat, d \in BOOLEAN :
                 [Answer(t) EXCEPT !.len = n, !.dfuse = d] \in AnswerSet
           /\ \A n \in Nat : [Answer(t) EXCEPT !.len = n] \in AnswerSet
           /\ \A s \in DfuStates, b \in {"OK", "err"} :
                 [Answer(t) EXCEPT !.state = s, !.status = b] \in AnswerSet
BY DEF DeviceTyped, Answer, AnswerSet

\* What the device does to a request keeps its types.
LEMMA DeviceTypes ==
    ASSUME DeviceTyped, NEW r, r.chunk \in ChunkType, Execute(r)
    PROVE  DeviceTyped'
<1> USE DeviceAssumption DEF DeviceTyped
<1>1. "ACK" \in AnswerTypes /\ "STALL" \in AnswerTypes /\ "DFU_DESC_RESP" \in AnswerTypes
      /\ "DFU_GETSTATUS_RESP" \in AnswerTypes /\ "DFU_UPLOAD_RESP" \in AnswerTypes
  BY DEF AnswerTypes
<1>2. r.chunk.len \in Nat
  BY DEF ChunkType
<1>3. {"dfuIDLE", "dfuDNLOAD_IDLE", "dfuUPLOAD_IDLE", "dfuERROR", "dfuMANIFEST_SYNC", "dfuMANIFEST",
       "dfuMANIFEST_WAIT_RST", "dfuDNLOAD_SYNC", "dfuDNBUSY", "appIDLE"} \subseteq DfuStates
  BY DEF DfuStates, AppStates, BusyStates, ManifestStates
<1>4. Answer("ACK") \in AnswerSet /\ Answer("STALL") \in AnswerSet
  BY <1>1, AnswerIsTyped
<1>5. CASE Describe(r)
  <2>1. PICK n \in Reported, d \in BOOLEAN :
            answer' = [Answer("DFU_DESC_RESP") EXCEPT !.len = n, !.dfuse = d]
    BY <1>5 DEF Describe
  <2>2. answer' \in AnswerSet
    BY <2>1, <1>1, AnswerIsTyped
  <2> QED
    BY <2>2, <1>5 DEF Describe
<1>6. CASE SetAltOrGetState(r)
  BY <1>6, <1>4 DEF SetAltOrGetState, Acknowledge
<1>7. CASE GetStatus(r)
  <2>1. /\ state' \in DfuStates /\ work' \in 0..MaxBusy
        /\ work' > 0 => state' \in BusyStates \cup ManifestStates
    <3>1. CASE work > 0 /\ work' = work - 1 /\ state' = BusyState
      <4>1. work' \in 0..MaxBusy
        BY <3>1
      <4>2. state' \in {"dfuDNBUSY", "dfuMANIFEST"}
        BY <3>1 DEF BusyState
      <4>3. state' \in BusyStates \cup ManifestStates
        BY <4>2 DEF BusyStates, ManifestStates
      <4> QED
        BY <4>1, <4>2, <4>3, <1>3
    <3>2. CASE work = 0 /\ work' = 0 /\ state' \in Outcomes
      BY <3>2, <1>3 DEF Outcomes
    <3> QED
      BY <3>1, <3>2, <1>7 DEF GetStatus
  <2>2. PICK s \in {"OK", "err"} :
            answer' = [Answer("DFU_GETSTATUS_RESP") EXCEPT !.state = state', !.status = s]
    BY <1>7 DEF GetStatus
  <2>3. answer' \in AnswerSet
    BY <2>1, <2>2, <1>1, AnswerIsTyped
  <2> QED
    BY <2>1, <2>3, <1>7 DEF GetStatus
<1>8. CASE Download(r)
  <2>1. flash' = <<r.chunk>> \/ flash' = Append(flash, r.chunk)
    BY <1>8 DEF Download
  <2>2. <<r.chunk>> \in Seq(ChunkType)
    OBVIOUS
  <2>3. Append(flash, r.chunk) \in Seq(ChunkType)
    BY AppendProperties
  <2>4. flash' \in Seq(ChunkType)
    BY <2>1, <2>2, <2>3
  <2> QED
    BY <2>4, <1>3, <1>4, <1>8 DEF Download, Acknowledge, BusyStates
<1>9. CASE Complete(r)
  BY <1>9, <1>3, <1>4 DEF Complete, Acknowledge, ManifestStates
<1>10. CASE Upload(r)
  <2> DEFINE from == IF state = "dfuIDLE" THEN 0 ELSE position
             n    == IF Memory - from < r.chunk.len THEN Memory - from ELSE r.chunk.len
  <2>1. n \in Nat /\ from + n \in 0..Memory
    BY <1>2
  <2>2. answer' = [Answer("DFU_UPLOAD_RESP") EXCEPT !.len = n] /\ position' = from + n
        /\ state' \in {"dfuIDLE", "dfuUPLOAD_IDLE"}
    BY <1>10 DEF Upload
  <2>0. work = 0
    BY <1>10 DEF Upload, BusyStates, ManifestStates
  <2> HIDE DEF n, from
  <2>3. answer' \in AnswerSet
    BY <2>1, <2>2, <1>1, AnswerIsTyped
  <2> QED
    BY <2>0, <2>1, <2>2, <2>3, <1>3, <1>10 DEF Upload
<1>11. CASE Abort(r)
  BY <1>11, <1>3, <1>4 DEF Abort, Acknowledge, BusyStates, ManifestStates
<1>12. CASE Reset(r)
  BY <1>12, <1>3, <1>4 DEF Reset, Acknowledge
<1>13. CASE Stall(r)
  BY <1>13, <1>3, <1>4 DEF Stall
<1> QED
  BY <1>5, <1>6, <1>7, <1>8, <1>9, <1>10, <1>11, <1>12, <1>13 DEF Execute

\* The host leaves the device alone, but for taking its answer.
LEMMA HostKeepsDevice ==
    ASSUME Host
    PROVE  /\ UNCHANGED <<state, work, flash, manifested, position>>
           /\ UNCHANGED answer \/ answer' = NoAnswer
           /\ pc # "detach" => answer' = NoAnswer
<1> USE DEF Returned, SameTransfer, Goto, hostVars, commandLine
<1>1. CASE Detach
  BY <1>1 DEF Detach, deviceVars
<1>2. CASE CallFails
  BY <1>2 DEF CallFails
<1>3. CASE GotDesc \/ AltSet
  BY <1>3 DEF GotDesc, AltSet
<1>4. CASE StatusInApp \/ StatusInError \/ StatusMustAbort \/ StatusReady \/ StatusWarning
  BY <1>4 DEF StatusInApp, StatusInError, StatusMustAbort, StatusReady, StatusWarning
<1>5. CASE StatusAgain \/ Recheck \/ RecheckedOK \/ RecheckedNotOK
  BY <1>5 DEF StatusAgain, Recheck, RecheckedOK, RecheckedNotOK
<1>6. CASE BlockSent \/ Crash \/ PollAgain \/ BlockWritten \/ BlockFailed
  BY <1>6 DEF BlockSent, Crash, PollAgain, BlockWritten, BlockFailed
<1>7. CASE Completed \/ ManifestAgain \/ Manifested
  BY <1>7 DEF Completed, ManifestAgain, Manifested
<1>8. CASE BlockReceived \/ ResetDone
  BY <1>8 DEF BlockReceived, ResetDone
<1> QED
  BY <1>1, <1>2, <1>3, <1>4, <1>5, <1>6, <1>7, <1>8 DEF Host

\* Where the failure of a call leads, and the reset or the exit that follow a transfer.
LEMMA OnFailureCalls == OnFailure \in {"reset", "exit_ok", "exit_error"}
BY DEF OnFailure, AfterDownload, AfterTransfer

\* A transfer starts with a transfer_size that is not 0, in the mode it belongs to.
LEMMA StartTransferTypes ==
    ASSUME HostTyped, StartTransfer
    PROVE  /\ xfer' \in Int
           /\ pc' \in {"upload", "dnload", "complete", "exit_error"}
           /\ pc' # "exit_error" => xfer' # 0
           /\ pc' = "upload" => mode = "MODE_UPLOAD"
           /\ pc' = "dnload" => mode = "MODE_DOWNLOAD" /\ Size > 0
           /\ pc' = "complete" => mode = "MODE_DOWNLOAD" /\ Size = 0
           /\ UNCHANGED <<commandLine, reported, sent, transaction, file, found>>
<1> USE SessionAssumption DEF HostTyped
<1>1. PICK n \in TransferSize :
          /\ xfer' = n
          /\ \/ n # 0 /\ (mode = "MODE_UPLOAD" => n > 0) /\ ~Dfuse /\ Goto(FirstCall)
             \/ Goto("exit_error")
          /\ UNCHANGED <<commandLine, reported, sent, transaction, file, found>>
  BY DEF StartTransfer
<1>2. n \in Int
  <2>1. reported.len \in Nat
    BY DEF AnswerSet
  <2> QED
    BY <2>1 DEF TransferSize, Least
<1>3. FirstCall \in {"upload", "dnload", "complete", "exit_error"}
      /\ (FirstCall = "upload" => mode = "MODE_UPLOAD")
      /\ (FirstCall = "dnload" => mode = "MODE_DOWNLOAD" /\ Size > 0)
      /\ (FirstCall = "complete" => mode = "MODE_DOWNLOAD" /\ Size = 0)
  BY DEF FirstCall, Modes
<1> QED
  BY <1>1, <1>2, <1>3 DEF Goto

\* The host keeps its types: bytes_sent stays within the file.
LEMMA HostTypes ==
    ASSUME HostTyped, DeviceTyped, Host
    PROVE  HostTyped'
<1> USE SessionAssumption DEF HostTyped, Returned, SameTransfer, Goto, commandLine
<1>1. CASE Detach
  BY <1>1 DEF Detach, Calls, Before
<1>2. CASE CallFails
  BY <1>2, OnFailureCalls DEF CallFails, Calls, Before, Checking
<1>3. CASE GotDesc \/ AltSet
  BY <1>3 DEF GotDesc, AltSet, Calls, Before, DeviceTyped
<1>4. CASE StatusInApp \/ StatusInError \/ StatusMustAbort \/ StatusWarning \/ RecheckedNotOK
  BY <1>4 DEF StatusInApp, StatusInError, StatusMustAbort, StatusWarning, RecheckedNotOK,
              Calls, Before, Checking
<1>5. CASE StatusReady \/ RecheckedOK
  <2>1. StartTransfer
    BY <1>5 DEF StatusReady, RecheckedOK
  <2> QED
    <3>1. pc' \in {"upload", "dnload", "complete", "exit_error"} /\ xfer' \in Int
          /\ UNCHANGED <<commandLine, reported, sent, transaction, file, found>>
      BY <2>1, StartTransferTypes
    <3>2. pc' \in Calls /\ pc' \notin Before \cup Checking
      BY <3>1 DEF Calls, Before, Checking, Loading
    <3>3. pc \in Before \cup Checking
      BY <1>5 DEF StatusReady, RecheckedOK, Before, Checking
    <3>4. sent >= 0
      BY <3>3
    <3> QED
      BY <3>1, <3>2, <3>4
<1>6. CASE StatusAgain \/ Recheck
  BY <1>6 DEF StatusAgain, Recheck, Calls, Before, Checking
<1>7. CASE BlockSent
  <2>1. /\ ChunkSize \in Int /\ sent + ChunkSize <= Size
        /\ ChunkSize < 0 => xfer < 0
    BY TypesSplit, RequestIsTyped
  <2>2. sent' = sent + ChunkSize /\ sent' >= -MaxStray
    BY <1>7 DEF BlockSent
  <2>3. sent' \in -MaxStray..Size /\ (sent' < 0 => xfer < 0)
    BY <2>1, <2>2
  <2>4. transaction' \in 0..(TransMod - 1)
    BY <1>7, NextTransaction DEF BlockSent
  <2> QED
    BY <2>3, <2>4, <1>7 DEF BlockSent, Calls, Loading, Before, Checking
<1>8. CASE Crash \/ PollAgain \/ BlockWritten \/ BlockFailed
  BY <1>8 DEF Crash, PollAgain, BlockWritten, BlockFailed, AfterDownload, AfterTransfer, Calls, Before,
              Checking, Loading
<1>9. CASE Completed \/ ManifestAgain \/ Manifested
  BY <1>9 DEF Completed, ManifestAgain, Manifested, AfterTransfer, Calls, Before, Checking, Loading
<1>10. CASE BlockReceived
  <2> DEFINE c(whole) == [trans |-> transaction, from |-> position - answer.len, len |-> answer.len,
                          whole |-> whole]
  <2>1. transaction' \in 0..(TransMod - 1)
    BY <1>10, NextTransaction DEF BlockReceived
  <2>2. \A whole \in BOOLEAN : c(whole) \in FileChunk
    BY <1>10, DeviceAssumption DEF DeviceTyped, AnswerSet, FileChunk
  <2>3. PICK whole \in Received : file' = Append(file, c(whole))
    BY <1>10 DEF BlockReceived
  <2>4. whole \in BOOLEAN
    BY DEF Received
  <2> HIDE DEF c
  <2>5. file' \in Seq(FileChunk)
    BY <2>2, <2>3, <2>4, AppendProperties
  <2> QED
    BY <2>1, <2>5, <1>10 DEF BlockReceived, AfterTransfer, Calls, Before, Checking
<1>11. CASE ResetDone
  BY <1>11 DEF ResetDone, Calls, Before, Checking
<1> QED
  BY <1>1, <1>2, <1>3, <1>4, <1>5, <1>6, <1>7, <1>8, <1>9, <1>10, <1>11 DEF Host

-----------------------------------------------------------------------------
(* The invariant and the steps of the device.                              *)

TheRequest == [type |-> RequestType, chunk |-> Chunk(RequestLength)]

\* The requests that each action of the device takes.
LEMMA RequestOfAction ==
    ASSUME NEW r
    PROVE  /\ Describe(r) => r.type = "DFU_DESC_REQ"
           /\ SetAltOrGetState(r) => r.type \in {"DFU_SET_ALT_SETTING", "DFU_GETSTATE_REQ"}
           /\ GetStatus(r) => r.type = "DFU_GETSTATUS_REQ"
           /\ Download(r) => r.type = "DFU_DNLOAD_REQ" /\ r.chunk.len > 0
           /\ Complete(r) => r.type = "DFU_DNLOAD_REQ" /\ r.chunk.len = 0
           /\ Upload(r) => r.type = "DFU_UPLOAD_REQ"
           /\ Abort(r) => r.type = "DFU_ABORT"
           /\ Reset(r) => r.type = "RESET"
           /\ Stall(r) => r.type \in {"DFU_DNLOAD_REQ", "DFU_UPLOAD_REQ"}
BY DEF Describe, SetAltOrGetState, GetStatus, Download, Complete, Upload, Abort, Reset, Stall

\* The request is that of the call under way: only a completion has no data.
LEMMA RequestIsSized ==
    ASSUME Types, SizeFits, Going
    PROVE  /\ pc = "desc" => TheRequest.type = "DFU_DESC_REQ"
           /\ pc = "alt" => TheRequest.type = "DFU_SET_ALT_SETTING"
           /\ pc \in {"clear", "clear_warning"} => TheRequest.type = "DFU_GETSTATE_REQ"
           /\ pc \in {"status", "recheck", "poll", "manifest"} => TheRequest.type = "DFU_GETSTATUS_REQ"
           /\ pc = "abort" => TheRequest.type = "DFU_ABORT"
           /\ pc \in {"dnload", "complete"} => TheRequest.type = "DFU_DNLOAD_REQ"
           /\ pc = "upload" => TheRequest.type = "DFU_UPLOAD_REQ"
           /\ pc = "reset" => TheRequest.type = "RESET"
           /\ pc = "dnload" => TheRequest.chunk.len = ChunkSize /\ ChunkSize > 0
           /\ pc = "complete" => TheRequest.chunk.len = 0
           /\ pc = "upload" => TheRequest.chunk.len = xfer
<1>1. TheRequest.type = RequestType /\ TheRequest.chunk.len = RequestLength
  BY DEF TheRequest, Chunk
<1>2. pc = "dnload" => RequestLength = ChunkSize /\ ChunkSize > 0
  BY ChunkIsShort DEF Going, Loading, RequestLength
<1>3. (pc = "complete" => RequestLength = 0) /\ (pc = "upload" => RequestLength = xfer)
  BY ChunkIsShort DEF RequestLength
<1> QED
  BY <1>1, <1>2, <1>3 DEF RequestType

\* And says what the device may do.
LEMMA RequestOfCall ==
    ASSUME Types, SizeFits, Going, Calling, Execute(TheRequest)
    PROVE  \/ pc \in {"desc", "alt", "clear", "clear_warning"}
                 /\ (Describe(TheRequest) \/ SetAltOrGetState(TheRequest))
           \/ pc \in {"status", "recheck", "poll", "manifest"} /\ GetStatus(TheRequest)
           \/ pc = "abort" /\ Abort(TheRequest)
           \/ pc = "dnload" /\ Download(TheRequest)
           \/ pc = "complete" /\ Complete(TheRequest)
           \/ pc = "upload" /\ Upload(TheRequest)
           \/ pc = "reset" /\ Reset(TheRequest)
           \/ pc \in {"dnload", "complete", "upload"} /\ Stall(TheRequest)
<1> DEFINE Kind == \/ pc \in {"desc", "alt", "clear", "clear_warning"}
                   \/ pc \in {"status", "recheck", "poll", "manifest"}
                   \/ pc = "abort" \/ pc = "dnload" \/ pc = "complete" \/ pc = "upload" \/ pc = "reset"
<1>1. Kind
  BY DEF Types, Calls, Before, Checking, Loading, Calling
<1> QED
  BY <1>1, RequestIsSized, RequestOfAction DEF Execute

\* How GetStatus changes the state.
LEMMA StatusChanges ==
    ASSUME DeviceTyped, NEW r, GetStatus(r)
    PROVE  /\ answer'.type = "DFU_GETSTATUS_RESP" /\ answer'.state = state'
           /\ state' = "dfuERROR" => answer'.status = "err"
           /\ state' \in BusyStates => state \in BusyStates
           /\ state' = "dfuDNLOAD_IDLE" => state \in BusyStates \cup {"dfuDNLOAD_IDLE"}
           /\ state \in BusyStates => state' \in BusyStates \cup {"dfuDNLOAD_IDLE", "dfuERROR"}
           /\ state \in Quiet => state' = state
           /\ UNCHANGED <<flash, manifested, position>>
<1>1. PICK s \in {"OK", "err"} :
          /\ state' = "dfuERROR" => s = "err"
          /\ answer' = [Answer("DFU_GETSTATUS_RESP") EXCEPT !.state = state', !.status = s]
  BY DEF GetStatus
<1>2. /\ answer'.type = "DFU_GETSTATUS_RESP" /\ answer'.state = state'
      /\ state' = "dfuERROR" => answer'.status = "err"
  BY <1>1 DEF Answer
<1>3. \/ work > 0 /\ state' = BusyState
      \/ work = 0 /\ state' \in Outcomes
  BY DEF GetStatus
<1>4. CASE work > 0 /\ state' = BusyState
  BY <1>4, <1>2 DEF DeviceTyped, BusyState, BusyStates, ManifestStates, Quiet, AppStates, Incomplete, GetStatus
<1>5. CASE work = 0 /\ state' \in Outcomes
  BY <1>5, <1>2 DEF Outcomes, BusyStates, ManifestStates, Quiet, AppStates, Incomplete, GetStatus
<1> QED
  BY <1>3, <1>4, <1>5

HostSame == UNCHANGED <<pc, mode, userSize, pageSize, reported, xfer, sent, transaction, file, found>>

\* Requests that leave the device's state alone.
LEMMA StepDescribe ==
    ASSUME Fitting, HostSame, pc \in {"desc", "alt", "clear", "clear_warning"},
           NEW r, Describe(r) \/ SetAltOrGetState(r)
    PROVE  Parts'
<1>1. UNCHANGED <<state, flash, manifested, position>> /\ answer'.type \in {"ACK", "DFU_DESC_RESP"}
  <2>1. CASE Describe(r)
    <3>1. PICK n \in Reported, d \in BOOLEAN :
              answer' = [Answer("DFU_DESC_RESP") EXCEPT !.len = n, !.dfuse = d]
      BY <2>1 DEF Describe
    <3>2. answer'.type = "DFU_DESC_RESP"
      BY <3>1 DEF Answer
    <3> QED
      BY <3>2, <2>1 DEF Describe
  <2>2. CASE SetAltOrGetState(r)
    BY <2>2 DEF SetAltOrGetState, Acknowledge, Answer
  <2> QED
    BY <2>1, <2>2
<1> QED
  BY <1>1 DEF Fitting, Parts, HostSame, NotStarted, Seen, Going, Cleared, Downloading, Following, Uploading,
              AtRest, Before, Checking, Loading, Answered

\* A look at the status, which lets the device get on with its work.
LEMMA StepGetStatus ==
    ASSUME Fitting, ~Answered, HostSame, pc \in {"status", "recheck", "poll", "manifest"},
           NEW r, GetStatus(r)
    PROVE  Parts'
<1>1. /\ answer'.type = "DFU_GETSTATUS_RESP" /\ answer'.state = state'
      /\ state' = "dfuERROR" => answer'.status = "err"
      /\ state' \in BusyStates => state \in BusyStates
      /\ state' = "dfuDNLOAD_IDLE" => state \in BusyStates \cup {"dfuDNLOAD_IDLE"}
      /\ state \in BusyStates => state' \in BusyStates \cup {"dfuDNLOAD_IDLE", "dfuERROR"}
      /\ state \in Quiet => state' = state
      /\ UNCHANGED <<flash, manifested, position>>
  BY StatusChanges, TypesSplit DEF Fitting, Parts
<1>2. (NotStarted /\ Seen /\ Going /\ Following /\ Uploading)'
  BY <1>1 DEF Fitting, Parts, HostSame, NotStarted, Seen, Going, Following, Uploading, Before, Checking,
              Loading, Answered
<1>3. Cleared'
  BY <1>1 DEF Fitting, Parts, HostSame, Cleared, Before, Checking
<1>4. Downloading'
  BY <1>1 DEF Fitting, Parts, HostSame, Downloading, Holds
<1>5. AtRest'
  BY <1>1 DEF Fitting, Parts, HostSame, AtRest, Quiet
<1> QED
  BY <1>2, <1>3, <1>4, <1>5 DEF Parts

\* The abort of what an earlier session left.
LEMMA StepAbort ==
    ASSUME Fitting, HostSame, pc = "abort", NEW r, Abort(r)
    PROVE  Parts'
<1>1. UNCHANGED <<flash, manifested, position>> /\ answer'.type = "ACK" /\ state' = "dfuIDLE"
  BY DEF Abort, Acknowledge, Answer
<1> QED
  BY <1>1 DEF Fitting, Parts, HostSame, NotStarted, Seen, Going, Cleared, Downloading, Following, Uploading,
              AtRest, Before, Checking, Loading, Answered, BusyStates, Quiet

\* The reset after a transfer.
LEMMA StepReset ==
    ASSUME Fitting, HostSame, pc = "reset", NEW r, Reset(r)
    PROVE  Parts'
<1>1. UNCHANGED <<flash, manifested, position>> /\ answer'.type = "ACK" /\ state' = "appIDLE"
  BY DEF Reset, Acknowledge, Answer
<1> QED
  BY <1>1 DEF Fitting, Parts, HostSame, NotStarted, Seen, Going, Cleared, Downloading, Following, Uploading,
              AtRest, Before, Checking, Loading, Answered

\* A stall happens to a request that the device is not in a state for, and there is
\* none such past the first block.
LEMMA StepStall ==
    ASSUME Fitting, ~Answered, HostSame, pc \in {"dnload", "complete", "upload"}, Stall(TheRequest)
    PROVE  Parts'
<1>1. UNCHANGED <<flash, manifested, position>> /\ answer'.type = "STALL" /\ state' = "dfuERROR"
  BY DEF Stall, Answer
<1>2. /\ pc = "dnload" => state \notin {"dfuIDLE", "dfuDNLOAD_IDLE"}
      /\ pc = "complete" => state # "dfuDNLOAD_IDLE"
      /\ pc = "upload" => state \notin {"dfuIDLE", "dfuUPLOAD_IDLE"}
  <2>1. /\ pc \in {"dnload", "complete"} => TheRequest.type = "DFU_DNLOAD_REQ"
        /\ pc = "upload" => TheRequest.type = "DFU_UPLOAD_REQ"
        /\ pc = "dnload" => TheRequest.chunk.len > 0
        /\ pc = "complete" => TheRequest.chunk.len = 0
    BY RequestIsSized DEF Fitting, Parts
  <2> QED
    BY <2>1 DEF Stall
<1>3. pc = "dnload" => sent = 0
  BY <1>2, SessionAssumption, ChunkIsShort DEF Fitting, Parts, Following
<1>4. pc = "complete" => sent = 0 /\ Size = 0
  BY <1>2, SessionAssumption, ChunkIsShort DEF Fitting, Parts, Following, Going
<1>5. ~(Size > 0 /\ found \in Quiet)
  BY <1>2, <1>3, <1>4 DEF Fitting, Parts, AtRest
<1>6. (NotStarted /\ Seen /\ Going /\ Following /\ Uploading /\ AtRest)'
  BY <1>1, <1>3, <1>5 DEF Fitting, Parts, HostSame, NotStarted, Seen, Going, Following, Uploading, AtRest,
                          Before, Checking, Loading, Answered
<1>7. (Cleared /\ Downloading)'
  BY <1>1, <1>3, <1>4 DEF Fitting, Parts, HostSame, Cleared, Downloading, Holds, Answered, Before, Checking
<1> QED
  BY <1>6, <1>7 DEF Parts

\* A block of data is added to what the device has, or starts anew.
LEMMA StepDownload ==
    ASSUME Fitting, ~Answered, HostSame, pc = "dnload", Download(TheRequest)
    PROVE  Parts'
<1> DEFINE c == Chunk(ChunkSize)
<1>1. /\ UNCHANGED <<manifested, position>> /\ answer'.type = "ACK" /\ state' = "dfuDNLOAD_SYNC"
      /\ \/ state = "dfuIDLE" /\ flash' = <<TheRequest.chunk>>
         \/ state = "dfuDNLOAD_IDLE" /\ flash' = Append(flash, TheRequest.chunk)
  BY DEF Download, Acknowledge, Answer
<1>2. TheRequest.chunk = c
  BY ChunkIsShort DEF Fitting, TheRequest, RequestLength
<1>3. /\ c \in ChunkType /\ ~c.old /\ c.trans = transaction /\ c.from = sent
      /\ c.len = ChunkSize /\ ChunkSize \in Nat
  <2>1. Chunk(RequestLength) \in ChunkType /\ ChunkSize \in Nat /\ RequestLength = ChunkSize
    BY RequestIsTyped, ChunkIsShort DEF Fitting, Parts, RequestLength
  <2> QED
    BY <2>1 DEF Chunk
<1> HIDE DEF c
<1>4. flash \in Seq(ChunkType) /\ sent \in Nat
  BY SessionAssumption, ChunkIsShort DEF Fitting, Types, TypeOK
<1>5. ASSUME found \notin BusyStates
      PROVE  OurOwn(flash') /\ Through(flash', sent + ChunkSize, (transaction + 1) % TransMod)
  <2>1. CASE sent = 0
    <3>1. flash' = <<c>>
      BY <2>1, <1>1, <1>2, <1>5 DEF Fitting, Parts, Cleared
    <3>2. transaction = 0
      BY <2>1, <1>5 DEF Fitting, Parts, Downloading
    <3>3. Through(<<c>>, ChunkSize, 1 % TransMod)
      BY <2>1, <3>2, <1>3, ThroughFirst
    <3>4. OurOwn(<<c>>)
      BY <1>3 DEF OurOwn
    <3> QED
      BY <2>1, <3>1, <3>2, <3>3, <3>4, <1>3
  <2>2. CASE sent > 0
    <3>1. flash' = Append(flash, c)
      BY <2>2, <1>1, <1>2 DEF Fitting, Parts, Following
    <3>2. OurOwn(flash) /\ Through(flash, sent, transaction)
      BY <2>2, <1>5 DEF Fitting, Parts, Downloading, Holds
    <3>3. Through(Append(flash, c), sent + ChunkSize, (transaction + 1) % TransMod)
      BY <3>2, <1>3, <1>4, ThroughAppend
    <3>4. OurOwn(Append(flash, c))
      BY <3>2, <1>3, <1>4, OurOwnAppend
    <3> QED
      BY <3>1, <3>3, <3>4
  <2> QED
    BY <2>1, <2>2, <1>4
<1>6. Downloading'
  BY <1>1, <1>5 DEF Fitting, Parts, HostSame, Downloading, Holds, ChunkSize, Answered
<1>7. (NotStarted /\ Seen /\ Going /\ Cleared /\ Following /\ Uploading /\ AtRest)'
  BY <1>1 DEF Fitting, Parts, HostSame, NotStarted, Seen, Going, Cleared, Following, Uploading, AtRest,
              Before, Checking, Answered, BusyStates
<1> QED
  BY <1>6, <1>7 DEF Parts

\* A completion ends a download that is whole.
LEMMA StepComplete ==
    ASSUME Fitting, ~Answered, HostSame, pc = "complete", Complete(TheRequest)
    PROVE  Parts'
<1>1. /\ UNCHANGED <<flash, position>> /\ answer'.type = "ACK" /\ state' = "dfuMANIFEST_SYNC"
      /\ state = "dfuDNLOAD_IDLE" /\ manifested' = flash
  BY DEF Complete, Acknowledge, Answer
<1>2. sent = Size /\ sent \in Nat
  BY SessionAssumption DEF Fitting, Parts, Going
<1>3. found \notin BusyStates => Covers(flash, Size)
  <2>1. found \notin BusyStates => sent > 0
    BY <1>1, <1>2 DEF Fitting, Parts, Cleared
  <2> QED
    BY <2>1, <1>2 DEF Fitting, Parts, Downloading, Holds, Through
<1>4. Downloading'
  BY <1>1, <1>3 DEF Fitting, Parts, HostSame, Downloading, Holds
<1>5. (NotStarted /\ Seen /\ Going /\ Cleared /\ Following /\ Uploading /\ AtRest)'
  BY <1>1 DEF Fitting, Parts, HostSame, NotStarted, Seen, Going, Cleared, Following, Uploading, AtRest,
              Before, Checking, Answered
<1> QED
  BY <1>4, <1>5 DEF Parts

\* A block of an upload goes on from the block before.
LEMMA StepUpload ==
    ASSUME Fitting, ~Answered, HostSame, pc = "upload", Upload(TheRequest)
    PROVE  Parts'
<1> DEFINE from == IF state = "dfuIDLE" THEN 0 ELSE position
           n    == IF Memory - from < xfer THEN Memory - from ELSE xfer
<1>1. /\ UNCHANGED <<flash, manifested>>
      /\ answer'.type = "DFU_UPLOAD_RESP" /\ answer'.len = n
      /\ position' = from + n
      /\ state' = IF n < xfer THEN "dfuIDLE" ELSE "dfuUPLOAD_IDLE"
  <2>1. TheRequest.chunk.len = xfer
    BY RequestIsSized DEF Fitting, Parts
  <2> QED
    BY <2>1 DEF Upload, Answer
<1>2. from = position
  BY DEF Fitting, Parts, Uploading
<1>3. position \in 0..Memory /\ Memory \in Nat /\ xfer \in Nat
  BY DeviceAssumption DEF Fitting, Types, TypeOK, SizeFits
<1>4. /\ n \in Nat /\ n <= xfer /\ position' \in Nat /\ position' - n = position /\ n <= position'
      /\ n < xfer => position' = Memory
  BY <1>1, <1>2, <1>3
<1> HIDE DEF n, from
<1>5. Through(file, position, transaction) /\ xfer > 0
  BY DEF Fitting, Parts, Uploading, Going
<1>6. Uploading'
  BY <1>1, <1>4, <1>5 DEF Fitting, Parts, HostSame, Uploading, Answered
<1>7. (NotStarted /\ Seen /\ Going /\ Cleared /\ Following /\ AtRest)'
  BY <1>1 DEF Fitting, Parts, HostSame, NotStarted, Seen, Going, Cleared, Following, AtRest,
              Before, Checking, Loading, Answered
<1>8. Downloading'
  BY <1>1 DEF Fitting, Parts, HostSame, Downloading, Holds
<1> QED
  BY <1>6, <1>7, <1>8 DEF Parts

\* No step of the device breaks the invariant.
LEMMA DeviceStep == IInv /\ DeviceExecutes => IInv'
<1> SUFFICES ASSUME IInv, DeviceExecutes PROVE IInv'
  OBVIOUS
<1>1. HostSame /\ Calling /\ Execute(TheRequest)
  BY DEF DeviceExecutes, hostVars, commandLine, HostSame, TheRequest
<1>2. ~Answered
  BY <1>1 DEF Execute, Answered
<1>3. Types'
  <2>1. TheRequest.chunk \in ChunkType
    BY RequestIsTyped DEF IInv, TheRequest
  <2>2. DeviceTyped'
    BY <2>1, <1>1, DeviceTypes, TypesSplit DEF IInv
  <2>3. HostTyped'
    BY <1>1, TypesSplit DEF IInv, HostTyped, HostSame
  <2> QED
    BY <2>2, <2>3 DEF Types, TypeOK, DeviceTyped, HostTyped
<1>4. ASSUME SizeFits' PROVE Parts'
  <2>1. Fitting
    BY <1>1, <1>4 DEF IInv, Fitting, SizeFits, HostSame
  <2>2. Types /\ SizeFits /\ Going
    BY <2>1 DEF Fitting, Parts
  <2> QED
    BY <2>1, <2>2, <1>1, <1>2, RequestOfCall, StepDescribe, StepGetStatus, StepAbort, StepDownload,
       StepComplete, StepUpload, StepReset, StepStall
<1> QED
  BY <1>3, <1>4 DEF IInv

-----------------------------------------------------------------------------
(* The steps of the host.                                                  *)

\* What all of them have in common.
DeviceSame == UNCHANGED <<state, flash, manifested, position>> /\ answer'.type = "none"

\* The answer is taken and the rest of the device left alone.
LEMMA HostTakesAnswer ==
    ASSUME Host, pc # "detach"
    PROVE  DeviceSame
BY HostKeepsDevice DEF DeviceSame, NoAnswer

XferSame == UNCHANGED <<mode, xfer, sent, transaction, file, found>>

\* The detach, with which a session begins.
LEMMA StepDetach ==
    ASSUME Fitting, Detach
    PROVE  Parts'
BY DEF Detach, SameTransfer, commandLine, deviceVars, Parts, Fitting, NotStarted, Seen, Going, Cleared,
       Downloading, Following, Uploading, AtRest, Before, Checking, Loading, Answered

\* The session is over, or only the reset is left of it.
LEMMA StepToEnd ==
    ASSUME Fitting, XferSame, DeviceSame, pc' \in {"reset", "exit_ok", "exit_error"},
           mode = "MODE_UPLOAD" /\ pc' # "exit_error" => Covers(file, Memory)
    PROVE  Parts'
BY DEF XferSame, DeviceSame, Parts, Fitting, NotStarted, Seen, Going, Cleared,
       Downloading, Following, Uploading, AtRest, Before, Checking, Loading, Answered

\* From one call before the transfer to the next.
LEMMA StepBefore ==
    ASSUME Fitting, XferSame, DeviceSame, pc \in Before, pc' \in Before
    PROVE  Parts'
BY DEF XferSame, DeviceSame, Parts, Fitting, NotStarted, Seen, Going, Cleared,
       Downloading, Following, Uploading, AtRest, Before, Checking, Loading, Answered

\* To the second look at the status.
LEMMA StepChecking ==
    ASSUME Fitting, XferSame, DeviceSame,
           \/ pc = "status" /\ pc' = "clear_warning" /\ Ready /\ Answered
           \/ pc = "clear_warning" /\ pc' = "recheck"
    PROVE  Parts'
<1>1. /\ found \notin BusyStates => state \notin BusyStates \cup {"dfuDNLOAD_IDLE"}
      /\ Size > 0 /\ found \in Quiet => state = "dfuIDLE"
  BY DEF Fitting, Parts, Seen, Cleared, AtRest, Ready, MustAbort, Incomplete, Quiet, Before, Checking
<1> QED
  BY <1>1 DEF XferSame, DeviceSame, Parts, Fitting, NotStarted, Seen, Going, Cleared,
              Downloading, Following, Uploading, AtRest, Before, Checking, Loading, Answered

\* To the transfer.
LEMMA StepStart ==
    ASSUME Fitting, StartTransfer, SizeFits', DeviceSame,
           (pc = "status" /\ Ready /\ Answered) \/ pc = "recheck"
    PROVE  Parts'
<1>1. /\ found \notin BusyStates => state \notin BusyStates \cup {"dfuDNLOAD_IDLE"}
      /\ Size > 0 /\ found \in Quiet => state = "dfuIDLE"
  BY DEF Fitting, Parts, Seen, Cleared, AtRest, Ready, MustAbort, Incomplete, Quiet, Before, Checking
<1>2. sent = 0 /\ transaction = 0 /\ file = <<>> /\ position = 0 /\ manifested = <<>>
  BY DEF Fitting, Parts, NotStarted, Before, Checking
<1>3. /\ pc' \in {"upload", "dnload", "complete", "exit_error"}
      /\ pc' # "exit_error" => xfer' > 0
      /\ pc' = "upload" => mode = "MODE_UPLOAD"
      /\ pc' = "dnload" => mode = "MODE_DOWNLOAD" /\ Size > 0
      /\ pc' = "complete" => mode = "MODE_DOWNLOAD" /\ Size = 0
      /\ UNCHANGED <<mode, sent, transaction, file, found>>
  BY StartTransferTypes, TypesSplit DEF Fitting, SizeFits, commandLine
<1>4. Through(<<>>, 0, 0)
  BY DEF Through, Covers, NextTrans
<1>5. (NotStarted /\ Seen /\ Going)'
  BY <1>2, <1>3 DEF DeviceSame, NotStarted, Seen, Going, Before, Checking, Loading
<1>6. (Cleared /\ Following /\ AtRest)'
  BY <1>1, <1>2, <1>3 DEF DeviceSame, Cleared, Following, AtRest, Before, Checking, Answered
<1>7. Downloading'
  BY <1>2, <1>3 DEF DeviceSame, Downloading
<1>8. Uploading'
  BY <1>2, <1>3, <1>4 DEF DeviceSame, Uploading, Answered
<1> QED
  BY <1>5, <1>6, <1>7, <1>8 DEF Parts

\* The device has acknowledged a block, and has it.
LEMMA StepBlockSent ==
    ASSUME Fitting, BlockSent, DeviceSame
    PROVE  Parts'
<1>1. /\ pc = "dnload" /\ pc' = "poll" /\ answer.type \notin {"none", "STALL"}
      /\ sent' = sent + ChunkSize /\ transaction' = (transaction + 1) % TransMod
      /\ UNCHANGED <<mode, xfer, file, found>>
  BY DEF BlockSent, Returned, Goto, commandLine
<1>2. answer.type = "ACK"
  BY <1>1 DEF Fitting, Parts, Following, Answered
<1>3. sent' > 0
  BY <1>1, ChunkIsShort, SessionAssumption DEF Fitting, Parts, Going, Loading
<1>4. state \in BusyStates
  BY <1>1, <1>2 DEF Fitting, Parts, Following
<1>5. found \notin BusyStates => Holds(sent + ChunkSize, (transaction + 1) % TransMod)
  BY <1>1, <1>2 DEF Fitting, Parts, Downloading
<1>6. Downloading'
  BY <1>1, <1>5 DEF Fitting, Parts, Downloading, Holds, DeviceSame
<1>7. (NotStarted /\ Seen /\ Going /\ Cleared /\ Following /\ Uploading /\ AtRest)'
  BY <1>1, <1>3, <1>4 DEF Fitting, Parts, DeviceSame, NotStarted, Seen, Going, Cleared, Following, Uploading,
                          AtRest, Before, Checking, Loading, Answered
<1> QED
  BY <1>6, <1>7 DEF Parts

\* The polls end with the device ready for the next request.
LEMMA StepPoll ==
    ASSUME Fitting, PollAgain \/ BlockWritten, DeviceSame
    PROVE  Parts'
<1>1. pc = "poll" /\ XferSame /\ Answered
  BY DEF PollAgain, BlockWritten, Returned, SameTransfer, XferSame, Answered, commandLine
<1>2. \/ pc' = "poll" /\ answer.state \notin {"dfuDNLOAD_IDLE", "dfuERROR"}
      \/ /\ pc' = IF sent < Size THEN "dnload" ELSE "complete"
         /\ answer.state \in {"dfuDNLOAD_IDLE", "dfuERROR"} /\ answer.status = "OK"
  BY <1>1 DEF PollAgain, BlockWritten, StillWriting, Goto
<1>3. sent > 0 /\ sent \in 0..Size /\ Size \in Nat
  BY <1>1, SessionAssumption, ChunkIsShort DEF Fitting, Parts, Following
<1>4. answer.state = state /\ (state = "dfuERROR" => answer.status = "err")
  BY <1>1 DEF Fitting, Parts, Seen
<1>5. \/ pc' = "poll" /\ state \in BusyStates
      \/ pc' \in {"dnload", "complete"} /\ state = "dfuDNLOAD_IDLE"
  BY <1>1, <1>2, <1>3, <1>4 DEF Fitting, Parts, Following
<1>6. (NotStarted /\ Seen /\ Going /\ Following /\ Uploading)'
  BY <1>1, <1>2, <1>3, <1>5 DEF Fitting, Parts, XferSame, DeviceSame, NotStarted, Seen, Going, Following,
                                Uploading, Before, Checking, Loading, Answered
<1>7. (Cleared /\ AtRest)'
  BY <1>1, <1>3, <1>5 DEF Fitting, Parts, XferSame, DeviceSame, Cleared, AtRest, Before, Checking
<1>8. Downloading'
  BY <1>1, <1>3, <1>5 DEF Fitting, Parts, XferSame, DeviceSame, Downloading, Holds
<1> QED
  BY <1>6, <1>7, <1>8 DEF Parts

\* The completion and the polls after it.
LEMMA StepManifest ==
    ASSUME Fitting, Completed \/ ManifestAgain, DeviceSame
    PROVE  Parts'
<1>1. pc \in {"complete", "manifest"} /\ pc' = "manifest" /\ XferSame
  BY DEF Completed, ManifestAgain, Returned, Goto, SameTransfer, XferSame, commandLine
<1> QED
  BY <1>1 DEF Fitting, XferSame, DeviceSame, Parts, NotStarted, Seen, Going, Cleared, Downloading, Holds,
              Following, Uploading, AtRest, Before, Checking, Loading, Answered

\* A block goes to the file; a short one ends the upload.
LEMMA StepBlockReceived ==
    ASSUME Fitting, BlockReceived, DeviceSame
    PROVE  Parts'
<1>0. PICK whole \in Received :
          file' = Append(file, [trans |-> transaction, from |-> position - answer.len,
                                len |-> answer.len, whole |-> whole])
  BY DEF BlockReceived
<1> DEFINE c == [trans |-> transaction, from |-> position - answer.len, len |-> answer.len,
                 whole |-> whole]
<1>1. /\ pc = "upload" /\ answer.type \notin {"none", "STALL"}
      /\ file' = Append(file, c) /\ transaction' = (transaction + 1) % TransMod
      /\ pc' = IF answer.len < xfer THEN AfterTransfer ELSE "upload"
      /\ UNCHANGED <<mode, xfer, sent, found>>
  BY <1>0 DEF BlockReceived, Returned, Goto, LastBlock, commandLine
<1>2. answer.type = "DFU_UPLOAD_RESP"
  BY <1>1 DEF Fitting, Parts, Uploading, Answered
<1>3. /\ Through(file, position - answer.len, transaction)
      /\ IF answer.len < xfer THEN position = Memory ELSE state = "dfuUPLOAD_IDLE"
  BY <1>1, <1>2 DEF Fitting, Parts, Uploading
<1>4. file \in Seq(FileChunk) /\ position \in Nat /\ answer.len \in Nat
  BY DeviceAssumption DEF Fitting, Parts, Types, TypeOK, AnswerSet
<1>5. c.trans = transaction /\ c.from = position - answer.len /\ c.len = answer.len
      /\ (position - answer.len) + answer.len = position
  BY <1>4
<1>6. c \in FileChunk
  <2>1. whole \in BOOLEAN
    BY <1>0 DEF Received
  <2>2. position - answer.len \in Int /\ transaction \in 0..(TransMod - 1)
    BY <1>4 DEF Fitting, Types, TypeOK
  <2> QED
    BY <2>1, <2>2, <1>4 DEF FileChunk
<1> HIDE DEF c
<1>7. Through(file', position, transaction') /\ file' # <<>>
  <2>1. Through(Append(file, c), (position - answer.len) + c.len, (c.trans + 1) % TransMod)
    BY <1>3, <1>4, <1>5, ThroughAppend
  <2>2. Append(file, c) # <<>>
    BY <1>4, <1>6, AppendProperties
  <2> QED
    BY <2>1, <2>2, <1>1, <1>5
<1>8. AfterTransfer \in {"reset", "exit_ok"}
  BY DEF AfterTransfer
<1>9. Uploading'
  BY <1>1, <1>3, <1>7, <1>8 DEF Fitting, Parts, DeviceSame, Uploading, Answered, Through
<1>10. (NotStarted /\ Seen /\ Going /\ Cleared /\ Following /\ AtRest)'
  BY <1>1, <1>3, <1>8 DEF Fitting, Parts, DeviceSame, NotStarted, Seen, Going, Cleared, Following, AtRest,
                          Before, Checking, Loading, Answered
<1>11. Downloading'
  BY <1>1, <1>8 DEF Fitting, Parts, DeviceSame, Downloading
<1> QED
  BY <1>9, <1>10, <1>11 DEF Parts

\* No step of the host breaks the parts of the invariant.
LEMMA HostParts ==
    ASSUME Fitting, Host, SizeFits'
    PROVE  Parts'
<1>2. ASSUME Detach PROVE Parts'
  BY <1>2, StepDetach
<1>3. ASSUME ~Detach PROVE DeviceSame /\ pc # "detach"
  <2>1. pc # "detach"
    BY <1>3 DEF Host, CallFails, Calling, GotDesc, AltSet, StatusInApp, StatusInError, StatusMustAbort,
             StatusReady, StatusWarning, StatusAgain, Recheck, RecheckedOK, RecheckedNotOK,
             BlockSent, Crash, PollAgain, BlockWritten, BlockFailed, Completed, ManifestAgain, Manifested,
             BlockReceived, ResetDone, Returned
  <2> QED
    BY <2>1, HostTakesAnswer
<1>4. ASSUME ~Detach, CallFails PROVE Parts'
  <2>1. XferSame /\ pc' = OnFailure
    BY <1>4 DEF CallFails, SameTransfer, XferSame, Goto, commandLine
  <2>2. pc' # "exit_error" => pc \in Loading
    BY <2>1 DEF OnFailure, Loading
  <2>3. pc \in Loading => mode # "MODE_UPLOAD"
    BY DEF Fitting, Parts, Going
  <2> QED
    BY <2>1, <2>2, <2>3, <1>3, <1>4, OnFailureCalls, StepToEnd
<1>5. ASSUME ~Detach, GotDesc \/ AltSet \/ StatusInError \/ StatusMustAbort \/ StatusAgain PROVE Parts'
  <2>1. XferSame /\ pc \in Before /\ pc' \in Before
    BY <1>5 DEF GotDesc, AltSet, StatusInError, StatusMustAbort, StatusAgain, Returned, Goto,
                SameTransfer, XferSame, commandLine, Before
  <2> QED
    BY <2>1, <1>3, <1>5, StepBefore
<1>6. ASSUME ~Detach, StatusInApp \/ RecheckedNotOK PROVE Parts'
  <2>1. XferSame /\ pc' = "exit_error"
    BY <1>6 DEF StatusInApp, RecheckedNotOK, Goto, SameTransfer, XferSame, commandLine
  <2> QED
    BY <2>1, <1>3, <1>6, StepToEnd
<1>7. ASSUME ~Detach, StatusWarning \/ Recheck PROVE Parts'
  <2>1. XferSame /\ \/ pc = "status" /\ pc' = "clear_warning" /\ Ready /\ Answered
                    \/ pc = "clear_warning" /\ pc' = "recheck"
    BY <1>7 DEF StatusWarning, Recheck, Returned, Goto, SameTransfer, XferSame, commandLine, Answered
  <2> QED
    BY <2>1, <1>3, <1>7, StepChecking
<1>8. ASSUME ~Detach, StatusReady \/ RecheckedOK PROVE Parts'
  <2>1. StartTransfer /\ ((pc = "status" /\ Ready /\ Answered) \/ pc = "recheck")
    BY <1>8 DEF StatusReady, RecheckedOK, Returned, Answered
  <2> QED
    BY <2>1, <1>3, <1>8, StepStart
<1>9. ASSUME ~Detach, Crash \/ BlockFailed \/ Manifested PROVE Parts'
  <2>1. XferSame /\ pc \in Loading /\ pc' \in {"reset", "exit_ok", "exit_error"}
    BY <1>9 DEF Crash, BlockFailed, Manifested, Returned, Goto, SameTransfer, XferSame, commandLine,
                Loading, AfterDownload, AfterTransfer
  <2>2. mode # "MODE_UPLOAD"
    BY <2>1 DEF Fitting, Parts, Going
  <2> QED
    BY <2>1, <2>2, <1>3, <1>9, StepToEnd
<1>10. ASSUME ~Detach, ResetDone PROVE Parts'
  <2>1. XferSame /\ pc = "reset" /\ pc' = "exit_ok"
    BY <1>10 DEF ResetDone, Returned, Goto, SameTransfer, XferSame, commandLine
  <2> QED
    BY <2>1, <1>3, <1>10, StepToEnd DEF Fitting, Parts, Uploading
<1> QED
  BY <1>2, <1>3, <1>4, <1>5, <1>6, <1>7, <1>8, <1>9, <1>10, StepBlockSent, StepPoll, StepManifest,
     StepBlockReceived DEF Host

\* The transfer size does not change once it is known.
LEMMA SizeStays ==
    ASSUME Host, Types
    PROVE  UNCHANGED xfer \/ SizeFits
<1> USE DEF Returned, SameTransfer
<1>1. CASE StatusReady \/ RecheckedOK
  <2>1. pc \in Before \cup Checking
    BY <1>1 DEF StatusReady, RecheckedOK, Before, Checking
  <2> QED
    BY <2>1, SessionAssumption DEF Types, SizeFits
<1>2. CASE Detach \/ CallFails \/ GotDesc \/ AltSet
  BY <1>2 DEF Detach, CallFails, GotDesc, AltSet
<1>3. CASE StatusInApp \/ StatusInError \/ StatusMustAbort \/ StatusWarning
  BY <1>3 DEF StatusInApp, StatusInError, StatusMustAbort, StatusWarning
<1>4. CASE StatusAgain \/ Recheck \/ RecheckedNotOK
  BY <1>4 DEF StatusAgain, Recheck, RecheckedNotOK
<1>5. CASE BlockSent \/ Crash \/ PollAgain \/ BlockWritten \/ BlockFailed
  BY <1>5 DEF BlockSent, Crash, PollAgain, BlockWritten, BlockFailed
<1>6. CASE Completed \/ ManifestAgain \/ Manifested \/ BlockReceived \/ ResetDone
  BY <1>6 DEF Completed, ManifestAgain, Manifested, BlockReceived, ResetDone
<1> QED
  BY <1>1, <1>2, <1>3, <1>4, <1>5, <1>6 DEF Host

\* No step of the host breaks the invariant.
LEMMA HostStep == IInv /\ Host => IInv'
<1> SUFFICES ASSUME IInv, Host PROVE IInv'
  OBVIOUS
<1>1. Types'
  <2>1. HostTyped'
    BY HostTypes, TypesSplit DEF IInv
  <2>2. NoAnswer \in AnswerSet
    BY DEF NoAnswer, AnswerSet, AnswerTypes, DfuStates
  <2>3. DeviceTyped'
    BY <2>2, HostKeepsDevice, TypesSplit DEF IInv, DeviceTyped
  <2> QED
    BY <2>1, <2>3 DEF Types, TypeOK, DeviceTyped, HostTyped
<1>2. ASSUME SizeFits' PROVE Parts'
  <2>1. SizeFits
    BY <1>2, SizeStays DEF IInv, SizeFits
  <2> QED
    BY <2>1, <1>2, HostParts DEF IInv, Fitting
<1> QED
  BY <1>1, <1>2 DEF IInv

-----------------------------------------------------------------------------
(* The theorems.                                                           *)

\* The invariant holds where the session begins,
LEMMA InitIInv == Init => IInv
<1> SUFFICES ASSUME Init PROVE IInv
  OBVIOUS
<1>1. Types
  BY InitTypes
<1>2. pc = "detach" /\ answer.type = "none" /\ sent = 0 /\ transaction = 0 /\ file = <<>>
      /\ manifested = <<>> /\ position = 0 /\ found = state
  BY DEF Init, DeviceInit, NoAnswer
<1> QED
  BY <1>1, <1>2 DEF IInv, Parts, NotStarted, Seen, Going, Cleared, Downloading, Following, Uploading, AtRest,
                    Before, Checking, Loading, Answered

\* and is kept by every step.
LEMMA NextIInv == IInv /\ [Next]_vars => IInv'
<1> SUFFICES ASSUME IInv, [Next]_vars PROVE IInv'
  OBVIOUS
<1>1. CASE Host
  BY <1>1, HostStep
<1>2. CASE DeviceExecutes
  BY <1>2, DeviceStep
<1>3. CASE UNCHANGED vars
  BY <1>3 DEF vars, hostVars, commandLine, deviceVars, IInv, SizeFits, Parts, Types, TypeOK, NotStarted, Seen,
              Going, Cleared, Downloading, Holds, Following, Uploading, AtRest, Answered, ChunkSize
<1> QED
  BY <1>1, <1>2, <1>3 DEF Next, Done

\* The invariant holds in every session, whatever the device is found in.
THEOREM Invariance == Spec => []IInv
BY InitIInv, NextIInv, PTL DEF Spec

\* The types of the session and of the device, with bytes_sent within the file: the
\* loop of dfuload_do_dnload sends no more than there is, and nothing from in front of it
\* unless -t was negative.
THEOREM TypeCorrect == Spec => []TypeOK
<1>1. IInv => TypeOK
  BY DEF IInv, Types
<1> QED
  BY <1>1, Invariance, PTL

\* While dfuload_do_dnload goes on, with a transfer size that the uint16_t of qda.c holds,
\* the device has what bytes_sent says, in order, and nothing of an earlier download,
\* which main has aborted.
THEOREM DeviceKeepsUp == Spec => []DownloadInOrder
<1>1. IInv => DownloadInOrder
  <2> SUFFICES ASSUME IInv, SizeFits, found \notin BusyStates, sent > 0,
                      pc \in {"dnload", "poll", "complete", "manifest"}
               PROVE  /\ \A i \in 1..Len(flash) : ~flash[i].old
                      /\ Covers(flash, sent) \/ (pc = "dnload" /\ Covers(flash, sent + ChunkSize))
    BY DEF DownloadInOrder
  <2>1. CASE pc = "dnload"
    <3>1. Holds(sent, transaction) \/ Holds(sent + ChunkSize, (transaction + 1) % TransMod)
      BY <2>1 DEF IInv, Parts, Downloading, Following, Answered
    <3> QED
      BY <2>1, <3>1 DEF Holds, OurOwn, Through
  <2>2. CASE pc # "dnload"
    BY <2>2 DEF IInv, Parts, Downloading, Holds, OurOwn, Through
  <2> QED
    BY <2>1, <2>2
<1> QED
  BY <1>1, Invariance, PTL

\* The completion packet of dfuload_do_dnload follows the whole file or nothing at all,
\* whichever calls failed on the way, if the transfer size fits.
THEOREM NothingPartialIsManifested == Spec => []OnlyWholeIsManifested
<1>1. IInv => OnlyWholeIsManifested
  BY DEF IInv, Parts, Downloading, OnlyWholeIsManifested
<1> QED
  BY <1>1, Invariance, PTL

\* dfuload_do_upload leaves a place in the file for each byte of the device's memory, in
\* order, or main exits with an error, if the transfer size fits.
THEOREM UploadComplete == Spec => []UploadIsWhole
<1>1. IInv => UploadIsWhole
  BY DEF IInv, Parts, Uploading, UploadIsWhole
<1> QED
  BY <1>1, Invariance, PTL

\* A device found at rest is sent nothing by main and dfu_load.c that it must stall, if
\* the transfer size fits.
THEOREM NothingIsStalled == Spec => []NeverStalled
<1>1. IInv => NeverStalled
  BY DEF IInv, Parts, AtRest, NeverStalled
<1> QED
  BY <1>1, Invariance, PTL
=============================================================================
