----------------------------- MODULE DfuProgram -----------------------------
(***************************************************************************)
(* Whole runs of dfu-util-qda, one after the other: the options, the file  *)
(* that is loaded, the serial port, the session and the file that an       *)
(* upload writes.  The session is that of DfuSession, cut down to how it   *)
(* ends.  SIGINT may come between any two system calls.                    *)
(*                                                                         *)
(* What outlives a run is the files and the settings of the port.          *)
(***************************************************************************)
EXTENDS Integers, Sequences, SerialPort

CONSTANTS
    Names,        \* names of files; "-" is standard input to a download
    MaxOptions,   \* bounds a command line
    ChunkSize,    \* STDIN_CHUNK_SIZE
    MaxInput,     \* bounds standard input
    MaxRuns       \* bounds the runs

ASSUME ProgramAssumption ==
    /\ MaxOptions \in Nat /\ MaxInput \in Nat /\ MaxRuns \in Nat \ {0}
    /\ ChunkSize \in Nat \ {0}

VARIABLES
    pc,           \* what the program does next, or how it ended
    optind,       \* options so far
    mode, name, path, speed,      \* what they say
    input,        \* bytes that standard input holds, known once it is read
    unread,       \* those that fread has not returned
    total,        \* file.size.total
    capacity,     \* bytes allocated for file.firmware
    disk,         \* the files
    created,      \* this run has created the file of its upload
    before,       \* the settings of the port when the run started
    failed,       \* a system call on the port, or fread, has failed in this run
    runs

optionVars == <<optind, mode, name, path, speed>>
stdinVars  == <<input, unread, total, capacity>>
diskVars   == <<disk, created>>
vars       == <<pc, optionVars, stdinVars, diskVars, before, failed, runs, portVars>>

\* Files that a download can find: without a suffix, with one, and with one whose
\* length field is wrong, which is refused; a partial or a whole upload has none.
FileKinds == {"absent", "plain", "suffixed", "wrong", "partial", "whole"}

Ended == pc \in {"exit_ok", "exit_usage", "exit_error", "exit_130", "killed"}

Goto(p) == pc' = p

RunInit ==
    /\ pc = "options" /\ optind = 0
    /\ mode = "MODE_NONE" /\ name = "" /\ path = FALSE /\ speed = "valid"
    /\ input = 0 /\ unread = 0 /\ total = 0 /\ capacity = 0
    /\ created = FALSE /\ failed = FALSE

Init ==
    /\ PortInit /\ before = settings
    /\ disk \in [Names -> FileKinds \ {"partial", "whole"}]
    /\ RunInit /\ runs = 1

-----------------------------------------------------------------------------
(* Options.                                                                *)

SameButOptions == UNCHANGED <<stdinVars, diskVars, before, failed, runs, portVars>>

NextOption == pc = "options" /\ optind < MaxOptions /\ optind' = optind + 1 /\ SameButOptions

OptMode(m) == NextOption /\ mode' = m /\ UNCHANGED <<pc, name, path, speed>>

\* -U and -D set the mode and the name: the last one counts.
OptFile(m, n) == NextOption /\ mode' = m /\ name' = n /\ UNCHANGED <<pc, path, speed>>

OptPath  == NextOption /\ path' = TRUE /\ UNCHANGED <<pc, mode, name, speed>>
OptSpeed == NextOption /\ speed' \in {"valid", "unknown"} /\ UNCHANGED <<pc, mode, name, path>>

\* -h, and whatever getopt_long does not know.
OptHelp == NextOption /\ Goto("exit_usage") /\ UNCHANGED <<mode, name, path, speed>>

Option ==
    \/ OptMode("MODE_VERSION") \/ OptMode("MODE_LIST")
    \/ \E n \in Names : OptFile("MODE_UPLOAD", n) \/ OptFile("MODE_DOWNLOAD", n)
    \/ OptPath \/ OptSpeed \/ OptHelp

\* Mutant of AfterOptions: the port is opened first.
AfterOptionsOpen ==
    CASE mode = "MODE_VERSION" -> "exit_ok"
      [] mode = "MODE_NONE"    -> "exit_usage"
      [] OTHER                 -> "open"

AfterOptions ==
    CASE mode = "MODE_VERSION"  -> "exit_ok"
      [] mode = "MODE_NONE"     -> "exit_usage"
      [] mode = "MODE_DOWNLOAD" -> "load"
      [] OTHER                  -> "open"

EndOptions ==
    /\ pc = "options" /\ Goto(AfterOptions)
    /\ UNCHANGED optionVars /\ SameButOptions

-----------------------------------------------------------------------------
(* dfu_load_file.                                                          *)

SameButLoad == UNCHANGED <<optionVars, diskVars, before, runs, portVars>>

\* A file is read whole, or the program ends.
Loadable == disk[name] \notin {"absent", "wrong"}

LoadFile ==
    /\ pc = "load" /\ name # "-" /\ Loadable
    /\ Goto("open")
    /\ SameButLoad /\ UNCHANGED <<stdinVars, failed>>

\* A file that cannot be opened, is too big, is not read whole or is refused, and a
\* malloc or realloc that fails.
LoadFails ==
    /\ pc \in {"load", "stdin"} /\ Goto("exit_error")
    /\ SameButLoad /\ UNCHANGED <<stdinVars, failed>>

\* Mutant of Fread: a chunk is taken to be full.
FreadFull(left, size) ==
    /\ unread' = left - ChunkSize
    /\ total' = total + ChunkSize
    /\ capacity' = size /\ Goto("suffix") /\ UNCHANGED failed

\* fread of n of the bytes that are left, into a buffer of size bytes.  An error
\* looks like the end of the input.
Fread(left, size) ==
    \E n \in 0..ChunkSize :
        /\ n <= left
        /\ failed' = (n < ChunkSize /\ n < left)
        /\ unread' = left - n
        /\ total' = total + n
        /\ capacity' = size
        /\ Goto(IF n = ChunkSize THEN "stdin" ELSE "suffix")

LoadStdin ==
    /\ pc = "load" /\ name = "-"
    /\ \E i \in 0..MaxInput : input' = i /\ Fread(i, ChunkSize)
    /\ SameButLoad

\* Mutants of MoreStdin: the buffer does not grow, and an error is tried again.
MoreStdinInPlace == pc = "stdin" /\ Fread(unread, capacity) /\ UNCHANGED input /\ SameButLoad
MoreStdinAgain ==
    /\ pc = "stdin" /\ UNCHANGED <<stdinVars, pc>>
    /\ failed' = TRUE /\ SameButLoad

MoreStdin == pc = "stdin" /\ Fread(unread, total + ChunkSize) /\ UNCHANGED input /\ SameButLoad

\* The suffix of what came in may be wrong, too.
CheckStdin ==
    /\ pc = "suffix" /\ (Goto("open") \/ Goto("exit_error"))
    /\ UNCHANGED <<stdinVars, failed>> /\ SameButLoad

-----------------------------------------------------------------------------
(* The port.                                                               *)

SameButPort == UNCHANGED <<optionVars, stdinVars, diskVars, before, runs>>

Open ==
    /\ pc = "open" /\ SameButPort
    /\ \/ path /\ OpenPort /\ Goto("save") /\ UNCHANGED failed
       \/ OpenFails(FALSE) /\ Goto("exit_error") /\ failed' = TRUE

Save ==
    /\ pc = "save" /\ SameButPort
    /\ \/ SaveSettings /\ Goto("handler") /\ UNCHANGED failed
       \/ OpenFails(TRUE) /\ Goto("exit_error") /\ failed' = TRUE

InstallHandler ==
    /\ pc = "handler" /\ CatchSigint
    /\ Goto("speed") /\ UNCHANGED failed /\ SameButPort

CheckSpeed ==
    /\ pc = "speed" /\ SameButPort /\ UNCHANGED failed
    /\ \/ speed = "valid" /\ UNCHANGED portVars /\ Goto("apply")
       \/ speed = "unknown" /\ OpenFails(FALSE) /\ Goto("exit_error")

Apply ==
    /\ pc = "apply" /\ SameButPort
    /\ \/ ApplySettings /\ Goto("raise") /\ UNCHANGED failed
       \/ OpenFails(TRUE) /\ Goto("exit_error") /\ failed' = TRUE

Pulse(at, on, next) ==
    /\ pc = at /\ SameButPort
    /\ \/ SetRts(on) /\ Goto(next) /\ UNCHANGED failed
       \/ UNCHANGED portVars /\ Goto("exit_error") /\ failed' = TRUE

RaiseRts == Pulse("raise", TRUE, "lower")

\* Mutant of LowerRts: the result of the second ioctl is not looked at.
LowerRtsOrNot ==
    /\ pc = "lower" /\ SameButPort /\ Goto("session")
    /\ \/ SetRts(FALSE) /\ UNCHANGED failed
       \/ UNCHANGED portVars /\ failed' = TRUE

LowerRts == Pulse("lower", FALSE, "session")

-----------------------------------------------------------------------------
(* The session, and the upload's file.                                     *)

InSession == pc \in {"session", "transfer"}

Timeout ==
    /\ InSession /\ UNCHANGED pc /\ SameButPort
    /\ \/ \E t \in {"STD", "ERR"} : SetTimeout(t) /\ UNCHANGED failed
       \/ SetTimeoutFails /\ failed' = TRUE

SessionFails ==
    /\ InSession /\ Goto("exit_error")
    /\ UNCHANGED <<failed, portVars>> /\ SameButPort

\* Mutant of MayCreate: without O_EXCL the file is overwritten.
MayOverwrite == TRUE

\* O_CREAT | O_EXCL.
MayCreate == disk[name] = "absent"

StartTransfer ==
    /\ pc = "session"
    /\ \/ mode = "MODE_DOWNLOAD" /\ Goto("transfer") /\ UNCHANGED diskVars
       \/ /\ mode = "MODE_UPLOAD" /\ MayCreate
          /\ disk' = [disk EXCEPT ![name] = "partial"] /\ created' = TRUE
          /\ Goto("transfer")
       \/ mode = "MODE_UPLOAD" /\ ~MayCreate /\ Goto("exit_error") /\ UNCHANGED diskVars
       \/ mode = "MODE_LIST" /\ Goto("exit_error") /\ UNCHANGED diskVars
    /\ UNCHANGED <<optionVars, stdinVars, before, failed, runs, portVars>>

EndTransfer ==
    /\ pc = "transfer" /\ Goto("restore")
    /\ disk' = IF created THEN [disk EXCEPT ![name] = "whole"] ELSE disk
    /\ UNCHANGED <<optionVars, stdinVars, created, before, failed, runs, portVars>>

\* main does not look at what serial_io_close returns.
Restore ==
    /\ pc = "restore" /\ SameButPort
    /\ \/ RestoreSettings /\ Goto("close") /\ UNCHANGED failed
       \/ UNCHANGED portVars /\ Goto("exit_ok") /\ failed' = TRUE

Close == pc = "close" /\ ClosePort /\ Goto("exit_ok") /\ UNCHANGED failed /\ SameButPort

\* SIGINT: the handler, or the end of the process there and then.
Sigint ==
    /\ ~Ended /\ SameButPort
    /\ \/ handler /\ CloseAll /\ Goto("exit_130") /\ UNCHANGED failed
       \/ handler /\ UNCHANGED portVars /\ Goto("exit_130") /\ failed' = TRUE
       \/ ~handler /\ UNCHANGED portVars /\ Goto("killed") /\ UNCHANGED failed

-----------------------------------------------------------------------------

RunAgain ==
    /\ Ended /\ runs < MaxRuns
    /\ runs' = runs + 1
    /\ ProcessGone /\ before' = settings
    /\ pc' = "options" /\ optind' = 0
    /\ mode' = "MODE_NONE" /\ name' = "" /\ path' = FALSE /\ speed' = "valid"
    /\ input' = 0 /\ unread' = 0 /\ total' = 0 /\ capacity' = 0
    /\ created' = FALSE /\ failed' = FALSE
    /\ UNCHANGED disk

Done == Ended /\ UNCHANGED vars

Step ==
    \/ Option \/ EndOptions
    \/ LoadFile \/ LoadStdin \/ MoreStdin \/ CheckStdin
    \/ Open \/ Save \/ InstallHandler \/ CheckSpeed \/ Apply \/ RaiseRts \/ LowerRts
    \/ StartTransfer \/ SessionFails \/ EndTransfer \/ Restore \/ Close

Next == Step \/ LoadFails \/ Timeout \/ Sigint \/ RunAgain \/ Done

Spec == Init /\ [][Next]_vars

\* A file that cannot be loaded is the only one whose load is bound to fail.
LoadRefused == pc = "load" /\ name # "-" /\ ~Loadable /\ LoadFails

\* Every system call returns, and every session ends.
FairSpec == Spec /\ WF_vars(Step) /\ WF_vars(LoadRefused)

-----------------------------------------------------------------------------

PortSteps == {"open", "save", "handler", "speed", "apply", "raise", "lower", "session",
              "transfer", "restore", "close"}
Endings == {"exit_ok", "exit_usage", "exit_error", "exit_130", "killed"}

OptionTypeOK ==
    /\ optind \in 0..MaxOptions /\ path \in BOOLEAN /\ speed \in {"valid", "unknown"}
    /\ mode \in {"MODE_NONE", "MODE_VERSION", "MODE_LIST", "MODE_UPLOAD", "MODE_DOWNLOAD"}
    /\ name \in Names \cup {""}
    /\ mode \in {"MODE_UPLOAD", "MODE_DOWNLOAD"} => name \in Names

\* Types.
TypeOK ==
    /\ pc \in {"options", "load", "stdin", "suffix"} \cup PortSteps \cup Endings
    /\ OptionTypeOK /\ PortTypeOK
    /\ input \in Nat /\ unread \in Nat /\ total \in Nat /\ capacity \in Nat
    /\ disk \in [Names -> FileKinds] /\ created \in BOOLEAN
    /\ before \in {"user", "qda", "garbage"} /\ failed \in BOOLEAN /\ runs \in 1..MaxRuns

\* The comment at serial_io.c:119: a run that ends well, or by SIGINT at whatever
\* point, leaves the port with the settings it found, unless a call on the port
\* failed; on Windows, which has no handler, only a run that ends well does.
SettingsRestored ==
    (pc = "exit_ok" \/ (platform = "posix" /\ pc \in {"exit_130", "killed"})) /\ ~failed
        => settings = before

\* While the program talks to the device the port has the program's settings, RTS is
\* released, and what a SIGINT would put back is what the user had.
SessionReady ==
    InSession =>
        /\ settings = "qda" /\ ~rts
        /\ saved = before /\ (platform = "posix" => handler)

\* The loop over standard input stays in its buffer, and the firmware is all of the
\* input, unless fread failed.
FirmwareWhole ==
    /\ total <= capacity
    /\ pc \in PortSteps /\ mode = "MODE_DOWNLOAD" /\ name = "-" /\ ~failed => total = input

\* A device is detached from what it does only for a file that can be downloaded.
DetachedToLoad ==
    pc \in PortSteps /\ mode = "MODE_DOWNLOAD" /\ name # "-" => Loadable

\* An upload writes to no file but one that it has created itself, whatever runs, and
\* failed runs, came before it.
ExistingFileKept ==
    [][\A n \in Names : disk'[n] # disk[n] =>
           disk[n] = "absent" \/ (created /\ n = name /\ disk[n] = "partial")]_vars

\* Every run comes to an end: the loop over standard input is left.
RunEnds == pc = "options" ~> Ended
=============================================================================
