-------------------------- MODULE DfuProgramProofs --------------------------
(***************************************************************************)
(* The properties of DfuProgram hold for every set of names, every input   *)
(* and every number of options and runs.                                   *)
(***************************************************************************)
EXTENDS DfuProgram, TLAPS

-----------------------------------------------------------------------------
(* Types, by sort: the provers reason about counters and about truth       *)
(* values, not about both at once.                                         *)

Counts ==
    /\ optind \in 0..MaxOptions
    /\ input \in Nat /\ unread \in Nat /\ total \in Nat /\ capacity \in Nat
    /\ runs \in 1..MaxRuns

Flags ==
    /\ path \in BOOLEAN /\ created \in BOOLEAN /\ failed \in BOOLEAN
    /\ handler \in BOOLEAN /\ rts \in BOOLEAN

Words ==
    /\ pc \in {"options", "load", "stdin", "suffix"} \cup PortSteps \cup Endings
    /\ mode \in {"MODE_NONE", "MODE_VERSION", "MODE_LIST", "MODE_UPLOAD", "MODE_DOWNLOAD"}
    /\ speed \in {"valid", "unknown"}
    /\ platform \in {"posix", "windows"} /\ port \in {"open", "closed"}
    /\ settings \in {"user", "qda", "garbage"} /\ saved \in {"user", "qda", "garbage"}
    /\ before \in {"user", "qda", "garbage"} /\ timeout \in {"STD", "ERR"}

Files ==
    /\ name \in Names \cup {""}
    /\ mode \in {"MODE_UPLOAD", "MODE_DOWNLOAD"} => name \in Names
    /\ disk \in [Names -> FileKinds]

\* The four are the type invariant.
LEMMA TypeParts == TypeOK <=> Counts /\ Flags /\ Words /\ Files
  BY DEF TypeOK, OptionTypeOK, PortTypeOK, Counts, Flags, Words, Files

\* The state before the first option is well typed.
LEMMA TypeInit == ASSUME Init PROVE TypeOK
  <1>1. Counts
    <2>1. optind = 0 /\ input = 0 /\ unread = 0 /\ total = 0 /\ capacity = 0 /\ runs = 1
      BY DEF Init, RunInit
    <2>2. QED BY <2>1, ProgramAssumption DEF Counts
  <1>2. Flags BY DEF Init, RunInit, PortInit, Flags
  <1>3. Words BY DEF Init, RunInit, PortInit, Words, PortSteps, Endings
  <1>4. Files BY DEF Init, RunInit, Files, FileKinds
  <1>5. QED BY <1>1, <1>2, <1>3, <1>4, TypeParts

\* A step of the program is one of these.
LEMMA StepCases ==
  ASSUME Next
  PROVE  \/ Option \/ EndOptions
         \/ LoadFile \/ LoadFails \/ LoadStdin \/ MoreStdin \/ CheckStdin
         \/ Open \/ Save \/ InstallHandler \/ CheckSpeed \/ Apply \/ RaiseRts \/ LowerRts
         \/ StartTransfer \/ SessionFails \/ EndTransfer \/ Restore \/ Close
         \/ Timeout \/ Sigint \/ RunAgain \/ UNCHANGED vars
  BY DEF Next, Step, Done

\* Counters.
LEMMA CountsStep == ASSUME Counts, Next PROVE Counts'
  <1>1. CASE Option
    BY <1>1, ProgramAssumption DEF Counts, Option, OptMode, OptFile, OptPath, OptSpeed, OptHelp,
       NextOption, SameButOptions, stdinVars
  <1>2. CASE LoadStdin
    <2>1. PICK i \in 0..MaxInput : input' = i /\ Fread(i, ChunkSize) BY <1>2 DEF LoadStdin
    <2>2. PICK n \in 0..ChunkSize : n <= i /\ unread' = i - n /\ total' = total + n
                                    /\ capacity' = ChunkSize
      BY <2>1 DEF Fread
    <2>3. QED BY <2>1, <2>2, <1>2, ProgramAssumption DEF Counts, LoadStdin, SameButLoad, optionVars
  <1>3. CASE MoreStdin
    <2>1. PICK n \in 0..ChunkSize : n <= unread /\ unread' = unread - n /\ total' = total + n
                                    /\ capacity' = total + ChunkSize
      BY <1>3 DEF MoreStdin, Fread
    <2>2. QED BY <2>1, <1>3, ProgramAssumption DEF Counts, MoreStdin, SameButLoad, optionVars
  <1>4. CASE RunAgain
    <2>1. optind' = 0 /\ input' = 0 /\ unread' = 0 /\ total' = 0 /\ capacity' = 0
          /\ runs < MaxRuns /\ runs' = runs + 1
      BY <1>4 DEF RunAgain
    <2>2. QED BY <2>1, ProgramAssumption DEF Counts
  <1>5. CASE UNCHANGED <<optind, input, unread, total, capacity, runs>>
    BY <1>5 DEF Counts
  <1>6. EndOptions \/ LoadFile \/ LoadFails \/ CheckStdin \/ StartTransfer \/ EndTransfer
           \/ UNCHANGED vars
           => UNCHANGED <<optind, input, unread, total, capacity, runs>>
    BY DEF EndOptions, LoadFile, LoadFails, CheckStdin, StartTransfer, EndTransfer, SameButOptions,
       SameButLoad, optionVars, stdinVars, vars
  <1>7. Open \/ Save \/ InstallHandler \/ CheckSpeed \/ Apply \/ RaiseRts \/ LowerRts
           \/ SessionFails \/ Restore \/ Close \/ Timeout \/ Sigint
           => UNCHANGED <<optind, input, unread, total, capacity, runs>>
    BY DEF Open, Save, InstallHandler, CheckSpeed, Apply, RaiseRts, LowerRts, Pulse,
       SessionFails, Restore, Close, Timeout, Sigint, SameButPort, optionVars, stdinVars
  <1>8. QED BY <1>1, <1>2, <1>3, <1>4, <1>5, <1>6, <1>7, StepCases

\* Truth values.
LEMMA FlagsStep == ASSUME Flags, Next PROVE Flags'
  <1>1. CASE Option \/ EndOptions
    BY <1>1 DEF Flags, Option, OptMode, OptFile, OptPath, OptSpeed, OptHelp, NextOption,
       EndOptions, SameButOptions, optionVars, diskVars, portVars
  <1>2. CASE LoadFile \/ LoadFails \/ LoadStdin \/ MoreStdin \/ CheckStdin
    <2>1. failed' \in BOOLEAN
      BY <1>2 DEF Flags, LoadFile, LoadFails, LoadStdin, MoreStdin, CheckStdin, Fread
    <2>2. UNCHANGED <<path, created, handler, rts>>
      BY <1>2 DEF LoadFile, LoadFails, LoadStdin, MoreStdin, CheckStdin, SameButLoad,
         optionVars, diskVars, portVars
    <2>3. QED BY <2>1, <2>2 DEF Flags
  <1>3. CASE Open \/ Save \/ InstallHandler \/ CheckSpeed \/ Apply
    BY <1>3 DEF Flags, Open, Save, InstallHandler, CheckSpeed, Apply, SameButPort, optionVars,
       diskVars, portVars, OpenPort, SaveSettings, CatchSigint, ApplySettings, OpenFails
  <1>4. CASE RaiseRts \/ LowerRts \/ Timeout \/ SessionFails
    BY <1>4 DEF Flags, RaiseRts, LowerRts, Pulse, Timeout, SessionFails, SameButPort, optionVars,
       diskVars, portVars, SetRts, SetTimeout, SetTimeoutFails
  <1>5. CASE StartTransfer \/ EndTransfer
    BY <1>5 DEF Flags, StartTransfer, EndTransfer, optionVars, diskVars, portVars
  <1>6. CASE Restore \/ Close \/ Sigint
    BY <1>6 DEF Flags, Restore, Close, Sigint, SameButPort, optionVars, diskVars, portVars,
       RestoreSettings, ClosePort, CloseAll
  <1>7. CASE RunAgain
    BY <1>7 DEF Flags, RunAgain, ProcessGone
  <1>8. CASE UNCHANGED vars
    BY <1>8 DEF Flags, vars, optionVars, diskVars, portVars
  <1>9. QED BY <1>1, <1>2, <1>3, <1>4, <1>5, <1>6, <1>7, <1>8, StepCases

\* Words.
LEMMA WordsStep == ASSUME Words, Next PROVE Words'
  <1> USE DEF Goto, PortSteps, Endings
  <1>1. CASE Option
    BY <1>1 DEF Words, Option, OptMode, OptFile, OptPath, OptSpeed, OptHelp, NextOption,
       SameButOptions, portVars
  <1>2. CASE EndOptions
    BY <1>2 DEF Words, EndOptions, AfterOptions, SameButOptions, optionVars, portVars
  <1>3. CASE LoadFile \/ LoadFails \/ LoadStdin \/ MoreStdin \/ CheckStdin
    <2>1. pc' \in {"open", "exit_error", "stdin", "suffix"}
      BY <1>3 DEF LoadFile, LoadFails, LoadStdin, MoreStdin, CheckStdin, Fread
    <2>2. UNCHANGED <<mode, speed, before, portVars>>
      BY <1>3 DEF LoadFile, LoadFails, LoadStdin, MoreStdin, CheckStdin, SameButLoad, optionVars
    <2>3. QED BY <2>1, <2>2 DEF Words, portVars
  <1>4. CASE Open \/ Save \/ InstallHandler \/ CheckSpeed \/ Apply
    BY <1>4 DEF Words, Open, Save, InstallHandler, CheckSpeed, Apply, SameButPort, optionVars,
       portVars, OpenPort, SaveSettings, CatchSigint, ApplySettings, OpenFails
  <1>5. CASE RaiseRts \/ LowerRts \/ Timeout \/ SessionFails
    BY <1>5 DEF Words, RaiseRts, LowerRts, Pulse, Timeout, SessionFails, SameButPort, optionVars,
       portVars, SetRts, SetTimeout, SetTimeoutFails
  <1>6. CASE StartTransfer \/ EndTransfer
    BY <1>6 DEF Words, StartTransfer, EndTransfer, optionVars, portVars
  <1>7. CASE Restore \/ Close \/ Sigint
    BY <1>7 DEF Words, Restore, Close, Sigint, SameButPort, optionVars, portVars,
       RestoreSettings, ClosePort, CloseAll
  <1>8. CASE RunAgain
    BY <1>8 DEF Words, RunAgain, ProcessGone
  <1>9. CASE UNCHANGED vars
    BY <1>9 DEF Words, vars, optionVars, portVars
  <1>10. QED BY <1>1, <1>2, <1>3, <1>4, <1>5, <1>6, <1>7, <1>8, <1>9, StepCases

\* Only an option changes what the program is to do, and with which file.
LEMMA SameFiles ==
  ASSUME Next, ~Option, ~RunAgain PROVE UNCHANGED <<mode, name>>
  BY StepCases DEF EndOptions, LoadFile, LoadFails, LoadStdin, MoreStdin, CheckStdin, Open, Save,
     InstallHandler, CheckSpeed, Apply, RaiseRts, LowerRts, Pulse, Timeout, SessionFails,
     StartTransfer, EndTransfer, Restore, Close, Sigint, SameButOptions, SameButLoad, SameButPort,
     optionVars, vars

\* The other steps leave the files alone.
LEMMA SameDisk ==
  ASSUME Next, ~StartTransfer, ~EndTransfer PROVE UNCHANGED disk
  BY StepCases DEF Option, OptMode, OptFile, OptPath, OptSpeed, OptHelp, NextOption, EndOptions,
     LoadFile, LoadFails, LoadStdin, MoreStdin, CheckStdin, Open, Save,
     InstallHandler, CheckSpeed, Apply, RaiseRts, LowerRts, Pulse, Timeout, SessionFails,
     Restore, Close, Sigint, RunAgain, SameButOptions, SameButLoad, SameButPort, diskVars, vars

\* Names and files keep their types.
LEMMA FilesStep == ASSUME Files, Next PROVE Files'
  <1>1. name' \in Names \cup {""} /\ (mode' \in {"MODE_UPLOAD", "MODE_DOWNLOAD"} => name' \in Names)
    <2>1. CASE Option
      BY <2>1 DEF Files, Option, OptMode, OptFile, OptPath, OptSpeed, OptHelp, NextOption
    <2>2. CASE RunAgain BY <2>2 DEF RunAgain
    <2>3. CASE ~Option /\ ~RunAgain BY <2>3, SameFiles DEF Files
    <2>4. QED BY <2>1, <2>2, <2>3
  <1>2. disk' \in [Names -> FileKinds]
    <2>1. CASE StartTransfer BY <2>1 DEF Files, StartTransfer, diskVars, FileKinds
    <2>2. CASE EndTransfer BY <2>2 DEF Files, EndTransfer, FileKinds
    <2>3. CASE ~StartTransfer /\ ~EndTransfer BY <2>3, SameDisk DEF Files
    <2>4. QED BY <2>1, <2>2, <2>3
  <1>3. QED BY <1>1, <1>2 DEF Files

\* A stuttering step keeps the types.
LEMMA TypeStutter == ASSUME TypeOK, UNCHANGED vars PROVE Counts' /\ Flags' /\ Words' /\ Files'
  <1>1. Counts' BY TypeParts DEF Counts, vars, optionVars, stdinVars
  <1>2. Flags' BY TypeParts DEF Flags, vars, optionVars, diskVars, portVars
  <1>3. Words' BY TypeParts DEF Words, vars, optionVars, portVars
  <1>4. Files' BY TypeParts DEF Files, vars, optionVars, diskVars
  <1>5. QED BY <1>1, <1>2, <1>3, <1>4

\* Every counter, buffer and name stays what it is declared to be, for any command
\* line, any input and any way in which the calls on the port fail.
THEOREM TypeCorrect == Spec => []TypeOK
  <1>1. Init => TypeOK BY TypeInit
  <1>2. TypeOK /\ [Next]_vars => TypeOK'
    <2>1. ASSUME TypeOK, Next PROVE Counts' /\ Flags' /\ Words' /\ Files'
      BY <2>1, TypeParts, CountsStep, FlagsStep, WordsStep, FilesStep
    <2>2. (Counts' /\ Flags' /\ Words' /\ Files') => TypeOK'
      BY DEF TypeOK, OptionTypeOK, PortTypeOK, Counts, Flags, Words, Files
    <2>3. QED BY <2>1, <2>2, TypeStutter
  <1>3. QED BY <1>1, <1>2, PTL DEF Spec

-----------------------------------------------------------------------------
(* The port.  SettingsRestored is not inductive: what SIGINT puts back at  *)
(* each point of serial_io_open depends on what has been saved by then,    *)
(* and whether the handler is there on what has been changed.              *)

EarlySteps   == {"options", "load", "stdin", "suffix", "open", "save"}
SavedSteps   == {"speed", "apply", "close"}
ChangedSteps == {"raise", "lower", "session", "transfer", "restore"}

PortInv ==
    /\ pc \in EarlySteps => settings = before /\ ~handler
    /\ pc = "handler" => settings = before /\ saved = before /\ ~handler
    /\ pc \in SavedSteps => settings = before /\ saved = before
    /\ pc \in ChangedSteps => settings = "qda" /\ saved = before
    /\ platform = "posix" /\ pc \in SavedSteps \cup ChangedSteps => handler /\ port = "open"
    /\ platform = "posix" /\ pc \in {"save", "handler"} => port = "open"
    /\ InSession => ~rts
    /\ SettingsRestored

\* It holds before the first option.
LEMMA PortInvInit == ASSUME Init PROVE PortInv
  BY DEF Init, RunInit, PortInit, PortInv, SettingsRestored, InSession, EarlySteps, SavedSteps,
     ChangedSteps

\* A step that neither opens, uses nor closes the port, and stays before its opening or
\* ends the run.
LEMMA PortInvEarly ==
  ASSUME PortInv, pc \in EarlySteps \ {"save"},
         pc' \in (EarlySteps \ {"save"}) \cup {"exit_ok", "exit_usage", "exit_error"},
         UNCHANGED <<before, portVars>>
  PROVE  PortInv'
  BY DEF PortInv, SettingsRestored, InSession, EarlySteps, SavedSteps, ChangedSteps, portVars

\* The options and the load are such steps.
LEMMA PortInvLoad ==
  ASSUME PortInv, Words,
         Option \/ EndOptions \/ LoadFile \/ LoadFails \/ LoadStdin \/ MoreStdin \/ CheckStdin
  PROVE  PortInv'
  <1> USE DEF Goto, EarlySteps
  <1>1. CASE Option
    BY <1>1, PortInvEarly DEF Option, OptMode, OptFile, OptPath, OptSpeed, OptHelp, NextOption,
       SameButOptions
  <1>2. CASE EndOptions
    BY <1>2, PortInvEarly DEF Words, EndOptions, AfterOptions, SameButOptions
  <1>3. CASE LoadFile \/ LoadFails \/ CheckStdin
    BY <1>3, PortInvEarly DEF LoadFile, LoadFails, CheckStdin, SameButLoad
  <1>4. CASE LoadStdin \/ MoreStdin
    BY <1>4, PortInvEarly DEF LoadStdin, MoreStdin, SameButLoad, Fread
  <1>5. QED BY <1>1, <1>2, <1>3, <1>4

\* serial_io_open: what is saved is what was found, and it is saved, and the handler
\* there, before anything is changed.
LEMMA PortInvOpen ==
  ASSUME PortInv, Words, Open \/ Save \/ InstallHandler \/ CheckSpeed \/ Apply
  PROVE  PortInv'
  <1> USE DEF Goto, PortInv, SettingsRestored, InSession, EarlySteps, SavedSteps, ChangedSteps,
          SameButPort
  <1>1. CASE Open BY <1>1 DEF Open, OpenPort, OpenFails
  <1>2. CASE Save BY <1>2 DEF Save, SaveSettings, OpenFails
  <1>3. CASE InstallHandler BY <1>3 DEF InstallHandler, CatchSigint
  <1>4. CASE CheckSpeed BY <1>4 DEF CheckSpeed, OpenFails, portVars
  <1>5. CASE Apply BY <1>5 DEF Apply, ApplySettings, OpenFails
  <1>6. QED BY <1>1, <1>2, <1>3, <1>4, <1>5

\* The RTS pulse and the session.
LEMMA PortInvSession ==
  ASSUME PortInv, Words,
         RaiseRts \/ LowerRts \/ Timeout \/ SessionFails \/ StartTransfer \/ EndTransfer
  PROVE  PortInv'
  <1> USE DEF Goto, PortInv, SettingsRestored, InSession, EarlySteps, SavedSteps, ChangedSteps,
          SameButPort
  <1>1. CASE RaiseRts \/ LowerRts BY <1>1 DEF RaiseRts, LowerRts, Pulse, SetRts, portVars
  <1>2. CASE Timeout BY <1>2 DEF Timeout, SetTimeout, SetTimeoutFails
  <1>3. CASE SessionFails BY <1>3 DEF SessionFails, portVars
  <1>4. CASE StartTransfer \/ EndTransfer BY <1>4 DEF StartTransfer, EndTransfer, portVars
  <1>5. QED BY <1>1, <1>2, <1>3, <1>4

\* serial_io_close, called by main or by the handler, and the death without a handler.
LEMMA PortInvClose ==
  ASSUME PortInv, Words, Restore \/ Close \/ Sigint \/ RunAgain
  PROVE  PortInv'
  <1> USE DEF Goto, PortInv, SettingsRestored, InSession, EarlySteps, SavedSteps, ChangedSteps,
          SameButPort
  <1>1. CASE Restore BY <1>1 DEF Restore, RestoreSettings, portVars
  <1>2. CASE Close BY <1>2 DEF Close, ClosePort
  <1>3. CASE Sigint
    BY <1>3 DEF Sigint, CloseAll, portVars, Words, PortSteps, Endings, Ended
  <1>4. CASE RunAgain BY <1>4 DEF RunAgain, ProcessGone
  <1>5. QED BY <1>1, <1>2, <1>3, <1>4

\* Every step keeps the invariant.
LEMMA PortInvStep == ASSUME PortInv, Words, [Next]_vars PROVE PortInv'
  <1>1. CASE UNCHANGED vars
    BY <1>1 DEF vars, portVars, PortInv, SettingsRestored, InSession
  <1>2. CASE Next
    BY <1>1, <1>2, StepCases, PortInvLoad, PortInvOpen, PortInvSession, PortInvClose
  <1>3. QED BY <1>1, <1>2

\* A run of the program that ends well, or by SIGINT between any two of its system
\* calls, leaves the port as the user had it (see SettingsRestored for the exceptions).
THEOREM SettingsAreRestored == Spec => []SettingsRestored
  <1>1. Init => PortInv BY PortInvInit
  <1>2. TypeOK /\ PortInv /\ [Next]_vars => PortInv' BY PortInvStep, TypeParts
  <1>3. PortInv => SettingsRestored BY DEF PortInv
  <1>4. QED BY <1>1, <1>2, <1>3, TypeCorrect, PTL DEF Spec

\* The session finds the port ready, and SIGINT would put the user's settings back.
THEOREM SessionIsReady == Spec => []SessionReady
  <1>1. Init => PortInv BY PortInvInit
  <1>2. TypeOK /\ PortInv /\ [Next]_vars => PortInv' BY PortInvStep, TypeParts
  <1>3. PortInv => SessionReady
    BY DEF PortInv, SessionReady, InSession, SavedSteps, ChangedSteps
  <1>4. QED BY <1>1, <1>2, <1>3, TypeCorrect, PTL DEF Spec
-----------------------------------------------------------------------------
(* The firmware.  That total counts all of the input is known only at the  *)
(* end of the loop; inside it, what is read and what is not are the input. *)

ReadSoFar ==
    /\ pc \in {"options", "load"} => total = 0
    /\ pc = "stdin" => unread + total = input

FirmwareInv ==
    /\ total <= capacity
    /\ ReadSoFar
    /\ pc = "stdin" => ~failed
    /\ pc = "suffix" /\ ~failed => total = input
    /\ pc \in PortSteps /\ mode = "MODE_DOWNLOAD" /\ name = "-" /\ ~failed => total = input

\* Nothing is read before the first option.
LEMMA FirmwareInit == ASSUME Init PROVE FirmwareInv
  <1>1. total = 0 /\ capacity = 0 /\ pc = "options" BY DEF Init, RunInit
  <1>2. total <= capacity BY <1>1
  <1>3. QED BY <1>1, <1>2 DEF FirmwareInv, ReadSoFar, PortSteps

\* Once standard input is read, nothing touches what was read.
LEMMA SameStdin ==
  ASSUME Next, ~LoadStdin, ~MoreStdin, ~RunAgain PROVE UNCHANGED stdinVars
  BY StepCases DEF Option, OptMode, OptFile, OptPath, OptSpeed, OptHelp, NextOption, EndOptions,
     LoadFile, LoadFails, CheckStdin, Open, Save, InstallHandler, CheckSpeed, Apply, RaiseRts, LowerRts,
     Pulse, Timeout, SessionFails, StartTransfer, EndTransfer, Restore, Close, Sigint, SameButOptions,
     SameButLoad, SameButPort, stdinVars, vars

\* A failure is not forgotten before the next run.
LEMMA FailedStays ==
  ASSUME Next, ~LoadStdin, ~MoreStdin, ~RunAgain, failed PROVE failed'
  BY StepCases DEF Option, OptMode, OptFile, OptPath, OptSpeed, OptHelp, NextOption, EndOptions,
     LoadFile, LoadFails, CheckStdin, Open, Save, InstallHandler, CheckSpeed, Apply, RaiseRts, LowerRts,
     Pulse, Timeout, SessionFails, StartTransfer, EndTransfer, Restore, Close, Sigint, SameButOptions,
     SameButLoad, SameButPort, vars

\* How a step that reads nothing may move the program on.
LEMMA StepMoves ==
  ASSUME Next, Words, ~LoadStdin, ~MoreStdin, ~RunAgain
  PROVE  /\ pc' \in {"options", "load"} => pc \in {"options", "load"}
         /\ pc' \in {"stdin", "suffix"} => pc' = pc /\ failed' = failed
         /\ pc' \in PortSteps => \/ pc \in PortSteps /\ UNCHANGED <<mode, name>>
                                 \/ pc = "suffix"
                                 \/ pc' = "open" /\ (mode' # "MODE_DOWNLOAD" \/ name' # "-")
  <1> USE DEF Goto, PortSteps
  <1>1. CASE Option
    BY <1>1 DEF Option, OptMode, OptFile, OptPath, OptSpeed, OptHelp, NextOption
  <1>2. CASE EndOptions BY <1>2 DEF EndOptions, AfterOptions, optionVars, Words
  <1>3. CASE LoadFile \/ LoadFails \/ CheckStdin
    BY <1>3 DEF LoadFile, LoadFails, CheckStdin, SameButLoad, optionVars
  <1>4. CASE Open \/ Save \/ InstallHandler \/ CheckSpeed \/ Apply \/ RaiseRts \/ LowerRts
    BY <1>4 DEF Open, Save, InstallHandler, CheckSpeed, Apply, RaiseRts, LowerRts, Pulse,
       SameButPort, optionVars
  <1>5. CASE Timeout \/ SessionFails \/ Restore \/ Close
    BY <1>5 DEF Timeout, SessionFails, Restore, Close, InSession, SameButPort, optionVars
  <1>6. CASE StartTransfer \/ EndTransfer BY <1>6 DEF StartTransfer, EndTransfer, optionVars
  <1>7. CASE Sigint BY <1>7 DEF Sigint
  <1>8. CASE UNCHANGED vars BY <1>8 DEF vars, optionVars
  <1>9. QED BY <1>1, <1>2, <1>3, <1>4, <1>5, <1>6, <1>7, <1>8, StepCases

\* One fread: what it counts it has stored, and when it is short, and did not fail,
\* the input is at its end.
LEMMA FreadStep ==
  ASSUME NEW left \in Nat, NEW size \in Nat, Counts, total + ChunkSize <= size,
         input' \in Nat, left + total = input', Fread(left, size)
  PROVE  /\ total' <= capacity'
         /\ pc' = "stdin" => ~failed' /\ unread' + total' = input'
         /\ pc' = "suffix" /\ ~failed' => total' = input'
         /\ pc' \in {"stdin", "suffix"}
  <1>1. PICK n \in 0..ChunkSize :
           /\ n <= left /\ failed' = (n < ChunkSize /\ n < left)
           /\ unread' = left - n /\ total' = total + n /\ capacity' = size
           /\ pc' = IF n = ChunkSize THEN "stdin" ELSE "suffix"
    BY DEF Fread, Goto
  <1>2. total \in Nat /\ ChunkSize \in Nat BY ProgramAssumption DEF Counts
  <1>3. total + n <= size BY <1>2
  <1>4. (left - n) + (total + n) = input' BY <1>2, <1>1
  <1>5. CASE n = ChunkSize
    <2>1. ~(n < ChunkSize) BY <1>5, <1>2
    <2>2. ~failed' BY <2>1, <1>1
    <2>3. pc' = "stdin" BY <1>1, <1>5
    <2>4. total' <= capacity' BY <1>1, <1>3
    <2>5. unread' + total' = input' BY <1>1, <1>4
    <2>6. QED BY <2>2, <2>3, <2>4, <2>5
  <1>6. CASE n # ChunkSize
    <2>1. n < ChunkSize BY <1>6, <1>2
    <2>2. pc' = "suffix" BY <1>1, <1>6
    <2>3. total' <= capacity' BY <1>1, <1>3
    <2>4. ~failed' => ~(n < left) BY <2>1, <1>1
    <2>5. ~(n < left) => total + n = input' BY <1>2, <1>1
    <2>6. QED BY <2>2, <2>3, <2>4, <2>5, <1>1
  <1>7. QED BY <1>5, <1>6

\* The first chunk, and the others.
LEMMA FirmwareRead ==
  ASSUME FirmwareInv, Counts, LoadStdin \/ MoreStdin PROVE FirmwareInv'
  <1>1. /\ total' <= capacity'
        /\ pc' = "stdin" => ~failed' /\ unread' + total' = input'
        /\ pc' = "suffix" /\ ~failed' => total' = input'
        /\ pc' \in {"stdin", "suffix"}
    <2>1. CASE LoadStdin
      <3>1. PICK i \in 0..MaxInput : input' = i /\ Fread(i, ChunkSize) BY <2>1 DEF LoadStdin
      <3>2. total = 0 BY <2>1 DEF LoadStdin, FirmwareInv, ReadSoFar
      <3>3. i \in Nat /\ ChunkSize \in Nat BY ProgramAssumption
      <3>4. total + ChunkSize <= ChunkSize /\ i + total = i BY <3>2, <3>3
      <3>5. QED BY <3>1, <3>3, <3>4, FreadStep
    <2>2. CASE MoreStdin
      <3>1. Fread(unread, total + ChunkSize) /\ input' = input BY <2>2 DEF MoreStdin
      <3>2. unread + total = input BY <2>2 DEF MoreStdin, FirmwareInv, ReadSoFar
      <3>3. /\ unread \in Nat /\ input \in Nat /\ total + ChunkSize \in Nat
            /\ total + ChunkSize <= total + ChunkSize
        BY ProgramAssumption DEF Counts
      <3>4. QED BY <3>1, <3>2, <3>3, FreadStep
    <2>3. QED BY <2>1, <2>2
  <1>2. QED BY <1>1 DEF FirmwareInv, ReadSoFar, PortSteps

\* Every other step.
LEMMA FirmwareKept ==
  ASSUME FirmwareInv, Words, Flags, Flags', Next, ~LoadStdin, ~MoreStdin, ~RunAgain
  PROVE  FirmwareInv'
  <1>1. UNCHANGED <<input, unread, total, capacity>> BY SameStdin DEF stdinVars
  <1>2. failed => failed' BY FailedStays
  <1>3. total' <= capacity' BY <1>1 DEF FirmwareInv
  <1>4. ReadSoFar'
    BY <1>1, StepMoves DEF FirmwareInv, ReadSoFar
  <1>5. pc' = "stdin" => ~failed' BY StepMoves DEF FirmwareInv
  <1>6. pc' = "suffix" /\ ~failed' => total' = input' BY <1>1, StepMoves DEF FirmwareInv
  <1>7. ASSUME pc' \in PortSteps, mode' = "MODE_DOWNLOAD", name' = "-", ~failed'
        PROVE  total' = input'
    BY <1>1, <1>2, <1>7, StepMoves DEF FirmwareInv
  <1>8. QED BY <1>3, <1>4, <1>5, <1>6, <1>7 DEF FirmwareInv

\* Every step keeps the invariant.
LEMMA FirmwareStep ==
  ASSUME FirmwareInv, Counts, Words, Flags, Flags', [Next]_vars PROVE FirmwareInv'
  <1>1. CASE UNCHANGED vars
    BY <1>1 DEF vars, optionVars, stdinVars, FirmwareInv, ReadSoFar
  <1>2. CASE RunAgain
    <2>1. total' = 0 /\ capacity' = 0 /\ pc' = "options" BY <1>2 DEF RunAgain
    <2>2. total' <= capacity' BY <2>1
    <2>3. QED BY <2>1, <2>2 DEF FirmwareInv, ReadSoFar, PortSteps
  <1>3. CASE Next /\ ~RunAgain BY <1>3, FirmwareRead, FirmwareKept
  <1>4. QED BY <1>1, <1>2, <1>3

\* A firmware from standard input is whole, and has been stored in its buffer, for
\* every length of the input and every size of a chunk, unless a call failed.
THEOREM FirmwareIsWhole == Spec => []FirmwareWhole
  <1>1. Init => FirmwareInv BY FirmwareInit
  <1>2. TypeOK /\ TypeOK' /\ FirmwareInv /\ [Next]_vars => FirmwareInv'
    <2>1. TypeOK' => Flags' BY DEF TypeOK, OptionTypeOK, PortTypeOK, Flags
    <2>2. QED BY <2>1, FirmwareStep, TypeParts
  <1>3. FirmwareInv => FirmwareWhole BY DEF FirmwareInv, FirmwareWhole
  <1>4. QED BY <1>1, <1>2, <1>3, TypeCorrect, PTL DEF Spec

-----------------------------------------------------------------------------
(* The files.  DetachedToLoad looks at the name that was loaded, and so    *)
(* needs to know that only an upload changes a file.                       *)

FileInv ==
    /\ created => mode = "MODE_UPLOAD"
    /\ pc = "options" => ~created
    /\ pc \in {"stdin", "suffix"} => name = "-"
    /\ created /\ pc = "transfer" => disk[name] = "partial"
    /\ DetachedToLoad

\* There is nothing to keep before the first option.
LEMMA FileInit == ASSUME Init PROVE FileInv
  BY DEF Init, RunInit, FileInv, DetachedToLoad, PortSteps

\* A step on the port, which leaves the mode, the name and the files alone.
LEMMA FilePort ==
  ASSUME FileInv, UNCHANGED <<mode, name, disk, created>>,
         \/ pc' \notin PortSteps \cup {"options", "stdin", "suffix"}
         \/ pc \in PortSteps /\ pc' \in PortSteps /\ (pc' = "transfer" => pc = "transfer")
         \/ pc' = pc
  PROVE  FileInv'
  BY DEF FileInv, DetachedToLoad, Loadable, PortSteps

\* The options and the load: what is not loadable is not downloaded.
LEMMA FileLoad ==
  ASSUME FileInv, Words,
         Option \/ EndOptions \/ LoadFile \/ LoadFails \/ LoadStdin \/ MoreStdin \/ CheckStdin
  PROVE  FileInv'
  <1> USE DEF Goto, FileInv, DetachedToLoad, Loadable, PortSteps
  <1>1. CASE Option
    BY <1>1 DEF Option, OptMode, OptFile, OptPath, OptSpeed, OptHelp, NextOption, SameButOptions,
       diskVars
  <1>2. CASE EndOptions
    BY <1>2 DEF Words, EndOptions, AfterOptions, SameButOptions, optionVars, diskVars
  <1>3. CASE LoadFile BY <1>3 DEF LoadFile, SameButLoad, optionVars, diskVars
  <1>4. CASE LoadFails \/ CheckStdin
    BY <1>4 DEF LoadFails, CheckStdin, SameButLoad, optionVars, diskVars
  <1>5. CASE LoadStdin \/ MoreStdin
    <2>1. pc' \in {"stdin", "suffix"} BY <1>5 DEF LoadStdin, MoreStdin, Fread
    <2>2. UNCHANGED <<mode, name, disk, created>>
      BY <1>5 DEF LoadStdin, MoreStdin, SameButLoad, optionVars, diskVars
    <2>3. name = "-" BY <1>5 DEF LoadStdin, MoreStdin
    <2>4. QED BY <2>1, <2>2, <2>3
  <1>6. QED BY <1>1, <1>2, <1>3, <1>4, <1>5

\* An upload creates its file, writes it, and lets go of it.
LEMMA FileTransfer ==
  ASSUME FileInv, Files, Flags, StartTransfer \/ EndTransfer PROVE FileInv'
  <1> USE DEF Goto, FileInv, DetachedToLoad, Loadable, PortSteps
  <1>1. CASE StartTransfer
    <2>1. UNCHANGED <<mode, name>> BY <1>1 DEF StartTransfer, optionVars
    <2>2. CASE disk' = [disk EXCEPT ![name] = "partial"] /\ created' = TRUE
               /\ mode = "MODE_UPLOAD" /\ pc' = "transfer"
      BY <2>1, <2>2 DEF Files
    <2>3. CASE UNCHANGED diskVars /\ pc = "session"
               /\ ((mode = "MODE_DOWNLOAD" /\ pc' = "transfer") \/ pc' = "exit_error")
      BY <2>1, <2>3 DEF diskVars
    <2>4. QED BY <1>1, <2>2, <2>3 DEF StartTransfer
  <1>2. CASE EndTransfer
    BY <1>2 DEF Files, Flags, EndTransfer, optionVars
  <1>3. QED BY <1>1, <1>2

\* Every step keeps the invariant.
LEMMA FileStep ==
  ASSUME FileInv, Words, Files, Flags, [Next]_vars PROVE FileInv'
  <1> USE DEF Goto, PortSteps
  <1>1. CASE UNCHANGED vars BY <1>1, FilePort DEF vars, optionVars, diskVars
  <1>2. CASE Open \/ Save \/ InstallHandler \/ CheckSpeed \/ Apply
    BY <1>2, FilePort DEF Open, Save, InstallHandler, CheckSpeed, Apply, SameButPort, optionVars,
       diskVars
  <1>3. CASE RaiseRts \/ LowerRts
    BY <1>3, FilePort DEF RaiseRts, LowerRts, Pulse, SameButPort, optionVars, diskVars
  <1>4. CASE SessionFails \/ Restore \/ Close \/ Sigint
    BY <1>4, FilePort DEF SessionFails, Restore, Close, Sigint, SameButPort, optionVars, diskVars
  <1>5. CASE Timeout BY <1>5, FilePort DEF Timeout, SameButPort, optionVars, diskVars
  <1>6. CASE RunAgain BY <1>6 DEF RunAgain, FileInv, DetachedToLoad
  <1>7. CASE Next
    BY <1>1, <1>2, <1>3, <1>4, <1>5, <1>6, <1>7, StepCases, FileLoad, FileTransfer
  <1>8. QED BY <1>1, <1>7

\* The invariant holds throughout.
LEMMA FileInvariant == Spec => []FileInv
  <1>1. Init => FileInv BY FileInit
  <1>2. TypeOK /\ FileInv /\ [Next]_vars => FileInv' BY FileStep, TypeParts
  <1>3. QED BY <1>1, <1>2, TypeCorrect, PTL DEF Spec

\* The device is not detached for a file that is missing or that is refused, whatever
\* uploads came before.
THEOREM DetachedOnlyToLoad == Spec => []DetachedToLoad
  <1>1. FileInv => DetachedToLoad BY DEF FileInv
  <1>2. QED BY <1>1, FileInvariant, PTL

\* No run, however it ends, changes a file that it has not created.
THEOREM ExistingFilesAreKept == Spec => ExistingFileKept
  <1>1. ASSUME Files, FileInv, Next, NEW n \in Names, disk'[n] # disk[n]
        PROVE  disk[n] = "absent" \/ (created /\ n = name /\ disk[n] = "partial")
    <2>1. CASE StartTransfer
      BY <1>1, <2>1 DEF Files, StartTransfer, MayCreate, diskVars
    <2>2. CASE EndTransfer BY <1>1, <2>2 DEF Files, FileInv, EndTransfer
    <2>3. CASE ~StartTransfer /\ ~EndTransfer BY <1>1, <2>3, SameDisk
    <2>4. QED BY <2>1, <2>2, <2>3
  <1>2. TypeOK /\ FileInv /\ [Next]_vars =>
          [\A n \in Names : disk'[n] # disk[n] =>
               disk[n] = "absent" \/ (created /\ n = name /\ disk[n] = "partial")]_vars
    BY <1>1, TypeParts
  <1>3. QED BY <1>2, FileInvariant, TypeCorrect, PTL DEF Spec, ExistingFileKept
=============================================================================
