----------------------------- MODULE SerialPort -----------------------------
(***************************************************************************)
(* serial_io.c and serial_io_windows.c: opening the port, the RTS pulse    *)
(* that detaches the device, the timeout of a read, and closing.  The      *)
(* system calls of a function are steps of their own, because SIGINT may   *)
(* come between any two of them; each may fail.  The settings of a port    *)
(* outlive the program.                                                    *)
(***************************************************************************)

VARIABLES
    platform,   \* which of the two files is built in
    port,       \* serial_handle is "open" or "closed"
    settings,   \* of the port: "user" as found, "qda" for XMODEM, "garbage" else
    saved,      \* tio_initial; "garbage" until tcgetattr has filled it in
    handler,    \* _signal_handler is installed for SIGINT
    rts,        \* the line is asserted
    timeout     \* of a read: TIMEOUT_STD or TIMEOUT_ERR

portVars == <<platform, port, settings, saved, handler, rts, timeout>>

PortInit ==
    /\ platform \in {"posix", "windows"}
    /\ port = "closed" /\ settings = "user" /\ saved = "garbage"
    /\ handler = FALSE /\ rts = FALSE /\ timeout = "STD"

\* open or CreateFile; opening a port may assert RTS.  isatty is part of the step.
OpenPort ==
    /\ port' = "open"
    /\ rts' \in BOOLEAN
    /\ UNCHANGED <<platform, settings, saved, handler, timeout>>

SaveSettings ==
    /\ saved' = settings
    /\ UNCHANGED <<platform, port, settings, handler, rts, timeout>>

\* Windows has no handler.
CatchSigint ==
    /\ handler' = (platform = "posix")
    /\ UNCHANGED <<platform, port, settings, saved, rts, timeout>>

\* tcsetattr or SetCommState, with VTIME set to 3 s.
ApplySettings ==
    /\ settings' = "qda" /\ timeout' = "STD"
    /\ UNCHANGED <<platform, port, saved, handler, rts>>

\* What an open that fails does to the port.  After an unknown speed, and on POSIX
\* always, the handle is left to the exit; Windows closes it otherwise.
OpenFails(closes) ==
    /\ port' = IF closes /\ platform = "windows" THEN "closed" ELSE port
    /\ UNCHANGED <<platform, settings, saved, handler, rts, timeout>>

\* The two ioctls of serial_detach, 100 ms apart.
SetRts(on) == rts' = on /\ UNCHANGED <<platform, port, settings, saved, handler, timeout>>

\* xmodem_set_timeout, whose result xmodem.c ignores.  On POSIX it reads the port's
\* settings and writes them back; when it fails on Windows it closes the handle.
SetTimeout(t) ==
    /\ port = "open"
    /\ timeout' = t
    /\ UNCHANGED <<platform, port, settings, saved, handler, rts>>

SetTimeoutFails ==
    /\ port = "open"
    /\ port' = IF platform = "windows" THEN "closed" ELSE "open"
    /\ UNCHANGED <<platform, settings, saved, handler, rts, timeout>>

\* serial_io_close: the saved settings, then close, unless the settings fail.
RestoreSettings ==
    /\ port = "open"
    /\ settings' = saved
    /\ UNCHANGED <<platform, port, saved, handler, rts, timeout>>

ClosePort == port' = "closed" /\ UNCHANGED <<platform, settings, saved, handler, rts, timeout>>

\* Mutant of CloseAll: the handler closes the port as it is.
CloseOnly == ClosePort

\* The two together, as the handler calls them: SIGINT is blocked while it runs.
CloseAll ==
    /\ port' = "closed"
    /\ settings' = IF port = "open" THEN saved ELSE settings
    /\ UNCHANGED <<platform, saved, handler, rts, timeout>>

\* The process is gone, and its handles and its handler with it.
ProcessGone ==
    /\ port' = "closed" /\ saved' = "garbage" /\ handler' = FALSE
    /\ UNCHANGED <<platform, settings, rts, timeout>>

PortTypeOK ==
    /\ platform \in {"posix", "windows"} /\ port \in {"open", "closed"}
    /\ settings \in {"user", "qda", "garbage"} /\ saved \in {"user", "qda", "garbage"}
    /\ handler \in BOOLEAN /\ rts \in BOOLEAN /\ timeout \in {"STD", "ERR"}
=============================================================================
