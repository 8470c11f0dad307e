# A TLA+ model of dfu-util-qda

`dfu-util-qda` updates the firmware of a Quark microcontroller over a serial
line.  It is dfu-util with USB replaced by QDA, "Quark DFU Adaptation": every
DFU request is a QDA message, and every QDA message is sent as one XMODEM-CRC
transfer.  The program is sequential and single-threaded.  What is hard about it
is the other end: bytes are lost and changed, both ends time out after the same
3 seconds, a call may fail after the device carried it out, and one static buffer
holds both the request and the answer.

All paths below are relative to the repository (in `PROJECT.json` they start with
`src/`).  The modelled program is the one the build makes, with `USE_QDA`.

## 1. Inventory

| Part | Source | State | Operations |
|---|---|---|---|
| XMODEM | `src/qda/xmodem.c` | the packet buffer; per call: packet number, `retransmit`, or `exp_seq_no`, `nak`, `err_cnt`, `data_cnt`, `is_first_pkt` | `xmodem_transmit_package`, `xmodem_receive_package`, `crc_xmodem` |
| QDA | `src/qda/qda.c`, `qda_packets.h`, `src/dfu_util_qda.c` | `qda_buf`, static and shared by all calls | detach, ten calls that exchange a request for an answer |
| DFU transfers | `src/dfu_load.c` | `bytes_sent`, `transaction`, the last status | `dfuload_do_dnload`, `dfuload_do_upload` |
| session | `src/main.c` | `transfer_size`, `status` | from the detach to the exit |
| options | `src/main.c` | `mode`, the file's name, the port's path and speed | one `case` per option |
| the device | not in the repository (`src/usb_dfu.h` names its states) | `bState`, what it has of a download, its memory | the requests |
| serial port | `src/qda/serial_io.c`, `serial_io_windows.c` | the handle, `tio_initial`, the read's timeout, the SIGINT handler; the port's own settings and RTS outlive the program | `serial_io_open`, `serial_io_close`, `serial_detach`, `xmodem_getc`, `xmodem_putc`, `xmodem_set_timeout`, `_signal_handler` |
| DFU file | `src/dfu_file.c` | the firmware, its sizes, the fields of its suffix and prefix | `dfu_load_file`, `dfu_store_file`, `crc32_byte` |

How they interact: `main` and `dfu_load.c` make one call of `qda.c` at a time,
through the macros at the end of `qda.h` that stand for dfu-util's and libusb's
functions.  `qda.c` writes a request in `qda_buf`, sends it with the `send` callback
(`xmodem_transmit_package`), receives the answer in the same buffer with `receive`
(`xmodem_receive_package`), and looks at the type it finds there.  XMODEM calls
`xmodem_putc`, `xmodem_getc` and `xmodem_set_timeout` of the serial port.  There are no
threads and no events; the only asynchronous thing is SIGINT, whose handler restores
the port.

What is hard, and what makes each part correct:

- **XMODEM.** Loss and change of bytes, duplicates, retries, and two timeouts of
  equal length, so that an answer crosses the timeout of the end that waits for it.
  Blocks must be delivered in order and once; the two ends should agree on the
  outcome; every loop must end; one disturbance should not fail a transfer.
- **One package after the other.** Nothing flushes the line between two packages,
  and a message carries no number: what a retry, a failed call or a run ended by SIGINT
  left on the line or made the device do meets the next call.  An accepted answer must
  be the one to this call, and a request must never be made of two.
- **QDA.** `receive`'s result is ignored by all calls.  An answer must be told from the
  request left in the buffer, and from the answer to an earlier call.  A call that
  fails may have been carried out.
- **DFU.** The two ends' state machines must stay in step through errors: nothing of
  an old download in a new one, no completion of a partial download, an upload that
  is the memory and nothing else, no request that the device must refuse, no endless
  loop, and an exit status that tells what happened.
- **The program around it.** SIGINT between any two system calls, and each of them
  failing: the user's port settings must come back, a file that exists must not be
  overwritten, a firmware from standard input must be whole at every size, and a device
  should not be taken out of its work for a file that cannot be loaded.
- **Integrity.** Two CRCs, one by a loop and one by a table, and a suffix whose
  length field is believed once its CRC is right.

The hazards, each at its line, are in `PROJECT.json`.

## 2. Modules

```
 DfuProgram --EXTENDS--> SerialPort          main.c around the session; the port
     |  its session, cut down to how it ends, is
 DfuSession --EXTENDS--> DfuDevice           main.c, dfu_load.c; the device
     |  each call is a RemoteCall
 RemoteCall  <--implements-- QdaExchange     qda.c over its shared buffer
                                |  each message is a PackageDelivery
 PackageDelivery <--implements-- XmodemTransfer
                                    = XmodemTransmit + XmodemReceive + the line

 XmodemDialogue = two XmodemTransmit + two XmodemReceive + a line that is kept

 Integrity --EXTENDS--> XmodemCrc, DfuFile --EXTEND--> Binary   the bytes of packets and files
```

The system is modelled in layers, and two small abstract specifications join the
three lower ones.  `XmodemTransfer` is shown to implement `PackageDelivery` (on a timely
line); the outcomes of a message in `QdaExchange` are those that `PackageDelivery` leaves:
all of it, a prefix of it, and a sender that may fail although the receiver got
it all.  `QdaExchange` is shown to implement `RemoteCall`; the outcomes of a call
in `DfuSession` are those of `RemoteCall`: carried out or not, and answered or failed,
in any combination but "answered and not carried out".

`XmodemDialogue` looks at what that layering takes for granted, that every message has a
line of its own.  `Integrity` looks at what it takes for granted below, that a damaged packet
is seen to be damaged.

### XMODEM: `XmodemPacket`, `XmodemTransmit`, `XmodemReceive`, `XmodemTransfer`

A token is what an end writes in one go, a packet or a control byte; `toRx` and `toTx`
are the two directions of the line.  `XmodemPacket` says what becomes of a packet that
loses its first byte: what follows is its number, which the reader takes for a control
byte, so packet 4 reads as EOT and packet 1 as another SOH.

`XmodemTransmit` has one definition for each wait of `xmodem_transmit_package`: for the
'C', for the ACK of a packet and for that of the EOT, with `retransmit` the tries
left in `xmodem_send_pkt_with_retry` or `xmodem_send_byte_with_retry`.  `XmodemReceive`
has the read of `xmodem_read_pkt` and each of its endings: new packet, duplicate, EOT, bad
packet, discarding after an unexpected byte, cancel.  `nak` is 'C' until the first
packet, and `err_cnt` is cleared by a new packet only.

`XmodemTransfer` puts them on a line that loses a token, garbles it, takes a byte from
the middle of a packet (`short`) or its SOH (`soh`), up to `MaxNoise` times.  A timeout is an
action of the end that waits.  It needs no leave when no answer is coming: the
other end has returned, or waits too with an empty line.  Otherwise the answer is *late*,
which happens up to `MaxLate` times.  `MaxLate = 0` is a *timely* line.

`noise` and `late` bound only the model; the code has no such counters.

### Package after package: `XmodemDialogue`

Calls of `qda.c`, each a request and an answer, by runs of the program that follow each other
on one line.  It INSTANCEs `XmodemTransmit` and `XmodemReceive` twice each, for the host and for
the device, so it is the same code as above that runs at both ends.  What is added:

- the bytes left on the line are read by whoever reads next.  A transmitter that waits for a
  control byte reads a packet of `PacketBytes` byte by byte: its SOH, then what is left of it, a `tail`
  whose length is kept (`Left`).  The packet's number comes first, then its complement, and every other
  byte of it may be anything, any control byte included (`InsideKinds`).  So the number of packet 4 reads as EOT and that
  of packet 6 as ACK, and a receiver that meets an SOH in a tail takes the tail for the start of a packet and completes it
  with what comes next (`Tokens`, `Filled`);
- the line loses or damages a packet or a control byte, or loses one byte of a packet: its SOH, its number, or
  another, which makes it too short (`Disturbed`).  A damaged control byte is none of the control bytes;
- `misread` records that a transmitter took a byte from inside a packet for the ACK it was waiting for, or a receiver
  one for the EOT behind the blocks it had.  The code cannot know it; the properties say what holds until then;
- a packet carries the package it is from, which the code cannot see and the properties can;
- two ends that both wait time out in turn (`expired`), since their timeouts are equal; the
  300 ms of a receiver that discards end before either;
- a call that fails ends the program, as in `main`; SIGINT ends it anywhere in a call, and may
  cut the packet being written, whose missing bytes the device then takes from the next run;
- what the host did not read is gone with the port (`EndProgram`, `Unread`), and the device has
  read what a run wrote before the next one writes (`StartProgram`).  These two are about the
  tty and the time it takes to start a program, and are assumptions.

The device is external.  It is taken to run the same `xmodem.c`, to answer a request that it has
received, and to listen again otherwise.

### QDA: `RemoteCall`, `QdaExchange`

`qda_buf` is the static buffer, as the type found in its header and how it came there.
One action per stage of a call: the request, the device's part, and the answer with
the type check.  All calls but detach are in; the two tables of strings are not.
A request longer than the buffer is refused before it is sent.  The device is
external: it carries out what it received whole, and answers.

### Session: `DfuDevice`, `DfuSession`

`pc` names the call under way (`desc`, `alt`, `status`, `clear`, `abort`, `dnload`, `poll`, ...) or
how the program exited, and every action is the return of a call with what `main` or
`dfu_load.c` does up to the next call.  `CallFails` is the other return.  A chunk of
firmware is the block number, its offset and its length; `old` marks what an earlier
session left in the device.  A device that carries out a call after its caller was told of
the failure needs no action of its own: every failure ends the session or goes to the reset, so
nothing the host looks at tells that from carrying it out before the failure.  The device starts in any DFU state, so the session has to
deal with what an earlier one left.

Sizes are what the code makes of them.  The transfer size is an `int` from `-t`, which may be negative; the page
limit compares it as such, and on Windows there is none (`PageSizes` has 0 for that).  `qda.c` takes the length of a
block as a `uint16_t` (`RequestLength`, `% LenMod`) and checks only that (`Refused`), while `bytes_sent` counts
the `int` (`ChunkSize`).  With a negative size an upload fails to allocate its buffer, and a download goes backwards from
the file's start and reads in front of it, which is undefined: it may end the program there (`Crash`).
An answer to an upload of which only the first XMODEM block (`FirstBlock`) came, or that is longer than the buffer
(`MaxAnswer`), is success to `qda_dfu_upload`; the chunk then goes to the file with `whole |-> FALSE`.

Two details of the code are visible in it: `dfu_clear_status` is
`qda_dfu_getstate` (`qda.h`), and `bMaxPacketSize0` is never set, so
`transfer_size` may be raised to any of `PacketSizes`.

### Program runs: `SerialPort`, `DfuProgram`

Runs of the program one after the other.  A step is one system call with what follows it up to
the next, because SIGINT may come between any two of them; each may also fail.  `SerialPort` has
the port: its settings as the user's, the program's or garbage, what `tio_initial` holds, the
handler, RTS and the read's timeout, for both files (`platform`).  `DfuProgram` has the options
in any order (the last `-U` or `-D` counts), `dfu_load_file` with the loop over standard input,
the functions of the port in the order in which they are called, and the upload's file with `O_EXCL`.
The session in between is how it may end, and the `xmodem_set_timeout` calls it makes.

A file on disk is its kind (`FileKinds`): what matters here is whether it exists, is refused, or is
an upload's, partial or whole.  Standard input is a number of bytes.

### Bytes: `Binary`, `XmodemCrc`, `DfuFile`, `Integrity`

Pure functions of sequences of bytes: `crc_xmodem`, the packet it is put in and the checks of
`xmodem_read_pkt`; `dfu_store_file` and `dfu_load_file` with suffix, prefixes and CRC-32.  In `Binary` a
register is the set of its bits that are 1, of 16 bits for the one CRC and of 32 for the other: `^` is a symmetric
difference, `& 0xff` an intersection and a shift moves the elements, so that the provers can follow the code bit by
bit.  The registers that a loop goes through are a recursive function (`Turns`, `Crcs`), whose last value is the result.
`crc32_table` is computed from its polynomial; its 256 entries are those of the
table in `dfu_file.c`.  `Integrity` is a medium between the writers and the readers that damages
what it holds once: a burst of wrong bits, two wrong bits in a packet no further than `PairSpan` bytes apart, a truncated
file.
Its reference definitions are polynomials over GF(2) as sets of exponents, with long division.

`dfu_store_file` has no caller in this repository (dfu-util's suffix and prefix tools have), and `main` loads
with `MAYBE_SUFFIX` and `MAYBE_PREFIX`; the other settings are modelled too.  A firmware that itself
begins like a prefix cannot be told from one with a prefix, and is not among `Images`; nor is one that has
"UFD" in it, by which the loader recognises a suffix (`ImageAssumption`).

### Modules for TLC and for proofs

`MCXmodemTransfer`, `MCXmodemDialogue`, `MCQdaExchange`, `MCDfuSession`, `MCDfuProgram` and `MCIntegrity` give
the sets for the cfgs and state what comments of the code say and the runs refute.
`XmodemTransferProofs`, `XmodemTimelyProofs`, `XmodemDialogueTypes`, `XmodemDialogueProofs`, `QdaExchangeProofs`,
`DfuSessionProofs`, `DfuProgramProofs` and `IntegrityProofs` hold the proofs.  A definition that a property's mutant uses ("Mutant of ...") stands before the definition it
is a variant of; no specification uses it.

## 3. Runs

| Run | Instance | What it shows |
|---|---|---|
| `xmodem_late` | 3 blocks, all noise, 2 disturbances, 4 late answers | Blocks are in order whatever the timing; no early success of the receiver; both calls return |
| `xmodem_timely` | 3 blocks, 5 disturbances, no late answer | Lockstep, agreement, whole package, no false cancel, one disturbance is made good, and the refinement of `PackageDelivery` |
| `xmodem_lost_soh` | 4 blocks, one disturbance | *violated*: packet 4 without its SOH ends the reception with success |
| `dialogue` | 3 calls, requests of 2 blocks and answers of 4, packets of 4 bytes, 2 disturbances, 1 SIGINT | Until an ACK or an EOT is misread, an accepted answer is the one to this call, a successful reception is whole and no request is made of two; a calm call is answered whatever came before, every call ends |
| `dialogue_success` | 1 call, 2 blocks each way, 1 disturbance | *violated*: the transmitter reports success for a request of which the device lacks the last block |
| `dialogue_ack` | 2 calls, 1 block each way, packets of 132 bytes, 1 disturbance, 1 SIGINT | *violated*: what an interrupted run left behind answers the next run's packet, which the device has not read |
| `qda_exchange` | 3 calls, messages of up to 2 blocks | An accepted answer is to this call and was received in it; the refinement of `RemoteCall` |
| `qda_upload` | | *violated*: upload data of which only the first block came is accepted |
| `dfu_session` | file and memory of 5 bytes, transfer sizes below 0, below and above the payload and beyond the 16 bits, with and without a page limit, device found in any state | With a size that fits in 16 bits downloads are in order, only whole ones are completed, every byte of an upload has its place, the device never stalls, sessions end; with any size `bytes_sent` stays in its range |
| `dfu_error` | | *violated*: a device in dfuERROR is never cleared, and `main` goes round for ever |
| `program` | 2 runs of up to 3 options, both platforms, every failure, SIGINT anywhere | The port's settings come back, a session has a ready port, standard input is read whole and in bounds, no detach for a file that cannot be loaded, existing files are kept, runs end |
| `integrity` | images of 0 and 3 bytes with each prefix and suffix, payloads of 2 bytes, all bursts and truncations | Both CRCs are the remainders they should be, damage is noticed but for one named case, a stored file is loaded as it was stored |

### Bounds

*XMODEM.* Three blocks are the first, one in the middle and the last; what a packet
does depends on its number only through equality with the next, its predecessor,
and the values 1 and 4.  Number 4 is left to `xmodem_lost_soh`: with fewer than four blocks
no packet reads as an EOT, which `NoEarlyEnd` and `Agreement` need.  The retries are those of the
code, 3 and 5; five disturbances are enough to use up either counter, and four late answers
let the transmitter run several packets ahead.  `BufBlocks = 3` is the exact fit; the proofs
cover a smaller buffer.

*Dialogue.* Three calls let an answer be two calls old; two blocks against four tell a request's
length from an answer's, and packet 4 has the number that reads as EOT; one SIGINT leaves the device in any place of its
code, and two disturbances make a call after it fail too.  A packet of four bytes has the SOH, the number, its
complement and one byte that may be anything, and three of these in a damaged one: enough for a 'C' and two ACKs in a
row, and an end may read up a packet to its last byte and go on behind it.  Both kinds of misreading occur in
the run, and without their condition `AnswersThisCall` and `WholeAnswer` are violated in it.  In
`dialogue_ack` a packet has the 132 bytes of the code, so that what is left of it is as long as it is there.

*QDA.* Two calls are enough for an answer to meet the wrong call, three for it to be two
calls old.  Messages of two blocks are those that may come in part.

*Session.* `LenMod = 4` stands for 65536, so that of the sizes -3, 1, 3, 4 and 5 of `-t` one is negative, 4 becomes a length of 0
and 5 one of 1; no `-t` takes the device's size, 0 or 2.  The page limit is 3 or none.  3 exceeds `MaxPayload`
and is refused, and 5 passes the same check as 1.  Files and memories of 5 bytes are, with blocks of 1 and 2 bytes, a
multiple and a short last chunk.  An answer of one byte is whole (`FirstBlock`), one of two may come in part, and one of
three is too long for the buffer (`MaxAnswer = 2`).  `TransMod = 2` makes `transaction` wrap.  `MaxBusy = 1` is one poll that
finds the device busy; more only repeat it.  `MaxStray = 6` lets a negative size go back twice.

*Program.* Three options are a file, a path and a speed, or a second file that takes the place of the
first.  `ChunkSize = 2` and `MaxInput = 4` make standard input empty, shorter than a chunk, a multiple of
it and none.  Two runs are what it takes for one to find what another left: a partial upload, or settings
that were not restored.  The names are `-`, which is standard input to `-D` and a file to `-U`, and one
other.

*Integrity.* Bursts of up to 3 bits and all truncations in files; bursts of up to 8 bits and all pairs of bits
in packets.  The CRCs are linear, so what is noticed does not depend on the data; the data only has to
reach every branch.  `PairSpan = 132` is a packet of the real size: that no two errors in it cancel out depends on
the polynomial (x^i is not 1 modulo it for i up to 8 * 132), which is `PairAssumption`, and TLC evaluates it.  The lengths 0, 15, 17, 19, 20 and 255 are too short, within the file, just its length,
one more than it, and far too long.

### Fairness

*XMODEM.* Each end's steps are weakly fair: a read returns with a byte or after its timeout
(`xmodem_getc` has one on every path), and both ends make their call.  The line is
not fair: it need not disturb anything.

*Dialogue.* `Program` and `Device` are weakly fair for the same reason, at both ends; so is `Unread`,
since a tty that nobody reads does not hold bytes for ever.  `Interrupted` and `Disturb` are not fair.

*Session.* `Host` is weakly fair: every call returns, since both its transfers do
(`TransmitReturns`, `ReceiveReturns`), with an answer or not.  The device is **not** fair: it may
stop answering, in which case the call fails.

*Program.* `Step` is weakly fair: every system call returns, and a session ends (`SessionEnds`, for the
devices it is about).  A load is bound to fail only where the file is missing or refused (`LoadRefused`); no
other failure is fair, nor are `Timeout` and `Sigint`.

### Limits of what the runs say

- `Lockstep`, `Agreement`, `WholePackage` and the refinement of `PackageDelivery` are about a timely line.
  With late answers the transmitter takes the ACK of one packet for that of the next, and
  `Agreement` fails as in `dialogue_success`, where it needs no late answer but only a 'C' left over from
  a reception before.
- The safety properties of `dialogue` are about a timely line as well, and they hold until a byte inside a packet is
  taken for an ACK or for the EOT behind the blocks received (`misread`).  Neither is far-fetched: `dialogue_ack` is the
  former, and `xmodem_lost_soh` the latter, with packet 4.  After the latter a reception that succeeds has a part of the
  answer.  After the former the transmission of a request succeeds that the device has not read, and how far that
  goes depends on how much of the packet is left.  A transmitter reads at most three bytes for each thing it waits for; a
  packet short enough to be read up like this makes room for the device's next copy of an old answer, and
  the call accepts it.  Of 132 bytes the most are left for the receiver, which discards them and whatever follows within 300 ms.
- `Recovers` and `EveryCallEnds` hold whatever is misread.
- The CRC of what a receiver puts together from parts of two packets is taken to be wrong; a damaged packet is
  taken to be seen as such, which is the subject of `integrity`.
- `OneDisturbanceTolerated` has the exceptions its comment names: both were found by TLC, and are in
  the hazards.
- The properties of `dfu_session` but `TypeOK` are about a transfer size in force from 0 to 65535 (`SizeFits`).  On Windows any
  `-t` is taken, and elsewhere a page may have 64 KB.  Without `SizeFits`, `DownloadInOrder`, `OnlyWholeIsManifested`
  and `NeverStalled` are violated by lengths that are cut to 16 bits, and so is `UploadIsWhole`, since a length cut to 0 ends an
  upload at once; a length cut to 0 in the middle of a download completes it, and `dfuload_do_dnload` then polls for ever a
  device that is idle.
- `UploadIsWhole` says that every byte has its place, not that it is the device's: `qda_upload` shows that it may be stale.
- `DownloadInOrder` and `OnlyWholeIsManifested` are not about a device found at work on a block either.  TLC found
  how they fail there: such a device with a `bStatus` that is not OK finishes its block before
  the second look at the status (`main.c:713`), which ignores `bState`, and the new download is
  appended to the old.  The model lets `bStatus` be an error outside dfuERROR because `main` does; a
  device that follows the DFU specification does not do this.
- `NeverStalled` and `SessionEnds` are about a device found at rest and not in dfuERROR; `dfu_error` is what
  happens in dfuERROR.  `NeverStalled` leaves out an empty file: its only request is the completion packet,
  which a device in dfuIDLE does not take.
- `SettingsRestored` is not about a run that ends by `errx` or `exit(1)`, which close the port without restoring it,
  nor about SIGINT on Windows, nor about a run in which a call on the port failed.  `SessionReady` says
  that what would be restored is right all the same.
- `FirmwareWhole` leaves out an `fread` that fails, which the loop takes for the end of the input: a
  firmware cut short is then downloaded.
- `FileDamageNoticed` says that a damaged suffix is not believed.  The file is still downloaded, with a warning, suffix
  and all.  It is about files that had a suffix: damage to one that had none could by accident make something that
  looks like one, CRC and all.  So could truncation of a firmware with a whole file with a suffix inside it, hence
  no "UFD" in `Images`.
- Bursts are of up to 16 bits in a packet, the width of its CRC.  In a file they are of up to 25 bits: whole bytes are
  what the table works on, and 25 bits are what fits in four of them wherever it begins.

## 4. Proofs

All for every value of the constants, under the modules' assumptions.

| Theorem | Says | By |
|---|---|---|
| `XmodemTransferProofs!TypeCorrect` | types and the ranges of the retry counters | inductive as it stands, once the line is known to carry tokens |
| `XmodemTransferProofs!DeliveryInOrder` | `InOrderDelivery`, on any line, for any buffer | `IInv` |
| `XmodemTransferProofs!SuccessIsNotEarly` | `NoEarlyEnd`, on any line, for fewer than four blocks | `NotEnded` |
| `XmodemTimelyProofs!TimelyLockstep`, `TimelyAgreement`, `TimelyWholePackage` | the three properties on a timely line | `TInv` |
| `XmodemTimelyProofs!TimelyNoFalseCancel` | `NoFalseCancel` on a timely line, for fewer than 255 blocks | `TInv` and itself |
| `XmodemTimelyProofs!TimelyRefinement` | a timely transfer implements `PackageDelivery` | `TInv`, then step by step |
| `XmodemDialogueTypes!TypeCorrect` | types and ranges in the dialogue, whatever is misread | `TypeInv` |
| `XmodemDialogueProofs!AcceptedIsTheAnswer` | `AnswersThisCall`, for any number of calls, runs, interrupts and disturbances | `DialogueInv` |
| `XmodemDialogueProofs!AnswerIsWhole` | `WholeAnswer`, likewise | the same |
| `XmodemDialogueProofs!RequestsAreNotMixed` | `OneRequest`, likewise | the same |
| `QdaExchangeProofs!TypeCorrect` | types | inductive |
| `QdaExchangeProofs!AnswerIsFresh` | `AnswersItsCall` | `IInv` |
| `QdaExchangeProofs!ExchangeRefinement` | `QdaExchange` implements `RemoteCall` | `IInv` |
| `DfuSessionProofs!TypeCorrect` | types, and `bytes_sent` within the file but for a negative size | `IInv` |
| `DfuSessionProofs!DeviceKeepsUp` | `DownloadInOrder`, for a size that fits in 16 bits | `IInv` |
| `DfuSessionProofs!NothingPartialIsManifested` | `OnlyWholeIsManifested`, likewise | `IInv` |
| `DfuSessionProofs!UploadComplete` | `UploadIsWhole`, likewise | `IInv` |
| `DfuSessionProofs!NothingIsStalled` | `NeverStalled`, likewise | `IInv` |
| `DfuProgramProofs!TypeCorrect` | types | inductive |
| `DfuProgramProofs!SettingsAreRestored`, `SessionIsReady` | `SettingsRestored`, `SessionReady` | `PortInv` |
| `DfuProgramProofs!FirmwareIsWhole` | `FirmwareWhole`, for every input and chunk size | `FirmwareInv` |
| `DfuProgramProofs!DetachedOnlyToLoad`, `ExistingFilesAreKept` | `DetachedToLoad`, `ExistingFileKept`, for any number of runs | `FileInv` |
| `IntegrityProofs!TypeCorrect` | types, and what is downloaded is within the file | `IInv` |
| `IntegrityProofs!ChecksumsCorrect` | `ChecksumsDivide`, for files and payloads of any length | `IInv`, `PacketDivides`, `FileDivides` |
| `IntegrityProofs!LineDamageIsNoticed` | `LineDamageNoticed`, for payloads of any length | `IInv`, `DamageSeen` |
| `IntegrityProofs!StoredFilesLoad` | `StoredIsLoaded`, for firmwares of any length | `IInv`, `SuffixedHas`, `PrefixFound` |
| `IntegrityProofs!FileDamageIsNoticed` | `FileDamageNoticed`, for firmwares of any length | `IInv`, `TruncatedHasNone`, `DamagedHasNone` |

*Delivery in order.* `InOrderDelivery` is not inductive: it says nothing of packets on the line, and
one that carries the right number and the wrong block would break it.  `IInv` adds that
every intact packet on the line carries the block of its number, and that the number
the receiver expects is one more than the blocks it has.

*No early end.* `NotEnded` says that until the transmitter is through the package nothing on the line is an
EOT, nor has the number 4 that would read as one without its SOH.

*Timely line.* `TimelyLine` assumes `MaxLate = 0` and, if the line does more than lose or garble what it
carries, fewer than four blocks: exactly what `xmodem_timely` checks, and packages of any length on a line that loses no
single bytes.  `TInv` is the synchronization that a timely line gives: there is at most one packet, EOT or answer
under way in all, what it is follows from the control states of the two ends, and its packet is the one the
transmitter is at.  What noise and `RxEatByte` leave of a damaged packet (`Damage`) may lie before it on the line to the
receiver: a second token, but never one that the receiver stores, cancels or ends on.  That the first of two is
damage and that a receiver inside a short packet (`body`) has nothing older left to read is what makes
`OneInFlight` inductive.  `Agreement` alone is far from it: it needs that an ACK read by the transmitter is for its
current packet, which is what a late answer breaks.

`NoFalseCancel` follows: the packet read is the one expected or the one before.  The bound of 255 blocks
is needed: after packet 255 `exp_seq_no` is 0, `exp_seq_no - 1` is -1, and a retransmission of that
packet is cancelled.  QDA's messages have at most 64 blocks.

*Dialogue.* Nothing in a message says which call it belongs to, so the proof has to find what keeps calls apart.
It is the order of bytes on the line.  What the host writes in a call are packets, then EOTs, then the 'C' with
which it asks for the answer, and what is left of an older call lies before all of it.  `XmodemDialogueTypes` says
this with predicates on lines (`Free`, `NoneAfter`, `NoneBetween`, `OfPackage`) and shows once that reading,
noise, cut packets and byte-wise reading of packets only ever *reduce* a line, which keeps all of them.
`DialogueInv` then has a part for each thing that keeps calls apart:

- `StaleReception`: a device that still waits for the rest of an older request asks with NAK, not with the 'C' that would let
  the host begin the new one (`nak` changes with the first packet), so blocks of two requests never meet: `OneRequest`;
- `RequestLine`, `RequestTaken`: all packets on the way to the device are of this request, and once the device has taken it
  only EOTs are left before the host's 'C';
- `AnswerLine`: an ACK reaches the host only for a packet of this request, so a host that is past its first packet
  talks to a device that has done with older requests;
- `BeforeAnswer`, `DuringAnswer`: the answer goes in lockstep, with one token under way, so the device ends it when the host
  has all its blocks: `WholeAnswer`.

What is left of a packet may hold any byte.  A 'C' in it does no harm: a transmitter that starts on it sends its own
request, and needs an ACK to go on.  NAK, CAN and SOH cost a try or make a packet that is found to be wrong
(`HostRecvFillKeeps`, `DevRecvFillKeeps`).  An EOT does none to an end without blocks, which then has
received nothing, and whose ACK lies behind everything of the older package; `BeforeAnswer` and `DuringAnswer` say where the rest of
a packet can lie when the host reads one.  The two that do harm are those in `misread`, an ACK to a transmitter past its 'C' and an
EOT to a receiver with blocks, which is where the proof uses `misread = {}` (`HostSendHearKeeps`, `DevSendHearKeeps`,
`HostRecvHearKeeps`, `DevRecvHearKeeps`).  So what is inductive is `SoundInv`, that `DialogueInv` holds as long as `misread` is empty;
nothing is ever taken from `misread` (`MisreadGrows`).  Packets may be of any length, the code's included.

*QDA.* `IInv` ties the type in `qda_buf` to the stage of the call.  It is needed since the code
ignores `receive`'s result: that the type checked is new rests on the request in the
buffer never having an answer's type, and on an answer that arrives while its call waits being to that call.

*Session.* The properties speak of the moments between calls; `IInv` says what holds inside one,
from the call's place in the program (`pc`), whether the device has carried it out (`answer`) and the
device's state.  Its parts are named for what they carry: `Cleared` takes the abort of an old transfer
from the status check to the first block, `Downloading` and `Following` take each block from the
request to the poll that finds it written, `Uploading` takes the file and the device's position along.
The device's chunks and the file's are sequences built by one lemma, `ThroughAppend`.  The proof covers
every file, memory, transfer size and page size, and `transaction` with its wrap.  `IInv` has two parts: the types
hold for any transfer size, and the rest for one that fits (`SizeFits`); then a length is what the program counts
(`ShortLength`, `ChunkIsShort`), and since the transfer size is set once, before the first block, `SizeFits` does not come to hold later
(`SizeStays`).

*Program.* `SettingsRestored` is about the end of a run.  `PortInv` says what holds at each point before it: from
`tcgetattr` on, what is saved is what the run found, and before the settings are changed the port still
has them; so SIGINT at any of these points puts back the right thing, which is why the code installs its
handler after it saves and before it applies.  `FirmwareInv` is the loop invariant of the read: what has been
read and what has not make up the input, and more is read only after a full chunk.  `FileInv`
says that only an upload has created a file in this run, and that a file that was found to be loadable
stays so, since nothing writes to it.

*Integrity.* `IntegrityProofs!IInv` says of what is in the medium what it was written from, and what one error has made of
it; the properties are then about the functions alone, and each rests on a lemma about bytes of any number.

- *Damage.* Both CRCs are linear (`TurnsLinear`, `Byte32Linear`): what the register is after the damaged bytes differs from
  what it should be by what it would be after the damage alone.  So damage is unnoticed only if the CRC of the damage
  itself is 0.  For a burst it is not, since sixteen adjacent bits are in the register as they are when the last of them
  has been shifted in (`TurnsWindow`; `FourSteps` for four bytes and CRC-32), and a register that is not 0 is never
  cleared by zeros (`TurnsStay`, `Byte32Injective`).  For two errors, the first leaves a power of x, which `PairAssumption`
  keeps from being what the second takes away (`PairSeen`).
- *Division.* The register of `crc_xmodem` is what long division leaves after as many steps (`TurnsDivide`).  `Division` takes
  eight steps at a time, which spares TLC's stack; `RemainderIsLast` makes single ones of them.  CRC-32 works on
  bytes with their bits turned round and looks them up in a table: `TableIsDivision` has the table do eight division
  steps, and `FedCrcs` and `FileDivides` feed the division one bit after the other until it meets the registers of
  `crc32_byte`.
- *Files.* The suffix is found at the end of whatever precedes it, with the numbers in it (`SuffixedHas`), and in nothing else:
  a truncated file ends within the firmware, a prefix or the suffix, and none of these has "UFD" right before its last
  five bytes (`FrontHasNone`, `TruncatedHasNone`).

Recursion over bytes needs induction, and the library's induction theorems cannot be used here, because they take
operators as parameters.  `Induct` and `Recursion` say the same of sets and functions, from the well-foundedness
of `<` on the naturals.

Only model-checked: all liveness (`TransmitReturns`, `ReceiveReturns`, `OneDisturbanceTolerated`, `Recovers`,
`EveryCallEnds`, `SessionEnds`, `RunEnds`), which is out of the provers' reach.  Every invariant and both refinements
are proved.

## 5. Disagreements with the code's documents

Each of these is a run above that TLC finds violated; the quotes are in `PROJECT.json`.

1. `xmodem.c:399`: a reception that gives up writes its 'C' once more, and the transmitter takes the second one
   for a refusal of packet 1.  From then on each ACK answers the packet before, and the transmitter
   reports success for a package of which the last block was not received.
2. `xmodem.c:260`: packet 4 whose SOH is lost ends the reception with success; the comment says that it is discarded and asked for again.
3. `qda.c:218`: an upload's answer is accepted with only its first block received.
4. `qda.h:254`: `dfu_clear_status` clears nothing.
5. `xmodem.c:178`: a byte left over from a packet of an earlier run is taken for the ACK of a packet that nobody has read.

Met while modelling, and plain from the lines themselves, so without a run:

- `dfu_load.c:204` returns `bytes_sent` whatever happened, so the test at `main.c:795` that should end the program with
  `exit(1)` is true only after a negative `-t`: a failed download resets the device if asked to, and exits with 0.
- `qda.h:249` cuts a transfer size of 65536 or more to 16 bits.  With `-t 65537` on Windows a file of 131074 bytes is sent
  as two blocks of one byte each, of which `bytes_sent` counts 65537 each, and the completion follows, which `dfu_load.c:163`
  says signals the end; with `-t 65536` the first request has no data.
- `dfu_load.c:75` writes to the file what item 3 accepts: an upload can exit with 0 with bytes that the device did not send.
- `xmodem.h:43` says that receiving "does not timeout"; it gives up after five reads of 3 s.
- A repeated EOT is received as a package of 0 bytes, a result that `xmodem.h` does not speak of.
- The comment at `xmodem.c:80` has the CRC "initialized to 0xffff"; `crc_xmodem` starts from 0, as XMODEM does.
- `dfu_file.c:336` prints the length in a prefix with `data[7] << 14` for `<< 24`.
- `-a` with a name (`main.c:396`) leaves a number that `main.c:465` takes for the alternate setting.
- `--list` detaches the device before it ends with an error.

## 6. Not modelled

- **What is printed.** Progress bar, `show_suffix_and_prefix`, verbose output, and the two
  calls that fetch tables of strings for it.
- **A line with late answers in the dialogue**, see the limits above.
- **The device's side.** It is not in the repository; `DfuDevice` and the device's part of
  `QdaExchange` and `XmodemDialogue` are what the host's code takes it to be.  A device that resets itself
  in the middle of a session, which `dfuload_do_dnload` would poll for ever (`dfu_load.c:151`), is left out.
- **Options that are not in the table** of a build with `USE_QDA` (`-d`, `-c`, `-i`, `-S`, `-e`, ...), although the
  `switch` has cases for them; `-v` and `-a`, which change nothing that is modelled.  `-t` and `-R` are inputs of `DfuSession`.
- **DfuSe, libusb, quirks.** Not compiled in, or constant, when `USE_QDA` is defined.
- **Build files.** No behaviour.

## 7. Plan

Done: the XMODEM transfer, package after package, the QDA exchange, the session, whole runs with the
serial port, options and files, and the two CRCs; proofs of every invariant and of both refinements.

Left, in this order:

1. The dialogue with late answers, to find what does hold of it.
2. A device that resets itself in the middle of a download.
