----------------------------- MODULE Integrity ------------------------------
(***************************************************************************)
(* The two checks that a firmware passes on its way to the device.  A file *)
(* is written to disk and a packet to the line; the medium damages what it *)
(* holds, at most once; what reads it is dfu_load_file or xmodem_read_pkt. *)
(***************************************************************************)
EXTENDS XmodemCrc, DfuFile

CONSTANTS
    Images,         \* firmwares to be stored
    Lengths,        \* what tools other than this one write as a suffix's length
    Payloads,       \* payloads of packets
    FileBurst,      \* the longest burst of errors in a file, in bits
    PacketBurst,    \* and in a packet
    PairSpan        \* how far apart two errors in a packet may be, in bytes

\* Bytes are bytes.
ASSUME ByteAssumption ==
    /\ Images \subseteq Seq(0..255) /\ Payloads \subseteq Seq(0..255)
    /\ Lengths \subseteq 0..255

\* A firmware that begins like a prefix is taken for one that has it, and the loader
\* recognises a suffix by "UFD".
ASSUME ImageAssumption ==
    \A image \in Images :
        /\ Len(image) >= 2 => /\ ~(image[1] = 1 /\ image[2] = 0)
                              /\ ~(image[1] % 64 = 26 /\ image[2] % 64 = 63)
        /\ \A i \in 1..(Len(image) - 2) :
               ~(image[i] = 85 /\ image[i + 1] = 70 /\ image[i + 2] = 68)

\* The bursts that a CRC of 16 bits and one of 32 bits over whole bytes can notice.
ASSUME BurstAssumption == PacketBurst \in 0..16 /\ FileBurst \in 0..25

\* The registers after each of eight more turns that shift in a 0.
Zeros(crc) ==
    LET a == ShiftIn(crc, FALSE)
        b == ShiftIn(a, FALSE)
        c == ShiftIn(b, FALSE)
        d == ShiftIn(c, FALSE)
        e == ShiftIn(d, FALSE)
        f == ShiftIn(e, FALSE)
        g == ShiftIn(f, FALSE)
    IN  <<a, b, c, d, e, f, g, ShiftIn(g, FALSE)>>

\* The registers after a 1 and after each of n bytes of zeros that follow it.
Powers(n) ==
    LET eight == [crc \in SUBSET (0..15) |-> Zeros(crc)[8]]
        power[k \in 0..n] == IF k = 0 THEN {0} ELSE eight[power[k - 1]]
    IN  power

\* A 1 does not come back as a 1 within the span: x^i is not 1 modulo the polynomial.
ASSUME PairAssumption ==
    /\ PairSpan \in Nat
    /\ \A k \in 0..(PairSpan - 1), j \in 1..8 : Zeros(Powers(PairSpan)[k])[j] # {0}

VARIABLES
    medium,     \* what was written: "none" yet, a "file" or a "packet"
    source,     \* from what: a struct dfu_file, or a payload and a number
    original,   \* the bytes as they were written
    bytes,      \* the bytes as they are
    verdict,    \* what the reader makes of them
    file        \* what dfu_load_file fills in

vars == <<medium, source, original, bytes, verdict, file>>

PrefixTypes == {"ZERO_PREFIX", "LMDFU_PREFIX", "LPCDFU_UNENCRYPTED_PREFIX"}

\* Numbers that no byte order leaves alone.
SomeIds == [id \in Ids |-> CASE id = "bcdDevice" -> 258  [] id = "idProduct" -> 772
                             [] id = "idVendor"  -> 32902 [] id = "bcdDFU"   -> 256]

\* A file that is nothing but a firmware.
Plain(image, type) ==
    [firmware |-> image, suffix |-> 0, prefix |-> 0, prefix_type |-> type,
     lmdfu_address |-> IF type = "LMDFU_PREFIX" THEN 1024 * 515 ELSE 0, ids |-> SomeIds]

Init ==
    /\ medium = "none" /\ source = <<>> /\ original = <<>> /\ bytes = <<>>
    /\ verdict = "none" /\ file = Plain(<<>>, "ZERO_PREFIX")

Written(m, s, b) ==
    /\ medium = "none" /\ medium' = m
    /\ source' = s /\ original' = b /\ bytes' = b
    /\ UNCHANGED <<verdict, file>>

StoreFile ==
    \E image \in Images, type \in PrefixTypes, write_suffix \in BOOLEAN :
        LET f == Plain(image, type)
        IN  Written("file", [file |-> f, suffixed |-> write_suffix],
                    dfu_store_file(f, write_suffix, type # "ZERO_PREFIX"))

\* A suffix that some other tool wrote, with the length that it likes.
ForeignFile ==
    \E image \in Images, n \in Lengths :
        Written("file", [file |-> Plain(image, "ZERO_PREFIX"), suffixed |-> TRUE],
                AddSuffix(image, SomeIds, n))

SendPacket ==
    \E data \in Payloads, pkt_no \in {1, 2} :
        Written("packet", [data |-> data, pkt_no |-> pkt_no], xmodem_send_pkt(data, pkt_no))

-----------------------------------------------------------------------------
(* The medium.                                                             *)

\* The bytes s with the bits at hits inverted, numbered as in BitAt.
Flip(s, hits) ==
    [i \in 1..Len(s) |-> ByteOf(Plus(Bits(s[i]), {b \in 0..7 : 8 * i - b \in hits}), 0)]

\* Errors that are no further than length bits apart, with the first one at bit p.
Burst(p, length) == {{p} \cup S : S \in SUBSET ((p + 1)..(p + length - 1))}

Errors(n, length) ==
    UNION {{S \in Burst(p, length) : \A i \in S : i <= n} : p \in 1..n}

\* Two errors.
Pairs(n) == UNION {{{p, q} : q \in {r \in p..n : r - p <= 8 * PairSpan}} : p \in 1..n}

Undisturbed == medium # "none" /\ verdict = "none" /\ bytes = original

DamageFile ==
    /\ Undisturbed /\ medium = "file"
    /\ \E hits \in Errors(8 * Len(bytes), FileBurst) : bytes' = Flip(bytes, hits)
    /\ UNCHANGED <<medium, source, original, verdict, file>>

TruncateFile ==
    /\ Undisturbed /\ medium = "file"
    /\ \E n \in 0..(Len(bytes) - 1) : bytes' = SubSeq(bytes, 1, n)
    /\ UNCHANGED <<medium, source, original, verdict, file>>

DamagePacket ==
    /\ Undisturbed /\ medium = "packet"
    /\ \E hits \in Errors(8 * Len(bytes), PacketBurst) \cup Pairs(8 * Len(bytes)) :
           bytes' = Flip(bytes, hits)
    /\ UNCHANGED <<medium, source, original, verdict, file>>

-----------------------------------------------------------------------------
(* The readers.  main loads with MAYBE_SUFFIX and MAYBE_PREFIX.            *)

Load(check_suffix, check_prefix) ==
    /\ medium = "file" /\ verdict = "none"
    /\ verdict' = IF SuffixAccepted(bytes, check_suffix) /\ PrefixAccepted(bytes, check_prefix)
                  THEN "loaded" ELSE "refused"
    /\ file' = IF verdict' = "loaded" THEN dfu_load_file(bytes) ELSE file
    /\ UNCHANGED <<medium, source, original, bytes>>

ReadPacket ==
    /\ medium = "packet" /\ verdict = "none"
    /\ verdict' = xmodem_read_pkt(bytes, source.pkt_no)
    /\ UNCHANGED <<medium, source, original, bytes, file>>

Done == verdict # "none" /\ UNCHANGED vars

Next ==
    \/ StoreFile \/ ForeignFile \/ SendPacket
    \/ DamageFile \/ TruncateFile \/ DamagePacket
    \/ Load("MAYBE_SUFFIX", "MAYBE_PREFIX")
    \/ Load("NEEDS_SUFFIX", "NEEDS_PREFIX")
    \/ Load("NO_SUFFIX", "NO_PREFIX")
    \/ ReadPacket
    \/ Done

Spec == Init /\ [][Next]_vars

-----------------------------------------------------------------------------
(* Polynomials over GF(2), each the set of its exponents: what the loops   *)
(* and the table are to compute.                                           *)

Degree(g) == CHOOSE d \in g : \A e \in g : e <= d

\* Long division by g of p, which has exponents below 8 * n + Degree(g): what is left of
\* p after each eight steps.
Division(p, n, g) ==
    LET rests == SUBSET (0..(8 * n + Degree(g)))
        take(e) == [r \in rests |->
                        IF e + Degree(g) \in r THEN Plus(r, {e + k : k \in g}) ELSE r]
        eight(e) == [r \in rests |->
                        take(e)[take(e + 1)[take(e + 2)[take(e + 3)[
                            take(e + 4)[take(e + 5)[take(e + 6)[take(e + 7)[r]]]]]]]]]
        rest[i \in 0..n] == IF i = 0 THEN p ELSE eight(8 * (n - i))[rest[i - 1]]
    IN  rest

Remainder(p, n, g) == Division(p, n, g)[n]

\* The bits of s, the first one being the highest exponent.
HighFirst(s) == {8 * Len(s) - i : i \in Ones(s)}

\* The same with every byte turned round.
LowFirst(s) == {8 * Len(s) - 1 - i : i \in Register(s)}

CCITT == {16, 12, 5, 0}
CRC32 == {32, 26, 23, 22, 16, 12, 11, 10, 8, 7, 5, 4, 2, 1, 0}

-----------------------------------------------------------------------------

\* Types: a byte is a byte, and what is downloaded is no longer than the file.
TypeOK ==
    /\ medium \in {"none", "file", "packet"}
    /\ verdict \in {"none", "loaded", "refused", "ERR", "DUP", "SOH", "CAN"}
    /\ \A i \in 1..Len(bytes) : bytes[i] \in 0..255
    /\ verdict = "loaded" => Len(file.firmware) - file.suffix \in 0..Len(bytes)

\* crc_xmodem, the table and crc32_byte divide by the polynomials they are named for: a
\* packet's payload with its CRC is a multiple of x^16+x^12+x^5+1, and a file with its
\* suffix, the first 32 bits inverted, one of that of CRC-32.
ChecksumsDivide ==
    verdict = "none" /\ bytes = original =>
        /\ medium = "packet" =>
             LET s == SubSeq(bytes, 3, Len(bytes))
             IN  Remainder(HighFirst(s), Len(s), CCITT) = {}
        /\ medium = "file" /\ source.suffixed =>
             LET n == 8 * Len(bytes)
             IN  Remainder(Plus(LowFirst(bytes), (n - 32)..(n - 1)), Len(bytes) - 4, CRC32) = {}

\* xmodem_read_pkt takes a packet that has been damaged for one that is not just when
\* the same bits of seq_no and of ~seq_no are wrong, which the CRC does not cover.
LineDamageNoticed ==
    medium = "packet" /\ verdict # "none" /\ bytes # original =>
        (verdict # "ERR" <=> Payload(bytes) = source.data /\ CrcRecv(bytes) = CrcRecv(original)
                             /\ bytes[1] + bytes[2] = 255)

\* A file that was stored is loaded as it was stored: the suffix is left out of what is
\* downloaded, the prefix is not, and every number comes back.
StoredIsLoaded ==
    verdict = "loaded" /\ bytes = original /\ file.suffix \in {0, DFU_SUFFIX_LENGTH} =>
        /\ file.suffix = (IF source.suffixed THEN DFU_SUFFIX_LENGTH ELSE 0)
        /\ source.suffixed => file.ids = source.file.ids
        /\ file.prefix_type = source.file.prefix_type
        /\ file.lmdfu_address = source.file.lmdfu_address
        /\ Body(file) = source.file.firmware

\* Damage to a file that has a suffix, be it to the firmware, to the suffix or by
\* truncation, is noticed: the suffix is not taken for one, and no number in it is
\* believed.
FileDamageNoticed ==
    verdict = "loaded" /\ bytes # original /\ source.suffixed =>
        file.suffix = 0 /\ file.ids = LoadedIds(<<>>)
=============================================================================
