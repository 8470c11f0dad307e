------------------------------ MODULE DfuFile -------------------------------
(***************************************************************************)
(* dfu_file.c: the suffix and the prefix of a firmware file, as they are   *)
(* written by dfu_store_file and looked for by dfu_load_file.              *)
(*                                                                         *)
(* A file is a sequence of bytes.                                          *)
(***************************************************************************)
EXTENDS Binary

DFU_SUFFIX_LENGTH    == 16
LMDFU_PREFIX_LENGTH  == 8
LPCDFU_PREFIX_LENGTH == 16

\* The polynomial of CRC-32 but for its highest term, the lowest one first.
Reversed == {31, 30, 29, 27, 26, 24, 23, 21, 20, 19, 15, 9, 8, 5}   \* 0xedb88320

\* One division step.
Halve(v) ==
    LET h == {b - 1 : b \in v \ {0}}
    IN  IF 0 \in v THEN Plus(h, Reversed) ELSE h

crc32_table ==
    [byte \in SUBSET (0..7) |->
        Halve(Halve(Halve(Halve(Halve(Halve(Halve(Halve(byte))))))))]

crc32_byte(accum, delta) ==
    Plus(crc32_table[Plus(accum \cap 0..7, Bits(delta))], {b - 8 : b \in accum \ (0..7)})

\* crc after each of the bytes, as dfu_file_write_crc and dfu_load_file accumulate it.
Crcs(bytes) ==
    LET crc[i \in 0..Len(bytes)] ==
            IF i = 0 THEN 0..31 ELSE crc32_byte(crc[i - 1], bytes[i])
    IN  crc

Crc32(bytes) == Crcs(bytes)[Len(bytes)]

Lo(n) == n % 256
Hi(n) == (n \div 256) % 256
LittleEndian(n) == <<Lo(n), Hi(n)>>

-----------------------------------------------------------------------------
(* dfu_store_file, of a record like struct dfu_file.                       *)

Ids == {"bcdDevice", "idProduct", "idVendor", "bcdDFU"}

Body(file) == SubSeq(file.firmware, file.prefix + 1, Len(file.firmware) - file.suffix)

Prefix(file) ==
    CASE file.prefix_type = "LMDFU_PREFIX" ->
           <<1, 0>> \o LittleEndian(file.lmdfu_address \div 1024)
                    \o LittleEndian(Len(Body(file)))
                    \o LittleEndian(Len(Body(file)) \div 65536)
      [] file.prefix_type = "LPCDFU_UNENCRYPTED_PREFIX" ->
           <<26, 63>>
              \o LittleEndian((Len(file.firmware) - file.suffix + 511) \div 512)
              \o [i \in 1..8 |-> 0] \o [i \in 1..4 |-> 255]
      [] OTHER -> <<>>

\* Mutant of AddSuffix: the two numbers change places.
AddSuffixSwapped(bytes, ids, length) ==
    LET s == bytes \o LittleEndian(ids["bcdDevice"]) \o LittleEndian(ids["idVendor"])
                   \o LittleEndian(ids["idProduct"]) \o LittleEndian(ids["bcdDFU"])
                   \o <<85, 70, 68, length>>
        crc == Crc32(s)
    IN  s \o <<ByteOf(crc, 0), ByteOf(crc, 1), ByteOf(crc, 2), ByteOf(crc, 3)>>

\* "UFD" is 85, 70, 68.
AddSuffix(bytes, ids, length) ==
    LET s == bytes \o LittleEndian(ids["bcdDevice"]) \o LittleEndian(ids["idProduct"])
                   \o LittleEndian(ids["idVendor"]) \o LittleEndian(ids["bcdDFU"])
                   \o <<85, 70, 68, length>>
        crc == Crc32(s)
    IN  s \o <<ByteOf(crc, 0), ByteOf(crc, 1), ByteOf(crc, 2), ByteOf(crc, 3)>>

dfu_store_file(file, write_suffix, write_prefix) ==
    LET bytes == (IF write_prefix THEN Prefix(file) ELSE <<>>) \o Body(file)
    IN  IF write_suffix THEN AddSuffix(bytes, file.ids, DFU_SUFFIX_LENGTH) ELSE bytes

-----------------------------------------------------------------------------
(* dfu_load_file, after the bytes have been read.                          *)

\* Byte i of the suffix, from 0.
dfusuffix(bytes, i) == bytes[Len(bytes) - DFU_SUFFIX_LENGTH + 1 + i]

Word(bytes, i) == dfusuffix(bytes, i) + 256 * dfusuffix(bytes, i + 1)

\* Mutant of HasSuffix: the signature is enough.
HasSignature(bytes) ==
    /\ Len(bytes) >= DFU_SUFFIX_LENGTH
    /\ dfusuffix(bytes, 8) = 85 /\ dfusuffix(bytes, 9) = 70 /\ dfusuffix(bytes, 10) = 68

HasSuffix(bytes) ==
    /\ Len(bytes) >= DFU_SUFFIX_LENGTH
    /\ dfusuffix(bytes, 8) = 85 /\ dfusuffix(bytes, 9) = 70 /\ dfusuffix(bytes, 10) = 68
    /\ Crc32(SubSeq(bytes, 1, Len(bytes) - 4)) =
         Register(SubSeq(bytes, Len(bytes) - 3, Len(bytes)))

SuffixLength(bytes) == IF HasSuffix(bytes) THEN dfusuffix(bytes, 11) ELSE 0

\* Mutant of LengthOK: only a length that is too small is refused.
LengthAtLeast(bytes) == SuffixLength(bytes) >= DFU_SUFFIX_LENGTH

LengthOK(bytes) ==
    /\ SuffixLength(bytes) >= DFU_SUFFIX_LENGTH
    /\ SuffixLength(bytes) <= Len(bytes)

\* The program ends unless this holds.
SuffixAccepted(bytes, check_suffix) ==
    IF HasSuffix(bytes) THEN LengthOK(bytes) /\ check_suffix # "NO_SUFFIX"
                        ELSE check_suffix # "NEEDS_SUFFIX"

LoadedIds(bytes) ==
    IF HasSuffix(bytes)
    THEN [id \in Ids |-> CASE id = "bcdDevice" -> Word(bytes, 0)
                           [] id = "idProduct" -> Word(bytes, 2)
                           [] id = "idVendor"  -> Word(bytes, 4)
                           [] id = "bcdDFU"    -> Word(bytes, 6)]
    ELSE [id \in Ids |-> IF id = "bcdDFU" THEN 0 ELSE 65535]

ProbedType(bytes) ==
    CASE Len(bytes) >= LMDFU_PREFIX_LENGTH /\ bytes[1] = 1 /\ bytes[2] = 0 ->
           "LMDFU_PREFIX"
      [] Len(bytes) >= LMDFU_PREFIX_LENGTH /\ bytes[1] % 64 = 26 /\ bytes[2] % 64 = 63 ->
           "LPCDFU_UNENCRYPTED_PREFIX"
      [] OTHER -> "ZERO_PREFIX"

PrefixLength(type) ==
    CASE type = "LMDFU_PREFIX"              -> LMDFU_PREFIX_LENGTH
      [] type = "LPCDFU_UNENCRYPTED_PREFIX" -> LPCDFU_PREFIX_LENGTH
      [] OTHER                              -> 0

\* What probe_prefix returns as 0: a prefix that overlaps the suffix is one all the
\* same, but for NEEDS_PREFIX.
PrefixFits(bytes) ==
    /\ Len(bytes) >= LMDFU_PREFIX_LENGTH
    /\ PrefixLength(ProbedType(bytes)) + SuffixLength(bytes) <= Len(bytes)

PrefixAccepted(bytes, check_prefix) ==
    LET found == PrefixLength(ProbedType(bytes)) > 0
    IN  /\ check_prefix = "NEEDS_PREFIX" => found /\ PrefixFits(bytes)
        /\ check_prefix = "NO_PREFIX" => ~found

dfu_load_file(bytes) ==
    [firmware      |-> bytes,
     suffix        |-> SuffixLength(bytes),
     prefix        |-> PrefixLength(ProbedType(bytes)),
     prefix_type   |-> ProbedType(bytes),
     lmdfu_address |-> IF ProbedType(bytes) = "LMDFU_PREFIX"
                       THEN 1024 * (256 * bytes[4] + bytes[3]) ELSE 0,
     ids           |-> LoadedIds(bytes)]
=============================================================================
