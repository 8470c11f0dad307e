------------------------------- MODULE Binary -------------------------------
(***************************************************************************)
(* Numbers in binary.  A register is the set of its bits that are 1, bit 0 *)
(* being the least significant one: ^ is Plus, & an intersection, and a    *)
(* shift moves the elements.                                               *)
(***************************************************************************)
EXTENDS Integers, Sequences

Plus(p, q) == (p \ q) \cup (q \ p)

Bits(byte) == {b \in 0..7 : (byte \div 2^b) % 2 = 1}

\* Byte k of a register, from 0: (uint8_t)(reg >> 8 * k).
ByteOf(reg, k) ==
    LET bit(b) == IF 8 * k + b \in reg THEN 2^b ELSE 0
    IN  bit(0) + bit(1) + bit(2) + bit(3) + bit(4) + bit(5) + bit(6) + bit(7)

\* The register whose bytes are those of s, the least significant one first.
Register(s) == {i \in 0..(8 * Len(s) - 1) : i % 8 \in Bits(s[(i \div 8) + 1])}
=============================================================================
