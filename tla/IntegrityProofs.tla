-------------------------- MODULE IntegrityProofs ---------------------------
(***************************************************************************)
(* The properties of Integrity hold for firmwares and payloads of any      *)
(* length.                                                                 *)
(*                                                                         *)
(* Both CRCs are linear: the register after damaged bytes is the sum of    *)
(* those after the bytes and after the damage.  So damage goes unnoticed   *)
(* only if the register after it alone is clear, and a window of 16 or 32  *)
(* bits is in the register as it is when its last bit has been shifted in. *)
(***************************************************************************)
EXTENDS Integrity, TLAPS, WellFoundedInduction, SequenceTheorems

-----------------------------------------------------------------------------
(* Induction and recursion over 0..n, for the provers have neither.        *)

\* A set of natural numbers that is not empty has a least element.
LEMMA Least ==
    ASSUME NEW T \in SUBSET Nat, T # {}
    PROVE  \E x \in T : \A y \in T : x <= y
<1>1. \E x \in T : \A y \in T : ~(<<y, x>> \in OpToRel(<, Nat))
  BY WFMin, NatLessThanWellFounded
<1>2. \A x, y \in Nat : ~(<<y, x>> \in OpToRel(<, Nat)) => x <= y
  BY DEF OpToRel
<1> QED
  BY <1>1, <1>2

\* Induction up to n, over a set instead of a predicate.
LEMMA Induct ==
    ASSUME NEW n \in Nat, NEW S, 0 \in S,
           \A i \in 1..n : i - 1 \in S => i \in S
    PROVE  \A i \in 0..n : i \in S
<1> DEFINE T == {i \in 0..n : i \notin S}
<1>1. SUFFICES ASSUME T # {} PROVE FALSE
  OBVIOUS
<1>a. T \in SUBSET Nat
  OBVIOUS
<1>2. PICK x \in T : \A y \in T : x <= y
  <2> HIDE DEF T
  <2> QED BY <1>1, <1>a, Least
<1>3. x \in 1..n /\ x - 1 \in 0..n
  BY <1>2
<1>4. x - 1 \in S
  BY <1>2, <1>3
<1> QED
  BY <1>2, <1>3, <1>4

\* What is obtained from a by n steps, and the functions that record how.
Steps(n, A) == [1..n -> [A -> A]]
RunsOf(step, n, a, A) ==
    {g \in [0..n -> A] : g[0] = a /\ \A i \in 1..n : g[i] = step[i][g[i - 1]]}

\* A function that is defined by recursion over its argument exists.
LEMMA Recursion ==
    ASSUME NEW n \in Nat, NEW A, NEW a \in A, NEW step \in Steps(n, A)
    PROVE  RunsOf(step, n, a, A) # {}
<1>0. step \in [1..n -> [A -> A]]
  BY DEF Steps
<1> DEFINE Run(k, g) == g[0] = a /\ \A i \in 1..k : g[i] = step[i][g[i - 1]]
           S == {k \in 0..n : \E g \in [0..k -> A] : Run(k, g)}
<1>1. 0 \in S
  <2>1. [i \in 0..0 |-> a] \in [0..0 -> A] /\ Run(0, [i \in 0..0 |-> a])
    OBVIOUS
  <2> HIDE DEF Run
  <2>2. \E g \in [0..0 -> A] : Run(0, g)
    BY <2>1
  <2> QED
    BY <2>2
<1>2. ASSUME NEW k \in 1..n, k - 1 \in S PROVE k \in S
  <2>1. PICK g \in [0..(k - 1) -> A] : Run(k - 1, g)
    BY <1>2
  <2> DEFINE h == [i \in 0..k |-> IF i = k THEN step[k][g[k - 1]] ELSE g[i]]
  <2>2. h \in [0..k -> A]
    BY <1>0
  <2>3. Run(k, h)
    BY <2>1
  <2> HIDE DEF Run, h
  <2>4. \E f \in [0..k -> A] : Run(k, f)
    BY <2>2, <2>3
  <2> QED
    BY <2>4
<1>3. \A i \in 0..n : i \in S
  <2> HIDE DEF S
  <2> QED BY <1>1, <1>2, Induct
<1>4. \E g \in [0..n -> A] : Run(n, g)
  BY <1>3
<1> QED
  BY <1>4 DEF RunsOf

-----------------------------------------------------------------------------
(* Bits and bytes.                                                         *)

\* The elements of a sum are those of one of its terms.
LEMMA PlusMember ==
    ASSUME NEW p, NEW q, NEW x
    PROVE  x \in Plus(p, q) <=> (x \in p /\ x \notin q) \/ (x \notin p /\ x \in q)
  BY DEF Plus

\* A sum has no elements that its terms have not.
LEMMA PlusType ==
    ASSUME NEW A, NEW p \in SUBSET A, NEW q \in SUBSET A
    PROVE  Plus(p, q) \in SUBSET A
  BY DEF Plus

\* Only a set and itself sum up to nothing.
LEMMA PlusEmpty ==
    ASSUME NEW p, NEW q
    PROVE  Plus(p, q) = {} <=> p = q
  BY PlusMember

\* The bits of a byte, one by one.
LEMMA BitsMember ==
    ASSUME NEW n \in 0..255
    PROVE  /\ Bits(n) \in SUBSET (0..7)
           /\ 0 \in Bits(n) <=> n % 2 = 1
           /\ 1 \in Bits(n) <=> (n \div 2) % 2 = 1
           /\ 2 \in Bits(n) <=> (n \div 4) % 2 = 1
           /\ 3 \in Bits(n) <=> (n \div 8) % 2 = 1
           /\ 4 \in Bits(n) <=> (n \div 16) % 2 = 1
           /\ 5 \in Bits(n) <=> (n \div 32) % 2 = 1
           /\ 6 \in Bits(n) <=> (n \div 64) % 2 = 1
           /\ 7 \in Bits(n) <=> (n \div 128) % 2 = 1
  BY DEF Bits

\* ByteOf puts eight bits of a register into a byte, and leaves the others out.
LEMMA ByteOfBits ==
    ASSUME NEW reg, NEW k \in Nat
    PROVE  /\ ByteOf(reg, k) \in 0..255
           /\ \A b \in 0..7 : b \in Bits(ByteOf(reg, k)) <=> 8 * k + b \in reg
<1> DEFINE x(b) == IF 8 * k + b \in reg THEN 1 ELSE 0
           n == ByteOf(reg, k)
<1>1. n = x(0) + 2 * x(1) + 4 * x(2) + 8 * x(3) + 16 * x(4) + 32 * x(5) + 64 * x(6)
            + 128 * x(7)
  BY DEF ByteOf
<1>2. \A b \in 0..7 : x(b) \in {0, 1} /\ (x(b) = 1 <=> 8 * k + b \in reg)
  OBVIOUS
<1> HIDE DEF x, n
<1>3. /\ n \in 0..255
      /\ n % 2 = x(0) /\ (n \div 2) % 2 = x(1) /\ (n \div 4) % 2 = x(2)
      /\ (n \div 8) % 2 = x(3) /\ (n \div 16) % 2 = x(4) /\ (n \div 32) % 2 = x(5)
      /\ (n \div 64) % 2 = x(6) /\ (n \div 128) % 2 = x(7)
  <2>1. /\ x(0) \in {0, 1} /\ x(1) \in {0, 1} /\ x(2) \in {0, 1} /\ x(3) \in {0, 1}
        /\ x(4) \in {0, 1} /\ x(5) \in {0, 1} /\ x(6) \in {0, 1} /\ x(7) \in {0, 1}
    BY <1>2
  <2> DEFINE x0 == x(0)
             x1 == x(1)
             x2 == x(2)
             x3 == x(3)
             x4 == x(4)
             x5 == x(5)
             x6 == x(6)
             x7 == x(7)
  <2>2. n = x0 + 2 * x1 + 4 * x2 + 8 * x3 + 16 * x4 + 32 * x5 + 64 * x6 + 128 * x7
    BY <1>1
  <2>3. /\ x0 \in {0, 1} /\ x1 \in {0, 1} /\ x2 \in {0, 1} /\ x3 \in {0, 1}
        /\ x4 \in {0, 1} /\ x5 \in {0, 1} /\ x6 \in {0, 1} /\ x7 \in {0, 1}
    BY <2>1
  <2> HIDE DEF x0, x1, x2, x3, x4, x5, x6, x7
  <2>4. n \in 0..255
    BY <2>2, <2>3
  <2>5. n % 2 = x0 /\ n \div 2 = x1 + 2 * x2 + 4 * x3 + 8 * x4 + 16 * x5 + 32 * x6 + 64 * x7
    BY <2>2, <2>3
  <2>6. n \div 4 = x2 + 2 * x3 + 4 * x4 + 8 * x5 + 16 * x6 + 32 * x7
    BY <2>2, <2>3
  <2>7. n \div 8 = x3 + 2 * x4 + 4 * x5 + 8 * x6 + 16 * x7
    BY <2>2, <2>3
  <2>8. n \div 16 = x4 + 2 * x5 + 4 * x6 + 8 * x7
    BY <2>2, <2>3
  <2>9. n \div 32 = x5 + 2 * x6 + 4 * x7
    BY <2>2, <2>3
  <2>10. n \div 64 = x6 + 2 * x7 /\ n \div 128 = x7
    BY <2>2, <2>3
  <2>11. /\ (n \div 2) % 2 = x1 /\ (n \div 4) % 2 = x2 /\ (n \div 8) % 2 = x3
         /\ (n \div 16) % 2 = x4
    BY <2>3, <2>5, <2>6, <2>7, <2>8
  <2>12. (n \div 32) % 2 = x5 /\ (n \div 64) % 2 = x6 /\ (n \div 128) % 2 = x7
    BY <2>3, <2>9, <2>10
  <2> QED BY <2>4, <2>5, <2>11, <2>12 DEF x0, x1, x2, x3, x4, x5, x6, x7
<1>4. /\ 0 \in Bits(n) <=> x(0) = 1
      /\ 1 \in Bits(n) <=> x(1) = 1
      /\ 2 \in Bits(n) <=> x(2) = 1
      /\ 3 \in Bits(n) <=> x(3) = 1
      /\ 4 \in Bits(n) <=> x(4) = 1
      /\ 5 \in Bits(n) <=> x(5) = 1
      /\ 6 \in Bits(n) <=> x(6) = 1
      /\ 7 \in Bits(n) <=> x(7) = 1
  BY <1>3, BitsMember, SMTT(30)
<1>5. \A b \in 0..7 : b \in Bits(n) <=> x(b) = 1
  BY <1>4
<1> QED
  BY <1>2, <1>3, <1>5 DEF n

\* A byte is known by its bits.
LEMMA BitsInjective ==
    ASSUME NEW m \in 0..255, NEW n \in 0..255, Bits(m) = Bits(n)
    PROVE  m = n
<1>1. \A i \in 0..255 :
        i = (i % 2) + 2 * ((i \div 2) % 2) + 4 * ((i \div 4) % 2) + 8 * ((i \div 8) % 2)
            + 16 * ((i \div 16) % 2) + 32 * ((i \div 32) % 2) + 64 * ((i \div 64) % 2)
            + 128 * ((i \div 128) % 2)
  BY SMTT(30)
<1>2. \A x, y \in Nat : (x % 2 = 1 <=> y % 2 = 1) => x % 2 = y % 2
  OBVIOUS
<1>3. /\ m \div 2 \in Nat /\ m \div 4 \in Nat /\ m \div 8 \in Nat /\ m \div 16 \in Nat
      /\ m \div 32 \in Nat /\ m \div 64 \in Nat /\ m \div 128 \in Nat
      /\ n \div 2 \in Nat /\ n \div 4 \in Nat /\ n \div 8 \in Nat /\ n \div 16 \in Nat
      /\ n \div 32 \in Nat /\ n \div 64 \in Nat /\ n \div 128 \in Nat
  OBVIOUS
<1>m. /\ 0 \in Bits(m) <=> m % 2 = 1
      /\ 1 \in Bits(m) <=> (m \div 2) % 2 = 1
      /\ 2 \in Bits(m) <=> (m \div 4) % 2 = 1
      /\ 3 \in Bits(m) <=> (m \div 8) % 2 = 1
      /\ 4 \in Bits(m) <=> (m \div 16) % 2 = 1
      /\ 5 \in Bits(m) <=> (m \div 32) % 2 = 1
      /\ 6 \in Bits(m) <=> (m \div 64) % 2 = 1
      /\ 7 \in Bits(m) <=> (m \div 128) % 2 = 1
  BY BitsMember, SMTT(30)
<1>n. /\ 0 \in Bits(n) <=> n % 2 = 1
      /\ 1 \in Bits(n) <=> (n \div 2) % 2 = 1
      /\ 2 \in Bits(n) <=> (n \div 4) % 2 = 1
      /\ 3 \in Bits(n) <=> (n \div 8) % 2 = 1
      /\ 4 \in Bits(n) <=> (n \div 16) % 2 = 1
      /\ 5 \in Bits(n) <=> (n \div 32) % 2 = 1
      /\ 6 \in Bits(n) <=> (n \div 64) % 2 = 1
      /\ 7 \in Bits(n) <=> (n \div 128) % 2 = 1
  BY BitsMember, SMTT(30)
<1>4. /\ m % 2 = 1 <=> n % 2 = 1
      /\ (m \div 2) % 2 = 1 <=> (n \div 2) % 2 = 1
      /\ (m \div 4) % 2 = 1 <=> (n \div 4) % 2 = 1
      /\ (m \div 8) % 2 = 1 <=> (n \div 8) % 2 = 1
      /\ (m \div 16) % 2 = 1 <=> (n \div 16) % 2 = 1
      /\ (m \div 32) % 2 = 1 <=> (n \div 32) % 2 = 1
      /\ (m \div 64) % 2 = 1 <=> (n \div 64) % 2 = 1
      /\ (m \div 128) % 2 = 1 <=> (n \div 128) % 2 = 1
  BY <1>m, <1>n
<1>5. m % 2 = n % 2 /\ (m \div 2) % 2 = (n \div 2) % 2
  BY <1>2, <1>3, <1>4
<1>6. (m \div 4) % 2 = (n \div 4) % 2 /\ (m \div 8) % 2 = (n \div 8) % 2
  BY <1>2, <1>3, <1>4
<1>7. (m \div 16) % 2 = (n \div 16) % 2 /\ (m \div 32) % 2 = (n \div 32) % 2
  BY <1>2, <1>3, <1>4
<1>8. (m \div 64) % 2 = (n \div 64) % 2 /\ (m \div 128) % 2 = (n \div 128) % 2
  BY <1>2, <1>3, <1>4
<1> QED
  BY <1>1, <1>5, <1>6, <1>7, <1>8

-----------------------------------------------------------------------------
(* The turns of crc_xmodem.                                                *)

Reg16 == SUBSET (0..15)

\* 0x1021 has no bit above 15.
LEMMA PolyType == POLY \in SUBSET (0..16)
  BY DEF POLY

\* A turn leaves a register.
LEMMA ShiftInType ==
    ASSUME NEW crc \in Reg16, NEW bit
    PROVE  ShiftIn(crc, bit) \in Reg16
<1> DEFINE c == {a + 1 : a \in crc} \cup (IF bit THEN {0} ELSE {})
<1>1. c \in SUBSET (0..16)
  <2>1. \A a \in crc : a + 1 \in 0..16
    BY DEF Reg16
  <2> QED BY <2>1
<1>2. Plus(c, POLY) \in SUBSET (0..16)
  <2> HIDE DEF c
  <2> QED BY <1>1, PolyType, PlusType
<1>3. ShiftIn(crc, bit) = (IF 16 \in c THEN Plus(c, POLY) ELSE c) \ {16}
  BY DEF ShiftIn
<1> HIDE DEF c
<1>4. (IF 16 \in c THEN Plus(c, POLY) ELSE c) \in SUBSET (0..16)
  BY <1>1, <1>2
<1>5. \A x \in SUBSET (0..16) : x \ {16} \in SUBSET (0..15)
  OBVIOUS
<1> QED
  BY <1>3, <1>4, <1>5 DEF Reg16

\* The sum of two registers is a register.
LEMMA PlusReg16 ==
    ASSUME NEW c \in Reg16, NEW d \in Reg16
    PROVE  Plus(c, d) \in Reg16
  BY DEF Plus, Reg16

\* Every bit of the register after a turn of crc_xmodem's inner loop.
LEMMA ShiftInMember ==
    ASSUME NEW crc \in Reg16, NEW bit, NEW b \in 0..15
    PROVE  b \in ShiftIn(crc, bit) <=>
             IF 15 \in crc /\ b \in POLY THEN ~(IF b = 0 THEN bit ELSE b - 1 \in crc)
                                         ELSE IF b = 0 THEN bit ELSE b - 1 \in crc
<1> DEFINE c == {a + 1 : a \in crc} \cup (IF bit THEN {0} ELSE {})
<1>1. 16 \in c <=> 15 \in crc
  BY DEF Reg16
<1>2. b \in c <=> IF b = 0 THEN bit ELSE b - 1 \in crc
  <2>1. b \in {a + 1 : a \in crc} <=> b # 0 /\ b - 1 \in crc
    <3>1. ASSUME NEW a \in crc, b = a + 1 PROVE b # 0 /\ b - 1 \in crc
      BY <3>1 DEF Reg16
    <3>2. ASSUME b # 0, b - 1 \in crc PROVE b \in {a + 1 : a \in crc}
      BY <3>2
    <3> QED BY <3>1, <3>2
  <2>2. b \in (IF bit THEN {0} ELSE {}) <=> b = 0 /\ bit
    OBVIOUS
  <2> QED BY <2>1, <2>2
<1>3. b \in ShiftIn(crc, bit) <=> b \in (IF 16 \in c THEN Plus(c, POLY) ELSE c)
  BY DEF ShiftIn
<1> HIDE DEF c
<1>4. b \in Plus(c, POLY) <=> ~(b \in c <=> b \in POLY)
  BY PlusMember
<1> QED
  BY <1>1, <1>2, <1>3, <1>4

\* The registers of crc_xmodem are those that its loops go through.
LEMMA TurnsDef ==
    ASSUME NEW ones, NEW n \in Nat
    PROVE  /\ Turns(ones, n) \in [0..n -> Reg16]
           /\ Turns(ones, n)[0] = {}
           /\ \A i \in 1..n : Turns(ones, n)[i] = ShiftIn(Turns(ones, n)[i - 1], i \in ones)
<1> DEFINE step == [i \in 1..n |-> [c \in Reg16 |-> ShiftIn(c, i \in ones)]]
           zero == {}
<1>1. step \in Steps(n, Reg16)
  <2>1. ASSUME NEW i \in 1..n, NEW c \in Reg16 PROVE ShiftIn(c, i \in ones) \in Reg16
    BY ShiftInType
  <2> QED BY <2>1 DEF Steps
<1>2. zero \in Reg16
  BY DEF Reg16
<1>3. PICK g \in [0..n -> Reg16] :
        g[0] = zero /\ \A i \in 1..n : g[i] = step[i][g[i - 1]]
  <2> HIDE DEF step, zero
  <2>1. RunsOf(step, n, zero, Reg16) # {}
    BY <1>1, <1>2, Recursion
  <2> QED BY <2>1 DEF RunsOf
<1>4. ASSUME NEW i \in 1..n PROVE g[i] = ShiftIn(g[i - 1], i \in ones)
  <2>1. g[i] = step[i][g[i - 1]] /\ g[i - 1] \in Reg16
    <3> HIDE DEF step
    <3> QED BY <1>3
  <2>2. \A c \in Reg16 : step[i][c] = ShiftIn(c, i \in ones)
    BY Zenon
  <2> QED BY <2>1, <2>2, Zenon
<1> DEFINE Runs(f) == f = [i \in 0..n |-> IF i = 0 THEN {} ELSE ShiftIn(f[i - 1], i \in ones)]
           T == Turns(ones, n)
<1>5. Runs(g)
  BY <1>3, <1>4
<1>6. T = CHOOSE f : Runs(f)
  BY DEF Turns
<1>7. Runs(T)
  <2> HIDE DEF Runs, T
  <2> QED BY <1>5, <1>6
<1>8. T[0] = {} /\ \A i \in 1..n : T[i] = ShiftIn(T[i - 1], i \in ones)
  <2>1. 0 \in 0..n /\ \A i \in 1..n : i \in 0..n /\ i # 0
    OBVIOUS
  <2>2. \A i \in 0..n : T[i] = IF i = 0 THEN {} ELSE ShiftIn(T[i - 1], i \in ones)
    <3> HIDE DEF T
    <3> QED BY <1>7, Zenon
  <2> HIDE DEF T
  <2> QED BY <2>1, <2>2, Zenon
<1> HIDE DEF T
<1>9. \A i \in 0..n : T[i] \in Reg16
  <2> DEFINE S == {i \in 0..n : T[i] \in Reg16}
  <2>1. 0 \in S
    BY <1>8 DEF Reg16
  <2>2. ASSUME NEW i \in 1..n, i - 1 \in S PROVE i \in S
    BY <2>2, <1>8, ShiftInType
  <2>3. \A i \in 0..n : i \in S
    <3> HIDE DEF S
    <3> QED BY <2>1, <2>2, Induct
  <2> QED BY <2>3
<1>10. T \in [0..n -> Reg16]
  <2> HIDE DEF T
  <2> QED BY <1>7, <1>9
<1> QED
  BY <1>8, <1>10 DEF T

\* A turn of the inner loop is linear, in the register and in the bit.
LEMMA ShiftInLinear ==
    ASSUME NEW c \in Reg16, NEW d \in Reg16, NEW x, NEW y, NEW z, z <=> ~(x <=> y)
    PROVE  ShiftIn(Plus(c, d), z) = Plus(ShiftIn(c, x), ShiftIn(d, y))
<1>1. Plus(c, d) \in Reg16
  BY PlusReg16
<1>2. ShiftIn(Plus(c, d), z) \in Reg16 /\ ShiftIn(c, x) \in Reg16 /\ ShiftIn(d, y) \in Reg16
  BY <1>1, ShiftInType
<1>4. Plus(ShiftIn(c, x), ShiftIn(d, y)) \in Reg16
  BY <1>2, PlusReg16
<1>3. ASSUME NEW b \in 0..15
      PROVE  b \in ShiftIn(Plus(c, d), z) <=> b \in Plus(ShiftIn(c, x), ShiftIn(d, y))
  <2>1. b \in ShiftIn(c, x) <=>
             IF 15 \in c /\ b \in POLY THEN ~(IF b = 0 THEN x ELSE b - 1 \in c)
                                       ELSE IF b = 0 THEN x ELSE b - 1 \in c
    BY ShiftInMember
  <2>2. b \in ShiftIn(d, y) <=>
             IF 15 \in d /\ b \in POLY THEN ~(IF b = 0 THEN y ELSE b - 1 \in d)
                                       ELSE IF b = 0 THEN y ELSE b - 1 \in d
    BY ShiftInMember
  <2>3. b \in ShiftIn(Plus(c, d), z) <=>
             IF 15 \in Plus(c, d) /\ b \in POLY
             THEN ~(IF b = 0 THEN z ELSE b - 1 \in Plus(c, d))
             ELSE IF b = 0 THEN z ELSE b - 1 \in Plus(c, d)
    BY <1>1, ShiftInMember
  <2> QED
    BY <2>1, <2>2, <2>3, PlusMember
<1> QED
  BY <1>2, <1>3, <1>4 DEF Reg16

\* Then so are any number of them.
LEMMA TurnsLinear ==
    ASSUME NEW A, NEW B, NEW n \in Nat
    PROVE  \A i \in 0..n : Turns(Plus(A, B), n)[i] = Plus(Turns(A, n)[i], Turns(B, n)[i])
<1> DEFINE f == Turns(A, n)
           g == Turns(B, n)
           h == Turns(Plus(A, B), n)
           S == {i \in 0..n : h[i] = Plus(f[i], g[i])}
<1>1. /\ f \in [0..n -> Reg16] /\ f[0] = {}
      /\ \A i \in 1..n : f[i] = ShiftIn(f[i - 1], i \in A)
  BY TurnsDef
<1>2. /\ g \in [0..n -> Reg16] /\ g[0] = {}
      /\ \A i \in 1..n : g[i] = ShiftIn(g[i - 1], i \in B)
  BY TurnsDef
<1>3. /\ h[0] = {}
      /\ \A i \in 1..n : h[i] = ShiftIn(h[i - 1], i \in Plus(A, B))
  BY TurnsDef
<1> HIDE DEF f, g, h
<1>4. 0 \in S
  BY <1>1, <1>2, <1>3 DEF Plus
<1>5. ASSUME NEW i \in 1..n, i - 1 \in S PROVE i \in S
  <2>1. (i \in Plus(A, B)) <=> ~((i \in A) <=> (i \in B))
    BY PlusMember
  <2>2. f[i - 1] \in Reg16 /\ g[i - 1] \in Reg16
    BY <1>1, <1>2
  <2>3. ShiftIn(Plus(f[i - 1], g[i - 1]), i \in Plus(A, B)) =
          Plus(ShiftIn(f[i - 1], i \in A), ShiftIn(g[i - 1], i \in B))
    <3> DEFINE x == i \in A
               y == i \in B
               z == i \in Plus(A, B)
    <3>1. z <=> ~(x <=> y)
      BY <2>1
    <3> HIDE DEF x, y, z
    <3>2. ShiftIn(Plus(f[i - 1], g[i - 1]), z) = Plus(ShiftIn(f[i - 1], x), ShiftIn(g[i - 1], y))
      BY <3>1, <2>2, ShiftInLinear
    <3> QED BY <3>2 DEF x, y, z
  <2>4. h[i - 1] = Plus(f[i - 1], g[i - 1])
    BY <1>5
  <2> QED
    BY <2>3, <2>4, <1>1, <1>2, <1>3
<1>6. \A i \in 0..n : i \in S
  <2> HIDE DEF S
  <2> QED BY <1>4, <1>5, Induct
<1> QED
  BY <1>6 DEF f, g, h

\* Sixteen adjacent bits are still in the register, as they are, after the last of them.
LEMMA TurnsWindow ==
    ASSUME NEW n \in Nat, NEW p \in Int, NEW A \in SUBSET (p..(p + 15)), p >= 1
    PROVE  \A i \in 0..n : i <= p + 15 =>
               \A b \in 0..15 : b \in Turns(A, n)[i] <=> i - b \in A
<1> DEFINE f == Turns(A, n)
           S == {i \in 0..n : i <= p + 15 => \A b \in 0..15 : b \in f[i] <=> i - b \in A}
<1>1. /\ f \in [0..n -> Reg16] /\ f[0] = {}
      /\ \A i \in 1..n : f[i] = ShiftIn(f[i - 1], i \in A)
  BY TurnsDef
<1> HIDE DEF f
<1>2. 0 \in S
  <2>1. \A b \in 0..15 : b \notin f[0] /\ 0 - b \notin A
    BY <1>1
  <2> QED BY <2>1
<1>3. ASSUME NEW i \in 1..n, i - 1 \in S PROVE i \in S
  <2>1. SUFFICES ASSUME i <= p + 15, NEW b \in 0..15
                 PROVE  b \in f[i] <=> i - b \in A
    OBVIOUS
  <2>2. \A a \in 0..15 : a \in f[i - 1] <=> i - 1 - a \in A
    BY <1>3, <2>1
  <2>3. 15 \notin f[i - 1]
    BY <2>1, <2>2
  <2>4. b \in f[i] <=> IF b = 0 THEN i \in A ELSE b - 1 \in f[i - 1]
    <3>1. f[i - 1] \in Reg16 /\ f[i] = ShiftIn(f[i - 1], i \in A)
      BY <1>1
    <3>2. b \in ShiftIn(f[i - 1], i \in A) <=>
             IF 15 \in f[i - 1] /\ b \in POLY
             THEN ~(IF b = 0 THEN i \in A ELSE b - 1 \in f[i - 1])
             ELSE IF b = 0 THEN i \in A ELSE b - 1 \in f[i - 1]
      BY <3>1, ShiftInMember, Zenon
    <3> QED BY <3>1, <3>2, <2>3
  <2>5. b # 0 => (b - 1 \in f[i - 1] <=> i - b \in A)
    BY <2>2
  <2> QED BY <2>4, <2>5
<1>4. \A i \in 0..n : i \in S
  <2> HIDE DEF S
  <2> QED BY <1>2, <1>3, Induct
<1> QED
  BY <1>4 DEF f

-----------------------------------------------------------------------------
(* What crc_xmodem notices.                                                *)

\* A turn that shifts in a 0 does not clear the register.
LEMMA ShiftInZero ==
    ASSUME NEW c \in Reg16, c # {}
    PROVE  ShiftIn(c, FALSE) # {}
<1>1. CASE 15 \in c
  <2>1. 0 \in ShiftIn(c, FALSE)
    <3>1. 0 \in 0..15 /\ 0 \in POLY
      BY DEF POLY
    <3> QED BY <1>1, <3>1, ShiftInMember, Zenon
  <2> QED BY <2>1
<1>2. CASE 15 \notin c
  <2>1. PICK a \in c : TRUE
    OBVIOUS
  <2>3. a \in 0..14
    BY <1>2, <2>1 DEF Reg16
  <2>2. a + 1 \in ShiftIn(c, FALSE)
    <3>1. a + 1 \in 0..15 /\ a + 1 # 0 /\ (a + 1) - 1 = a
      BY <2>3
    <3>2. a + 1 \in ShiftIn(c, FALSE) <=>
             IF 15 \in c /\ a + 1 \in POLY
             THEN ~(IF a + 1 = 0 THEN FALSE ELSE (a + 1) - 1 \in c)
             ELSE IF a + 1 = 0 THEN FALSE ELSE (a + 1) - 1 \in c
      BY <3>1, ShiftInMember, Zenon
    <3> QED BY <3>1, <3>2, <2>1, <1>2
  <2> QED BY <2>2
<1> QED
  BY <1>1, <1>2

\* Then no number of zeros does.
LEMMA TurnsStay ==
    ASSUME NEW ones, NEW n \in Nat, NEW k \in 0..n, Turns(ones, n)[k] # {},
           \A i \in (k + 1)..n : i \notin ones
    PROVE  Turns(ones, n)[n] # {}
<1> DEFINE f == Turns(ones, n)
           S == {j \in 0..(n - k) : f[k + j] # {}}
<1>1. f \in [0..n -> Reg16] /\ \A i \in 1..n : f[i] = ShiftIn(f[i - 1], i \in ones)
  BY TurnsDef
<1>2. f[k] # {}
  OBVIOUS
<1> HIDE DEF f
<1>3. 0 \in S
  BY <1>2
<1>4. ASSUME NEW j \in 1..(n - k), j - 1 \in S PROVE j \in S
  <2>1. k + j \in 1..n /\ k + j \in (k + 1)..n /\ (k + j) - 1 = k + (j - 1)
    OBVIOUS
  <2>2. f[k + (j - 1)] \in Reg16 /\ f[k + (j - 1)] # {}
    BY <1>1, <1>4, <2>1
  <2>3. f[k + j] = ShiftIn(f[k + (j - 1)], k + j \in ones) /\ (k + j \in ones) = FALSE
    BY <1>1, <2>1
  <2>4. f[k + j] # {}
    <3> DEFINE c == f[k + (j - 1)]
    <3> HIDE DEF c
    <3>1. c \in Reg16 /\ c # {}
      BY <2>2 DEF c
    <3>2. f[k + j] = ShiftIn(c, FALSE)
      BY <2>3, Zenon DEF c
    <3> QED BY <3>1, <3>2, ShiftInZero
  <2> QED BY <2>4
<1>5. \A j \in 0..(n - k) : j \in S
  <2>1. n - k \in Nat
    OBVIOUS
  <2> HIDE DEF S
  <2> QED BY <2>1, <1>3, <1>4, Induct
<1>6. n - k \in 0..(n - k) /\ k + (n - k) = n
  OBVIOUS
<1>7. f[n] # {}
  BY <1>5, <1>6
<1> QED
  BY <1>7 DEF f

\* A burst that is no longer than the register leaves something in it.
LEMMA BurstSeen ==
    ASSUME NEW n \in Nat, NEW p \in 1..n, NEW A \in SUBSET (p..(p + 15)),
           A \subseteq 1..n, p \in A
    PROVE  Turns(A, n)[n] # {}
<1> DEFINE m == IF p + 15 <= n THEN p + 15 ELSE n
<1>1. m \in 0..n /\ m <= p + 15 /\ m - p \in 0..15 /\ m - (m - p) = p
  OBVIOUS
<1>2. \A i \in (m + 1)..n : i \notin A
  OBVIOUS
<1> HIDE DEF m
<1>3. m - p \in Turns(A, n)[m]
  BY <1>1, TurnsWindow
<1> QED
  BY <1>1, <1>2, <1>3, TurnsStay

\* Zeros are turns that shift in a 0.
LEMMA ZerosDef ==
    ASSUME NEW crc \in Reg16
    PROVE  /\ Zeros(crc)[1] = ShiftIn(crc, FALSE)
           /\ \A j \in 2..8 : Zeros(crc)[j] = ShiftIn(Zeros(crc)[j - 1], FALSE)
           /\ \A j \in 1..8 : Zeros(crc)[j] \in Reg16
<1> DEFINE z == Zeros(crc)
<1>1. /\ z[1] = ShiftIn(crc, FALSE) /\ z[2] = ShiftIn(z[1], FALSE)
      /\ z[3] = ShiftIn(z[2], FALSE) /\ z[4] = ShiftIn(z[3], FALSE)
      /\ z[5] = ShiftIn(z[4], FALSE) /\ z[6] = ShiftIn(z[5], FALSE)
      /\ z[7] = ShiftIn(z[6], FALSE) /\ z[8] = ShiftIn(z[7], FALSE)
  BY DEF Zeros
<1> HIDE DEF z
<1>2. z[1] \in Reg16 /\ z[2] \in Reg16 /\ z[3] \in Reg16 /\ z[4] \in Reg16
  BY <1>1, ShiftInType
<1>3. z[5] \in Reg16 /\ z[6] \in Reg16 /\ z[7] \in Reg16 /\ z[8] \in Reg16
  BY <1>1, <1>2, ShiftInType
<1>4. \A j \in 2..8 : z[j] = ShiftIn(z[j - 1], FALSE)
  <2>1. SUFFICES ASSUME NEW j \in 2..8 PROVE z[j] = ShiftIn(z[j - 1], FALSE)
    OBVIOUS
  <2>2. /\ \/ j = 2 \/ j = 3 \/ j = 4 \/ j = 5 \/ j = 6 \/ j = 7 \/ j = 8
        /\ 2 - 1 = 1 /\ 3 - 1 = 2 /\ 4 - 1 = 3 /\ 5 - 1 = 4 /\ 6 - 1 = 5 /\ 7 - 1 = 6
        /\ 8 - 1 = 7
    OBVIOUS
  <2> QED BY <1>1, <2>2, Zenon
<1>5. \A j \in 1..8 : z[j] \in Reg16
  BY <1>2, <1>3
<1> QED
  BY <1>1, <1>4, <1>5 DEF z

\* Powers are what zeros do to a 1, a byte at a time.
LEMMA PowersDef ==
    ASSUME NEW n \in Nat
    PROVE  /\ Powers(n) \in [0..n -> Reg16]
           /\ Powers(n)[0] = {0}
           /\ \A k \in 1..n : Powers(n)[k] = Zeros(Powers(n)[k - 1])[8]
<1> DEFINE eight == [crc \in SUBSET (0..15) |-> Zeros(crc)[8]]
           one == {0}
           step == [k \in 1..n |-> eight]
<1>1. eight \in [Reg16 -> Reg16]
  <2>1. ASSUME NEW c \in Reg16 PROVE Zeros(c)[8] \in Reg16
    <3>1. \A j \in 1..8 : Zeros(c)[j] \in Reg16
      BY ZerosDef
    <3> QED BY <3>1
  <2>2. eight = [c \in Reg16 |-> Zeros(c)[8]]
    BY DEF Reg16
  <2> QED BY <2>1, <2>2
<1>2. step \in Steps(n, Reg16)
  <2> HIDE DEF eight
  <2> QED BY <1>1 DEF Steps
<1>3. one \in Reg16
  BY DEF Reg16
<1>4. PICK g \in [0..n -> Reg16] :
        g[0] = one /\ \A k \in 1..n : g[k] = step[k][g[k - 1]]
  <2> HIDE DEF step, one
  <2>1. RunsOf(step, n, one, Reg16) # {}
    BY <1>2, <1>3, Recursion
  <2> QED BY <2>1 DEF RunsOf
<1> DEFINE Runs(f) == f = [k \in 0..n |-> IF k = 0 THEN {0} ELSE eight[f[k - 1]]]
           T == Powers(n)
<1>5. Runs(g)
  <2> HIDE DEF eight
  <2> QED BY <1>4
<1>6. T = CHOOSE f : Runs(f)
  BY DEF Powers
<1>7. Runs(T)
  <2> HIDE DEF Runs, T
  <2> QED BY <1>5, <1>6
<1>8. T = g
  <2> DEFINE S == {k \in 0..n : T[k] = g[k]}
  <2> HIDE DEF eight, T
  <2>0. T[0] = {0} /\ \A k \in 1..n : T[k] = eight[T[k - 1]]
    <3>1. 0 \in 0..n /\ \A k \in 1..n : k \in 0..n /\ k # 0
      OBVIOUS
    <3>2. \A k \in 0..n : T[k] = IF k = 0 THEN {0} ELSE eight[T[k - 1]]
      BY <1>7, Zenon
    <3> QED BY <3>1, <3>2, Zenon
  <2>00. g[0] = {0} /\ \A k \in 1..n : g[k] = eight[g[k - 1]]
    BY <1>4
  <2>1. 0 \in S
    <3>1. T[0] = g[0]
      BY <2>0, <2>00, Zenon
    <3> QED BY <3>1
  <2>2. ASSUME NEW k \in 1..n, k - 1 \in S PROVE k \in S
    BY <2>2, <2>0, <2>00
  <2>3. \A k \in 0..n : k \in S
    <3> HIDE DEF S
    <3> QED BY <2>1, <2>2, Induct
  <2> QED BY <2>3, <1>7
<1>9. \A k \in 1..n : g[k] = Zeros(g[k - 1])[8]
  <2>1. ASSUME NEW k \in 1..n PROVE g[k] = Zeros(g[k - 1])[8]
    <3>1. g[k] = eight[g[k - 1]] /\ g[k - 1] \in Reg16
      <4> HIDE DEF eight
      <4> QED BY <1>4
    <3>2. \A c \in Reg16 : eight[c] = Zeros(c)[8]
      BY DEF Reg16
    <3> HIDE DEF eight
    <3> QED BY <3>1, <3>2
  <2> QED BY <2>1
<1> HIDE DEF T, eight, step
<1> QED
  BY <1>4, <1>8, <1>9 DEF T

\* Eight turns after a single 1 are Zeros.
LEMMA EightTurns ==
    ASSUME NEW n \in Nat, NEW p \in 1..n, NEW m \in p..n
    PROVE  \A j \in 1..8 :
               m + j <= n => Turns({p}, n)[m + j] = Zeros(Turns({p}, n)[m])[j]
<1> DEFINE f == Turns({p}, n)
           z == Zeros(f[m])
           S == {j \in 0..8 : j >= 1 /\ m + j <= n => f[m + j] = z[j]}
<1>1. f \in [0..n -> Reg16] /\ \A i \in 1..n : f[i] = ShiftIn(f[i - 1], i \in {p})
  BY TurnsDef
<1> HIDE DEF f
<1>2. f[m] \in Reg16
  BY <1>1
<1>3. z[1] = ShiftIn(f[m], FALSE) /\ \A j \in 2..8 : z[j] = ShiftIn(z[j - 1], FALSE)
  BY <1>2, ZerosDef
<1>4. ASSUME NEW i \in (m + 1)..n PROVE f[i] = ShiftIn(f[i - 1], FALSE)
  <2>1. i \in 1..n /\ (i \in {p}) = FALSE
    OBVIOUS
  <2> QED BY <1>1, <2>1, Zenon
<1> HIDE DEF z
<1>5. 0 \in S
  OBVIOUS
<1>6. ASSUME NEW j \in 1..8, j - 1 \in S PROVE j \in S
  <2>1. SUFFICES ASSUME m + j <= n PROVE f[m + j] = z[j]
    OBVIOUS
  <2>2. m + j \in (m + 1)..n
    BY <2>1
  <2>3. f[m + j] = ShiftIn(f[(m + j) - 1], FALSE)
    BY <1>4, <2>2
  <2>4. CASE j = 1
    <3>1. (m + j) - 1 = m
      BY <2>4
    <3> QED BY <3>1, <2>3, <2>4, <1>3
  <2>5. CASE j # 1
    <3>1. (m + j) - 1 = m + (j - 1) /\ j \in 2..8 /\ f[m + (j - 1)] = z[j - 1]
      BY <2>5, <2>1, <1>6
    <3> QED BY <3>1, <2>3, <1>3
  <2> QED BY <2>4, <2>5
<1>7. \A j \in 0..8 : j \in S
  <2>1. 8 \in Nat
    OBVIOUS
  <2> HIDE DEF S
  <2> QED BY <1>5, <1>6, <2>1, Induct
<1>8. \A j \in 1..8 : m + j <= n => f[m + j] = z[j]
  BY <1>7
<1> QED
  BY <1>8 DEF f, z

\* The register is 1 just after the only 1 that is shifted in.
LEMMA SingleError ==
    ASSUME NEW n \in Nat, NEW p \in 1..n
    PROVE  Turns({p}, n)[p] = {0} /\ \A i \in 0..n : i < p => Turns({p}, n)[i] = {}
<1> DEFINE f == Turns({p}, n)
<1>1. \A i \in 0..n : i <= p + 15 => \A b \in 0..15 : b \in f[i] <=> i - b \in {p}
  <2>1. {p} \in SUBSET (p..(p + 15)) /\ p \in Int /\ p >= 1
    OBVIOUS
  <2> QED BY <2>1, TurnsWindow
<1>2. f \in [0..n -> Reg16]
  BY TurnsDef
<1> HIDE DEF f
<1>3. f[p] = {0}
  <2>1. f[p] \in Reg16 /\ \A b \in 0..15 : b \in f[p] <=> p - b \in {p}
    BY <1>1, <1>2
  <2> QED BY <2>1 DEF Reg16
<1>4. ASSUME NEW i \in 0..n, i < p PROVE f[i] = {}
  <2>1. f[i] \in Reg16 /\ \A b \in 0..15 : b \in f[i] <=> i - b \in {p}
    BY <1>1, <1>2, <1>4
  <2> QED BY <2>1, <1>4 DEF Reg16
<1> QED
  BY <1>3, <1>4 DEF f

\* After it come the powers.
LEMMA PowersReached ==
    ASSUME NEW n \in Nat, NEW p \in 1..n
    PROVE  \A k \in 0..PairSpan :
               p + 8 * k <= n => Turns({p}, n)[p + 8 * k] = Powers(PairSpan)[k]
<1> DEFINE f == Turns({p}, n)
           x == Powers(PairSpan)
           S == {k \in 0..PairSpan : p + 8 * k <= n => f[p + 8 * k] = x[k]}
<1>1. x[0] = {0} /\ \A k \in 1..PairSpan : x[k] = Zeros(x[k - 1])[8]
  BY PairAssumption, PowersDef
<1>2. f[p] = {0}
  BY SingleError
<1>3. \A m \in p..n : m + 8 <= n => f[m + 8] = Zeros(f[m])[8]
  <2>1. ASSUME NEW m \in p..n, m + 8 <= n PROVE f[m + 8] = Zeros(f[m])[8]
    <3>1. \A j \in 1..8 : m + j <= n => f[m + j] = Zeros(f[m])[j]
      BY EightTurns
    <3> HIDE DEF f
    <3> QED BY <3>1, <2>1
  <2> QED BY <2>1
<1> HIDE DEF f, x
<1>4. 0 \in S
  <2>1. p + 8 * 0 = p /\ 0 \in 0..PairSpan
    BY PairAssumption
  <2>2. f[p] = x[0]
    BY <1>1, <1>2, Zenon
  <2> QED BY <2>1, <2>2
<1>5. ASSUME NEW k \in 1..PairSpan, k - 1 \in S PROVE k \in S
  <2>1. SUFFICES ASSUME p + 8 * k <= n PROVE f[p + 8 * k] = x[k]
    OBVIOUS
  <2> DEFINE m == p + 8 * (k - 1)
  <2>2. m \in p..n /\ m + 8 <= n /\ m + 8 = p + 8 * k
    BY <2>1, PairAssumption
  <2>3. f[m] = x[k - 1]
    BY <2>2, <1>5
  <2> HIDE DEF m
  <2>4. f[p + 8 * k] = Zeros(x[k - 1])[8]
    BY <2>2, <2>3, <1>3
  <2> QED BY <2>4, <1>1
<1>6. \A k \in 0..PairSpan : k \in S
  <2> HIDE DEF S
  <2> QED BY <1>4, <1>5, PairAssumption, Induct
<1> QED
  BY <1>6 DEF f, x

\* Two errors within the span leave something in the register.
LEMMA PairSeen ==
    ASSUME NEW n \in Nat, NEW p \in 1..n, NEW q \in 1..n, p < q, q - p <= 8 * PairSpan
    PROVE  Turns({p, q}, n)[n] # {}
<1>1. PICK k \in 0..(PairSpan - 1), j \in 1..8 : q = p + 8 * k + j
  <2>1. (q - p - 1) \div 8 \in 0..(PairSpan - 1) /\ ((q - p - 1) % 8) + 1 \in 1..8
    BY PairAssumption
  <2>2. q = p + 8 * ((q - p - 1) \div 8) + (((q - p - 1) % 8) + 1)
    OBVIOUS
  <2> QED BY <2>1, <2>2
<1> DEFINE f == Turns({p}, n)
           g == Turns({q}, n)
<1>2. f[p + 8 * k] = Powers(PairSpan)[k]
  BY <1>1, PowersReached, PairAssumption
<1>3. f[q] = Zeros(Powers(PairSpan)[k])[j]
  <2>1. p + 8 * k \in p..n /\ (p + 8 * k) + j = q
    BY <1>1, PairAssumption
  <2>2. \A i \in 1..8 : (p + 8 * k) + i <= n => f[(p + 8 * k) + i] = Zeros(f[p + 8 * k])[i]
    BY <2>1, EightTurns
  <2> HIDE DEF f
  <2> QED BY <2>1, <2>2, <1>2
<1>4. f[q] # {0}
  BY <1>3, PairAssumption
<1>5. g[q] = {0}
  BY SingleError
<1>6. {p, q} = Plus({p}, {q})
  BY DEF Plus
<1>7. Turns({p, q}, n)[q] = Plus(f[q], {0})
  <2>1. \A i \in 0..n : Turns(Plus({p}, {q}), n)[i] = Plus(f[i], g[i])
    <3> DEFINE A == {p}
               B == {q}
    <3> HIDE DEF A, B
    <3>1. \A i \in 0..n : Turns(Plus(A, B), n)[i] = Plus(Turns(A, n)[i], Turns(B, n)[i])
      BY TurnsLinear
    <3> QED BY <3>1 DEF A, B
  <2>2. q \in 0..n
    OBVIOUS
  <2> HIDE DEF f, g
  <2> QED BY <2>1, <2>2, <1>5, <1>6
<1>8. Turns({p, q}, n)[q] # {}
  <2> HIDE DEF f
  <2> QED BY <1>4, <1>7, PlusEmpty
<1>9. \A i \in (q + 1)..n : i \notin {p, q}
  OBVIOUS
<1> QED
  <2> DEFINE A == {p, q}
  <2>1. Turns(A, n)[q] # {} /\ \A i \in (q + 1)..n : i \notin A
    BY <1>8, <1>9, Zenon
  <2>3. q \in 0..n
    OBVIOUS
  <2> HIDE DEF A
  <2>2. Turns(A, n)[n] # {}
    BY <2>1, <2>3, TurnsStay
  <2> QED BY <2>2 DEF A

-----------------------------------------------------------------------------
(* Packets.                                                                *)

Byte == 0..255

\* What a flip of bits makes of every byte.
LEMMA FlipBytes ==
    ASSUME NEW s \in Seq(Byte), NEW hits
    PROVE  /\ Flip(s, hits) \in Seq(Byte) /\ Len(Flip(s, hits)) = Len(s)
           /\ \A i \in 1..Len(s), b \in 0..7 :
                 b \in Bits(Flip(s, hits)[i]) <=> ~(b \in Bits(s[i]) <=> 8 * i - b \in hits)
<1> DEFINE turned(i) == Plus(Bits(s[i]), {b \in 0..7 : 8 * i - b \in hits})
<1>1. Flip(s, hits) = [i \in 1..Len(s) |-> ByteOf(turned(i), 0)]
  BY DEF Flip
<1>2. \A i : ByteOf(turned(i), 0) \in Byte
  <2> HIDE DEF turned
  <2> QED BY ByteOfBits DEF Byte
<1>3. \A i, b : b \in 0..7 => (b \in Bits(ByteOf(turned(i), 0)) <=> b \in turned(i))
  <2>1. SUFFICES ASSUME NEW i, NEW b \in 0..7
                 PROVE  b \in Bits(ByteOf(turned(i), 0)) <=> b \in turned(i)
    OBVIOUS
  <2> HIDE DEF turned
  <2>2. b \in Bits(ByteOf(turned(i), 0)) <=> 8 * 0 + b \in turned(i)
    BY ByteOfBits
  <2> QED BY <2>2
<1>4. \A i, b : b \in 0..7 => (b \in turned(i) <=> ~(b \in Bits(s[i]) <=> 8 * i - b \in hits))
  BY PlusMember
<1> HIDE DEF turned
<1>5. Len(s) \in Nat
  OBVIOUS
<1>6. Flip(s, hits) \in Seq(Byte) /\ Len(Flip(s, hits)) = Len(s)
  BY <1>1, <1>2, <1>5
<1>7. \A i \in 1..Len(s) : Flip(s, hits)[i] = ByteOf(turned(i), 0)
  BY <1>1
<1> QED
  BY <1>3, <1>4, <1>6, <1>7

\* What it makes of every bit.
LEMMA BitAtFlip ==
    ASSUME NEW s \in Seq(Byte), NEW hits, NEW j \in 1..(8 * Len(s))
    PROVE  BitAt(Flip(s, hits), j) <=> ~(BitAt(s, j) <=> j \in hits)
<1> DEFINE i == ((j - 1) \div 8) + 1
           b == 7 - ((j - 1) % 8)
<1>1. i \in 1..Len(s) /\ b \in 0..7 /\ 8 * i - b = j
  <2>1. Len(s) \in Nat
    OBVIOUS
  <2> QED BY <2>1
<1>2. BitAt(Flip(s, hits), j) <=> b \in Bits(Flip(s, hits)[i])
  BY DEF BitAt
<1>3. BitAt(s, j) <=> b \in Bits(s[i])
  BY DEF BitAt
<1> HIDE DEF i, b
<1> QED
  BY <1>1, <1>2, <1>3, FlipBytes

\* The bits of a packet that its CRC is about, its own included.
Covered(pkt) == {j \in 1..(8 * (Len(pkt) - 2)) : BitAt(pkt, j + 16)}

CrcOK(pkt) == crc_xmodem(Payload(pkt)) = CrcRecv(pkt)

\* The payload of a packet is all of it but two bytes at each end.
LEMMA PayloadType ==
    ASSUME NEW pkt \in Seq(Byte), Len(pkt) >= 4
    PROVE  /\ Payload(pkt) \in Seq(Byte) /\ Len(Payload(pkt)) = Len(pkt) - 4
           /\ \A i \in 1..(Len(pkt) - 4) : Payload(pkt)[i] = pkt[i + 2]
<1>1. Len(pkt) \in Nat /\ Len(pkt) - 2 \in 2..Len(pkt) /\ Len(pkt) - 2 - 3 + 1 = Len(pkt) - 4
  OBVIOUS
<1>2. \A i \in 3..(Len(pkt) - 2) : pkt[i] \in Byte
  OBVIOUS
<1>3. Payload(pkt) = [i \in 1..(Len(pkt) - 4) |-> pkt[i + 2]]
  BY <1>1 DEF Payload
<1> QED
  BY <1>1, <1>2, <1>3

\* Its bits are the packet's, sixteen further on.
LEMMA OnesOfPayload ==
    ASSUME NEW pkt \in Seq(Byte), Len(pkt) >= 4
    PROVE  Ones(Payload(pkt)) = {j \in 1..(8 * (Len(pkt) - 4)) : BitAt(pkt, j + 16)}
<1>1. SUFFICES ASSUME NEW j \in 1..(8 * (Len(pkt) - 4))
               PROVE  BitAt(Payload(pkt), j) <=> BitAt(pkt, j + 16)
  <2>1. Ones(Payload(pkt)) = {j \in 1..(8 * (Len(pkt) - 4)) : BitAt(Payload(pkt), j)}
    BY PayloadType DEF Ones
  <2> QED BY <2>1
<1>2. /\ ((j - 1) \div 8) + 1 \in 1..(Len(pkt) - 4)
      /\ ((j + 16 - 1) \div 8) + 1 = ((j - 1) \div 8) + 1 + 2
      /\ (j + 16 - 1) % 8 = (j - 1) % 8
  OBVIOUS
<1>3. Payload(pkt)[((j - 1) \div 8) + 1] = pkt[((j + 16 - 1) \div 8) + 1]
  <2> DEFINE i == ((j - 1) \div 8) + 1
  <2> HIDE DEF i
  <2>1. i \in 1..(Len(pkt) - 4) /\ ((j + 16 - 1) \div 8) + 1 = i + 2
    BY <1>2 DEF i
  <2>2. Payload(pkt)[i] = pkt[i + 2]
    BY <2>1, PayloadType
  <2> QED BY <2>1, <2>2 DEF i
<1> QED
  BY <1>2, <1>3 DEF BitAt

\* The CRC of a packet is its last sixteen bits, the highest one first.
LEMMA CrcRecvMember ==
    ASSUME NEW pkt \in Seq(Byte), Len(pkt) >= 4
    PROVE  /\ CrcRecv(pkt) \in Reg16
           /\ \A b \in 0..15 : b \in CrcRecv(pkt) <=> BitAt(pkt, 8 * Len(pkt) - b)
<1> DEFINE two == <<pkt[Len(pkt)], pkt[Len(pkt) - 1]>>
<1>1. CrcRecv(pkt) = {i \in 0..15 : i % 8 \in Bits(two[(i \div 8) + 1])}
  BY DEF CrcRecv, Register
<1>2. ASSUME NEW b \in 0..15
      PROVE  b % 8 \in Bits(two[(b \div 8) + 1]) <=> BitAt(pkt, 8 * Len(pkt) - b)
  <2>1. 7 - ((8 * Len(pkt) - b - 1) % 8) = b % 8
    OBVIOUS
  <2>2. CASE b < 8
    <3>1. b \div 8 = 0 /\ ((8 * Len(pkt) - b - 1) \div 8) + 1 = Len(pkt)
      BY <2>2
    <3> QED BY <3>1, <2>1 DEF BitAt
  <2>3. CASE b >= 8
    <3>1. b \div 8 = 1 /\ ((8 * Len(pkt) - b - 1) \div 8) + 1 = Len(pkt) - 1
      BY <2>3
    <3> QED BY <3>1, <2>1 DEF BitAt
  <2> QED BY <2>2, <2>3
<1> HIDE DEF two
<1> QED
  BY <1>1, <1>2 DEF Reg16

\* A packet whose CRC is right leaves nothing in the register.
LEMMA CrcLeavesNothing ==
    ASSUME NEW pkt \in Seq(Byte), Len(pkt) >= 4
    PROVE  CrcOK(pkt) <=> Turns(Covered(pkt), 8 * (Len(pkt) - 2))[8 * (Len(pkt) - 2)] = {}
<1> DEFINE n == 8 * (Len(pkt) - 2)
           U == {j \in 1..(8 * (Len(pkt) - 4)) : BitAt(pkt, j + 16)}
           C == {j \in (n - 15)..n : BitAt(pkt, j + 16)}
<1>1. n \in Nat /\ n >= 16 /\ n = 8 * (Len(pkt) - 4) + 16
  OBVIOUS
<1>2. crc_xmodem(Payload(pkt)) = Turns(U, n)[n]
  BY OnesOfPayload, PayloadType, <1>1 DEF crc_xmodem
<1>3. Covered(pkt) = Plus(U, C)
  BY <1>1 DEF Covered, Plus
<1>4. \A b \in 0..15 : b \in CrcRecv(pkt) <=> n - b \in C
  <2>1. ASSUME NEW b \in 0..15 PROVE b \in CrcRecv(pkt) <=> n - b \in C
    <3>1. 8 * Len(pkt) - b = n - b + 16 /\ n - b \in (n - 15)..n
      OBVIOUS
    <3>2. b \in CrcRecv(pkt) <=> BitAt(pkt, 8 * Len(pkt) - b)
      BY CrcRecvMember
    <3> QED BY <3>1, <3>2
  <2> QED BY <2>1
<1>5. C \in SUBSET ((n - 15)..((n - 15) + 15))
  BY <1>1
<1> HIDE DEF n, U, C
<1>6. \A b \in 0..15 : b \in Turns(C, n)[n] <=> n - b \in C
  <2>1. n \in Nat /\ n - 15 \in Int /\ n - 15 >= 1 /\ n \in 0..n /\ n <= (n - 15) + 15
    BY <1>1
  <2> QED BY <2>1, <1>5, TurnsWindow
<1>7. Turns(C, n)[n] = CrcRecv(pkt)
  <2>1. n \in 0..n
    BY <1>1
  <2>2. Turns(C, n)[n] \in Reg16
    BY <1>1, <2>1, TurnsDef
  <2> QED BY <2>2, <1>4, <1>6, CrcRecvMember DEF Reg16
<1>8. Turns(Covered(pkt), n)[n] = Plus(Turns(U, n)[n], CrcRecv(pkt))
  <2>1. n \in 0..n
    BY <1>1
  <2>2. \A i \in 0..n : Turns(Plus(U, C), n)[i] = Plus(Turns(U, n)[i], Turns(C, n)[i])
    BY <1>1, TurnsLinear
  <2> QED BY <2>1, <2>2, <1>3, <1>7
<1>9. CrcOK(pkt) <=> Turns(Covered(pkt), n)[n] = {}
  BY <1>2, <1>8, PlusEmpty DEF CrcOK
<1> QED
  BY <1>9 DEF n

-----------------------------------------------------------------------------
(* Packets, damaged.                                                       *)

\* A register of 16 bits is restored from its two bytes.
LEMMA RegisterOfTwo ==
    ASSUME NEW reg \in Reg16
    PROVE  Register(<<ByteOf(reg, 0), ByteOf(reg, 1)>>) = reg
<1> DEFINE two == <<ByteOf(reg, 0), ByteOf(reg, 1)>>
<1>1. Register(two) = {i \in 0..15 : i % 8 \in Bits(two[(i \div 8) + 1])}
  BY DEF Register
<1>2. ASSUME NEW b \in 0..15 PROVE b % 8 \in Bits(two[(b \div 8) + 1]) <=> b \in reg
  <2>1. CASE b < 8
    <3>1. b \div 8 = 0 /\ b % 8 = b /\ 8 * 0 + b = b /\ b \in 0..7
      BY <2>1
    <3>2. b \in Bits(ByteOf(reg, 0)) <=> 8 * 0 + b \in reg
      BY <3>1, ByteOfBits
    <3> QED BY <3>1, <3>2
  <2>2. CASE b >= 8
    <3>1. b \div 8 = 1 /\ b % 8 = b - 8 /\ 8 * 1 + (b - 8) = b /\ b - 8 \in 0..7
      BY <2>2
    <3>2. b - 8 \in Bits(ByteOf(reg, 1)) <=> 8 * 1 + (b - 8) \in reg
      BY <3>1, ByteOfBits
    <3> QED BY <3>1, <3>2
  <2> QED BY <2>1, <2>2
<1> HIDE DEF two
<1>3. Register(two) = reg
  BY <1>1, <1>2 DEF Reg16
<1> QED
  BY <1>3 DEF two

\* xmodem_send_pkt puts the payload, its number and its CRC where xmodem_read_pkt looks
\* for them.
LEMMA SentPacket ==
    ASSUME NEW data \in Seq(Byte), NEW pkt_no \in {1, 2}
    PROVE  LET pkt == xmodem_send_pkt(data, pkt_no)
           IN  /\ pkt \in Seq(Byte) /\ Len(pkt) = Len(data) + 4
               /\ Payload(pkt) = data /\ CrcOK(pkt)
               /\ pkt[1] = pkt_no /\ pkt[2] = 255 - pkt_no
<1> DEFINE pkt == xmodem_send_pkt(data, pkt_no)
           crc == crc_xmodem(data)
           hi == ByteOf(crc, 1)
           lo == ByteOf(crc, 0)
           L == Len(data)
<1>1. hi \in Byte /\ lo \in Byte /\ pkt_no \in Byte /\ 255 - pkt_no \in Byte
  BY ByteOfBits DEF Byte
<1>2. crc \in Reg16
  <2>1. 8 * Len(data) + 16 \in Nat
    OBVIOUS
  <2> QED BY <2>1, TurnsDef DEF crc_xmodem
<1>3. pkt = <<pkt_no, 255 - pkt_no>> \o data \o <<hi, lo>>
  BY DEF xmodem_send_pkt
<1>4. L \in Nat /\ \A i \in 1..L : data[i] \in Byte
  OBVIOUS
<1>5. data = [i \in 1..L |-> data[i]]
  OBVIOUS
<1> HIDE DEF crc, hi, lo, pkt
<1>6. pkt \in Seq(Byte) /\ Len(pkt) = L + 4
  BY <1>1, <1>3
<1>7. pkt[1] = pkt_no /\ pkt[2] = 255 - pkt_no
  BY <1>3
<1>8. pkt[L + 3] = hi /\ pkt[L + 4] = lo
  BY <1>3
<1>9. \A i \in 1..L : pkt[i + 2] = data[i]
  BY <1>3
<1>10. Payload(pkt) = data
  <2>1. /\ Len(pkt) >= 4 /\ Payload(pkt) \in Seq(Byte) /\ Len(Payload(pkt)) = L
        /\ \A i \in 1..L : Payload(pkt)[i] = data[i]
    <3>1. Len(pkt) >= 4 /\ Len(pkt) - 4 = L
      BY <1>4, <1>6
    <3> QED BY <3>1, <1>6, <1>9, PayloadType
  <2> QED BY <2>1
<1>11. CrcRecv(pkt) = crc
  <2>1. CrcRecv(pkt) = Register(<<lo, hi>>)
    <3>1. (L + 4) - 1 = L + 3
      OBVIOUS
    <3> QED BY <3>1, <1>6, <1>8 DEF CrcRecv
  <2> QED BY <2>1, <1>2, RegisterOfTwo DEF hi, lo
<1>12. CrcOK(pkt)
  BY <1>10, <1>11 DEF CrcOK, crc
<1> QED
  BY <1>6, <1>7, <1>10, <1>12 DEF pkt

\* The same bits in the part that the CRC is about: the same payload and CRC.
LEMMA SameCovered ==
    ASSUME NEW s \in Seq(Byte), NEW t \in Seq(Byte), Len(s) >= 4, Len(t) = Len(s),
           \A i \in 3..Len(s) : Bits(s[i]) = Bits(t[i])
    PROVE  Payload(t) = Payload(s) /\ CrcRecv(t) = CrcRecv(s)
<1>1. \A i \in 3..Len(s) : s[i] = t[i]
  <2>1. ASSUME NEW i \in 3..Len(s) PROVE s[i] = t[i]
    <3>1. i \in 1..Len(s) /\ i \in 1..Len(t)
      OBVIOUS
    <3>2. s[i] \in Byte /\ t[i] \in Byte
      BY <3>1
    <3> QED BY <3>2, BitsInjective DEF Byte
  <2> QED BY <2>1
<1>2. Payload(t) = Payload(s)
  <2>1. \A i \in 1..(Len(s) - 4) : s[i + 2] = t[i + 2]
    BY <1>1
  <2>2. /\ Payload(s) \in Seq(Byte) /\ Len(Payload(s)) = Len(s) - 4
        /\ \A i \in 1..(Len(s) - 4) : Payload(s)[i] = s[i + 2]
    BY PayloadType
  <2>3. /\ Payload(t) \in Seq(Byte) /\ Len(Payload(t)) = Len(s) - 4
        /\ \A i \in 1..(Len(s) - 4) : Payload(t)[i] = t[i + 2]
    BY PayloadType
  <2> DEFINE k == Len(s) - 4
             x == Payload(s)
             y == Payload(t)
  <2>4. x \in Seq(Byte) /\ y \in Seq(Byte) /\ Len(x) = k /\ Len(y) = k
    BY <2>2, <2>3
  <2>5. \A i \in 1..k : x[i] = y[i]
    BY <2>1, <2>2, <2>3
  <2> HIDE DEF x, y, k
  <2>6. x = y
    BY <2>4, <2>5
  <2> QED BY <2>6 DEF x, y
<1>3. CrcRecv(t) = CrcRecv(s)
  <2>1. s[Len(s)] = t[Len(s)] /\ s[Len(s) - 1] = t[Len(s) - 1]
    BY <1>1
  <2> QED BY <2>1 DEF CrcRecv
<1> QED
  BY <1>2, <1>3

\* What is left of a burst, or of a pair of errors, in the part that the CRC is about.
Seen(n, A) == A = {} \/ Turns(A, n)[n] # {}

\* A burst of no more than 16 bits is noticed.
LEMMA WindowSeen ==
    ASSUME NEW n \in Nat, NEW A \in SUBSET (1..n), \A i, j \in A : i - j <= 15
    PROVE  Seen(n, A)
<1>1. SUFFICES ASSUME A # {} PROVE Turns(A, n)[n] # {}
  BY DEF Seen
<1>2. A \in SUBSET Nat
  OBVIOUS
<1>3. PICK p \in A : \A j \in A : p <= j
  BY <1>1, <1>2, Least
<1>4. p \in 1..n /\ A \in SUBSET (p..(p + 15)) /\ A \subseteq 1..n /\ p \in A
  BY <1>3
<1> QED
  BY <1>4, BurstSeen

\* So are two errors within the span, and what is left of them in this part.
LEMMA PairOrLess ==
    ASSUME NEW n \in Nat, NEW A \in SUBSET (1..n), NEW p \in Int, NEW q \in Int,
           A \subseteq {p, q}, p <= q, q - p <= 8 * PairSpan
    PROVE  Seen(n, A)
<1>1. CASE A = {p, q} /\ p < q
  <2>1. p \in 1..n /\ q \in 1..n
    BY <1>1
  <2>2. Turns({p, q}, n)[n] # {}
    BY <1>1, <2>1, PairSeen
  <2> QED BY <1>1, <2>2, Zenon DEF Seen
<1>2. CASE ~(A = {p, q} /\ p < q)
  <2>1. ASSUME NEW i \in A, NEW j \in A PROVE i = j
    <3>1. CASE p = q
      BY <3>1
    <3>2. CASE p # q
      <4>1. p < q
        BY <3>2
      <4>2. A # {p, q}
        BY <4>1, <1>2
      <4> QED BY <4>2
    <3> QED BY <3>1, <3>2
  <2>2. ASSUME NEW i \in A, NEW j \in A PROVE i - j <= 15
    <3>1. i = j /\ i \in Int
      BY <2>1
    <3> QED BY <3>1
  <2> QED BY <2>2, WindowSeen
<1> QED
  BY <1>1, <1>2

\* Errors are bursts.
LEMMA ErrorsWindow ==
    ASSUME NEW n \in Nat, NEW length \in Nat, NEW hits \in Errors(n, length)
    PROVE  /\ hits \in SUBSET (1..n) /\ hits # {}
           /\ \A i, j \in hits : i - j < length \/ i = j
<1>1. PICK p \in 1..n : hits \in {S \in Burst(p, length) : \A i \in S : i <= n}
  BY DEF Errors
<1>2. PICK S \in SUBSET ((p + 1)..(p + length - 1)) : hits = {p} \cup S
  BY <1>1 DEF Burst
<1>3. \A i \in hits : i <= n
  BY <1>1
<1> QED
  BY <1>2, <1>3

\* Pairs are of two errors within the span.
LEMMA PairsTwo ==
    ASSUME NEW n \in Nat, NEW hits \in Pairs(n)
    PROVE  \E p \in 1..n, q \in 1..n :
               p <= q /\ q - p <= 8 * PairSpan /\ hits = {p, q}
<1>1. PICK p \in 1..n : hits \in {{p, q} : q \in {r \in p..n : r - p <= 8 * PairSpan}}
  BY DEF Pairs
<1>2. PICK q \in {r \in p..n : r - p <= 8 * PairSpan} : hits = {p, q}
  BY <1>1
<1> QED
  BY <1>2

\* Damage that leaves the CRC right has not touched what the CRC is about.
LEMMA DamageSeen ==
    ASSUME NEW pkt \in Seq(Byte), Len(pkt) >= 4, CrcOK(pkt),
           NEW hits \in Errors(8 * Len(pkt), PacketBurst) \cup Pairs(8 * Len(pkt)),
           CrcOK(Flip(pkt, hits))
    PROVE  /\ Payload(Flip(pkt, hits)) = Payload(pkt)
           /\ CrcRecv(Flip(pkt, hits)) = CrcRecv(pkt)
<1> DEFINE bad == Flip(pkt, hits)
           n == 8 * (Len(pkt) - 2)
           A == {j \in 1..n : j + 16 \in hits}
<1>1. bad \in Seq(Byte) /\ Len(bad) = Len(pkt)
  BY FlipBytes
<1>2. n \in Nat /\ A \in SUBSET (1..n) /\ n \in 0..n
  OBVIOUS
<1>3. Covered(bad) = Plus(Covered(pkt), A)
  <2>1. ASSUME NEW j \in 1..n
        PROVE  BitAt(bad, j + 16) <=> ~(BitAt(pkt, j + 16) <=> j \in A)
    <3>1. j + 16 \in 1..(8 * Len(pkt))
      OBVIOUS
    <3> QED BY <3>1, BitAtFlip
  <2>2. Covered(bad) = {j \in 1..n : BitAt(bad, j + 16)}
    BY <1>1 DEF Covered
  <2>3. Covered(pkt) = {j \in 1..n : BitAt(pkt, j + 16)}
    BY DEF Covered
  <2> HIDE DEF bad, n, A
  <2> QED BY <1>2, <2>1, <2>2, <2>3 DEF Plus
<1>4. Turns(Covered(pkt), n)[n] = {} /\ Turns(Covered(bad), n)[n] = {}
  <2>1. Turns(Covered(pkt), n)[n] = {}
    BY CrcLeavesNothing
  <2>2. Turns(Covered(bad), n)[n] = {}
    BY <1>1, CrcLeavesNothing
  <2> QED BY <2>1, <2>2
<1>5. Turns(A, n)[n] = {}
  <2> HIDE DEF A, bad, n
  <2>1. \A i \in 0..n : Turns(Plus(Covered(pkt), A), n)[i] =
                          Plus(Turns(Covered(pkt), n)[i], Turns(A, n)[i])
    BY <1>2, TurnsLinear
  <2>2. Turns(Covered(bad), n)[n] = Plus(Turns(Covered(pkt), n)[n], Turns(A, n)[n])
    BY <1>2, <1>3, <2>1
  <2> QED BY <1>4, <2>2 DEF Plus
<1>6. Seen(n, A)
  <2>1. CASE hits \in Errors(8 * Len(pkt), PacketBurst)
    <3>1. PacketBurst \in Nat /\ PacketBurst <= 16 /\ 8 * Len(pkt) \in Nat
      BY BurstAssumption
    <3>2. \A i, j \in hits : i - j < PacketBurst \/ i = j
      BY <2>1, <3>1, ErrorsWindow
    <3>3. \A i, j \in A : i - j <= 15
      <4>1. ASSUME NEW i \in A, NEW j \in A PROVE i - j <= 15
        <5>1. i + 16 \in hits /\ j + 16 \in hits /\ i \in Int /\ j \in Int
          OBVIOUS
        <5>2. (i + 16) - (j + 16) < PacketBurst \/ i + 16 = j + 16
          BY <5>1, <3>2
        <5> QED BY <5>1, <5>2, <3>1
      <4> QED BY <4>1
    <3> HIDE DEF A, n
    <3> QED BY <1>2, <3>3, WindowSeen
  <2>2. CASE hits \in Pairs(8 * Len(pkt))
    <3> DEFINE m == 8 * Len(pkt)
    <3>1. m \in Nat /\ hits \in Pairs(m)
      BY <2>2
    <3> HIDE DEF m
    <3>2. PICK p \in 1..m, q \in 1..m :
            p <= q /\ q - p <= 8 * PairSpan /\ hits = {p, q}
      BY <3>1, PairsTwo
    <3>3. A \subseteq {p - 16, q - 16}
      BY <3>2
    <3>4. /\ p - 16 \in Int /\ q - 16 \in Int /\ p - 16 <= q - 16
          /\ (q - 16) - (p - 16) <= 8 * PairSpan
      BY <3>2, PairAssumption
    <3> HIDE DEF A, n
    <3> QED BY <1>2, <3>3, <3>4, PairOrLess
  <2> QED BY <2>1, <2>2
<1>7. A = {}
  BY <1>5, <1>6 DEF Seen
<1>8. \A i \in 3..Len(pkt) : Bits(pkt[i]) = Bits(bad[i])
  <2>1. ASSUME NEW i \in 3..Len(pkt), NEW b \in 0..7
        PROVE  b \in Bits(bad[i]) <=> b \in Bits(pkt[i])
    <3>1. i \in 1..Len(pkt) /\ 8 * i - b - 16 \in 1..n
      OBVIOUS
    <3>2. (8 * i - b - 16) + 16 \notin hits
      BY <3>1, <1>7
    <3>3. (8 * i - b - 16) + 16 = 8 * i - b
      OBVIOUS
    <3>4. b \in Bits(bad[i]) <=> ~(b \in Bits(pkt[i]) <=> 8 * i - b \in hits)
      BY <3>1, FlipBytes
    <3> QED BY <3>2, <3>3, <3>4
  <2> HIDE DEF bad
  <2> QED BY <2>1 DEF Bits
<1> QED
  <2> HIDE DEF bad
  <2>1. Payload(bad) = Payload(pkt) /\ CrcRecv(bad) = CrcRecv(pkt)
    BY <1>1, <1>8, SameCovered
  <2> QED BY <2>1 DEF bad

-----------------------------------------------------------------------------
(* The steps of crc32_byte.                                                *)

Reg32 == SUBSET (0..31)

\* The sum of two registers is a register.
LEMMA PlusReg32 ==
    ASSUME NEW c \in Reg32, NEW d \in Reg32
    PROVE  Plus(c, d) \in Reg32
  BY DEF Plus, Reg32

\* A division step of the table leaves a register.
LEMMA HalveType ==
    ASSUME NEW v \in Reg32
    PROVE  Halve(v) \in Reg32
<1> DEFINE h == {b - 1 : b \in v \ {0}}
<1>1. h \in Reg32
  <2>1. ASSUME NEW b \in v \ {0} PROVE b - 1 \in 0..31
    BY DEF Reg32
  <2> QED BY <2>1 DEF Reg32
<1>2. Reversed \in Reg32
  BY DEF Reversed, Reg32
<1>3. Halve(v) = IF 0 \in v THEN Plus(h, Reversed) ELSE h
  BY DEF Halve
<1> HIDE DEF h
<1> QED
  BY <1>1, <1>2, <1>3, PlusReg32

\* Every bit of the register after a division step.
LEMMA HalveMember ==
    ASSUME NEW v \in Reg32, NEW b \in 0..31
    PROVE  b \in Halve(v) <=> IF 0 \in v /\ b \in Reversed THEN b + 1 \notin v
                                                          ELSE b + 1 \in v
<1> DEFINE h == {a - 1 : a \in v \ {0}}
<1>1. b \in h <=> b + 1 \in v
  <2>1. ASSUME NEW a \in v \ {0}, b = a - 1 PROVE b + 1 \in v
    <3>1. a \in Int
      BY DEF Reg32
    <3> QED BY <2>1, <3>1
  <2>2. ASSUME b + 1 \in v PROVE b \in h
    <3>1. b + 1 \in v \ {0} /\ b = (b + 1) - 1
      BY <2>2
    <3> QED BY <3>1
  <2> QED BY <2>1, <2>2
<1>2. Halve(v) = IF 0 \in v THEN Plus(h, Reversed) ELSE h
  BY DEF Halve
<1> HIDE DEF h
<1> QED
  BY <1>1, <1>2, PlusMember

\* A division step is linear.
LEMMA HalveLinear ==
    ASSUME NEW v \in Reg32, NEW w \in Reg32
    PROVE  Halve(Plus(v, w)) = Plus(Halve(v), Halve(w))
<1>1. Plus(v, w) \in Reg32
  BY PlusReg32
<1>2. Halve(Plus(v, w)) \in Reg32 /\ Plus(Halve(v), Halve(w)) \in Reg32
  BY <1>1, HalveType, PlusReg32
<1>3. ASSUME NEW b \in 0..31
      PROVE  b \in Halve(Plus(v, w)) <=> b \in Plus(Halve(v), Halve(w))
  <2>1. b \in Halve(v) <=> IF 0 \in v /\ b \in Reversed THEN b + 1 \notin v ELSE b + 1 \in v
    BY HalveMember
  <2>2. b \in Halve(w) <=> IF 0 \in w /\ b \in Reversed THEN b + 1 \notin w ELSE b + 1 \in w
    BY HalveMember
  <2>3. b \in Halve(Plus(v, w)) <=> IF 0 \in Plus(v, w) /\ b \in Reversed
                                    THEN b + 1 \notin Plus(v, w) ELSE b + 1 \in Plus(v, w)
    BY <1>1, HalveMember
  <2> QED BY <2>1, <2>2, <2>3, PlusMember
<1> QED
  BY <1>2, <1>3 DEF Reg32

\* The highest bit tells whether the polynomial was added.
LEMMA HalveUndone ==
    ASSUME NEW v \in Reg32, 31 \notin Halve(v)
    PROVE  \A b \in 0..31 : b \in v <=> b # 0 /\ b - 1 \in Halve(v)
<1>1. 0 \notin v
  <2>1. 31 \in Reversed /\ 32 \notin v /\ 31 \in 0..31 /\ 31 + 1 = 32
    BY DEF Reversed, Reg32
  <2>2. 31 \in Halve(v) <=> IF 0 \in v /\ 31 \in Reversed THEN 31 + 1 \notin v
                                                         ELSE 31 + 1 \in v
    BY <2>1, HalveMember
  <2> QED BY <2>1, <2>2
<1>2. ASSUME NEW b \in 0..31 PROVE b \in v <=> b # 0 /\ b - 1 \in Halve(v)
  <2>1. CASE b = 0
    BY <1>1, <2>1
  <2>2. CASE b # 0
    <3>1. b - 1 \in 0..31 /\ (b - 1) + 1 = b
      BY <2>2
    <3>2. b - 1 \in Halve(v) <=> (b - 1) + 1 \in v
      BY <1>1, <3>1, HalveMember
    <3> QED BY <2>2, <3>1, <3>2
  <2> QED BY <2>1, <2>2
<1> QED
  BY <1>2

\* An even register is shifted.
LEMMA HalveShifts ==
    ASSUME NEW v \in Reg32, 0 \notin v
    PROVE  \A b \in 0..31 : b \in Halve(v) <=> b + 1 \in v
  BY HalveMember

-----------------------------------------------------------------------------
(* A byte at a time.                                                       *)

Byte32(v) == Halve(Halve(Halve(Halve(Halve(Halve(Halve(Halve(v))))))))

\* Eight division steps leave a register.
LEMMA Byte32Type ==
    ASSUME NEW v \in Reg32
    PROVE  Byte32(v) \in Reg32
  BY HalveType DEF Byte32

\* Eight division steps are linear.
LEMMA Byte32Linear ==
    ASSUME NEW v \in Reg32, NEW w \in Reg32
    PROVE  Byte32(Plus(v, w)) = Plus(Byte32(v), Byte32(w))
<1> DEFINE H(x) == Halve(x)
<1>1. \A x \in Reg32 : H(x) \in Reg32
  BY HalveType
<1>2. \A x, y \in Reg32 : H(Plus(x, y)) = Plus(H(x), H(y))
  BY HalveLinear
<1>3. /\ Byte32(v) = H(H(H(H(H(H(H(H(v)))))))) /\ Byte32(w) = H(H(H(H(H(H(H(H(w))))))))
      /\ Byte32(Plus(v, w)) = H(H(H(H(H(H(H(H(Plus(v, w)))))))))
  BY DEF Byte32
<1> HIDE DEF H
<1> QED
  BY <1>1, <1>2, <1>3

\* When the highest byte is clear the polynomial has not been added in eight steps.
LEMMA Byte32Undone ==
    ASSUME NEW v \in Reg32, \A b \in 24..31 : b \notin Byte32(v)
    PROVE  \A b \in 0..31 : b \in v <=> b >= 8 /\ b - 8 \in Byte32(v)
<1> DEFINE w == Byte32(v)
           a1 == Halve(v)
           a2 == Halve(a1)
           a3 == Halve(a2)
           a4 == Halve(a3)
           a5 == Halve(a4)
           a6 == Halve(a5)
           a7 == Halve(a6)
           Is(x, k) == \A b \in 0..31 : b \in x <=> b >= k /\ b - k \in w
<1>1. /\ a1 \in Reg32 /\ a2 \in Reg32 /\ a3 \in Reg32 /\ a4 \in Reg32
      /\ a5 \in Reg32 /\ a6 \in Reg32 /\ a7 \in Reg32 /\ w = Halve(a7)
  BY HalveType DEF Byte32
<1>2. \A b \in 24..31 : b \notin w
  OBVIOUS
<1>3. ASSUME NEW x \in Reg32, NEW k \in 0..7, Is(Halve(x), k)
      PROVE  Is(x, k + 1)
  <2> HIDE DEF w
  <2>1. 31 - k \notin w /\ 31 \in 0..31
    BY <1>2
  <2>2. 31 \notin Halve(x)
    BY <1>3, <2>1
  <2>3. ASSUME NEW b \in 0..31 PROVE b \in x <=> b >= k + 1 /\ b - (k + 1) \in w
    <3>1. b \in x <=> b # 0 /\ b - 1 \in Halve(x)
      BY <2>2, HalveUndone
    <3>2. CASE b = 0
      BY <3>1, <3>2
    <3>3. CASE b # 0
      <4>1. b - 1 \in 0..31 /\ (b - 1) - k = b - (k + 1) /\ (b - 1 >= k <=> b >= k + 1)
        BY <3>3
      <4> QED BY <1>3, <3>1, <3>3, <4>1
    <3> QED BY <3>2, <3>3
  <2> QED BY <2>3
<1>4. Is(w, 0)
  BY <1>1, HalveType DEF Reg32
<1> HIDE DEF w, a1, a2, a3, a4, a5, a6, a7, Is
<1>5. Is(a7, 1)
  <2>1. Is(a7, 0 + 1)
    BY <1>1, <1>3, <1>4
  <2> QED BY <2>1
<1>6. Is(a6, 2)
  <2>1. Is(a6, 1 + 1)
    BY <1>1, <1>3, <1>5 DEF a7
  <2> QED BY <2>1
<1>7. Is(a5, 3)
  <2>1. Is(a5, 2 + 1)
    BY <1>1, <1>3, <1>6 DEF a6
  <2> QED BY <2>1
<1>8. Is(a4, 4)
  <2>1. Is(a4, 3 + 1)
    BY <1>1, <1>3, <1>7 DEF a5
  <2> QED BY <2>1
<1>9. Is(a3, 5)
  <2>1. Is(a3, 4 + 1)
    BY <1>1, <1>3, <1>8 DEF a4
  <2> QED BY <2>1
<1>10. Is(a2, 6)
  <2>1. Is(a2, 5 + 1)
    BY <1>1, <1>3, <1>9 DEF a3
  <2> QED BY <2>1
<1>11. Is(a1, 7)
  <2>1. Is(a1, 6 + 1)
    BY <1>1, <1>3, <1>10 DEF a2
  <2> QED BY <2>1
<1>12. Is(v, 8)
  <2>1. Is(v, 7 + 1)
    BY <1>1, <1>3, <1>11 DEF a1
  <2> QED BY <2>1
<1> QED
  BY <1>12 DEF Is, w

\* It has not either when the lowest byte was clear: the register is shifted by a byte.
LEMMA Byte32Shifts ==
    ASSUME NEW v \in Reg32, \A b \in 0..7 : b \notin v
    PROVE  \A b \in 0..31 : b \in Byte32(v) <=> b + 8 \in v
<1> DEFINE a1 == Halve(v)
           a2 == Halve(a1)
           a3 == Halve(a2)
           a4 == Halve(a3)
           a5 == Halve(a4)
           a6 == Halve(a5)
           a7 == Halve(a6)
           Is(x, k) == \A b \in 0..31 : b \in x <=> b + k \in v
<1>1. /\ a1 \in Reg32 /\ a2 \in Reg32 /\ a3 \in Reg32 /\ a4 \in Reg32
      /\ a5 \in Reg32 /\ a6 \in Reg32 /\ a7 \in Reg32 /\ Byte32(v) = Halve(a7)
  BY HalveType DEF Byte32
<1>2. ASSUME NEW x \in Reg32, NEW k \in 0..7, Is(x, k)
      PROVE  Is(Halve(x), k + 1)
  <2>1. 0 \notin x
    <3>1. 0 \in x <=> 0 + k \in v
      BY <1>2
    <3> QED BY <3>1
  <2>2. ASSUME NEW b \in 0..31 PROVE b \in Halve(x) <=> b + (k + 1) \in v
    <3>1. b \in Halve(x) <=> b + 1 \in x
      BY <2>1, HalveShifts
    <3>2. CASE b = 31
      BY <3>1, <3>2 DEF Reg32
    <3>3. CASE b # 31
      <4>1. b + 1 \in 0..31 /\ (b + 1) + k = b + (k + 1)
        BY <3>3
      <4> QED BY <1>2, <3>1, <4>1
    <3> QED BY <3>2, <3>3
  <2> QED BY <2>2
<1>3. Is(v, 0)
  OBVIOUS
<1> HIDE DEF Is, a1, a2, a3, a4, a5, a6, a7
<1>4. Is(a1, 1)
  <2>1. Is(a1, 0 + 1)
    BY <1>2, <1>3 DEF a1
  <2> QED BY <2>1
<1>5. Is(a2, 2)
  <2>1. Is(a2, 1 + 1)
    BY <1>1, <1>2, <1>4 DEF a2
  <2> QED BY <2>1
<1>6. Is(a3, 3)
  <2>1. Is(a3, 2 + 1)
    BY <1>1, <1>2, <1>5 DEF a3
  <2> QED BY <2>1
<1>7. Is(a4, 4)
  <2>1. Is(a4, 3 + 1)
    BY <1>1, <1>2, <1>6 DEF a4
  <2> QED BY <2>1
<1>8. Is(a5, 5)
  <2>1. Is(a5, 4 + 1)
    BY <1>1, <1>2, <1>7 DEF a5
  <2> QED BY <2>1
<1>9. Is(a6, 6)
  <2>1. Is(a6, 5 + 1)
    BY <1>1, <1>2, <1>8 DEF a6
  <2> QED BY <2>1
<1>10. Is(a7, 7)
  <2>1. Is(a7, 6 + 1)
    BY <1>1, <1>2, <1>9 DEF a7
  <2> QED BY <2>1
<1>11. Is(Byte32(v), 8)
  <2>1. Is(Byte32(v), 7 + 1)
    BY <1>1, <1>2, <1>10
  <2> QED BY <2>1
<1> QED
  BY <1>11 DEF Is

\* The table gives in one step what eight division steps give.
LEMMA TableIsDivision ==
    ASSUME NEW c \in Reg32, NEW d \in Byte
    PROVE  crc32_byte(c, d) = Byte32(Plus(c, Bits(d)))
<1> DEFINE lo == Plus(c \cap 0..7, Bits(d))
           hi == c \ (0..7)
           x == Plus(c, Bits(d))
<1>1. Bits(d) \in SUBSET (0..7)
  BY DEF Bits
<1>2. lo \in SUBSET (0..7) /\ lo \in Reg32 /\ hi \in Reg32
  BY <1>1 DEF Plus, Reg32
<1>3. x = Plus(lo, hi)
  BY <1>1 DEF Plus
<1>4. crc32_table[lo] = Byte32(lo)
  <2> HIDE DEF lo
  <2> QED BY <1>2 DEF crc32_table, Byte32
<1>5. Byte32(hi) = {b - 8 : b \in hi}
  <2> DEFINE sh == {b - 8 : b \in hi}
  <2>1. \A b \in hi : b \in 8..31
    BY DEF Reg32
  <2>2. \A b \in 0..7 : b \notin hi
    OBVIOUS
  <2>3. Byte32(hi) \in Reg32 /\ \A b \in 0..31 : b \in Byte32(hi) <=> b + 8 \in hi
    <3> HIDE DEF hi
    <3> QED BY <1>2, <2>2, Byte32Shifts, Byte32Type
  <2> HIDE DEF hi
  <2>4. \A b \in 0..31 : b \in sh <=> b + 8 \in hi
    <3>1. ASSUME NEW b \in 0..31, NEW a \in hi, b = a - 8 PROVE b + 8 \in hi
      BY <3>1, <2>1
    <3>2. ASSUME NEW b \in 0..31, b + 8 \in hi PROVE b \in sh
      <4>1. b = (b + 8) - 8
        OBVIOUS
      <4> QED BY <3>2, <4>1
    <3> QED BY <3>1, <3>2
  <2>5. sh \in Reg32
    BY <2>1 DEF Reg32
  <2> HIDE DEF sh
  <2>6. Byte32(hi) = sh
    BY <2>3, <2>4, <2>5 DEF Reg32
  <2> QED BY <2>6 DEF sh
<1>6. crc32_byte(c, d) = Plus(crc32_table[lo], {b - 8 : b \in hi})
  BY DEF crc32_byte
<1> HIDE DEF lo, hi, x
<1>7. crc32_byte(c, d) = Plus(Byte32(lo), Byte32(hi))
  BY <1>4, <1>5, <1>6
<1>8. crc32_byte(c, d) = Byte32(x)
  BY <1>2, <1>3, <1>7, Byte32Linear
<1> QED
  BY <1>8 DEF x

\* The bits of a byte are a register's.
LEMMA BitsReg32 ==
    ASSUME NEW d \in Byte
    PROVE  Bits(d) \in Reg32 /\ Bits(d) \in SUBSET (0..7)
  BY DEF Bits, Reg32

\* crc32_byte returns a register.
LEMMA CrcByteType ==
    ASSUME NEW c \in Reg32, NEW d \in Byte
    PROVE  crc32_byte(c, d) \in Reg32
  BY TableIsDivision, BitsReg32, PlusReg32, Byte32Type

\* The registers after each byte of a file are those that crc32_byte returns.
LEMMA CrcsDef ==
    ASSUME NEW s \in Seq(Byte)
    PROVE  /\ Crcs(s) \in [0..Len(s) -> Reg32]
           /\ Crcs(s)[0] = 0..31
           /\ \A i \in 1..Len(s) : Crcs(s)[i] = crc32_byte(Crcs(s)[i - 1], s[i])
<1> DEFINE n == Len(s)
           step == [i \in 1..n |-> [c \in Reg32 |-> crc32_byte(c, s[i])]]
           full == 0..31
<1>0. n \in Nat /\ \A i \in 1..n : s[i] \in Byte
  OBVIOUS
<1> HIDE DEF n
<1>1. step \in Steps(n, Reg32)
  <2>1. ASSUME NEW i \in 1..n, NEW c \in Reg32 PROVE crc32_byte(c, s[i]) \in Reg32
    BY <1>0, CrcByteType
  <2> QED BY <2>1 DEF Steps
<1>2. full \in Reg32
  BY DEF Reg32
<1>3. PICK g \in [0..n -> Reg32] :
        g[0] = full /\ \A i \in 1..n : g[i] = step[i][g[i - 1]]
  <2> HIDE DEF step, full
  <2>1. RunsOf(step, n, full, Reg32) # {}
    BY <1>0, <1>1, <1>2, Recursion
  <2> QED BY <2>1 DEF RunsOf
<1>4. ASSUME NEW i \in 1..n PROVE g[i] = crc32_byte(g[i - 1], s[i])
  <2>1. g[i] = step[i][g[i - 1]] /\ g[i - 1] \in Reg32
    <3> HIDE DEF step
    <3> QED BY <1>0, <1>3
  <2>2. \A c \in Reg32 : step[i][c] = crc32_byte(c, s[i])
    BY Zenon
  <2> QED BY <2>1, <2>2, Zenon
<1> DEFINE Runs(f) == f = [i \in 0..n |-> IF i = 0 THEN full ELSE crc32_byte(f[i - 1], s[i])]
           T == Crcs(s)
<1>5. Runs(g)
  <2> HIDE DEF full
  <2> QED BY <1>0, <1>3, <1>4
<1>6. T = CHOOSE f : Runs(f)
  BY DEF Crcs, n
<1>7. Runs(T)
  <2> HIDE DEF Runs, T
  <2> QED BY <1>5, <1>6
<1>8. T[0] = full /\ \A i \in 1..n : T[i] = crc32_byte(T[i - 1], s[i])
  <2>1. 0 \in 0..n /\ \A i \in 1..n : i \in 0..n /\ i # 0
    BY <1>0
  <2>2. \A i \in 0..n : T[i] = IF i = 0 THEN full ELSE crc32_byte(T[i - 1], s[i])
    <3> HIDE DEF T
    <3> QED BY <1>7, Zenon
  <2> HIDE DEF T
  <2> QED BY <2>1, <2>2, Zenon
<1> HIDE DEF T
<1>9. \A i \in 0..n : T[i] \in Reg32
  <2> DEFINE S == {i \in 0..n : T[i] \in Reg32}
  <2>1. 0 \in S
    <3>1. 0 \in 0..n
      BY <1>0
    <3> HIDE DEF full
    <3> QED BY <3>1, <1>2, <1>8
  <2>2. ASSUME NEW i \in 1..n, i - 1 \in S PROVE i \in S
    BY <2>2, <1>0, <1>8, CrcByteType
  <2>3. \A i \in 0..n : i \in S
    <3> HIDE DEF S
    <3> QED BY <2>1, <2>2, <1>0, Induct
  <2> QED BY <2>3
<1>10. T \in [0..n -> Reg32]
  <2>1. T = [i \in 0..n |-> IF i = 0 THEN full ELSE crc32_byte(T[i - 1], s[i])]
    BY <1>7
  <2>2. T = [i \in 0..n |-> T[i]]
    BY <2>1
  <2> QED BY <1>9, <2>2
<1> QED
  BY <1>8, <1>10 DEF T, n

\* Where two files begin alike their CRCs are the same.
LEMMA CrcsSame ==
    ASSUME NEW s \in Seq(Byte), NEW t \in Seq(Byte), NEW k \in Nat,
           k <= Len(s), k <= Len(t), \A i \in 1..k : s[i] = t[i]
    PROVE  \A i \in 0..k : Crcs(s)[i] = Crcs(t)[i]
<1> DEFINE S == {i \in 0..k : Crcs(s)[i] = Crcs(t)[i]}
<1>1. 0 \in S
  <2>1. Crcs(s)[0] = 0..31 /\ Crcs(t)[0] = 0..31
    BY CrcsDef
  <2>2. Crcs(s)[0] = Crcs(t)[0] /\ 0 \in 0..k
    BY <2>1
  <2> QED BY <2>2
<1>2. ASSUME NEW i \in 1..k, i - 1 \in S PROVE i \in S
  <2>1. i \in 1..Len(s) /\ i \in 1..Len(t)
    OBVIOUS
  <2>2. Crcs(s)[i] = crc32_byte(Crcs(s)[i - 1], s[i])
    BY <2>1, CrcsDef
  <2>3. Crcs(t)[i] = crc32_byte(Crcs(t)[i - 1], t[i])
    BY <2>1, CrcsDef
  <2> QED BY <1>2, <2>2, <2>3
<1>3. \A i \in 0..k : i \in S
  <2> HIDE DEF S
  <2> QED BY <1>1, <1>2, Induct
<1> QED
  BY <1>3

-----------------------------------------------------------------------------
(* What four bytes do to the register.                                     *)

FourBytes == [0..3 -> SUBSET (0..7)]

\* The bits of the four bytes e that are still to come after k of them, in a register.
Rest(e, k) == {b \in 0..31 : b + 8 * k < 32 /\ b % 8 \in e[k + (b \div 8)]}

\* The register holds the bytes that are still to come just when it does so after one of
\* them.
LEMMA RestStep ==
    ASSUME NEW e \in FourBytes, NEW k \in 0..3, NEW c \in Reg32
    PROVE  c = Rest(e, k) <=> Byte32(Plus(c, e[k])) = Rest(e, k + 1)
<1> DEFINE v == Plus(c, e[k])
           w == Byte32(v)
           In(b) == b % 8 \in e[k + (b \div 8)]
<1>1. e[k] \in SUBSET (0..7) /\ e[k] \in Reg32
  BY DEF FourBytes, Reg32
<1>2. v \in Reg32 /\ w \in Reg32
  BY <1>1, PlusReg32, Byte32Type
<1>3. \A b \in 0..31 : b \in v <=> ~(b \in c <=> b \in e[k])
  BY PlusMember
<1>4. \A b \in 0..31 : b \in Rest(e, k) <=> b + 8 * k < 32 /\ In(b)
  BY DEF Rest
<1>5. \A b \in 0..31 : b \in Rest(e, k + 1) <=> b + 8 * k < 24 /\ In(b + 8)
  <2>1. \A b \in 0..31 : (b + 8) % 8 = b % 8 /\ k + ((b + 8) \div 8) = (k + 1) + (b \div 8)
                         /\ (b + 8 * k < 24 <=> b + 8 * (k + 1) < 32)
    OBVIOUS
  <2>2. \A b \in 0..31 : b \in Rest(e, k + 1) <=>
                           b + 8 * (k + 1) < 32 /\ b % 8 \in e[(k + 1) + (b \div 8)]
    BY DEF Rest
  <2> QED BY <2>1, <2>2
<1>6. \A b \in 0..7 : In(b) <=> b \in e[k]
  <2>1. \A b \in 0..7 : b % 8 = b /\ k + (b \div 8) = k
    OBVIOUS
  <2> QED BY <2>1
<1>7. Rest(e, k) \in Reg32 /\ Rest(e, k + 1) \in Reg32
  BY DEF Rest, Reg32
<1> HIDE DEF v, w, In
<1>8. ASSUME c = Rest(e, k) PROVE w = Rest(e, k + 1)
  <2>1. \A b \in 0..7 : b \notin v
    BY <1>3, <1>4, <1>6, <1>8
  <2>2. \A b \in 0..31 : b \in w <=> b + 8 \in v
    BY <1>2, <2>1, Byte32Shifts DEF w
  <2>3. ASSUME NEW b \in 0..31 PROVE b \in w <=> b \in Rest(e, k + 1)
    <3>1. CASE b >= 24
      <4>1. b + 8 \notin v /\ ~(b + 8 * k < 24)
        BY <1>2, <3>1 DEF Reg32
      <4> QED BY <2>2, <1>5, <4>1
    <3>2. CASE b < 24
      <4>1. b + 8 \in 0..31 /\ b + 8 \notin e[k] /\ ((b + 8) + 8 * k < 32 <=> b + 8 * k < 24)
        BY <3>2, <1>1
      <4>2. b + 8 \in v <=> b + 8 \in c
        BY <1>3, <4>1
      <4>3. b + 8 \in c <=> b + 8 * k < 24 /\ In(b + 8)
        BY <1>4, <1>8, <4>1
      <4> QED BY <2>2, <1>5, <4>2, <4>3
    <3> QED BY <3>1, <3>2
  <2> QED BY <2>3, <1>2, <1>7 DEF Reg32
<1>9. ASSUME w = Rest(e, k + 1) PROVE c = Rest(e, k)
  <2>1. \A b \in 24..31 : b \notin w
    BY <1>5, <1>9
  <2>2. \A b \in 0..31 : b \in v <=> b >= 8 /\ b - 8 \in w
    BY <1>2, <2>1, Byte32Undone DEF w
  <2>3. ASSUME NEW b \in 0..31 PROVE b \in c <=> b \in Rest(e, k)
    <3>1. CASE b < 8
      <4>1. b \in v <=> FALSE
        BY <2>2, <3>1
      <4>2. b \in c <=> b \in e[k]
        BY <1>3, <4>1
      <4>3. b + 8 * k < 32 /\ b \in 0..7
        BY <3>1
      <4> QED BY <1>4, <1>6, <4>2, <4>3
    <3>2. CASE b >= 8
      <4>1. b \notin e[k] /\ b - 8 \in 0..31 /\ (b - 8) + 8 = b
            /\ ((b - 8) + 8 * k < 24 <=> b + 8 * k < 32)
        BY <3>2, <1>1
      <4>2. b \in c <=> b - 8 \in w
        BY <1>3, <2>2, <3>2, <4>1
      <4>3. b - 8 \in w <=> b + 8 * k < 32 /\ In(b)
        BY <1>5, <1>9, <4>1
      <4> QED BY <1>4, <4>2, <4>3
    <3> QED BY <3>1, <3>2
  <2> QED BY <2>3, <1>7 DEF Reg32
<1> QED
  BY <1>8, <1>9 DEF v, w

\* A register that holds the four bytes that come is cleared by them, and no other is.
LEMMA FourSteps ==
    ASSUME NEW e \in FourBytes, NEW c \in Reg32
    PROVE  c = Rest(e, 0) <=>
             Byte32(Plus(Byte32(Plus(Byte32(Plus(Byte32(Plus(c, e[0])), e[1])), e[2])), e[3])) = {}
<1> DEFINE c1 == Byte32(Plus(c, e[0]))
           c2 == Byte32(Plus(c1, e[1]))
           c3 == Byte32(Plus(c2, e[2]))
           c4 == Byte32(Plus(c3, e[3]))
<1>1. e[0] \in Reg32 /\ e[1] \in Reg32 /\ e[2] \in Reg32 /\ e[3] \in Reg32
  BY DEF FourBytes, Reg32
<1>2. c1 \in Reg32
  BY <1>1, PlusReg32, Byte32Type
<1>3. c = Rest(e, 0) <=> c1 = Rest(e, 1)
  <2>1. c = Rest(e, 0) <=> Byte32(Plus(c, e[0])) = Rest(e, 0 + 1)
    BY RestStep
  <2> QED BY <2>1
<1> HIDE DEF c1
<1>4. c2 \in Reg32
  BY <1>1, <1>2, PlusReg32, Byte32Type
<1>5. c1 = Rest(e, 1) <=> c2 = Rest(e, 2)
  <2>1. c1 = Rest(e, 1) <=> Byte32(Plus(c1, e[1])) = Rest(e, 1 + 1)
    BY <1>2, RestStep
  <2> QED BY <2>1
<1> HIDE DEF c2
<1>6. c3 \in Reg32
  BY <1>1, <1>4, PlusReg32, Byte32Type
<1>7. c2 = Rest(e, 2) <=> c3 = Rest(e, 3)
  <2>1. c2 = Rest(e, 2) <=> Byte32(Plus(c2, e[2])) = Rest(e, 2 + 1)
    BY <1>4, RestStep
  <2> QED BY <2>1
<1> HIDE DEF c3
<1>8. c3 = Rest(e, 3) <=> c4 = Rest(e, 4)
  <2>1. c3 = Rest(e, 3) <=> Byte32(Plus(c3, e[3])) = Rest(e, 3 + 1)
    BY <1>6, RestStep
  <2> QED BY <2>1
<1>9. Rest(e, 4) = {}
  BY DEF Rest
<1>10. c = Rest(e, 0) <=> c4 = {}
  BY <1>3, <1>5, <1>7, <1>8, <1>9
<1> QED
  BY <1>10 DEF c4, c3, c2, c1

-----------------------------------------------------------------------------
(* Files.                                                                  *)

\* A byte of a file is added to the register, and eight division steps follow.
LEMMA CrcsStep ==
    ASSUME NEW s \in Seq(Byte), NEW i \in 1..Len(s)
    PROVE  /\ Crcs(s)[i - 1] \in Reg32 /\ Crcs(s)[i] \in Reg32
           /\ Crcs(s)[i] = Byte32(Plus(Crcs(s)[i - 1], Bits(s[i])))
<1>1. i \in 0..Len(s) /\ i - 1 \in 0..Len(s) /\ s[i] \in Byte
  OBVIOUS
<1>2. Crcs(s)[i - 1] \in Reg32 /\ Crcs(s)[i] \in Reg32
  BY <1>1, CrcsDef
<1>3. Crcs(s)[i] = crc32_byte(Crcs(s)[i - 1], s[i])
  BY CrcsDef
<1> QED
  BY <1>1, <1>2, <1>3, TableIsDivision

LastBits(s) == [k \in 0..3 |-> Bits(s[Len(s) - 3 + k])]

\* The last four bytes of a file as a register.
LEMMA LastFour ==
    ASSUME NEW s \in Seq(Byte), Len(s) >= 4
    PROVE  /\ LastBits(s) \in FourBytes
           /\ Register(SubSeq(s, Len(s) - 3, Len(s))) = Rest(LastBits(s), 0)
<1> DEFINE t == SubSeq(s, Len(s) - 3, Len(s))
<1>1. Len(s) \in Nat
  OBVIOUS
<1>2. Len(t) = 4 /\ \A k \in 0..3 : t[k + 1] = s[Len(s) - 3 + k]
  BY <1>1
<1>3. \A k \in 0..3 : Bits(s[Len(s) - 3 + k]) \in SUBSET (0..7)
  BY DEF Bits
<1>4. LastBits(s) \in FourBytes
  BY <1>3 DEF LastBits, FourBytes
<1> HIDE DEF t
<1>5. Register(t) = {i \in 0..31 : i % 8 \in Bits(t[(i \div 8) + 1])}
  <2>1. 8 * Len(t) - 1 = 31
    BY <1>2
  <2> QED BY <2>1 DEF Register
<1>6. ASSUME NEW i \in 0..31
      PROVE  i % 8 \in Bits(t[(i \div 8) + 1]) <=>
               i + 8 * 0 < 32 /\ i % 8 \in LastBits(s)[0 + (i \div 8)]
  <2>1. i \div 8 \in 0..3 /\ 0 + (i \div 8) = i \div 8
    OBVIOUS
  <2>2. LastBits(s)[i \div 8] = Bits(s[Len(s) - 3 + (i \div 8)])
    BY <2>1 DEF LastBits
  <2>3. t[(i \div 8) + 1] = s[Len(s) - 3 + (i \div 8)]
    BY <2>1, <1>2
  <2> QED BY <2>1, <2>2, <2>3
<1>7. Register(t) = Rest(LastBits(s), 0)
  BY <1>5, <1>6 DEF Rest
<1> QED
  BY <1>4, <1>7 DEF t

\* A file whose CRC is right leaves nothing in the register.
LEMMA FileLeavesNothing ==
    ASSUME NEW s \in Seq(Byte), Len(s) >= 4
    PROVE  Crc32(SubSeq(s, 1, Len(s) - 4)) = Register(SubSeq(s, Len(s) - 3, Len(s)))
             <=> Crcs(s)[Len(s)] = {}
<1> DEFINE n == Len(s)
           t == SubSeq(s, 1, n - 4)
           e == LastBits(s)
           f == Crcs(s)
<1>1. n \in Nat /\ n - 4 \in Nat /\ n - 4 \in 0..n
  OBVIOUS
<1>2. t \in Seq(Byte) /\ Len(t) = n - 4 /\ \A i \in 1..(n - 4) : t[i] = s[i]
  <2>1. \A i \in 1..(n - 4) : s[i] \in Byte
    BY <1>1
  <2>2. t = [i \in 1..(n - 4) |-> s[i]]
    BY <1>1
  <2> HIDE DEF t, n
  <2> QED BY <1>1, <2>1, <2>2
<1>3. Crc32(t) = f[n - 4]
  <2> HIDE DEF t
  <2>1. \A i \in 0..(n - 4) : Crcs(t)[i] = Crcs(s)[i]
    BY <1>1, <1>2, CrcsSame, SMTT(30)
  <2>2. n - 4 \in 0..(n - 4)
    BY <1>1
  <2> QED BY <2>1, <2>2, <1>2 DEF Crc32
<1>4. /\ f[n - 4] \in Reg32
      /\ f[n - 3] = Byte32(Plus(f[n - 4], e[0])) /\ f[n - 2] = Byte32(Plus(f[n - 3], e[1]))
      /\ f[n - 1] = Byte32(Plus(f[n - 2], e[2])) /\ f[n] = Byte32(Plus(f[n - 1], e[3]))
  <2>1. /\ e[0] = Bits(s[n - 3]) /\ e[1] = Bits(s[n - 2])
        /\ e[2] = Bits(s[n - 1]) /\ e[3] = Bits(s[n])
    <3>1. n - 3 + 0 = n - 3 /\ n - 3 + 1 = n - 2 /\ n - 3 + 2 = n - 1 /\ n - 3 + 3 = n
      BY <1>1
    <3> QED BY <3>1 DEF LastBits
  <2>2. /\ n - 3 \in 1..n /\ n - 2 \in 1..n /\ n - 1 \in 1..n /\ n \in 1..n
        /\ (n - 3) - 1 = n - 4 /\ (n - 2) - 1 = n - 3 /\ (n - 1) - 1 = n - 2
    BY <1>1
  <2> HIDE DEF e
  <2>3. f[n - 4] \in Reg32 /\ f[n - 3] = Byte32(Plus(f[n - 4], Bits(s[n - 3])))
    BY <2>2, CrcsStep
  <2>4. f[n - 2] = Byte32(Plus(f[n - 3], Bits(s[n - 2])))
    BY <2>2, CrcsStep
  <2>5. f[n - 1] = Byte32(Plus(f[n - 2], Bits(s[n - 1])))
    BY <2>2, CrcsStep
  <2>6. f[n] = Byte32(Plus(f[n - 1], Bits(s[n])))
    BY <2>2, CrcsStep
  <2> QED BY <2>1, <2>3, <2>4, <2>5, <2>6
<1> HIDE DEF n, t, e, f
<1>5. e \in FourBytes
  BY LastFour DEF e
<1>6. f[n - 4] = Rest(e, 0) <=> f[n] = {}
  <2>1. f[n - 4] = Rest(e, 0) <=>
          Byte32(Plus(Byte32(Plus(Byte32(Plus(Byte32(Plus(f[n - 4], e[0])), e[1])), e[2])),
                      e[3])) = {}
    BY <1>4, <1>5, FourSteps, Zenon
  <2> QED BY <1>4, <2>1
<1>7. Register(SubSeq(s, Len(s) - 3, Len(s))) = Rest(e, 0)
  BY LastFour DEF e
<1> QED
  BY <1>3, <1>6, <1>7 DEF f, n, t

-----------------------------------------------------------------------------
(* Two files.                                                              *)

\* The difference of the registers of two files is the register of their difference.
LEMMA DifferenceStep ==
    ASSUME NEW s \in Seq(Byte), NEW t \in Seq(Byte), Len(t) = Len(s), NEW i \in 1..Len(s)
    PROVE  /\ Plus(Crcs(s)[i - 1], Crcs(t)[i - 1]) \in Reg32
           /\ Plus(Bits(s[i]), Bits(t[i])) \in SUBSET (0..7)
           /\ Plus(Crcs(s)[i], Crcs(t)[i]) =
                Byte32(Plus(Plus(Crcs(s)[i - 1], Crcs(t)[i - 1]), Plus(Bits(s[i]), Bits(t[i]))))
<1> DEFINE a == Crcs(s)[i - 1]
           b == Crcs(t)[i - 1]
           p == Bits(s[i])
           q == Bits(t[i])
<1>1. a \in Reg32 /\ Crcs(s)[i] = Byte32(Plus(a, p))
  BY CrcsStep
<1>2. b \in Reg32 /\ Crcs(t)[i] = Byte32(Plus(b, q))
  <2>1. i \in 1..Len(t)
    OBVIOUS
  <2> QED BY <2>1, CrcsStep
<1>3. p \in SUBSET (0..7) /\ q \in SUBSET (0..7) /\ p \in Reg32 /\ q \in Reg32
  BY DEF Bits, Reg32
<1> HIDE DEF a, b, p, q
<1>4. Plus(a, p) \in Reg32 /\ Plus(b, q) \in Reg32 /\ Plus(a, b) \in Reg32
  BY <1>1, <1>2, <1>3, PlusReg32
<1>5. Plus(Plus(a, p), Plus(b, q)) = Plus(Plus(a, b), Plus(p, q))
  <2>1. ASSUME NEW x
        PROVE  x \in Plus(Plus(a, p), Plus(b, q)) <=> x \in Plus(Plus(a, b), Plus(p, q))
    BY PlusMember
  <2>2. Plus(Plus(a, p), Plus(b, q)) \subseteq Plus(Plus(a, b), Plus(p, q))
    BY <2>1
  <2>3. Plus(Plus(a, b), Plus(p, q)) \subseteq Plus(Plus(a, p), Plus(b, q))
    BY <2>1
  <2> QED BY <2>2, <2>3
<1>6. Plus(Crcs(s)[i], Crcs(t)[i]) = Byte32(Plus(Plus(a, p), Plus(b, q)))
  BY <1>1, <1>2, <1>4, Byte32Linear
<1>7. Plus(p, q) \in SUBSET (0..7)
  BY <1>3, PlusType
<1> QED
  BY <1>4, <1>5, <1>6, <1>7 DEF a, b, p, q

\* Eight division steps clear no register that is not clear.
LEMMA Byte32Injective ==
    ASSUME NEW v \in Reg32, Byte32(v) = {}
    PROVE  v = {}
<1>1. \A b \in 24..31 : b \notin Byte32(v)
  OBVIOUS
<1>2. \A b \in 0..31 : b \in v <=> b >= 8 /\ b - 8 \in Byte32(v)
  BY <1>1, Byte32Undone
<1> QED
  BY <1>2 DEF Reg32

\* Two files that differ only in four adjacent bytes and have the same CRC are the same.
LEMMA FourBytesSeen ==
    ASSUME NEW s \in Seq(Byte), NEW t \in Seq(Byte), Len(t) = Len(s),
           NEW j \in 1..(Len(s) - 3),
           \A i \in 1..Len(s) : i \notin j..(j + 3) => s[i] = t[i],
           Crcs(s)[Len(s)] = Crcs(t)[Len(s)]
    PROVE  s = t
<1> DEFINE n == Len(s)
           D(i) == Plus(Crcs(s)[i], Crcs(t)[i])
           E(i) == Plus(Bits(s[i]), Bits(t[i]))
           e == [k \in 0..3 |-> E(j + k)]
<1>0. /\ n \in Nat /\ j \in Int /\ j >= 1 /\ j + 3 <= n /\ j \in 1..n /\ j + 1 \in 1..n
      /\ j + 2 \in 1..n /\ j + 3 \in 1..n
  OBVIOUS
<1>1. \A i \in 1..n : /\ D(i - 1) \in Reg32 /\ E(i) \in SUBSET (0..7)
                      /\ D(i) = Byte32(Plus(D(i - 1), E(i)))
  BY DifferenceStep
<1>2. D(j - 1) = {}
  <2>1. j - 1 \in Nat /\ j - 1 <= Len(s) /\ \A i \in 1..(j - 1) : s[i] = t[i]
    OBVIOUS
  <2>2. \A i \in 0..(j - 1) : Crcs(s)[i] = Crcs(t)[i]
    BY <2>1, CrcsSame
  <2>3. Crcs(s)[j - 1] = Crcs(t)[j - 1]
    BY <2>1, <2>2
  <2> QED BY <2>3, PlusEmpty
<1>3. D(j + 3) = {}
  <2> DEFINE m == n - (j + 3)
             S == {k \in 0..m : D(n - k) = {}}
  <2>1. m \in Nat
    BY <1>0
  <2>2. 0 \in S
    <3>1. n - 0 = n /\ 0 \in 0..m
      BY <1>0
    <3> QED BY <3>1, PlusEmpty
  <2>3. ASSUME NEW k \in 1..m, k - 1 \in S PROVE k \in S
    <3> DEFINE i == n - (k - 1)
    <3>1. i \in 1..n /\ i \notin j..(j + 3) /\ i - 1 = n - k
      BY <1>0
    <3> HIDE DEF i
    <3>2. D(i) = {}
      BY <2>3 DEF i
    <3>3. E(i) = {}
      BY <3>1, PlusEmpty
    <3> HIDE DEF D, E
    <3>4. Byte32(Plus(D(i - 1), E(i))) = {} /\ D(i - 1) \in Reg32
      BY <1>1, <3>1, <3>2
    <3>5. Plus(D(i - 1), E(i)) = D(i - 1)
      BY <3>3 DEF Plus
    <3>6. D(i - 1) = {}
      BY <3>4, <3>5, Byte32Injective
    <3> QED BY <3>1, <3>6, SMTT(30)
  <2>4. \A k \in 0..m : k \in S
    <3> HIDE DEF S, m, D
    <3> QED BY <2>1, <2>2, <2>3, Induct
  <2>5. m \in 0..m /\ n - m = j + 3
    BY <2>1, <1>0
  <2> HIDE DEF D, m
  <2>6. m \in S
    BY <2>4, <2>5
  <2> QED BY <2>5, <2>6
<1>4. e \in FourBytes /\ e[0] = E(j) /\ e[1] = E(j + 1) /\ e[2] = E(j + 2) /\ e[3] = E(j + 3)
  <2>1. \A k \in 0..3 : E(j + k) \in SUBSET (0..7)
    <3>1. \A k \in 0..3 : j + k \in 1..n
      BY <1>0
    <3> HIDE DEF E, D
    <3> QED BY <3>1, <1>1
  <2>2. j + 0 = j
    OBVIOUS
  <2> HIDE DEF E
  <2> QED BY <2>1, <2>2 DEF FourBytes
<1> HIDE DEF D, E, e
<1>5. /\ D(j - 1) \in Reg32
      /\ D(j + 3) = Byte32(Plus(Byte32(Plus(Byte32(Plus(Byte32(Plus(D(j - 1), e[0])),
                                                        e[1])), e[2])), e[3]))
  <2>1. D(j - 1) \in Reg32 /\ D(j) = Byte32(Plus(D(j - 1), e[0]))
    BY <1>0, <1>1, <1>4
  <2>2. D(j + 1) = Byte32(Plus(D(j), e[1]))
    <3>1. (j + 1) - 1 = j
      OBVIOUS
    <3> QED BY <1>0, <1>1, <1>4, <3>1
  <2>3. D(j + 2) = Byte32(Plus(D(j + 1), e[2]))
    <3>1. (j + 2) - 1 = j + 1
      OBVIOUS
    <3> QED BY <1>0, <1>1, <1>4, <3>1
  <2>4. D(j + 3) = Byte32(Plus(D(j + 2), e[3]))
    <3>1. (j + 3) - 1 = j + 2
      OBVIOUS
    <3> QED BY <1>0, <1>1, <1>4, <3>1
  <2> QED BY <2>1, <2>2, <2>3, <2>4
<1>6. D(j - 1) = Rest(e, 0)
  BY <1>3, <1>4, <1>5, FourSteps
<1>7. ASSUME NEW k \in 0..3 PROVE E(j + k) = {}
  <2>1. ASSUME NEW b \in 0..7 PROVE b \notin e[k]
    <3>1. /\ 8 * k + b \in 0..31 /\ (8 * k + b) % 8 = b /\ 0 + ((8 * k + b) \div 8) = k
          /\ (8 * k + b) + 8 * 0 < 32
      OBVIOUS
    <3>2. 8 * k + b \notin Rest(e, 0)
      BY <1>2, <1>6
    <3> QED BY <3>1, <3>2 DEF Rest
  <2>2. e[k] = E(j + k) /\ e[k] \in SUBSET (0..7)
    BY <1>4 DEF e, FourBytes
  <2> QED BY <2>1, <2>2
<1>8. ASSUME NEW i \in 1..n PROVE s[i] = t[i]
  <2>1. CASE i \notin j..(j + 3)
    BY <2>1
  <2>2. CASE i \in j..(j + 3)
    <3>1. i - j \in 0..3 /\ j + (i - j) = i
      BY <2>2
    <3>2. E(i) = {}
      BY <1>7, <3>1
    <3>3. Bits(s[i]) = Bits(t[i])
      BY <3>2, PlusEmpty DEF E
    <3>4. s[i] \in Byte /\ t[i] \in Byte
      OBVIOUS
    <3> QED BY <3>3, <3>4, BitsInjective DEF Byte
  <2> QED BY <2>1, <2>2
<1>9. n = Len(t) /\ n = Len(s)
  OBVIOUS
<1> HIDE DEF n
<1> QED
  BY <1>8, <1>9

-----------------------------------------------------------------------------
(* The bytes of a suffix.                                                  *)

\* A register of 32 bits is restored from its four bytes.
LEMMA RegisterOfFour ==
    ASSUME NEW reg \in Reg32
    PROVE  Register(<<ByteOf(reg, 0), ByteOf(reg, 1), ByteOf(reg, 2), ByteOf(reg, 3)>>) = reg
<1> DEFINE four == <<ByteOf(reg, 0), ByteOf(reg, 1), ByteOf(reg, 2), ByteOf(reg, 3)>>
<1>1. Register(four) = {i \in 0..31 : i % 8 \in Bits(four[(i \div 8) + 1])}
  BY DEF Register
<1>2. \A k \in 0..3 : four[k + 1] = ByteOf(reg, k)
  OBVIOUS
<1> HIDE DEF four
<1>3. ASSUME NEW b \in 0..31 PROVE b % 8 \in Bits(four[(b \div 8) + 1]) <=> b \in reg
  <2>1. b \div 8 \in 0..3 /\ b % 8 \in 0..7 /\ 8 * (b \div 8) + (b % 8) = b
    OBVIOUS
  <2>2. four[(b \div 8) + 1] = ByteOf(reg, b \div 8)
    BY <2>1, <1>2
  <2>3. b % 8 \in Bits(ByteOf(reg, b \div 8)) <=> 8 * (b \div 8) + (b % 8) \in reg
    <3>1. b \div 8 \in Nat
      BY <2>1
    <3> QED BY <2>1, <3>1, ByteOfBits
  <2> QED BY <2>1, <2>2, <2>3
<1>4. Register(four) = reg
  BY <1>1, <1>3 DEF Reg32
<1> QED
  BY <1>4 DEF four

\* A number is written as two bytes.
LEMMA LittleEndianType ==
    ASSUME NEW n \in Nat
    PROVE  LittleEndian(n) \in Seq(Byte) /\ Len(LittleEndian(n)) = 2
  BY DEF LittleEndian, Lo, Hi, Byte

\* The bytes that the four numbers are written as.
LEMMA IdsBytes ==
    /\ LittleEndian(SomeIds["bcdDevice"]) = <<2, 1>>
    /\ LittleEndian(SomeIds["idProduct"]) = <<4, 3>>
    /\ LittleEndian(SomeIds["idVendor"]) = <<134, 128>>
    /\ LittleEndian(SomeIds["bcdDFU"]) = <<0, 1>>
<1>1. /\ SomeIds["bcdDevice"] = 258 /\ SomeIds["idProduct"] = 772
      /\ SomeIds["idVendor"] = 32902 /\ SomeIds["bcdDFU"] = 256
  BY DEF SomeIds, Ids
<1>2. /\ 258 % 256 = 2 /\ (258 \div 256) % 256 = 1
      /\ 772 % 256 = 4 /\ (772 \div 256) % 256 = 3
      /\ 32902 % 256 = 134 /\ (32902 \div 256) % 256 = 128
      /\ 256 % 256 = 0 /\ (256 \div 256) % 256 = 1
  OBVIOUS
<1> QED
  BY <1>1, <1>2 DEF LittleEndian, Lo, Hi

\* Where the bytes of two sequences are in their concatenation.
LEMMA Joined ==
    ASSUME NEW x \in Seq(Byte), NEW y \in Seq(Byte)
    PROVE  /\ x \o y \in Seq(Byte) /\ Len(x \o y) = Len(x) + Len(y)
           /\ \A i \in 1..Len(x) : (x \o y)[i] = x[i]
           /\ \A i \in 1..Len(y) : (x \o y)[Len(x) + i] = y[i]
<1>1. Len(x) \in Nat /\ Len(y) \in Nat
  OBVIOUS
<1>2. /\ x \o y \in Seq(Byte) /\ Len(x \o y) = Len(x) + Len(y)
      /\ \A i \in 1..(Len(x) + Len(y)) : (x \o y)[i] =
            IF i <= Len(x) THEN x[i] ELSE y[i - Len(x)]
  BY ConcatProperties
<1>3. ASSUME NEW i \in 1..Len(x) PROVE (x \o y)[i] = x[i]
  <2>1. i \in 1..(Len(x) + Len(y)) /\ i <= Len(x)
    BY <1>1
  <2> QED BY <2>1, <1>2
<1>4. ASSUME NEW i \in 1..Len(y) PROVE (x \o y)[Len(x) + i] = y[i]
  <2>1. /\ Len(x) + i \in 1..(Len(x) + Len(y)) /\ ~(Len(x) + i <= Len(x))
        /\ (Len(x) + i) - Len(x) = i
    BY <1>1
  <2> QED BY <2>1, <1>2
<1> QED
  BY <1>2, <1>3, <1>4

\* Where two more bytes are.
LEMMA JoinedTwo ==
    ASSUME NEW x \in Seq(Byte), NEW a \in Byte, NEW b \in Byte
    PROVE  LET z == x \o <<a, b>>
           IN  /\ z \in Seq(Byte) /\ Len(z) = Len(x) + 2
               /\ \A i \in 1..Len(x) : z[i] = x[i]
               /\ z[Len(x) + 1] = a /\ z[Len(x) + 2] = b
<1> DEFINE y == <<a, b>>
<1>1. y \in Seq(Byte) /\ Len(y) = 2 /\ y[1] = a /\ y[2] = b
  OBVIOUS
<1>2. 1 \in 1..2 /\ 2 \in 1..2
  OBVIOUS
<1> QED
  BY <1>1, <1>2, Joined

\* The bytes of a suffix, in their order.
LEMMA SuffixBytes ==
    ASSUME NEW body \in Seq(Byte), NEW length \in Byte
    PROVE  LET r == AddSuffix(body, SomeIds, length)
               m == Len(body)
           IN  /\ r \in Seq(Byte) /\ Len(r) = m + 16
               /\ \A i \in 1..m : r[i] = body[i]
               /\ r[m + 1] = 2 /\ r[m + 2] = 1 /\ r[m + 3] = 4 /\ r[m + 4] = 3
               /\ r[m + 5] = 134 /\ r[m + 6] = 128 /\ r[m + 7] = 0 /\ r[m + 8] = 1
               /\ r[m + 9] = 85 /\ r[m + 10] = 70 /\ r[m + 11] = 68 /\ r[m + 12] = length
               /\ Crc32(SubSeq(r, 1, Len(r) - 4)) = Register(SubSeq(r, Len(r) - 3, Len(r)))
<1> DEFINE r == AddSuffix(body, SomeIds, length)
           m == Len(body)
           y1 == LittleEndian(SomeIds["bcdDevice"])
           y2 == LittleEndian(SomeIds["idProduct"])
           y3 == LittleEndian(SomeIds["idVendor"])
           y4 == LittleEndian(SomeIds["bcdDFU"])
           s1 == body \o y1
           s2 == s1 \o y2
           s3 == s2 \o y3
           s4 == s3 \o y4
           s == s4 \o <<85, 70, 68, length>>
           crc == Crc32(s)
           four == <<ByteOf(crc, 0), ByteOf(crc, 1), ByteOf(crc, 2), ByteOf(crc, 3)>>
<1>1. m \in Nat
  OBVIOUS
<1>2. r = s \o four
  BY DEF AddSuffix
<1>b. /\ 0 \in Byte /\ 1 \in Byte /\ 2 \in Byte /\ 3 \in Byte /\ 4 \in Byte /\ 134 \in Byte
      /\ 128 \in Byte /\ 85 \in Byte /\ 70 \in Byte /\ 68 \in Byte
  BY DEF Byte
<1>y. y1 = <<2, 1>> /\ y2 = <<4, 3>> /\ y3 = <<134, 128>> /\ y4 = <<0, 1>>
  BY IdsBytes
<1> HIDE DEF y1, y2, y3, y4
<1>z. /\ s1 = body \o <<2, 1>> /\ s2 = s1 \o <<4, 3>> /\ s3 = s2 \o <<134, 128>>
      /\ s4 = s3 \o <<0, 1>>
  BY <1>y
<1> HIDE DEF r
<1> HIDE DEF s1
<1>3. /\ s1 \in Seq(Byte) /\ Len(s1) = m + 2 /\ \A i \in 1..m : s1[i] = body[i]
      /\ s1[m + 1] = 2 /\ s1[m + 2] = 1
  BY <1>b, <1>z, JoinedTwo, SMTT(30)
<1>4. /\ s2 \in Seq(Byte) /\ Len(s2) = m + 4 /\ \A i \in 1..(m + 2) : s2[i] = s1[i]
      /\ s2[m + 3] = 4 /\ s2[m + 4] = 3
  <2> HIDE DEF s2
  <2>1. /\ s2 \in Seq(Byte) /\ Len(s2) = Len(s1) + 2
        /\ \A i \in 1..Len(s1) : s2[i] = s1[i]
        /\ s2[Len(s1) + 1] = 4 /\ s2[Len(s1) + 2] = 3
    BY <1>b, <1>3, <1>z, JoinedTwo, SMTT(30)
  <2>2. (m + 2) + 2 = m + 4 /\ (m + 2) + 1 = m + 3
    BY <1>1
  <2> HIDE DEF s2, m
  <2> QED BY <2>1, <2>2, <1>3
<1> HIDE DEF s2
<1>5. /\ s3 \in Seq(Byte) /\ Len(s3) = m + 6 /\ \A i \in 1..(m + 4) : s3[i] = s2[i]
      /\ s3[m + 5] = 134 /\ s3[m + 6] = 128
  <2> HIDE DEF s3
  <2>1. /\ s3 \in Seq(Byte) /\ Len(s3) = Len(s2) + 2
        /\ \A i \in 1..Len(s2) : s3[i] = s2[i]
        /\ s3[Len(s2) + 1] = 134 /\ s3[Len(s2) + 2] = 128
    BY <1>b, <1>4, <1>z, JoinedTwo, SMTT(30)
  <2>2. (m + 4) + 2 = m + 6 /\ (m + 4) + 1 = m + 5
    BY <1>1
  <2> HIDE DEF s3, m
  <2> QED BY <2>1, <2>2, <1>4
<1> HIDE DEF s3
<1>6. /\ s4 \in Seq(Byte) /\ Len(s4) = m + 8 /\ \A i \in 1..(m + 6) : s4[i] = s3[i]
      /\ s4[m + 7] = 0 /\ s4[m + 8] = 1
  <2> HIDE DEF s4
  <2>1. /\ s4 \in Seq(Byte) /\ Len(s4) = Len(s3) + 2
        /\ \A i \in 1..Len(s3) : s4[i] = s3[i]
        /\ s4[Len(s3) + 1] = 0 /\ s4[Len(s3) + 2] = 1
    BY <1>b, <1>5, <1>z, JoinedTwo, SMTT(30)
  <2>2. (m + 6) + 2 = m + 8 /\ (m + 6) + 1 = m + 7
    BY <1>1
  <2> HIDE DEF s4, m
  <2> QED BY <2>1, <2>2, <1>5
<1> HIDE DEF s4
<1>7. /\ s \in Seq(Byte) /\ Len(s) = m + 12 /\ \A i \in 1..(m + 8) : s[i] = s4[i]
      /\ s[m + 9] = 85 /\ s[m + 10] = 70 /\ s[m + 11] = 68 /\ s[m + 12] = length
  <2>1. /\ s \in Seq(Byte) /\ Len(s) = Len(s4) + 4
        /\ \A i \in 1..Len(s4) : s[i] = s4[i]
        /\ s[Len(s4) + 1] = 85 /\ s[Len(s4) + 2] = 70
        /\ s[Len(s4) + 3] = 68 /\ s[Len(s4) + 4] = length
    <3> DEFINE y == <<85, 70, 68, length>>
    <3>1. s = s4 \o y
      OBVIOUS
    <3>2. y \in Seq(Byte) /\ Len(y) = 4 /\ y[1] = 85 /\ y[2] = 70 /\ y[3] = 68 /\ y[4] = length
      BY <1>b
    <3> HIDE DEF y, s
    <3>3. s4 \in Seq(Byte) /\ y \in Seq(Byte)
      BY <1>6, <3>2
    <3>4. /\ s4 \o y \in Seq(Byte) /\ Len(s4 \o y) = Len(s4) + Len(y)
          /\ \A i \in 1..Len(s4) : (s4 \o y)[i] = s4[i]
          /\ \A i \in 1..Len(y) : (s4 \o y)[Len(s4) + i] = y[i]
      BY <3>3, Joined, Zenon
    <3>5. 1 \in 1..4 /\ 2 \in 1..4 /\ 3 \in 1..4 /\ 4 \in 1..4
      OBVIOUS
    <3> QED BY <3>1, <3>2, <3>4, <3>5
  <2>2. /\ (m + 8) + 4 = m + 12 /\ (m + 8) + 1 = m + 9
        /\ (m + 8) + 2 = m + 10 /\ (m + 8) + 3 = m + 11
    BY <1>1
  <2> HIDE DEF s, m
  <2>3. Len(s4) = m + 8
    BY <1>6
  <2>4. /\ Len(s4) + 4 = m + 12 /\ Len(s4) + 1 = m + 9
        /\ Len(s4) + 2 = m + 10 /\ Len(s4) + 3 = m + 11
    BY <2>2, <2>3
  <2> QED BY <2>1, <2>3, <2>4, Zenon
<1> HIDE DEF s
<1>8. crc \in Reg32
  <2>1. Len(s) \in 0..Len(s)
    BY <1>7
  <2> QED BY <1>7, <2>1, CrcsDef DEF Crc32
<1> HIDE DEF crc
<1>9. four \in Seq(Byte) /\ Len(four) = 4 /\ Register(four) = crc
  <2>1. /\ ByteOf(crc, 0) \in Byte /\ ByteOf(crc, 1) \in Byte
        /\ ByteOf(crc, 2) \in Byte /\ ByteOf(crc, 3) \in Byte
    BY ByteOfBits DEF Byte
  <2>2. Register(four) = crc
    BY <1>8, RegisterOfFour
  <2> QED BY <2>1, <2>2
<1> HIDE DEF four
<1>10. /\ r \in Seq(Byte) /\ Len(r) = (m + 12) + 4
       /\ \A i \in 1..(m + 12) : r[i] = s[i]
       /\ \A i \in 1..4 : r[(m + 12) + i] = four[i]
  <2>1. /\ r \in Seq(Byte) /\ Len(r) = Len(s) + Len(four)
        /\ \A i \in 1..Len(s) : r[i] = s[i]
        /\ \A i \in 1..Len(four) : r[Len(s) + i] = four[i]
    <3>1. s \in Seq(Byte) /\ four \in Seq(Byte)
      BY <1>7, <1>9
    <3>2. /\ s \o four \in Seq(Byte) /\ Len(s \o four) = Len(s) + Len(four)
          /\ \A i \in 1..Len(s) : (s \o four)[i] = s[i]
          /\ \A i \in 1..Len(four) : (s \o four)[Len(s) + i] = four[i]
      BY <3>1, Joined, Zenon
    <3> QED BY <3>2, <1>2, Zenon
  <2> HIDE DEF m
  <2> QED BY <2>1, <1>7, <1>9
<1>11. SubSeq(r, 1, Len(r) - 4) = s
  <2>1. Len(r) - 4 = m + 12
    BY <1>1, <1>10
  <2>2. SubSeq(r, 1, m + 12) = [i \in 1..(m + 12) |-> r[i]]
    BY <1>1, <1>10
  <2>3. s = [i \in 1..(m + 12) |-> s[i]]
    BY <1>1, <1>7
  <2> QED BY <2>1, <2>2, <2>3, <1>10
<1>12. SubSeq(r, Len(r) - 3, Len(r)) = four
  <2>1. Len(r) - 3 = m + 13 /\ Len(r) = m + 16
    BY <1>1, <1>10
  <2>2. SubSeq(r, m + 13, m + 16) = [i \in 1..4 |-> r[(m + 12) + i]]
    BY <1>1, <1>10
  <2>3. four = [i \in 1..4 |-> four[i]]
    BY <1>9
  <2> QED BY <2>1, <2>2, <2>3, <1>10
<1>13. Crc32(SubSeq(r, 1, Len(r) - 4)) = Register(SubSeq(r, Len(r) - 3, Len(r)))
  BY <1>9, <1>11, <1>12 DEF crc
<1> HIDE DEF m
<1>14. \A i \in 1..(m + 8) : r[i] = s4[i]
  BY <1>1, <1>7, <1>10
<1>15. \A i \in 1..(m + 6) : r[i] = s3[i]
  BY <1>1, <1>6, <1>14
<1>16. \A i \in 1..(m + 4) : r[i] = s2[i]
  BY <1>1, <1>5, <1>15
<1>17. \A i \in 1..(m + 2) : r[i] = s1[i]
  BY <1>1, <1>4, <1>16
<1>18. \A i \in 1..m : r[i] = body[i]
  BY <1>1, <1>3, <1>17
<1>19. r[m + 1] = 2 /\ r[m + 2] = 1
  BY <1>1, <1>3, <1>17
<1>20. r[m + 3] = 4 /\ r[m + 4] = 3
  BY <1>1, <1>4, <1>16
<1>21. r[m + 5] = 134 /\ r[m + 6] = 128
  BY <1>1, <1>5, <1>15
<1>22. r[m + 7] = 0 /\ r[m + 8] = 1
  BY <1>1, <1>6, <1>14
<1>23. r[m + 9] = 85 /\ r[m + 10] = 70 /\ r[m + 11] = 68 /\ r[m + 12] = length
  BY <1>1, <1>7, <1>10
<1>24. Len(r) = m + 16
  BY <1>1, <1>10
<1> QED
  BY <1>10, <1>13, <1>18, <1>19, <1>20, <1>21, <1>22, <1>23, <1>24 DEF r, m

-----------------------------------------------------------------------------
(* The bytes of a prefix.                                                  *)

\* What a suffix is added to: an image, after its prefix if it is to have one.
Front(image, type) ==
    (IF type # "ZERO_PREFIX" THEN Prefix(Plain(image, type)) ELSE <<>>) \o image

\* The fields of a file that is nothing but a firmware.
LEMMA PlainFields ==
    ASSUME NEW image \in Seq(Byte), NEW type
    PROVE  /\ Plain(image, type).firmware = image /\ Plain(image, type).suffix = 0
           /\ Plain(image, type).prefix = 0 /\ Plain(image, type).prefix_type = type
           /\ Plain(image, type).ids = SomeIds
           /\ Plain(image, type).lmdfu_address =
                (IF type = "LMDFU_PREFIX" THEN 1024 * 515 ELSE 0)
           /\ Body(Plain(image, type)) = image
<1>1. /\ Plain(image, type).firmware = image /\ Plain(image, type).suffix = 0
      /\ Plain(image, type).prefix = 0 /\ Plain(image, type).prefix_type = type
      /\ Plain(image, type).ids = SomeIds
      /\ Plain(image, type).lmdfu_address =
           (IF type = "LMDFU_PREFIX" THEN 1024 * 515 ELSE 0)
  BY DEF Plain
<1>2. Body(Plain(image, type)) = SubSeq(image, 1, Len(image))
  <2>1. 0 + 1 = 1 /\ Len(image) - 0 = Len(image)
    OBVIOUS
  <2> QED BY <1>1, <2>1 DEF Body
<1>3. SubSeq(image, 1, Len(image)) = image
  OBVIOUS
<1> QED
  BY <1>1, <1>2, <1>3

\* The prefix of TI's format begins with 1, 0 and the address in kilobytes.
LEMMA LmdfuPrefix ==
    ASSUME NEW image \in Seq(Byte)
    PROVE  LET x == Prefix(Plain(image, "LMDFU_PREFIX"))
           IN  /\ x \in Seq(Byte) /\ Len(x) = 8
               /\ x[1] = 1 /\ x[2] = 0 /\ x[3] = 3 /\ x[4] = 2
<1> DEFINE n == Len(image)
           y3 == LittleEndian(n)
           y4 == LittleEndian(n \div 65536)
           x1 == <<1, 0>>
           x2 == x1 \o <<3, 2>>
           x3 == x2 \o y3
           x4 == x3 \o y4
<1>1. LittleEndian((1024 * 515) \div 1024) = <<3, 2>>
  <2>1. (1024 * 515) \div 1024 = 515 /\ 515 % 256 = 3 /\ (515 \div 256) % 256 = 2
    OBVIOUS
  <2> QED BY <2>1 DEF LittleEndian, Lo, Hi
<1>2. Prefix(Plain(image, "LMDFU_PREFIX")) = x4
  <2> DEFINE F == Plain(image, "LMDFU_PREFIX")
  <2>1. /\ F.prefix_type = "LMDFU_PREFIX" /\ F.lmdfu_address = 1024 * 515
        /\ Body(F) = image
    BY PlainFields
  <2> HIDE DEF F
  <2>2. Prefix(F) = <<1, 0>> \o LittleEndian(F.lmdfu_address \div 1024)
                            \o LittleEndian(Len(Body(F))) \o LittleEndian(Len(Body(F)) \div 65536)
    BY <2>1 DEF Prefix
  <2>3. Prefix(F) = x4
    <3>1. (1024 * 515) \div 1024 = 515
      OBVIOUS
    <3>2. LittleEndian(F.lmdfu_address \div 1024) = <<3, 2>>
      BY <1>1, <2>1
    <3>3. Prefix(F) = <<1, 0>> \o <<3, 2>> \o LittleEndian(Len(Body(F)))
                              \o LittleEndian(Len(Body(F)) \div 65536)
      <4> DEFINE b == <<3, 2>>
                 q == LittleEndian(F.lmdfu_address \div 1024)
      <4>1. q = b
        BY <3>2
      <4>2. Prefix(F) = <<1, 0>> \o q \o LittleEndian(Len(Body(F)))
                                \o LittleEndian(Len(Body(F)) \div 65536)
        BY <2>2
      <4> HIDE DEF b, q
      <4>3. Prefix(F) = <<1, 0>> \o b \o LittleEndian(Len(Body(F)))
                                \o LittleEndian(Len(Body(F)) \div 65536)
        BY <4>1, <4>2
      <4> QED BY <4>3 DEF b
    <3>4. Body(F) = image
      BY <2>1
    <3> QED BY <3>3, <3>4
  <2> QED BY <2>3 DEF F
<1>3. n \in Nat /\ n \div 65536 \in Nat
  OBVIOUS
<1>4. y3 \in Seq(Byte) /\ Len(y3) = 2 /\ y4 \in Seq(Byte) /\ Len(y4) = 2
  <2> HIDE DEF n
  <2> QED BY <1>3, LittleEndianType
<1>5. /\ x2 \in Seq(Byte) /\ Len(x2) = 4
      /\ x2[1] = 1 /\ x2[2] = 0 /\ x2[3] = 3 /\ x2[4] = 2
  <2> DEFINE a == <<1, 0>>
             b == <<3, 2>>
  <2>1. /\ a \in Seq(Byte) /\ Len(a) = 2 /\ a[1] = 1 /\ a[2] = 0
        /\ b \in Seq(Byte) /\ Len(b) = 2 /\ b[1] = 3 /\ b[2] = 2
    BY DEF Byte
  <2>2. x2 = a \o b
    OBVIOUS
  <2> HIDE DEF a, b, x2
  <2>3. /\ a \o b \in Seq(Byte) /\ Len(a \o b) = Len(a) + Len(b)
        /\ \A i \in 1..Len(a) : (a \o b)[i] = a[i]
        /\ \A i \in 1..Len(b) : (a \o b)[Len(a) + i] = b[i]
    BY <2>1, Joined, Zenon
  <2>4. /\ x2 \in Seq(Byte) /\ Len(x2) = 4 /\ \A i \in 1..2 : x2[i] = a[i]
        /\ \A i \in 1..2 : x2[2 + i] = b[i]
    BY <2>1, <2>2, <2>3
  <2> QED BY <2>1, <2>4
<1> HIDE DEF n, x2, y3, y4
<1>6. x3 \in Seq(Byte) /\ Len(x3) = 6 /\ \A i \in 1..4 : x3[i] = x2[i]
  <2>1. x2 \in Seq(Byte) /\ y3 \in Seq(Byte) /\ x3 = x2 \o y3
    BY <1>5, <1>4
  <2> HIDE DEF x3
  <2>2. /\ x3 \in Seq(Byte) /\ Len(x3) = Len(x2) + Len(y3)
        /\ \A i \in 1..Len(x2) : x3[i] = x2[i]
        /\ \A i \in 1..Len(y3) : x3[Len(x2) + i] = y3[i]
    BY <2>1, Joined, Zenon
  <2>3. Len(x2) = 4 /\ Len(y3) = 2
    BY <1>5, <1>4
  <2> QED BY <2>2, <2>3
<1> HIDE DEF x3
<1>7. x4 \in Seq(Byte) /\ Len(x4) = 8 /\ \A i \in 1..6 : x4[i] = x3[i]
  <2>1. x3 \in Seq(Byte) /\ y4 \in Seq(Byte) /\ x4 = x3 \o y4
    BY <1>6, <1>4
  <2> HIDE DEF x4
  <2>2. /\ x4 \in Seq(Byte) /\ Len(x4) = Len(x3) + Len(y4)
        /\ \A i \in 1..Len(x3) : x4[i] = x3[i]
        /\ \A i \in 1..Len(y4) : x4[Len(x3) + i] = y4[i]
    BY <2>1, Joined, Zenon
  <2>3. Len(x3) = 6 /\ Len(y4) = 2
    BY <1>6, <1>4
  <2> QED BY <2>2, <2>3
<1> HIDE DEF x4
<1>8. x4[1] = 1 /\ x4[2] = 0 /\ x4[3] = 3 /\ x4[4] = 2
  BY <1>5, <1>6, <1>7
<1> QED
  BY <1>2, <1>7, <1>8

\* The prefix of NXP's format begins with 26, 63, and its last half has nothing that looks
\* like a suffix.
LEMMA LpcdfuPrefix ==
    ASSUME NEW image \in Seq(Byte)
    PROVE  LET x == Prefix(Plain(image, "LPCDFU_UNENCRYPTED_PREFIX"))
           IN  /\ x \in Seq(Byte) /\ Len(x) = 16
               /\ x[1] = 26 /\ x[2] = 63 /\ \A i \in 9..16 : x[i] \in {0, 255}
<1> DEFINE n == (Len(image) - 0 + 511) \div 512
           y2 == LittleEndian(n)
           y3 == [i \in 1..8 |-> 0]
           y4 == [i \in 1..4 |-> 255]
           x1 == <<26, 63>>
           x2 == x1 \o y2
           x3 == x2 \o y3
           x4 == x3 \o y4
<1>2. Prefix(Plain(image, "LPCDFU_UNENCRYPTED_PREFIX")) = x4
  <2> DEFINE F == Plain(image, "LPCDFU_UNENCRYPTED_PREFIX")
  <2>1. /\ F.prefix_type = "LPCDFU_UNENCRYPTED_PREFIX" /\ F.firmware = image
        /\ F.suffix = 0
    BY PlainFields
  <2> HIDE DEF F
  <2>2. Prefix(F) = <<26, 63>> \o LittleEndian((Len(F.firmware) - F.suffix + 511) \div 512)
                              \o [i \in 1..8 |-> 0] \o [i \in 1..4 |-> 255]
    <3> DEFINE z8 == [i \in 1..8 |-> 0]
               f4 == [i \in 1..4 |-> 255]
    <3>1. Prefix(F) =
            CASE F.prefix_type = "LMDFU_PREFIX" ->
                   <<1, 0>> \o LittleEndian(F.lmdfu_address \div 1024)
                            \o LittleEndian(Len(Body(F)))
                            \o LittleEndian(Len(Body(F)) \div 65536)
              [] F.prefix_type = "LPCDFU_UNENCRYPTED_PREFIX" ->
                   <<26, 63>>
                      \o LittleEndian((Len(F.firmware) - F.suffix + 511) \div 512) \o z8 \o f4
              [] OTHER -> <<>>
      BY DEF Prefix
    <3> HIDE DEF z8, f4
    <3>2. Prefix(F) = <<26, 63>> \o LittleEndian((Len(F.firmware) - F.suffix + 511) \div 512)
                                \o z8 \o f4
      BY <2>1, <3>1
    <3> QED BY <3>2 DEF z8, f4
  <2>3. Prefix(F) = x4
    BY <2>1, <2>2
  <2> QED BY <2>3 DEF F
<1>3. n \in Nat
  OBVIOUS
<1>4. y2 \in Seq(Byte) /\ Len(y2) = 2
  <2> HIDE DEF n
  <2> QED BY <1>3, LittleEndianType
<1>5. /\ y3 \in Seq(Byte) /\ Len(y3) = 8 /\ \A i \in 1..8 : y3[i] = 0
      /\ y4 \in Seq(Byte) /\ Len(y4) = 4 /\ \A i \in 1..4 : y4[i] = 255
  <2>1. 0 \in Byte /\ 255 \in Byte /\ 8 \in Nat /\ 4 \in Nat
    BY DEF Byte
  <2>2. y3 \in [1..8 -> Byte] /\ y4 \in [1..4 -> Byte]
    BY <2>1
  <2> QED BY <2>1, <2>2
<1>6. x1 \in Seq(Byte) /\ Len(x1) = 2 /\ x1[1] = 26 /\ x1[2] = 63
  BY DEF Byte
<1> HIDE DEF n, x1, y2, y3, y4
<1>7. /\ x2 \in Seq(Byte) /\ Len(x2) = 4
      /\ \A i \in 1..2 : x2[i] = x1[i]
  <2>1. x1 \in Seq(Byte) /\ y2 \in Seq(Byte) /\ x2 = x1 \o y2
    BY <1>6, <1>4
  <2> HIDE DEF x2
  <2>2. /\ x2 \in Seq(Byte) /\ Len(x2) = Len(x1) + Len(y2)
        /\ \A i \in 1..Len(x1) : x2[i] = x1[i]
        /\ \A i \in 1..Len(y2) : x2[Len(x1) + i] = y2[i]
    BY <2>1, Joined, Zenon
  <2>3. Len(x1) = 2 /\ Len(y2) = 2
    BY <1>6, <1>4
  <2> QED BY <2>2, <2>3
<1> HIDE DEF x2
<1>8. /\ x3 \in Seq(Byte) /\ Len(x3) = 12
      /\ \A i \in 1..4 : x3[i] = x2[i]
      /\ \A i \in 1..8 : x3[4 + i] = y3[i]
  <2>1. x2 \in Seq(Byte) /\ y3 \in Seq(Byte) /\ x3 = x2 \o y3
    BY <1>7, <1>5
  <2> HIDE DEF x3
  <2>2. /\ x3 \in Seq(Byte) /\ Len(x3) = Len(x2) + Len(y3)
        /\ \A i \in 1..Len(x2) : x3[i] = x2[i]
        /\ \A i \in 1..Len(y3) : x3[Len(x2) + i] = y3[i]
    BY <2>1, Joined, Zenon
  <2>3. Len(x2) = 4 /\ Len(y3) = 8
    BY <1>7, <1>5
  <2> QED BY <2>2, <2>3
<1> HIDE DEF x3
<1>9. /\ x4 \in Seq(Byte) /\ Len(x4) = 16
      /\ \A i \in 1..12 : x4[i] = x3[i]
      /\ \A i \in 1..4 : x4[12 + i] = y4[i]
  <2>1. x3 \in Seq(Byte) /\ y4 \in Seq(Byte) /\ x4 = x3 \o y4
    BY <1>8, <1>5
  <2> HIDE DEF x4
  <2>2. /\ x4 \in Seq(Byte) /\ Len(x4) = Len(x3) + Len(y4)
        /\ \A i \in 1..Len(x3) : x4[i] = x3[i]
        /\ \A i \in 1..Len(y4) : x4[Len(x3) + i] = y4[i]
    BY <2>1, Joined, Zenon
  <2>3. Len(x3) = 12 /\ Len(y4) = 4
    BY <1>8, <1>5
  <2> QED BY <2>2, <2>3
<1> HIDE DEF x4
<1>10. x4[1] = 26 /\ x4[2] = 63
  BY <1>6, <1>7, <1>8, <1>9
<1>11. ASSUME NEW i \in 9..16 PROVE x4[i] \in {0, 255}
  <2>1. CASE i <= 12
    <3>1. i \in 1..12 /\ i - 4 \in 1..8 /\ 4 + (i - 4) = i
      BY <2>1
    <3>2. x4[i] = x3[i] /\ x3[4 + (i - 4)] = y3[i - 4] /\ y3[i - 4] = 0
      BY <3>1, <1>5, <1>8, <1>9
    <3> QED BY <3>1, <3>2
  <2>2. CASE i > 12
    <3>1. i - 12 \in 1..4 /\ 12 + (i - 12) = i
      BY <2>2
    <3> QED BY <3>1, <1>5, <1>9, SMTT(30)
  <2> QED BY <2>1, <2>2
<1>12. /\ x4 \in Seq(Byte) /\ Len(x4) = 16 /\ x4[1] = 26 /\ x4[2] = 63
       /\ \A i \in 9..16 : x4[i] \in {0, 255}
  BY <1>9, <1>10, <1>11
<1> QED
  BY <1>2, <1>12

\* Both, and the lack of one.
LEMMA PrefixBytes ==
    ASSUME NEW image \in Seq(Byte), NEW type \in PrefixTypes
    PROVE  LET x == IF type # "ZERO_PREFIX" THEN Prefix(Plain(image, type)) ELSE <<>>
           IN  /\ x \in Seq(Byte) /\ Len(x) = PrefixLength(type)
               /\ type = "LMDFU_PREFIX" => x[1] = 1 /\ x[2] = 0 /\ x[3] = 3 /\ x[4] = 2
               /\ type = "LPCDFU_UNENCRYPTED_PREFIX" =>
                    x[1] = 26 /\ x[2] = 63 /\ \A i \in 9..16 : x[i] \in {0, 255}
<1>1. CASE type = "ZERO_PREFIX"
  <2>1. PrefixLength(type) = 0
    BY <1>1 DEF PrefixLength
  <2> QED BY <1>1, <2>1
<1>2. CASE type = "LMDFU_PREFIX"
  <2>1. PrefixLength(type) = 8
    BY <1>2 DEF PrefixLength, LMDFU_PREFIX_LENGTH
  <2> QED BY <1>2, <2>1, LmdfuPrefix
<1>3. CASE type = "LPCDFU_UNENCRYPTED_PREFIX"
  <2>1. PrefixLength(type) = 16
    BY <1>3 DEF PrefixLength, LPCDFU_PREFIX_LENGTH
  <2> DEFINE x == Prefix(Plain(image, "LPCDFU_UNENCRYPTED_PREFIX"))
  <2>2. /\ x \in Seq(Byte) /\ Len(x) = 16
        /\ x[1] = 26 /\ x[2] = 63 /\ \A i \in 9..16 : x[i] \in {0, 255}
    BY LpcdfuPrefix
  <2>3. (IF type # "ZERO_PREFIX" THEN Prefix(Plain(image, type)) ELSE <<>>) = x
    BY <1>3
  <2> HIDE DEF x
  <2> QED BY <1>3, <2>1, <2>2, <2>3, Zenon
<1> QED
  BY <1>1, <1>2, <1>3 DEF PrefixTypes

\* Only a file without a prefix has one of length 0.
LEMMA PrefixLengths ==
    ASSUME NEW type \in PrefixTypes
    PROVE  /\ PrefixLength(type) \in {0, 8, 16}
           /\ type = "ZERO_PREFIX" <=> PrefixLength(type) = 0
           /\ type = "LMDFU_PREFIX" <=> PrefixLength(type) = 8
           /\ type = "LPCDFU_UNENCRYPTED_PREFIX" <=> PrefixLength(type) = 16
  BY DEF PrefixTypes, PrefixLength, LMDFU_PREFIX_LENGTH, LPCDFU_PREFIX_LENGTH

\* Firmwares are bytes.
LEMMA ImageType ==
    ASSUME NEW image \in Images
    PROVE  image \in Seq(Byte)
  BY ByteAssumption DEF Byte

\* The bytes that a suffix is added to: the prefix and the firmware.
LEMMA FrontBytes ==
    ASSUME NEW image \in Images, NEW type \in PrefixTypes
    PROVE  LET f == Front(image, type)
               p == PrefixLength(type)
           IN  /\ f \in Seq(Byte) /\ Len(f) = p + Len(image)
               /\ \A i \in 1..Len(image) : f[p + i] = image[i]
               /\ type = "LMDFU_PREFIX" => f[1] = 1 /\ f[2] = 0 /\ f[3] = 3 /\ f[4] = 2
               /\ type = "LPCDFU_UNENCRYPTED_PREFIX" =>
                    f[1] = 26 /\ f[2] = 63 /\ \A i \in 9..16 : f[i] \in {0, 255}
<1> DEFINE x == IF type # "ZERO_PREFIX" THEN Prefix(Plain(image, type)) ELSE <<>>
           f == Front(image, type)
           p == PrefixLength(type)
<1>1. image \in Seq(Byte)
  BY ImageType
<1>2. /\ x \in Seq(Byte) /\ Len(x) = p
      /\ type = "LMDFU_PREFIX" => x[1] = 1 /\ x[2] = 0 /\ x[3] = 3 /\ x[4] = 2
      /\ type = "LPCDFU_UNENCRYPTED_PREFIX" =>
           x[1] = 26 /\ x[2] = 63 /\ \A i \in 9..16 : x[i] \in {0, 255}
  BY <1>1, PrefixBytes
<1>3. f = x \o image
  BY DEF Front
<1>p. /\ p \in {0, 8, 16} /\ (type = "LMDFU_PREFIX" => p = 8)
      /\ (type = "LPCDFU_UNENCRYPTED_PREFIX" => p = 16)
  BY PrefixLengths
<1> HIDE DEF x, f, p
<1>s. x \in Seq(Byte)
  BY <1>2
<1>4. /\ x \o image \in Seq(Byte) /\ Len(x \o image) = Len(x) + Len(image)
      /\ \A i \in 1..Len(x) : (x \o image)[i] = x[i]
      /\ \A i \in 1..Len(image) : (x \o image)[Len(x) + i] = image[i]
  BY <1>1, <1>s, Joined, Zenon
<1>5. /\ f \in Seq(Byte) /\ Len(f) = p + Len(image)
      /\ \A i \in 1..p : f[i] = x[i]
      /\ \A i \in 1..Len(image) : f[p + i] = image[i]
  BY <1>2, <1>3, <1>4
<1>6. ASSUME type = "LMDFU_PREFIX" PROVE f[1] = 1 /\ f[2] = 0 /\ f[3] = 3 /\ f[4] = 2
  <2>1. p = 8
    BY <1>p, <1>6
  <2>2. f[1] = x[1] /\ f[2] = x[2] /\ f[3] = x[3] /\ f[4] = x[4]
    BY <2>1, <1>5
  <2> QED BY <2>2, <1>2, <1>6
<1>7. ASSUME type = "LPCDFU_UNENCRYPTED_PREFIX"
      PROVE  f[1] = 26 /\ f[2] = 63 /\ \A i \in 9..16 : f[i] \in {0, 255}
  <2>1. p = 16
    BY <1>p, <1>7
  <2>2. \A i \in 1..16 : f[i] = x[i]
    BY <2>1, <1>5
  <2>3. x[1] = 26 /\ x[2] = 63 /\ \A i \in 9..16 : x[i] \in {0, 255}
    BY <1>2, <1>7
  <2> QED BY <2>2, <2>3
<1> QED
  BY <1>5, <1>6, <1>7 DEF f, p

\* dfu_store_file writes them, and the suffix behind them.
LEMMA StoreIsFront ==
    ASSUME NEW image \in Images, NEW type \in PrefixTypes, NEW w \in BOOLEAN
    PROVE  dfu_store_file(Plain(image, type), w, type # "ZERO_PREFIX") =
             IF w THEN AddSuffix(Front(image, type), SomeIds, 16) ELSE Front(image, type)
<1> DEFINE f == Plain(image, type)
<1>1. f.ids = SomeIds /\ Body(f) = image
  BY ImageType, PlainFields
<1>2. (IF type # "ZERO_PREFIX" THEN Prefix(f) ELSE <<>>) \o Body(f) = Front(image, type)
  BY <1>1 DEF Front
<1> HIDE DEF f
<1>3. dfu_store_file(f, w, type # "ZERO_PREFIX") =
        IF w THEN AddSuffix(Front(image, type), SomeIds, 16) ELSE Front(image, type)
  BY <1>1, <1>2 DEF dfu_store_file, DFU_SUFFIX_LENGTH
<1> QED
  BY <1>3 DEF f

-----------------------------------------------------------------------------
(* Where a suffix is found.                                                *)

Signature(s, q) == s[q] = 85 /\ s[q + 1] = 70 /\ s[q + 2] = 68

\* The signature is not in what comes before a suffix, where the loader may look for it.
LEMMA NoSignature ==
    ASSUME NEW image \in Images, NEW type \in PrefixTypes,
           NEW q \in Int, q >= 9, q + 2 <= Len(Front(image, type))
    PROVE  ~Signature(Front(image, type), q)
<1> DEFINE f == Front(image, type)
           p == PrefixLength(type)
<1>1. /\ f \in Seq(Byte) /\ Len(f) = p + Len(image)
      /\ \A i \in 1..Len(image) : f[p + i] = image[i]
      /\ type = "LPCDFU_UNENCRYPTED_PREFIX" => \A i \in 9..16 : f[i] \in {0, 255}
  BY FrontBytes
<1>2. p \in {0, 8, 16} /\ (p = 16 => type = "LPCDFU_UNENCRYPTED_PREFIX")
  BY PrefixLengths
<1>3. Len(image) \in Nat
  BY ImageType
<1>4. q + 2 <= Len(f)
  OBVIOUS
<1> HIDE DEF f, p
<1>5. CASE q <= p
  <2>1. p = 16 /\ q \in 9..16
    BY <1>2, <1>5
  <2>2. f[q] \in {0, 255}
    BY <1>1, <1>2, <2>1
  <2>3. f[q] # 85
    BY <2>2
  <2> QED BY <2>3 DEF Signature, f
<1>6. CASE q > p
  <2> DEFINE i == q - p
  <2>1. /\ i \in 1..(Len(image) - 2) /\ i + 1 \in 1..Len(image) /\ i + 2 \in 1..Len(image)
        /\ i \in 1..Len(image) /\ p + i = q /\ p + (i + 1) = q + 1 /\ p + (i + 2) = q + 2
    BY <1>1, <1>2, <1>3, <1>4, <1>6
  <2>2. ~(image[i] = 85 /\ image[i + 1] = 70 /\ image[i + 2] = 68)
    BY <2>1, ImageAssumption
  <2> HIDE DEF i
  <2>3. f[q] = image[i] /\ f[q + 1] = image[i + 1] /\ f[q + 2] = image[i + 2]
    BY <1>1, <2>1
  <2> QED BY <2>2, <2>3 DEF Signature, f
<1> QED
  BY <1>2, <1>5, <1>6

\* In no place before the suffix does a file have "UFD".
LEMMA NoSignatureBefore ==
    ASSUME NEW image \in Images, NEW type \in PrefixTypes, NEW length \in Byte,
           NEW q \in Int, q >= 9, q <= Len(Front(image, type)) + 8
    PROVE  ~Signature(AddSuffix(Front(image, type), SomeIds, length), q)
<1> DEFINE f == Front(image, type)
           r == AddSuffix(f, SomeIds, length)
           m == Len(f)
<1>1. f \in Seq(Byte) /\ m \in Nat
  BY FrontBytes
<1>2. /\ \A i \in 1..m : r[i] = f[i]
      /\ r[m + 1] = 2 /\ r[m + 2] = 1 /\ r[m + 3] = 4 /\ r[m + 4] = 3
      /\ r[m + 5] = 134 /\ r[m + 6] = 128 /\ r[m + 7] = 0 /\ r[m + 8] = 1
  <2> HIDE DEF f
  <2> QED BY <1>1, SuffixBytes
<1>3. q <= m + 8
  OBVIOUS
<1>4. ASSUME q + 2 <= m PROVE ~Signature(f, q)
  BY <1>4, NoSignature
<1> HIDE DEF f, r, m
<1>5. CASE q + 2 <= m
  <2>1. q \in 1..m /\ q + 1 \in 1..m /\ q + 2 \in 1..m
    BY <1>1, <1>5
  <2>2. r[q] = f[q] /\ r[q + 1] = f[q + 1] /\ r[q + 2] = f[q + 2]
    BY <1>2, <2>1
  <2> QED BY <2>2, <1>4, <1>5 DEF Signature, r, f
<1>6. CASE q + 2 > m
  <2>1. CASE q = m - 1
    <3>1. q + 2 = m + 1
      BY <1>1, <2>1
    <3>2. r[q + 2] = 2
      BY <3>1, <1>2
    <3> QED BY <3>2 DEF Signature, r, f
  <2>2. CASE q = m
    <3>1. r[q + 1] = 2
      BY <2>2, <1>2
    <3> QED BY <3>1 DEF Signature, r, f
  <2>3. CASE q > m
    <3>1. \/ q = m + 1 \/ q = m + 2 \/ q = m + 3 \/ q = m + 4
          \/ q = m + 5 \/ q = m + 6 \/ q = m + 7 \/ q = m + 8
      BY <1>1, <1>3, <2>3
    <3>2. r[q] # 85
      BY <1>2, <3>1
    <3> QED BY <3>2 DEF Signature, r, f
  <2>4. q = m - 1 \/ q = m \/ q > m
    BY <1>1, <1>6
  <2> QED BY <2>1, <2>2, <2>3, <2>4
<1> QED
  BY <1>1, <1>5, <1>6

\* What dfu_load_file takes for a suffix has "UFD" eight bytes before the end.
LEMMA HasSuffixSigned ==
    ASSUME NEW s \in Seq(Byte), HasSuffix(s)
    PROVE  Len(s) >= 16 /\ Signature(s, Len(s) - 7)
<1>1. Len(s) - 16 + 1 + 8 = Len(s) - 7 /\ Len(s) - 16 + 1 + 9 = (Len(s) - 7) + 1
      /\ Len(s) - 16 + 1 + 10 = (Len(s) - 7) + 2
  OBVIOUS
<1>2. /\ Len(s) >= 16
      /\ s[Len(s) - 16 + 1 + 8] = 85 /\ s[Len(s) - 16 + 1 + 9] = 70
      /\ s[Len(s) - 16 + 1 + 10] = 68
  BY DEF HasSuffix, dfusuffix, DFU_SUFFIX_LENGTH
<1> QED
  BY <1>1, <1>2 DEF Signature

\* A file that was stored without a suffix has none.
LEMMA FrontHasNone ==
    ASSUME NEW image \in Images, NEW type \in PrefixTypes
    PROVE  ~HasSuffix(Front(image, type))
<1> DEFINE f == Front(image, type)
<1>1. f \in Seq(Byte) /\ Len(f) \in Nat
  BY FrontBytes
<1>2. SUFFICES ASSUME HasSuffix(f) PROVE FALSE
  OBVIOUS
<1>3. Len(f) >= 16 /\ Signature(f, Len(f) - 7)
  <2> HIDE DEF f
  <2> QED BY <1>1, <1>2, HasSuffixSigned
<1>4. Len(f) - 7 \in Int /\ Len(f) - 7 >= 9 /\ (Len(f) - 7) + 2 <= Len(f)
  <2> HIDE DEF f
  <2> QED BY <1>1, <1>3
<1> QED
  BY <1>3, <1>4, NoSignature

\* A file with a suffix that has been cut short has none.
LEMMA TruncatedHasNone ==
    ASSUME NEW image \in Images, NEW type \in PrefixTypes, NEW length \in Byte,
           NEW k \in 0..(Len(AddSuffix(Front(image, type), SomeIds, length)) - 1)
    PROVE  ~HasSuffix(SubSeq(AddSuffix(Front(image, type), SomeIds, length), 1, k))
<1> DEFINE f == Front(image, type)
           r == AddSuffix(f, SomeIds, length)
           t == SubSeq(r, 1, k)
<1>1. f \in Seq(Byte) /\ Len(f) \in Nat
  BY FrontBytes
<1>2. r \in Seq(Byte) /\ Len(r) = Len(f) + 16
  <2> HIDE DEF f
  <2> QED BY <1>1, SuffixBytes
<1>3. k \in 0..(Len(r) - 1)
  OBVIOUS
<1>q. \A q \in Int : q >= 9 /\ q <= Len(f) + 8 => ~Signature(r, q)
  BY NoSignatureBefore
<1> SUFFICES ASSUME HasSuffix(t) PROVE FALSE
  OBVIOUS
<1>h. HasSuffix(t)
  OBVIOUS
<1> HIDE DEF f, r
<1>4. t \in Seq(Byte) /\ Len(t) = k /\ \A i \in 1..k : t[i] = r[i]
  <2>1. k \in Nat /\ \A i \in 1..k : r[i] \in Byte
    BY <1>1, <1>2, <1>3
  <2>2. t = [i \in 1..k |-> r[i]]
    BY <1>1, <1>2, <1>3
  <2> HIDE DEF t
  <2> QED BY <2>1, <2>2
<1> HIDE DEF t
<1>5. k >= 16 /\ Signature(t, k - 7)
  BY <1>4, <1>h, HasSuffixSigned
<1>6. /\ k - 7 \in 1..k /\ (k - 7) + 1 \in 1..k /\ (k - 7) + 2 \in 1..k
      /\ k - 7 \in Int /\ k - 7 >= 9 /\ k - 7 <= Len(f) + 8
  BY <1>1, <1>2, <1>3, <1>5
<1>7. Signature(r, k - 7)
  BY <1>4, <1>5, <1>6 DEF Signature
<1> QED
  BY <1>6, <1>7, <1>q

\* A file that was stored with a suffix has it, and its four numbers come back.
LEMMA SuffixedHas ==
    ASSUME NEW body \in Seq(Byte), NEW length \in Byte
    PROVE  LET r == AddSuffix(body, SomeIds, length)
           IN  /\ HasSuffix(r) /\ SuffixLength(r) = length
               /\ LoadedIds(r) = SomeIds
<1> DEFINE r == AddSuffix(body, SomeIds, length)
           m == Len(body)
<1>1. m \in Nat
  OBVIOUS
<1>2. /\ r \in Seq(Byte) /\ Len(r) = m + 16
      /\ r[m + 1] = 2 /\ r[m + 2] = 1 /\ r[m + 3] = 4 /\ r[m + 4] = 3
      /\ r[m + 5] = 134 /\ r[m + 6] = 128 /\ r[m + 7] = 0 /\ r[m + 8] = 1
      /\ r[m + 9] = 85 /\ r[m + 10] = 70 /\ r[m + 11] = 68 /\ r[m + 12] = length
      /\ Crc32(SubSeq(r, 1, Len(r) - 4)) = Register(SubSeq(r, Len(r) - 3, Len(r)))
  BY SuffixBytes
<1> HIDE DEF r, m
<1>3. Len(r) \in Int /\ Len(r) = m + 16
  BY <1>1, <1>2
<1>d. /\ Len(r) - 16 + 1 + 0 = m + 1 /\ Len(r) - 16 + 1 + 1 = m + 2
      /\ Len(r) - 16 + 1 + 2 = m + 3 /\ Len(r) - 16 + 1 + 3 = m + 4
      /\ Len(r) - 16 + 1 + 4 = m + 5 /\ Len(r) - 16 + 1 + 5 = m + 6
      /\ Len(r) - 16 + 1 + 6 = m + 7 /\ Len(r) - 16 + 1 + 7 = m + 8
      /\ Len(r) - 16 + 1 + 8 = m + 9 /\ Len(r) - 16 + 1 + 9 = m + 10
      /\ Len(r) - 16 + 1 + 10 = m + 11 /\ Len(r) - 16 + 1 + 11 = m + 12
  BY <1>1, <1>3
<1>e. /\ r[m + 1] = 2 /\ r[m + 2] = 1 /\ r[m + 3] = 4 /\ r[m + 4] = 3
      /\ r[m + 5] = 134 /\ r[m + 6] = 128 /\ r[m + 7] = 0 /\ r[m + 8] = 1
      /\ r[m + 9] = 85 /\ r[m + 10] = 70 /\ r[m + 11] = 68 /\ r[m + 12] = length
  BY <1>2
<1>4. /\ dfusuffix(r, 0) = 2 /\ dfusuffix(r, 1) = 1 /\ dfusuffix(r, 2) = 4
      /\ dfusuffix(r, 3) = 3 /\ dfusuffix(r, 4) = 134 /\ dfusuffix(r, 5) = 128
      /\ dfusuffix(r, 6) = 0 /\ dfusuffix(r, 7) = 1
  BY <1>d, <1>e, ZenonT(30) DEF dfusuffix, DFU_SUFFIX_LENGTH
<1>5. /\ dfusuffix(r, 8) = 85 /\ dfusuffix(r, 9) = 70 /\ dfusuffix(r, 10) = 68
      /\ dfusuffix(r, 11) = length
  <2>1. dfusuffix(r, 8) = 85 /\ dfusuffix(r, 9) = 70
    BY <1>d, <1>e, ZenonT(30) DEF dfusuffix, DFU_SUFFIX_LENGTH
  <2>2. dfusuffix(r, 10) = 68
    BY <1>d, <1>e, ZenonT(30) DEF dfusuffix, DFU_SUFFIX_LENGTH
  <2>3. dfusuffix(r, 11) = length
    <3>1. dfusuffix(r, 11) = r[Len(r) - 16 + 1 + 11]
      BY DEF dfusuffix, DFU_SUFFIX_LENGTH
    <3>2. r[m + 12] = length
      BY <1>2
    <3> QED BY <3>1, <3>2, <1>d
  <2> QED BY <2>1, <2>2, <2>3
<1>6. HasSuffix(r)
  <2>1. Len(r) >= 16
    BY <1>1, <1>2
  <2> QED BY <2>1, <1>2, <1>5 DEF HasSuffix, DFU_SUFFIX_LENGTH
<1>7. Word(r, 0) = 258 /\ Word(r, 2) = 772 /\ Word(r, 4) = 32902 /\ Word(r, 6) = 256
  BY <1>4 DEF Word
<1>8. LoadedIds(r) = SomeIds
  <2>1. LoadedIds(r) = [id \in Ids |-> CASE id = "bcdDevice" -> Word(r, 0)
                                        [] id = "idProduct" -> Word(r, 2)
                                        [] id = "idVendor"  -> Word(r, 4)
                                        [] id = "bcdDFU"    -> Word(r, 6)]
    <3> DEFINE F(id) == CASE id = "bcdDevice" -> Word(r, 0)
                          [] id = "idProduct" -> Word(r, 2)
                          [] id = "idVendor"  -> Word(r, 4)
                          [] id = "bcdDFU"    -> Word(r, 6)
               G(id) == IF id = "bcdDFU" THEN 0 ELSE 65535
    <3>1. LoadedIds(r) = IF HasSuffix(r) THEN [id \in Ids |-> F(id)] ELSE [id \in Ids |-> G(id)]
      BY DEF LoadedIds
    <3> HIDE DEF F, G
    <3>2. LoadedIds(r) = [id \in Ids |-> F(id)]
      BY <1>6, <3>1
    <3> QED BY <3>2 DEF F
  <2>2. ASSUME NEW id \in Ids PROVE LoadedIds(r)[id] = SomeIds[id]
    <3>1. CASE id = "bcdDevice"
      BY <2>1, <1>7, <3>1 DEF SomeIds, Ids
    <3>2. CASE id = "idProduct"
      BY <2>1, <1>7, <3>2 DEF SomeIds, Ids
    <3>3. CASE id = "idVendor"
      BY <2>1, <1>7, <3>3 DEF SomeIds, Ids
    <3>4. CASE id = "bcdDFU"
      BY <2>1, <1>7, <3>4 DEF SomeIds, Ids
    <3> QED BY <3>1, <3>2, <3>3, <3>4 DEF Ids
  <2>3. LoadedIds(r) = [id \in Ids |-> LoadedIds(r)[id]]
    BY <2>1
  <2>4. SomeIds = [id \in Ids |-> SomeIds[id]]
    <3> DEFINE F(id) == CASE id = "bcdDevice" -> 258   [] id = "idProduct" -> 772
                          [] id = "idVendor"  -> 32902 [] id = "bcdDFU"    -> 256
    <3>1. SomeIds = [id \in Ids |-> F(id)]
      BY DEF SomeIds
    <3> HIDE DEF F
    <3> QED BY <3>1
  <2> QED BY <2>2, <2>3, <2>4
<1>9. SuffixLength(r) = length
  BY <1>5, <1>6 DEF SuffixLength
<1> QED
  BY <1>6, <1>8, <1>9 DEF r

\* A burst of errors changes bytes that are next to each other.
LEMMA DamagedHasNone ==
    ASSUME NEW s \in Seq(Byte), Len(s) >= 16, Crcs(s)[Len(s)] = {},
           NEW hits \in Errors(8 * Len(s), FileBurst), Flip(s, hits) # s
    PROVE  ~HasSuffix(Flip(s, hits))
<1> DEFINE t == Flip(s, hits)
           L == Len(s)
<1>1. /\ t \in Seq(Byte) /\ Len(t) = L /\ L \in Nat
      /\ \A i \in 1..L, b \in 0..7 : b \in Bits(t[i]) <=> ~(b \in Bits(s[i]) <=> 8 * i - b \in hits)
  <2>1. L \in Nat
    OBVIOUS
  <2> QED BY <2>1, FlipBytes, Zenon
<1>2. SUFFICES ASSUME HasSuffix(t) PROVE FALSE
  OBVIOUS
<1>3. /\ hits \in SUBSET (1..(8 * L)) /\ hits # {}
      /\ \A i, j \in hits : i - j <= 24
  <2>1. FileBurst \in Nat /\ FileBurst <= 25 /\ 8 * Len(s) \in Nat
    BY BurstAssumption
  <2>2. /\ hits \in SUBSET (1..(8 * L)) /\ hits # {}
        /\ \A i, j \in hits : i - j < FileBurst \/ i = j
    BY <2>1, ErrorsWindow
  <2>3. ASSUME NEW i \in hits, NEW j \in hits PROVE i - j <= 24
    <3>1. (i - j < FileBurst \/ i = j) /\ i \in Int /\ j \in Int
      BY <2>2
    <3> QED BY <3>1, <2>1
  <2> QED BY <2>2, <2>3
<1>c. Crcs(s)[L] = {} /\ L >= 16 /\ t # s
  OBVIOUS
<1> HIDE DEF t, L
<1>4. PICK p \in hits : \A j \in hits : p <= j
  <2>1. hits \in SUBSET Nat
    BY <1>3
  <2> QED BY <2>1, <1>3, Least
<1> DEFINE k == ((p - 1) \div 8) + 1
           j == IF k <= L - 3 THEN k ELSE L - 3
<1>5. p \in 1..(8 * L) /\ \A h \in hits : h \in 1..(8 * L) /\ p <= h /\ h <= p + 24
  <2>1. \A h \in hits : h \in 1..(8 * L) /\ p \in 1..(8 * L) /\ p <= h /\ h - p <= 24
    BY <1>3, <1>4
  <2> QED BY <2>1, <1>4
<1>6. k \in 1..L /\ j \in 1..(L - 3) /\ 8 * (k - 1) < p /\ p <= 8 * k
  <2>1. p \in Int /\ 1 <= p /\ p <= 8 * L
    BY <1>1, <1>5
  <2>2. k \in Int /\ 1 <= k /\ k <= L /\ 8 * (k - 1) < p /\ p <= 8 * k
    BY <1>1, <2>1
  <2>3. L \in Int /\ L >= 16
    BY <1>1, <1>c
  <2> HIDE DEF k
  <2>4. j \in 1..(L - 3)
    BY <2>2, <2>3
  <2> HIDE DEF j
  <2> QED BY <2>2, <2>3, <2>4
<1>7. ASSUME NEW i \in 1..L, i \notin j..(j + 3) PROVE s[i] = t[i]
  <2>1. i < k \/ i > k + 3
    <3>1. k \in Int /\ j \in Int /\ k <= L /\ i \in Int /\ i <= L /\ L \in Int
          /\ (j = k \/ (k > L - 3 /\ j = L - 3)) /\ (i < j \/ i > j + 3)
      <4> HIDE DEF k
      <4> QED BY <1>6, <1>7, <1>1, SMTT(30)
    <3> HIDE DEF k, j
    <3> QED BY <3>1
  <2> HIDE DEF k, j
  <2>2. ASSUME NEW b \in 0..7 PROVE 8 * i - b \notin hits
    <3>1. SUFFICES ASSUME 8 * i - b \in hits PROVE FALSE
      OBVIOUS
    <3>2. p <= 8 * i - b /\ 8 * i - b <= p + 24
      BY <3>1, <1>5
    <3> QED BY <3>2, <2>1, <1>6, <1>5
  <2>3. Bits(s[i]) = Bits(t[i])
    <3>1. \A b \in 0..7 : b \in Bits(t[i]) <=> b \in Bits(s[i])
      BY <1>1, <2>2
    <3> QED BY <3>1 DEF Bits
  <2>4. s[i] \in Byte /\ t[i] \in Byte
    <3>1. s[i] \in Byte
      BY DEF L
    <3>2. t[i] \in Byte
      BY <1>1, SMTT(30)
    <3> QED BY <3>1, <3>2
  <2> QED BY <2>3, <2>4, BitsInjective DEF Byte
<1>8. Crcs(t)[L] = {}
  <2>1. Crc32(SubSeq(t, 1, Len(t) - 4)) = Register(SubSeq(t, Len(t) - 3, Len(t)))
    BY <1>2 DEF HasSuffix
  <2>2. Len(t) >= 4
    BY <1>1, <1>c
  <2> QED BY <2>1, <2>2, <1>1, FileLeavesNothing
<1> HIDE DEF k, j
<1>9. s = t
  <2>1. j \in 1..(Len(s) - 3) /\ \A i \in 1..Len(s) : i \notin j..(j + 3) => s[i] = t[i]
    BY <1>6, <1>7 DEF L
  <2>2. Len(t) = Len(s) /\ Crcs(s)[Len(s)] = Crcs(t)[Len(s)]
    BY <1>1, <1>8, <1>c DEF L
  <2> QED BY <2>1, <2>2, <1>1, FourBytesSeen
<1> QED
  BY <1>9, <1>c

-----------------------------------------------------------------------------
(* Where a prefix is found.                                                *)

\* b is the front of an image, or begins with it and goes on like a suffix.
BeginsWith(b, f) ==
    /\ b \in Seq(Byte)
    /\ \A i \in 1..Len(f) : b[i] = f[i]
    /\ \/ Len(b) = Len(f)
       \/ Len(b) = Len(f) + 16 /\ b[Len(f) + 1] = 2 /\ b[Len(f) + 2] = 1

\* A file begins with what the suffix is added to.
LEMMA FrontBegins ==
    ASSUME NEW f \in Seq(Byte)
    PROVE  /\ BeginsWith(f, f)
           /\ \A length \in Byte : BeginsWith(AddSuffix(f, SomeIds, length), f)
<1>1. BeginsWith(f, f)
  BY DEF BeginsWith
<1>2. ASSUME NEW length \in Byte PROVE BeginsWith(AddSuffix(f, SomeIds, length), f)
  BY SuffixBytes DEF BeginsWith
<1> QED
  BY <1>1, <1>2

\* The loader finds the prefix that was written, and none where none was.
LEMMA PrefixFound ==
    ASSUME NEW image \in Images, NEW type \in PrefixTypes, NEW b,
           BeginsWith(b, Front(image, type))
    PROVE  /\ ProbedType(b) = type
           /\ type = "LMDFU_PREFIX" => b[3] = 3 /\ b[4] = 2
<1> DEFINE f == Front(image, type)
           m == Len(f)
           p == PrefixLength(type)
<1>1. /\ f \in Seq(Byte) /\ m = p + Len(image)
      /\ \A i \in 1..Len(image) : f[p + i] = image[i]
      /\ type = "LMDFU_PREFIX" => f[1] = 1 /\ f[2] = 0 /\ f[3] = 3 /\ f[4] = 2
      /\ type = "LPCDFU_UNENCRYPTED_PREFIX" => f[1] = 26 /\ f[2] = 63
  BY FrontBytes
<1>2. /\ b \in Seq(Byte) /\ \A i \in 1..m : b[i] = f[i]
      /\ \/ Len(b) = m
         \/ Len(b) = m + 16 /\ b[m + 1] = 2 /\ b[m + 2] = 1
  BY DEF BeginsWith
<1>3. image \in Seq(Byte) /\ Len(image) \in Nat /\ m \in Nat /\ Len(b) \in Nat
  BY <1>1, <1>2, ImageType
<1>n. Len(image) \in Nat
  BY <1>3
<1>p. /\ (type = "ZERO_PREFIX" => p = 0) /\ (type = "LMDFU_PREFIX" => p = 8)
      /\ (type = "LPCDFU_UNENCRYPTED_PREFIX" => p = 16)
  BY PrefixLengths
<1> DEFINE lm == Len(b) >= 8 /\ b[1] = 1 /\ b[2] = 0
           lpc == Len(b) >= 8 /\ b[1] % 64 = 26 /\ b[2] % 64 = 63
<1>probed. ProbedType(b) = CASE lm    -> "LMDFU_PREFIX"
                             [] lpc   -> "LPCDFU_UNENCRYPTED_PREFIX"
                             [] OTHER -> "ZERO_PREFIX"
  BY DEF ProbedType, LMDFU_PREFIX_LENGTH
<1>one. /\ (lm /\ ~lpc => ProbedType(b) = "LMDFU_PREFIX")
        /\ (~lm /\ lpc => ProbedType(b) = "LPCDFU_UNENCRYPTED_PREFIX")
        /\ (~lm /\ ~lpc => ProbedType(b) = "ZERO_PREFIX")
  <2> HIDE DEF lm, lpc
  <2> QED BY <1>probed
<1> HIDE DEF f, m, p
<1>4. CASE type = "LMDFU_PREFIX"
  <2>1. m >= 8 /\ Len(b) >= 8
    BY <1>1, <1>2, <1>3, <1>p, <1>4
  <2>2. b[1] = f[1] /\ b[2] = f[2] /\ b[3] = f[3] /\ b[4] = f[4]
    BY <1>2, <1>3, <2>1
  <2>3. b[1] = 1 /\ b[2] = 0 /\ b[3] = 3 /\ b[4] = 2
    BY <1>1, <1>4, <2>2
  <2>4. ~(b[1] % 64 = 26 /\ b[2] % 64 = 63)
    BY <2>3
  <2> QED BY <1>4, <1>one, <2>1, <2>3, <2>4
<1>5. CASE type = "LPCDFU_UNENCRYPTED_PREFIX"
  <2>1. m >= 16 /\ Len(b) >= 8
    BY <1>1, <1>2, <1>3, <1>p, <1>5
  <2>2. b[1] = f[1] /\ b[2] = f[2]
    BY <1>2, <1>3, <2>1
  <2>3. b[1] = 26 /\ b[2] = 63
    BY <1>1, <1>5, <2>2
  <2>4. ~(b[1] = 1 /\ b[2] = 0) /\ b[1] % 64 = 26 /\ b[2] % 64 = 63
    BY <2>3
  <2> QED BY <1>5, <1>one, <2>1, <2>4
<1>6. CASE type = "ZERO_PREFIX"
  <2>1. m = Len(image) /\ p = 0
    BY <1>1, <1>3, <1>p, <1>6
  <2>2. ASSUME Len(b) >= 8
        PROVE  ~(b[1] = 1 /\ b[2] = 0) /\ ~(b[1] % 64 = 26 /\ b[2] % 64 = 63)
    <3>1. CASE Len(image) >= 2
      <4>1. 1 \in 1..Len(image) /\ 2 \in 1..Len(image) /\ 0 + 1 = 1 /\ 0 + 2 = 2
        BY <1>3, <3>1
      <4>2. b[1] = image[1] /\ b[2] = image[2]
        BY <1>1, <1>2, <2>1, <4>1
      <4>3. /\ ~(image[1] = 1 /\ image[2] = 0)
            /\ ~(image[1] % 64 = 26 /\ image[2] % 64 = 63)
        BY <3>1, ImageAssumption
      <4> QED BY <4>2, <4>3
    <3>2. CASE Len(image) = 1
      <4>1. b[1 + 1] = 2
        BY <1>2, <2>1, <2>2, <3>2
      <4>2. b[2] = 2 /\ 2 % 64 = 2
        BY <4>1
      <4> QED BY <4>2
    <3>3. CASE Len(image) = 0
      <4>1. b[0 + 1] = 2
        BY <1>2, <2>1, <2>2, <3>3
      <4>2. b[1] = 2 /\ 2 % 64 = 2
        BY <4>1
      <4> QED BY <4>2
    <3>4. Len(image) >= 2 \/ Len(image) = 1 \/ Len(image) = 0
      <4>1. \A k \in Nat : k >= 2 \/ k = 1 \/ k = 0
        OBVIOUS
      <4> QED BY <1>n, <4>1, Zenon
    <3> QED BY <3>1, <3>2, <3>3, <3>4, Zenon
  <2>3. ProbedType(b) = "ZERO_PREFIX"
    <3>1. ~lm /\ ~lpc
      BY <2>2
    <3> QED BY <3>1, <1>one
  <2> QED BY <1>6, <2>3
<1> QED
  BY <1>4, <1>5, <1>6 DEF PrefixTypes

\* So dfu_load_file finds the type and the address that were stored.
LEMMA LoadedFields ==
    ASSUME NEW image \in Images, NEW type \in PrefixTypes, NEW b,
           BeginsWith(b, Front(image, type))
    PROVE  /\ dfu_load_file(b).prefix_type = type
           /\ dfu_load_file(b).lmdfu_address = Plain(image, type).lmdfu_address
           /\ dfu_load_file(b).suffix = SuffixLength(b)
           /\ dfu_load_file(b).ids = LoadedIds(b)
           /\ Len(b) - SuffixLength(b) = Len(Front(image, type)) =>
                Body(dfu_load_file(b)) = image
<1> DEFINE F == dfu_load_file(b)
           f == Front(image, type)
           p == PrefixLength(type)
           n == Len(image)
<1>1. ProbedType(b) = type /\ (type = "LMDFU_PREFIX" => b[3] = 3 /\ b[4] = 2)
  BY PrefixFound
<1>2. /\ F.firmware = b /\ F.suffix = SuffixLength(b) /\ F.prefix = p
      /\ F.prefix_type = type /\ F.ids = LoadedIds(b)
      /\ F.lmdfu_address = (IF type = "LMDFU_PREFIX" THEN 1024 * (256 * b[4] + b[3]) ELSE 0)
  BY <1>1 DEF dfu_load_file
<1>3. F.lmdfu_address = Plain(image, type).lmdfu_address
  <2>1. Plain(image, type).lmdfu_address = (IF type = "LMDFU_PREFIX" THEN 1024 * 515 ELSE 0)
    BY ImageType, PlainFields
  <2>2. CASE type = "LMDFU_PREFIX"
    <3>1. 1024 * (256 * 2 + 3) = 1024 * 515
      OBVIOUS
    <3>2. F.lmdfu_address = 1024 * (256 * b[4] + b[3]) /\ b[4] = 2 /\ b[3] = 3
      BY <1>1, <1>2, <2>2
    <3> HIDE DEF F
    <3> QED BY <2>1, <2>2, <3>1, <3>2
  <2>3. CASE type # "LMDFU_PREFIX"
    <3>1. F.lmdfu_address = 0
      BY <1>2, <2>3
    <3> HIDE DEF F
    <3> QED BY <2>1, <2>3, <3>1
  <2> QED BY <2>2, <2>3
<1>4. ASSUME Len(b) - SuffixLength(b) = Len(f) PROVE Body(F) = image
  <2>1. /\ f \in Seq(Byte) /\ Len(f) = p + n /\ \A i \in 1..n : f[p + i] = image[i]
    BY FrontBytes
  <2>2. p \in Nat /\ n \in Nat /\ image \in Seq(Byte)
    BY ImageType, PrefixLengths
  <2>3. /\ b \in Seq(Byte) /\ Len(b) >= Len(f) /\ \A i \in 1..Len(f) : b[i] = f[i]
    <3> HIDE DEF f
    <3> QED BY <2>1 DEF BeginsWith, f
  <2> HIDE DEF F, f, p
  <2>4. Body(F) = SubSeq(b, p + 1, p + n)
    BY <1>2, <1>4, <2>1 DEF Body
  <2> HIDE DEF n
  <2>5. SubSeq(b, p + 1, p + n) = [i \in 1..n |-> b[p + i]]
    <3>1. p + n <= Len(b) /\ (p + n) - (p + 1) + 1 = n /\ p + 1 \in Int /\ p + n \in Int
      BY <2>1, <2>2, <2>3
    <3>2. SubSeq(b, p + 1, p + n) = [i \in 1..((p + n) - (p + 1) + 1) |-> b[i + (p + 1) - 1]]
      BY <3>1
    <3>3. \A i \in 1..n : i + (p + 1) - 1 = p + i
      BY <2>2
    <3> QED BY <3>1, <3>2, <3>3
  <2>6. \A i \in 1..n : b[p + i] = image[i]
    <3>1. \A i \in 1..n : p + i \in 1..(p + n)
      BY <2>2
    <3> QED BY <3>1, <2>1, <2>3
  <2>7. image = [i \in 1..n |-> image[i]]
    BY <2>2 DEF n
  <2> QED BY <2>4, <2>5, <2>6, <2>7
<1> QED
  BY <1>2, <1>3, <1>4

-----------------------------------------------------------------------------
(* The inductive invariant.                                                *)

\* What was written, and from what.
WrittenFile(s, b) ==
    \E image \in Images, type \in PrefixTypes :
        \/ /\ s = [file |-> Plain(image, type), suffixed |-> FALSE]
           /\ b = Front(image, type)
        \/ /\ s = [file |-> Plain(image, type), suffixed |-> TRUE]
           /\ \E n \in Lengths \cup {16} : b = AddSuffix(Front(image, type), SomeIds, n)

WrittenPacket(s, b) ==
    \E data \in Payloads, pkt_no \in {1, 2} :
        s = [data |-> data, pkt_no |-> pkt_no] /\ b = xmodem_send_pkt(data, pkt_no)

\* What the medium makes of it.
DamagedFile(b) ==
    {Flip(b, hits) : hits \in Errors(8 * Len(b), FileBurst)}
        \cup {SubSeq(b, 1, n) : n \in 0..(Len(b) - 1)}

DamagedPacket(b) ==
    {Flip(b, hits) : hits \in Errors(8 * Len(b), PacketBurst) \cup Pairs(8 * Len(b))}

NothingWritten == medium = "none" /\ verdict = "none" /\ bytes = <<>> /\ original = <<>>

FileWritten ==
    /\ medium = "file" /\ WrittenFile(source, original)
    /\ bytes = original \/ bytes \in DamagedFile(original)
    /\ \/ verdict \in {"none", "refused"}
       \/ /\ verdict = "loaded" /\ file = dfu_load_file(bytes)
          /\ \E check_suffix \in {"MAYBE_SUFFIX", "NEEDS_SUFFIX", "NO_SUFFIX"} :
                 SuffixAccepted(bytes, check_suffix)

PacketWritten ==
    /\ medium = "packet" /\ WrittenPacket(source, original)
    /\ bytes = original \/ bytes \in DamagedPacket(original)
    /\ verdict \in {"none", xmodem_read_pkt(bytes, source.pkt_no)}

IInv == NothingWritten \/ FileWritten \/ PacketWritten

\* The length in a suffix is a byte.
LEMMA LengthsType ==
    ASSUME NEW n \in Lengths \cup {16}
    PROVE  n \in Byte
  BY ByteAssumption DEF Byte

\* Initially nothing is written.
LEMMA InitIInv == Init => IInv
  BY DEF Init, IInv, NothingWritten

\* Writing, damaging and reading keep to what IInv says of the bytes and the verdict.
LEMMA NextIInv == IInv /\ [Next]_vars => IInv'
<1> SUFFICES ASSUME IInv, [Next]_vars PROVE IInv'
  OBVIOUS
<1>1. CASE StoreFile
  <2>1. PICK image \in Images, type \in PrefixTypes, w \in BOOLEAN :
          Written("file", [file |-> Plain(image, type), suffixed |-> w],
                  dfu_store_file(Plain(image, type), w, type # "ZERO_PREFIX"))
    BY <1>1 DEF StoreFile
  <2> DEFINE b == dfu_store_file(Plain(image, type), w, type # "ZERO_PREFIX")
             s == [file |-> Plain(image, type), suffixed |-> w]
  <2>2. b = IF w THEN AddSuffix(Front(image, type), SomeIds, 16) ELSE Front(image, type)
    BY StoreIsFront
  <2>3. WrittenFile(s, b)
    <3> HIDE DEF b
    <3>1. CASE w
      <4>1. 16 \in Lengths \cup {16} /\ w = TRUE
        BY <3>1
      <4>2. b = AddSuffix(Front(image, type), SomeIds, 16)
        BY <2>2, <3>1
      <4> QED BY <4>1, <4>2 DEF WrittenFile
    <3>2. CASE ~w
      <4>1. b = Front(image, type) /\ w = FALSE
        BY <2>2, <3>2
      <4> QED BY <4>1 DEF WrittenFile
    <3> QED BY <3>1, <3>2
  <2> HIDE DEF b, s
  <2>4. /\ medium = "none" /\ medium' = "file" /\ source' = s /\ original' = b /\ bytes' = b
        /\ verdict' = verdict
    BY <2>1 DEF Written, b, s
  <2>5. verdict = "none"
    BY <2>4 DEF IInv, NothingWritten, FileWritten, PacketWritten
  <2>6. WrittenFile(source', original')
    BY <2>3, <2>4
  <2>7. FileWritten'
    BY <2>4, <2>5, <2>6 DEF FileWritten, WrittenFile
  <2> QED BY <2>7 DEF IInv
<1>2. CASE ForeignFile
  <2>1. PICK image \in Images, n \in Lengths :
          Written("file", [file |-> Plain(image, "ZERO_PREFIX"), suffixed |-> TRUE],
                  AddSuffix(image, SomeIds, n))
    BY <1>2 DEF ForeignFile
  <2> DEFINE b == AddSuffix(image, SomeIds, n)
             s == [file |-> Plain(image, "ZERO_PREFIX"), suffixed |-> TRUE]
  <2>2. Front(image, "ZERO_PREFIX") = image
    <3>1. image \in Seq(Byte)
      BY ImageType
    <3>2. <<>> \o image = image
      BY <3>1, ConcatEmptySeq
    <3> QED BY <3>2 DEF Front
  <2>3. WrittenFile(s, b)
    <3>1. "ZERO_PREFIX" \in PrefixTypes /\ n \in Lengths \cup {16}
      BY DEF PrefixTypes
    <3> QED BY <2>2, <3>1 DEF WrittenFile
  <2> HIDE DEF b, s
  <2>4. /\ medium = "none" /\ medium' = "file" /\ source' = s /\ original' = b /\ bytes' = b
        /\ verdict' = verdict
    BY <2>1 DEF Written, b, s
  <2>5. verdict = "none"
    BY <2>4 DEF IInv, NothingWritten, FileWritten, PacketWritten
  <2>6. WrittenFile(source', original')
    BY <2>3, <2>4
  <2>7. FileWritten'
    BY <2>4, <2>5, <2>6 DEF FileWritten, WrittenFile
  <2> QED BY <2>7 DEF IInv
<1>3. CASE SendPacket
  <2>1. PICK data \in Payloads, pkt_no \in {1, 2} :
          Written("packet", [data |-> data, pkt_no |-> pkt_no], xmodem_send_pkt(data, pkt_no))
    BY <1>3 DEF SendPacket
  <2>2. /\ medium = "none" /\ medium' = "packet"
        /\ source' = [data |-> data, pkt_no |-> pkt_no]
        /\ original' = xmodem_send_pkt(data, pkt_no) /\ bytes' = original' /\ verdict' = verdict
    BY <2>1 DEF Written
  <2>3. verdict = "none"
    BY <2>2 DEF IInv, NothingWritten, FileWritten, PacketWritten
  <2>4. WrittenPacket(source', original')
    BY <2>2 DEF WrittenPacket
  <2>5. PacketWritten'
    BY <2>2, <2>3, <2>4 DEF PacketWritten, WrittenPacket
  <2> QED BY <2>5 DEF IInv
<1>4. CASE DamageFile \/ TruncateFile
  <2>1. /\ medium = "file" /\ verdict = "none" /\ bytes = original
        /\ medium' = medium /\ source' = source /\ original' = original /\ verdict' = verdict
    BY <1>4 DEF DamageFile, TruncateFile, Undisturbed
  <2>2. FileWritten
    BY <2>1 DEF IInv, NothingWritten, PacketWritten
  <2>3. bytes' \in DamagedFile(original)
    <3>1. CASE DamageFile
      <4>1. PICK hits \in Errors(8 * Len(bytes), FileBurst) : bytes' = Flip(bytes, hits)
        BY <3>1 DEF DamageFile
      <4> QED BY <2>1, <4>1 DEF DamagedFile
    <3>2. CASE TruncateFile
      <4>1. PICK n \in 0..(Len(bytes) - 1) : bytes' = SubSeq(bytes, 1, n)
        BY <3>2 DEF TruncateFile
      <4> QED BY <2>1, <4>1 DEF DamagedFile
    <3> QED BY <1>4, <3>1, <3>2
  <2>4. FileWritten'
    <3>1. WrittenFile(source, original)' /\ (bytes \in DamagedFile(original))'
      BY <2>1, <2>2, <2>3 DEF FileWritten, WrittenFile, DamagedFile
    <3> QED BY <2>1, <3>1 DEF FileWritten
  <2> QED BY <2>4 DEF IInv
<1>5. CASE DamagePacket
  <2>1. /\ medium = "packet" /\ verdict = "none" /\ bytes = original
        /\ medium' = medium /\ source' = source /\ original' = original /\ verdict' = verdict
    BY <1>5 DEF DamagePacket, Undisturbed
  <2>2. PacketWritten
    BY <2>1 DEF IInv, NothingWritten, FileWritten
  <2>3. bytes' \in DamagedPacket(original)
    <3>1. PICK hits \in Errors(8 * Len(bytes), PacketBurst) \cup Pairs(8 * Len(bytes)) :
            bytes' = Flip(bytes, hits)
      BY <1>5 DEF DamagePacket
    <3> QED BY <2>1, <3>1 DEF DamagedPacket
  <2>4. PacketWritten'
    <3>1. WrittenPacket(source, original)' /\ (bytes \in DamagedPacket(original))'
      BY <2>1, <2>2, <2>3 DEF PacketWritten, WrittenPacket, DamagedPacket
    <3> QED BY <2>1, <3>1 DEF PacketWritten
  <2> QED BY <2>4 DEF IInv
<1>6. ASSUME NEW check_suffix \in {"MAYBE_SUFFIX", "NEEDS_SUFFIX", "NO_SUFFIX"},
             NEW check_prefix, Load(check_suffix, check_prefix)
      PROVE  IInv'
  <2>1. /\ medium = "file" /\ verdict = "none"
        /\ medium' = medium /\ source' = source /\ original' = original /\ bytes' = bytes
    BY <1>6 DEF Load
  <2>2. FileWritten
    BY <2>1 DEF IInv, NothingWritten, PacketWritten
  <2>3. \/ verdict' = "refused"
        \/ verdict' = "loaded" /\ file' = dfu_load_file(bytes) /\ SuffixAccepted(bytes, check_suffix)
    BY <1>6 DEF Load
  <2>4. /\ WrittenFile(source', original')
        /\ bytes' = original' \/ bytes' \in DamagedFile(original')
    BY <2>1, <2>2 DEF FileWritten
  <2>5. \/ verdict' = "refused"
        \/ /\ verdict' = "loaded" /\ file' = dfu_load_file(bytes')
           /\ \E c \in {"MAYBE_SUFFIX", "NEEDS_SUFFIX", "NO_SUFFIX"} : SuffixAccepted(bytes', c)
    BY <2>1, <2>3
  <2>6. FileWritten'
    BY <2>1, <2>4, <2>5 DEF FileWritten
  <2> QED BY <2>6 DEF IInv
<1>7. CASE ReadPacket
  <2>1. /\ medium = "packet" /\ verdict = "none"
        /\ verdict' = xmodem_read_pkt(bytes, source.pkt_no)
        /\ medium' = medium /\ source' = source /\ original' = original /\ bytes' = bytes
    BY <1>7 DEF ReadPacket
  <2>2. PacketWritten
    BY <2>1 DEF IInv, NothingWritten, FileWritten
  <2>3. /\ WrittenPacket(source', original')
        /\ bytes' = original' \/ bytes' \in DamagedPacket(original')
        /\ verdict' = xmodem_read_pkt(bytes', source'.pkt_no)
    BY <2>1, <2>2 DEF PacketWritten
  <2>4. PacketWritten'
    BY <2>1, <2>3 DEF PacketWritten
  <2> QED BY <2>4 DEF IInv
<1>8. CASE UNCHANGED vars
  <2>1. /\ medium' = medium /\ source' = source /\ original' = original /\ bytes' = bytes
        /\ verdict' = verdict /\ file' = file
    BY <1>8 DEF vars
  <2> QED BY <2>1 DEF IInv, NothingWritten, FileWritten, PacketWritten
<1>9. CASE Done
  BY <1>8, <1>9 DEF Done
<1> QED
  BY <1>1, <1>2, <1>3, <1>4, <1>5, <1>6, <1>7, <1>8, <1>9 DEF Next

\* IInv holds in every state.
LEMMA InvariantIInv == Spec => []IInv
<1>1. Init => IInv
  BY InitIInv
<1>2. IInv /\ [Next]_vars => IInv'
  BY NextIInv
<1> QED
  BY <1>1, <1>2, PTL DEF Spec

-----------------------------------------------------------------------------
(* The invariants.                                                         *)

\* What is left of bytes are bytes.
LEMMA CutType ==
    ASSUME NEW s \in Seq(Byte), NEW n \in 0..(Len(s) - 1)
    PROVE  SubSeq(s, 1, n) \in Seq(Byte)
<1>1. n \in Nat /\ \A i \in 1..n : s[i] \in Byte
  OBVIOUS
<1>2. SubSeq(s, 1, n) = [i \in 1..n |-> s[i]]
  OBVIOUS
<1> QED
  BY <1>1, <1>2

\* The bytes of a file, damaged or not.
LEMMA FileTypes ==
    ASSUME FileWritten
    PROVE  original \in Seq(Byte) /\ bytes \in Seq(Byte)
<1>1. PICK image \in Images, type \in PrefixTypes :
        \/ original = Front(image, type)
        \/ \E n \in Lengths \cup {16} : original = AddSuffix(Front(image, type), SomeIds, n)
  BY DEF FileWritten, WrittenFile
<1>2. Front(image, type) \in Seq(Byte)
  BY FrontBytes
<1>3. original \in Seq(Byte)
  BY <1>1, <1>2, LengthsType, SuffixBytes
<1>4. CASE bytes \in DamagedFile(original)
  <2>1. \A hits : Flip(original, hits) \in Seq(Byte)
    BY <1>3, FlipBytes
  <2>2. \A n \in 0..(Len(original) - 1) : SubSeq(original, 1, n) \in Seq(Byte)
    BY <1>3, CutType
  <2>3. CASE \E hits \in Errors(8 * Len(original), FileBurst) : bytes = Flip(original, hits)
    BY <1>3, <2>1, <2>3
  <2>4. CASE \E n \in 0..(Len(original) - 1) : bytes = SubSeq(original, 1, n)
    BY <1>3, <2>2, <2>4
  <2>5. \/ \E hits \in Errors(8 * Len(original), FileBurst) : bytes = Flip(original, hits)
        \/ \E n \in 0..(Len(original) - 1) : bytes = SubSeq(original, 1, n)
    BY <1>4 DEF DamagedFile
  <2> QED BY <2>3, <2>4, <2>5
<1> QED
  BY <1>3, <1>4 DEF FileWritten

\* The bytes of a packet, damaged or not, and what it was written from.
LEMMA PacketTypes ==
    ASSUME PacketWritten
    PROVE  \E data \in Payloads, pkt_no \in {1, 2} :
             /\ data \in Seq(Byte) /\ source = [data |-> data, pkt_no |-> pkt_no]
             /\ original = xmodem_send_pkt(data, pkt_no)
             /\ original \in Seq(Byte) /\ Len(original) >= 4 /\ Payload(original) = data
             /\ CrcOK(original)
             /\ bytes \in Seq(Byte) /\ Len(bytes) = Len(original)
<1>1. PICK data \in Payloads, pkt_no \in {1, 2} :
        /\ source = [data |-> data, pkt_no |-> pkt_no]
        /\ original = xmodem_send_pkt(data, pkt_no)
  BY DEF PacketWritten, WrittenPacket
<1>2. data \in Seq(Byte)
  BY ByteAssumption DEF Byte
<1>3. /\ original \in Seq(Byte) /\ Len(original) = Len(data) + 4 /\ Payload(original) = data
      /\ CrcOK(original)
  BY <1>1, <1>2, SentPacket
<1>4. Len(original) >= 4
  BY <1>2, <1>3
<1>5. bytes \in Seq(Byte) /\ Len(bytes) = Len(original)
  <2>1. CASE bytes \in DamagedPacket(original)
    BY <1>3, <2>1, FlipBytes DEF DamagedPacket
  <2> QED BY <1>3, <2>1 DEF PacketWritten
<1> QED
  BY <1>1, <1>2, <1>3, <1>4, <1>5

\* A suffix that has been accepted lies within the file.
LEMMA SuffixInside ==
    ASSUME NEW b \in Seq(Byte), NEW check_suffix, SuffixAccepted(b, check_suffix)
    PROVE  SuffixLength(b) \in 0..Len(b) /\ (HasSuffix(b) => SuffixLength(b) >= 16)
<1>1. CASE HasSuffix(b)
  <2>1. LengthOK(b)
    BY <1>1 DEF SuffixAccepted
  <2>2. /\ SuffixLength(b) = dfusuffix(b, 11) /\ SuffixLength(b) >= 16
        /\ SuffixLength(b) <= Len(b) /\ Len(b) >= 16
    BY <1>1, <2>1 DEF LengthOK, SuffixLength, HasSuffix, DFU_SUFFIX_LENGTH
  <2>3. dfusuffix(b, 11) \in Byte
    <3>1. Len(b) - 16 + 1 + 11 \in 1..Len(b)
      BY <2>2
    <3>2. dfusuffix(b, 11) = b[Len(b) - 16 + 1 + 11]
      BY DEF dfusuffix, DFU_SUFFIX_LENGTH
    <3> QED BY <3>1, <3>2
  <2>4. SuffixLength(b) \in Nat
    <3>1. \A x \in Byte : x \in Nat
      BY DEF Byte
    <3>2. SuffixLength(b) \in Byte
      BY <2>2, <2>3
    <3> QED BY <3>1, <3>2
  <2>5. Len(b) \in Nat
    OBVIOUS
  <2> QED BY <2>2, <2>4, <2>5
<1>2. CASE ~HasSuffix(b)
  <2>1. SuffixLength(b) = 0
    BY <1>2 DEF SuffixLength
  <2> QED BY <1>2, <2>1
<1> QED
  BY <1>1, <1>2

\* Types: dfu_load_file does not accept a suffix that is longer than the file, and a byte
\* stays a byte.
LEMMA TypesHold == IInv => TypeOK
<1>1. CASE NothingWritten
  BY <1>1 DEF NothingWritten, TypeOK
<1>2. CASE FileWritten
  <2>1. bytes \in Seq(Byte)
    BY <1>2, FileTypes
  <2>2. \A i \in 1..Len(bytes) : bytes[i] \in 0..255
    <3>1. \A i \in 1..Len(bytes) : bytes[i] \in Byte
      BY <2>1
    <3> QED BY <3>1 DEF Byte
  <2>3. ASSUME verdict = "loaded" PROVE Len(file.firmware) - file.suffix \in 0..Len(bytes)
    <3>1. /\ file = dfu_load_file(bytes)
          /\ \E check_suffix \in {"MAYBE_SUFFIX", "NEEDS_SUFFIX", "NO_SUFFIX"} :
                 SuffixAccepted(bytes, check_suffix)
      BY <1>2, <2>3 DEF FileWritten
    <3>2. file.firmware = bytes /\ file.suffix = SuffixLength(bytes)
      BY <3>1 DEF dfu_load_file
    <3>3. SuffixLength(bytes) \in 0..Len(bytes)
      BY <2>1, <3>1, SuffixInside
    <3> QED BY <2>1, <3>2, <3>3
  <2> QED BY <1>2, <2>2, <2>3 DEF FileWritten, TypeOK
<1>3. CASE PacketWritten
  <2>1. bytes \in Seq(Byte)
    BY <1>3, PacketTypes
  <2>2. \A i \in 1..Len(bytes) : bytes[i] \in 0..255
    <3>1. \A i \in 1..Len(bytes) : bytes[i] \in Byte
      BY <2>1
    <3> QED BY <3>1 DEF Byte
  <2>3. verdict \in {"none", "ERR", "DUP", "SOH", "CAN"}
    BY <1>3 DEF PacketWritten, xmodem_read_pkt
  <2> QED BY <1>3, <2>2, <2>3 DEF PacketWritten, TypeOK
<1> QED
  BY <1>1, <1>2, <1>3 DEF IInv

\* xmodem_read_pkt: the CRC notices every burst of 16 bits and every pair of errors within
\* the span, and the check of the number all that the CRC does not cover but the same bits
\* of both its bytes.
LEMMA LineHolds == IInv => LineDamageNoticed
<1> SUFFICES ASSUME IInv, medium = "packet", verdict # "none", bytes # original
             PROVE  verdict # "ERR" <=> /\ Payload(bytes) = source.data
                                        /\ CrcRecv(bytes) = CrcRecv(original)
                                        /\ bytes[1] + bytes[2] = 255
  BY DEF LineDamageNoticed
<1>1. PacketWritten
  BY DEF IInv, NothingWritten, FileWritten
<1>2. PICK data \in Payloads, pkt_no \in {1, 2} :
             /\ data \in Seq(Byte) /\ source = [data |-> data, pkt_no |-> pkt_no]
             /\ original = xmodem_send_pkt(data, pkt_no)
             /\ original \in Seq(Byte) /\ Len(original) >= 4 /\ Payload(original) = data
             /\ CrcOK(original)
             /\ bytes \in Seq(Byte) /\ Len(bytes) = Len(original)
  BY <1>1, PacketTypes
<1>3. verdict # "ERR" <=> PacketOK(bytes)
  BY <1>1 DEF PacketWritten, xmodem_read_pkt
<1>4. PacketOK(bytes) <=> bytes[1] = 255 - bytes[2] /\ CrcOK(bytes)
  BY DEF PacketOK, CrcOK
<1>5. CrcOK(bytes) <=> Payload(bytes) = data /\ CrcRecv(bytes) = CrcRecv(original)
  <2>1. PICK hits \in Errors(8 * Len(original), PacketBurst) \cup Pairs(8 * Len(original)) :
          bytes = Flip(original, hits)
    BY <1>1 DEF PacketWritten, DamagedPacket
  <2>2. ASSUME CrcOK(bytes) PROVE Payload(bytes) = data /\ CrcRecv(bytes) = CrcRecv(original)
    BY <1>2, <2>1, <2>2, DamageSeen
  <2>3. ASSUME Payload(bytes) = data, CrcRecv(bytes) = CrcRecv(original) PROVE CrcOK(bytes)
    BY <1>2, <2>3 DEF CrcOK
  <2> QED BY <2>2, <2>3
<1>6. bytes[1] = 255 - bytes[2] <=> bytes[1] + bytes[2] = 255
  <2>1. Len(bytes) >= 4
    BY <1>2
  <2>2. bytes[1] \in Byte /\ bytes[2] \in Byte
    BY <1>2, <2>1
  <2>3. \A x, y \in Byte : x = 255 - y <=> x + y = 255
    BY DEF Byte
  <2>4. bytes[1] = 255 - bytes[2] <=> bytes[1] + bytes[2] = 255
    BY <2>2, <2>3
  <2> QED BY <2>4
<1>7. source.data = data
  BY <1>2
<1> QED
  BY <1>3, <1>4, <1>5, <1>6, <1>7

\* dfu_load_file finds what dfu_store_file wrote.
LEMMA StoredHolds == IInv => StoredIsLoaded
<1> SUFFICES ASSUME IInv, verdict = "loaded", bytes = original,
                    file.suffix \in {0, DFU_SUFFIX_LENGTH}
             PROVE  /\ file.suffix = (IF source.suffixed THEN DFU_SUFFIX_LENGTH ELSE 0)
                    /\ source.suffixed => file.ids = source.file.ids
                    /\ file.prefix_type = source.file.prefix_type
                    /\ file.lmdfu_address = source.file.lmdfu_address
                    /\ Body(file) = source.file.firmware
  BY DEF StoredIsLoaded
<1>1. FileWritten
  BY DEF IInv, NothingWritten, PacketWritten, xmodem_read_pkt
<1>2. PICK image \in Images, type \in PrefixTypes :
        \/ /\ source = [file |-> Plain(image, type), suffixed |-> FALSE]
           /\ original = Front(image, type)
        \/ /\ source = [file |-> Plain(image, type), suffixed |-> TRUE]
           /\ \E n \in Lengths \cup {16} : original = AddSuffix(Front(image, type), SomeIds, n)
  BY <1>1 DEF FileWritten, WrittenFile
<1> DEFINE f == Front(image, type)
<1>3. f \in Seq(Byte) /\ bytes \in Seq(Byte)
  BY <1>1, FileTypes, FrontBytes
<1>4. /\ file = dfu_load_file(bytes)
      /\ \E check_suffix \in {"MAYBE_SUFFIX", "NEEDS_SUFFIX", "NO_SUFFIX"} :
             SuffixAccepted(bytes, check_suffix)
  BY <1>1 DEF FileWritten
<1>5. source.file = Plain(image, type)
  BY <1>2
<1>6. /\ source.file.prefix_type = type /\ source.file.firmware = image
      /\ source.file.ids = SomeIds
  BY <1>5, ImageType, PlainFields
<1>7. BeginsWith(bytes, f)
  <2> HIDE DEF f
  <2> QED BY <1>2, <1>3, FrontBegins, LengthsType DEF f
<1>8. /\ file.prefix_type = type /\ file.lmdfu_address = source.file.lmdfu_address
      /\ file.suffix = SuffixLength(bytes) /\ file.ids = LoadedIds(bytes)
      /\ (Len(bytes) - SuffixLength(bytes) = Len(f) => Body(file) = image)
  BY <1>4, <1>5, <1>7, LoadedFields
<1> HIDE DEF f
<1>9. CASE source.suffixed
  <2>1. PICK n \in Lengths \cup {16} : bytes = AddSuffix(f, SomeIds, n)
    BY <1>2, <1>9 DEF f
  <2>2. n \in Byte
    BY LengthsType
  <2>3. HasSuffix(bytes) /\ LoadedIds(bytes) = SomeIds
    BY <1>3, <2>1, <2>2, SuffixedHas
  <2>4. Len(bytes) = Len(f) + 16
    BY <1>3, <2>1, <2>2, SuffixBytes
  <2>5. SuffixLength(bytes) >= 16
    BY <1>3, <1>4, <2>3, SuffixInside
  <2>6. SuffixLength(bytes) = 16
    BY <1>8, <2>5 DEF DFU_SUFFIX_LENGTH
  <2>7. Len(bytes) - SuffixLength(bytes) = Len(f)
    BY <1>3, <2>4, <2>6
  <2> QED BY <1>6, <1>8, <1>9, <2>3, <2>6, <2>7 DEF DFU_SUFFIX_LENGTH
<1>10. CASE ~source.suffixed
  <2>1. bytes = f
    BY <1>2, <1>10 DEF f
  <2>2. ~HasSuffix(bytes)
    BY <2>1, FrontHasNone DEF f
  <2>3. SuffixLength(bytes) = 0
    BY <2>2 DEF SuffixLength
  <2>4. Len(bytes) - SuffixLength(bytes) = Len(f)
    BY <1>3, <2>1, <2>3
  <2> QED BY <1>6, <1>8, <1>10, <2>3, <2>4
<1> QED
  BY <1>9, <1>10

\* dfu_load_file finds no suffix in a file that was damaged: "UFD" is nowhere else, and
\* no burst of 25 bits leaves the CRC as it was.
LEMMA FileHolds == IInv => FileDamageNoticed
<1> SUFFICES ASSUME IInv, verdict = "loaded", bytes # original, source.suffixed
             PROVE  file.suffix = 0 /\ file.ids = LoadedIds(<<>>)
  BY DEF FileDamageNoticed
<1>1. FileWritten
  BY DEF IInv, NothingWritten, PacketWritten, xmodem_read_pkt
<1>2. PICK image \in Images, type \in PrefixTypes, n \in Lengths \cup {16} :
        original = AddSuffix(Front(image, type), SomeIds, n)
  BY <1>1 DEF FileWritten, WrittenFile
<1> DEFINE f == Front(image, type)
<1>3. f \in Seq(Byte) /\ n \in Byte /\ original \in Seq(Byte) /\ bytes \in DamagedFile(original)
  BY <1>1, FrontBytes, LengthsType, FileTypes DEF FileWritten
<1>4. ~HasSuffix(bytes)
  <2>1. ASSUME NEW hits \in Errors(8 * Len(original), FileBurst), bytes = Flip(original, hits)
        PROVE  ~HasSuffix(bytes)
    <3>1. /\ Len(original) = Len(f) + 16
          /\ Crc32(SubSeq(original, 1, Len(original) - 4)) =
               Register(SubSeq(original, Len(original) - 3, Len(original)))
      <4> DEFINE r == AddSuffix(f, SomeIds, n)
      <4>1. original = r
        BY <1>2
      <4> HIDE DEF f
      <4>2. /\ Len(r) = Len(f) + 16
            /\ Crc32(SubSeq(r, 1, Len(r) - 4)) = Register(SubSeq(r, Len(r) - 3, Len(r)))
        BY <1>3, SuffixBytes
      <4> HIDE DEF r
      <4> QED BY <4>1, <4>2
    <3>2. Len(original) >= 16 /\ Len(original) >= 4
      <4> HIDE DEF f
      <4> QED BY <1>3, <3>1
    <3>3. Crcs(original)[Len(original)] = {}
      BY <1>3, <3>1, <3>2, FileLeavesNothing
    <3> QED BY <1>3, <2>1, <3>2, <3>3, DamagedHasNone
  <2>2. ASSUME NEW k \in 0..(Len(original) - 1), bytes = SubSeq(original, 1, k)
        PROVE  ~HasSuffix(bytes)
    BY <1>2, <1>3, <2>2, TruncatedHasNone
  <2> QED BY <1>3, <2>1, <2>2 DEF DamagedFile
<1>5. file = dfu_load_file(bytes)
  BY <1>1 DEF FileWritten
<1>6. file.suffix = SuffixLength(bytes) /\ file.ids = LoadedIds(bytes)
  BY <1>5 DEF dfu_load_file
<1>7. SuffixLength(bytes) = 0
  BY <1>4 DEF SuffixLength
<1>8. LoadedIds(bytes) = LoadedIds(<<>>)
  <2>1. ~HasSuffix(<<>>)
    BY DEF HasSuffix, DFU_SUFFIX_LENGTH
  <2> QED BY <1>4, <2>1 DEF LoadedIds
<1> QED
  BY <1>6, <1>7, <1>8

-----------------------------------------------------------------------------
(* Long division.                                                          *)

\* The degrees of the two polynomials.
LEMMA Degrees ==
    /\ Degree(CCITT) = 16 /\ \A k \in CCITT : k \in 0..16
    /\ Degree(CRC32) = 32 /\ \A k \in CRC32 : k \in 0..32
<1>1. 16 \in CCITT /\ \A k \in CCITT : k \in 0..16
  BY DEF CCITT
<1>2. 32 \in CRC32 /\ \A k \in CRC32 : k \in 0..32
  BY DEF CRC32
<1>3. ASSUME NEW d \in Nat, NEW g, d \in g, \A k \in g : k \in 0..d PROVE Degree(g) = d
  <2>1. \A k \in g : k <= d
    BY <1>3
  <2>2. \A c \in g : (\A k \in g : k <= c) => c = d
    BY <1>3
  <2> QED BY <1>3, <2>1, <2>2 DEF Degree
<1> QED
  BY <1>1, <1>2, <1>3

\* What one step of the division by g, of degree d, leaves of r.
Taken(r, e, g, d) == IF e + d \in r THEN Plus(r, {e + k : k \in g}) ELSE r

\* Long division, one step after the other.
LongDivision(p, n, g) ==
    LET take(e) == [r \in SUBSET (0..(n + Degree(g))) |->
                        IF e + Degree(g) \in r THEN Plus(r, {e + k : k \in g}) ELSE r]
        rest[i \in 0..n] == IF i = 0 THEN p ELSE take(n - i)[rest[i - 1]]
    IN  rest

\* Division is made of its steps.
LEMMA LongDivisionDef ==
    ASSUME NEW n \in Nat, NEW g, NEW d \in Nat, Degree(g) = d, \A k \in g : k \in 0..d,
           NEW p \in SUBSET (0..(n + d))
    PROVE  /\ LongDivision(p, n, g) \in [0..n -> SUBSET (0..(n + d))]
           /\ LongDivision(p, n, g)[0] = p
           /\ \A i \in 1..n : LongDivision(p, n, g)[i] = Taken(LongDivision(p, n, g)[i - 1], n - i, g, d)
<1> DEFINE A == SUBSET (0..(n + d))
           take(e) == [r \in A |-> Taken(r, e, g, d)]
           step == [i \in 1..n |-> take(n - i)]
<1>1. ASSUME NEW i \in 1..n, NEW r \in A PROVE Taken(r, n - i, g, d) \in A
  <2> DEFINE e == n - i
             S == {e + k : k \in g}
  <2>1. S \in A
    <3>1. \A k \in g : e + k \in 0..(n + d)
      BY DEF e
    <3> QED BY <3>1
  <2>2. Plus(r, S) \in A
    <3> HIDE DEF S, e
    <3> QED BY <2>1, PlusType, ZenonT(30)
  <2> HIDE DEF A, S
  <2>3. Taken(r, e, g, d) \in A
    BY <1>1, <2>2 DEF Taken, S
  <2> QED BY <2>3
<1>2. step \in Steps(n, A)
  <2> HIDE DEF A
  <2>1. \A i \in 1..n : take(n - i) \in [A -> A]
    BY <1>1
  <2> HIDE DEF take
  <2> QED BY <2>1 DEF Steps
<1>3. PICK f \in [0..n -> A] : f[0] = p /\ \A i \in 1..n : f[i] = step[i][f[i - 1]]
  <2>1. p \in A
    OBVIOUS
  <2> HIDE DEF step, A
  <2>2. RunsOf(step, n, p, A) # {}
    BY <1>2, <2>1, Recursion
  <2> QED BY <2>2 DEF RunsOf
<1> DEFINE Runs(h) == h = [i \in 0..n |-> IF i = 0 THEN p ELSE take(n - i)[h[i - 1]]]
           D == LongDivision(p, n, g)
<1>4. Runs(f)
  <2> HIDE DEF A
  <2>1. \A i \in 1..n : step[i] = take(n - i)
    BY Zenon
  <2> HIDE DEF step, take
  <2>2. \A i \in 0..n : i # 0 => i \in 1..n
    OBVIOUS
  <2>3. \A i \in 0..n : f[i] = IF i = 0 THEN p ELSE take(n - i)[f[i - 1]]
    BY <1>3, <2>1, <2>2
  <2>4. f = [i \in 0..n |-> f[i]]
    BY <1>3
  <2> QED BY <2>3, <2>4
<1>5. D = CHOOSE h : Runs(h)
  BY DEF LongDivision, Taken
<1>6. Runs(D)
  <2> HIDE DEF Runs, D
  <2> QED BY <1>4, <1>5
<1>7. D[0] = p /\ \A i \in 1..n : D[i] = take(n - i)[D[i - 1]]
  <2>1. 0 \in 0..n /\ \A i \in 1..n : i \in 0..n /\ i # 0
    OBVIOUS
  <2> HIDE DEF take, A
  <2>2. \A i \in 0..n : D[i] = IF i = 0 THEN p ELSE take(n - i)[D[i - 1]]
    <3> HIDE DEF D
    <3> QED BY <1>6, Zenon
  <2> HIDE DEF D
  <2> QED BY <2>1, <2>2, Zenon
<1> HIDE DEF D
<1>8. \A i \in 0..n : D[i] \in A
  <2> DEFINE S == {i \in 0..n : D[i] \in A}
  <2>1. 0 \in S
    <3>1. 0 \in 0..n /\ p \in A
      OBVIOUS
    <3> HIDE DEF A
    <3> QED BY <1>7, <3>1
  <2>2. ASSUME NEW i \in 1..n, i - 1 \in S PROVE i \in S
    <3> HIDE DEF A
    <3>1. D[i] = take(n - i)[D[i - 1]] /\ D[i - 1] \in A
      BY <1>7, <2>2
    <3>2. D[i] = Taken(D[i - 1], n - i, g, d)
      BY <3>1
    <3> QED BY <1>1, <3>1, <3>2
  <2>3. \A i \in 0..n : i \in S
    <3> HIDE DEF S
    <3> QED BY <2>1, <2>2, Induct
  <2> QED BY <2>3
<1>9. \A i \in 1..n : D[i] = Taken(D[i - 1], n - i, g, d)
  <2> SUFFICES ASSUME NEW i \in 1..n PROVE D[i] = Taken(D[i - 1], n - i, g, d)
    OBVIOUS
  <2>1. D[i - 1] \in A
    BY <1>8
  <2>2. D[i] = take(n - i)[D[i - 1]]
    BY <1>7
  <2> HIDE DEF A
  <2> QED BY <2>1, <2>2
<1>10. D \in [0..n -> A]
  <2> HIDE DEF A, take
  <2>1. D = [i \in 0..n |-> D[i]]
    BY <1>6
  <2> QED BY <1>8, <2>1
<1> QED
  BY <1>7, <1>9, <1>10 DEF D

\* Every exponent in what a step of the division leaves.
LEMMA TakenMember ==
    ASSUME NEW r, NEW e \in Int, NEW g \in SUBSET Int, NEW d \in Nat, NEW x \in Int
    PROVE  x \in Taken(r, e, g, d) <=>
             IF e + d \in r /\ x - e \in g THEN x \notin r ELSE x \in r
<1> DEFINE S == {e + k : k \in g}
<1>1. x \in S <=> x - e \in g
  <2>1. ASSUME NEW k \in g, x = e + k PROVE x - e \in g
    <3>1. k \in Int
      OBVIOUS
    <3> QED BY <2>1, <3>1
  <2>2. ASSUME x - e \in g PROVE x \in S
    <3>1. x = e + (x - e)
      OBVIOUS
    <3> QED BY <2>2, <3>1
  <2> QED BY <2>1, <2>2
<1>2. Taken(r, e, g, d) = IF e + d \in r THEN Plus(r, S) ELSE r
  BY DEF Taken
<1> HIDE DEF S
<1> QED
  BY <1>1, <1>2, PlusMember

\* Eight steps of it are one of Division's.
LEMMA RemainderIsLast ==
    ASSUME NEW n \in Nat, NEW g, NEW d \in Nat, Degree(g) = d, \A k \in g : k \in 0..d,
           NEW p \in SUBSET (0..(8 * n + d))
    PROVE  Remainder(p, n, g) = LongDivision(p, 8 * n, g)[8 * n]
<1> DEFINE N == 8 * n
           A == SUBSET (0..(N + d))
           D == LongDivision(p, N, g)
           take(e) == [r \in A |-> Taken(r, e, g, d)]
           after(e, r) == take(e)[take(e + 1)[take(e + 2)[take(e + 3)[
                              take(e + 4)[take(e + 5)[take(e + 6)[take(e + 7)[r]]]]]]]]
           eight(e) == [r \in A |-> after(e, r)]
           Runs(h) == h = [i \in 0..n |-> IF i = 0 THEN p ELSE eight(8 * (n - i))[h[i - 1]]]
           f == [i \in 0..n |-> D[8 * i]]
           R == Division(p, n, g)
<1>1. /\ D \in [0..N -> A] /\ D[0] = p
      /\ \A j \in 1..N : D[j] = Taken(D[j - 1], N - j, g, d)
  <2>1. N \in Nat
    OBVIOUS
  <2>2. p \in SUBSET (0..(N + d))
    OBVIOUS
  <2> HIDE DEF N
  <2> QED BY <2>1, <2>2, LongDivisionDef
<1> HIDE DEF D
<1>2. ASSUME NEW j \in 1..N, NEW e, N - j = e PROVE D[j] = take(e)[D[j - 1]]
  <2>1. j - 1 \in 0..N
    OBVIOUS
  <2>2. D[j - 1] \in A
    BY <1>1, <2>1
  <2> HIDE DEF A, N
  <2> QED BY <1>1, <1>2, <2>2
<1>3. ASSUME NEW i \in 1..n PROVE D[8 * i] = eight(8 * (n - i))[D[8 * (i - 1)]]
  <2> DEFINE e == 8 * (n - i)
             j == 8 * i
  <2>1. /\ j \in 1..N /\ N - j = e
        /\ j - 1 \in 1..N /\ N - (j - 1) = e + 1
        /\ j - 2 \in 1..N /\ N - (j - 2) = e + 2
        /\ j - 3 \in 1..N /\ N - (j - 3) = e + 3
        /\ j - 4 \in 1..N /\ N - (j - 4) = e + 4
        /\ j - 5 \in 1..N /\ N - (j - 5) = e + 5
        /\ j - 6 \in 1..N /\ N - (j - 6) = e + 6
        /\ j - 7 \in 1..N /\ N - (j - 7) = e + 7
    OBVIOUS
  <2>2. /\ (j - 1) - 1 = j - 2 /\ (j - 2) - 1 = j - 3 /\ (j - 3) - 1 = j - 4
        /\ (j - 4) - 1 = j - 5 /\ (j - 5) - 1 = j - 6 /\ (j - 6) - 1 = j - 7
        /\ (j - 7) - 1 = 8 * (i - 1)
    OBVIOUS
  <2> HIDE DEF e, j, N, take
  <2>3. D[j] = take(e)[D[j - 1]] /\ D[j - 1] = take(e + 1)[D[j - 2]]
    BY <1>2, <2>1, <2>2
  <2>4. D[j - 2] = take(e + 2)[D[j - 3]] /\ D[j - 3] = take(e + 3)[D[j - 4]]
    BY <1>2, <2>1, <2>2
  <2>5. D[j - 4] = take(e + 4)[D[j - 5]] /\ D[j - 5] = take(e + 5)[D[j - 6]]
    BY <1>2, <2>1, <2>2
  <2>6. D[j - 6] = take(e + 6)[D[j - 7]] /\ D[j - 7] = take(e + 7)[D[8 * (i - 1)]]
    BY <1>2, <2>1, <2>2
  <2>7. D[j] = after(e, D[8 * (i - 1)])
    BY <2>3, <2>4, <2>5, <2>6, Zenon
  <2>8. D[8 * (i - 1)] \in A
    <3>1. 8 * (i - 1) \in 0..N
      BY DEF N
    <3> HIDE DEF N, A
    <3> QED BY <1>1, <3>1
  <2> HIDE DEF after, A
  <2>9. D[j] = eight(e)[D[8 * (i - 1)]]
    BY <2>7, <2>8, Zenon
  <2> QED BY <2>9 DEF e, j
<1> HIDE DEF take, after, eight
<1>4. Runs(f)
  <2>1. /\ f[0] = p
        /\ \A i \in 1..n : f[i] = eight(8 * (n - i))[f[i - 1]]
    <3>1. 0 \in 0..n /\ 8 * 0 = 0 /\ \A i \in 1..n : i \in 0..n /\ i - 1 \in 0..n
      OBVIOUS
    <3> QED BY <1>1, <1>3, <3>1
  <2>2. \A i \in 0..n : i # 0 => i \in 1..n
    OBVIOUS
  <2>3. \A i \in 0..n : f[i] = IF i = 0 THEN p ELSE eight(8 * (n - i))[f[i - 1]]
    <3> HIDE DEF f
    <3> QED BY <2>1, <2>2
  <2>4. f = [i \in 0..n |-> f[i]]
    OBVIOUS
  <2> HIDE DEF f
  <2> QED BY <2>3, <2>4
<1>5. R = CHOOSE h : Runs(h)
  BY DEF Division, Taken, take, after, eight
<1>6. Runs(R)
  <2> HIDE DEF Runs, R
  <2> QED BY <1>4, <1>5
<1>7. R[0] = p /\ \A i \in 1..n : R[i] = eight(8 * (n - i))[R[i - 1]]
  <2>1. 0 \in 0..n /\ \A i \in 1..n : i \in 0..n /\ i # 0
    OBVIOUS
  <2>2. \A i \in 0..n : R[i] = IF i = 0 THEN p ELSE eight(8 * (n - i))[R[i - 1]]
    <3> HIDE DEF R
    <3> QED BY <1>6, Zenon
  <2> HIDE DEF R
  <2> QED BY <2>1, <2>2, Zenon
<1> HIDE DEF R
<1> DEFINE S == {i \in 0..n : R[i] = D[8 * i]}
<1>8. 0 \in S
  <2>1. 0 \in 0..n /\ 8 * 0 = 0
    OBVIOUS
  <2> QED BY <1>1, <1>7, <2>1
<1>9. ASSUME NEW i \in 1..n, i - 1 \in S PROVE i \in S
  <2>1. R[i - 1] = D[8 * (i - 1)] /\ i \in 0..n
    BY <1>9
  <2>2. R[i] = eight(8 * (n - i))[R[i - 1]]
    BY <1>7
  <2>3. D[8 * i] = eight(8 * (n - i))[D[8 * (i - 1)]]
    BY <1>3
  <2> QED BY <2>1, <2>2, <2>3
<1>10. n \in S
  <2>1. n \in 0..n
    OBVIOUS
  <2> HIDE DEF S
  <2> QED BY <1>8, <1>9, <2>1, Induct
<1> QED
  BY <1>10 DEF Remainder, R, D, N

-----------------------------------------------------------------------------
(* crc_xmodem divides.                                                     *)

\* The register after i turns is what is left of the dividend after i steps of the
\* division, above the bits that have not been looked at.
LEMMA TurnsDivide ==
    ASSUME NEW n \in Nat, NEW ones \in SUBSET (1..n)
    PROVE  LongDivision({n - i : i \in ones}, n, CCITT)[n] = Turns(ones, n)[n]
<1> DEFINE p == {n - i : i \in ones}
           D == LongDivision(p, n, CCITT)
           T == Turns(ones, n)
           Left(x, i) == \/ x < n - i /\ n - x \in ones
                         \/ x >= n - i /\ x < n - i + 16 /\ x - (n - i) \in T[i]
           S == {i \in 0..n : \A x \in 0..(n + 16) : x \in D[i] <=> Left(x, i)}
<1>0. CCITT \in SUBSET Int /\ \A b \in 0..15 : b \in CCITT <=> b \in POLY
  BY DEF CCITT, POLY
<1>1. p \in SUBSET (0..(n + 16)) /\ \A x \in 0..(n + 16) : x \in p <=> n - x \in ones
  <2>1. \A i \in ones : n - i \in 0..(n + 16)
    OBVIOUS
  <2>2. ASSUME NEW x \in 0..(n + 16), NEW i \in ones, x = n - i PROVE n - x \in ones
    <3>1. n - x = i
      BY <2>2
    <3> QED BY <3>1
  <2>3. ASSUME NEW x \in 0..(n + 16), n - x \in ones PROVE x \in p
    <3>1. x = n - (n - x)
      OBVIOUS
    <3> QED BY <2>3, <3>1
  <2> QED BY <2>1, <2>2, <2>3
<1>2. /\ D \in [0..n -> SUBSET (0..(n + 16))] /\ D[0] = p
      /\ \A i \in 1..n : D[i] = Taken(D[i - 1], n - i, CCITT, 16)
  <2> HIDE DEF p
  <2>1. Degree(CCITT) = 16 /\ \A k \in CCITT : k \in 0..16
    BY Degrees
  <2> DEFINE g == CCITT
             d == 16
  <2>2. Degree(g) = d /\ (\A k \in g : k \in 0..d) /\ d \in Nat /\ p \in SUBSET (0..(n + d))
    BY <1>1, <2>1
  <2> HIDE DEF g, d
  <2>3. /\ LongDivision(p, n, g) \in [0..n -> SUBSET (0..(n + d))]
        /\ LongDivision(p, n, g)[0] = p
        /\ \A i \in 1..n : LongDivision(p, n, g)[i] = Taken(LongDivision(p, n, g)[i - 1], n - i, g, d)
    BY <2>2, LongDivisionDef
  <2> QED BY <2>3 DEF g, d
<1>3. /\ T \in [0..n -> Reg16] /\ T[0] = {}
      /\ \A i \in 1..n : T[i] = ShiftIn(T[i - 1], i \in ones)
  BY TurnsDef
<1> HIDE DEF p, D, T
<1>4. 0 \in S
  <2>1. ASSUME NEW x \in 0..(n + 16) PROVE x \in D[0] <=> Left(x, 0)
    <3>1. x \in p <=> n - x \in ones
      BY <1>1
    <3>2. n - x \in ones => x < n - 0
      OBVIOUS
    <3>3. x - (n - 0) \notin T[0]
      BY <1>3
    <3> QED BY <1>2, <3>1, <3>2, <3>3
  <2> QED BY <2>1
<1>5. ASSUME NEW i \in 1..n, i - 1 \in S PROVE i \in S
  <2> DEFINE e == n - i
             r == D[i - 1]
             t == T[i - 1]
  <2>1. \A x \in 0..(n + 16) : x \in r <=> \/ x < e + 1 /\ n - x \in ones
                                           \/ x >= e + 1 /\ x < e + 17 /\ x - (e + 1) \in t
    <3>1. n - (i - 1) = e + 1 /\ n - (i - 1) + 16 = e + 17
      OBVIOUS
    <3>2. \A x \in 0..(n + 16) : x \in D[i - 1] <=> Left(x, i - 1)
      BY <1>5
    <3> QED BY <3>1, <3>2
  <2>2. e \in 0..(n - 1) /\ n - e = i /\ e + 16 \in 0..(n + 16)
    OBVIOUS
  <2>3. t \in Reg16 /\ T[i] = ShiftIn(t, i \in ones) /\ D[i] = Taken(r, e, CCITT, 16)
    BY <1>2, <1>3
  <2> HIDE DEF e, r, t
  <2>4. e + 16 \in r <=> 15 \in t
    <3>1. ~(e + 16 < e + 1) /\ e + 16 >= e + 1 /\ e + 16 < e + 17 /\ (e + 16) - (e + 1) = 15
      BY <2>2
    <3> QED BY <2>1, <2>2, <3>1
  <2>5. ASSUME NEW x \in 0..(n + 16) PROVE x \in D[i] <=> Left(x, i)
    <3>1. x \in D[i] <=> IF e + 16 \in r /\ x - e \in CCITT THEN x \notin r ELSE x \in r
      BY <1>0, <2>2, <2>3, TakenMember
    <3>2. Left(x, i) <=> \/ x < e /\ n - x \in ones
                         \/ x >= e /\ x < e + 16 /\ x - e \in T[i]
      BY DEF e
    <3>3. CASE x < e
      <4>1. x - e \notin CCITT
        BY <2>2, <3>3 DEF CCITT
      <4>2. x < e + 1 /\ ~(x >= e + 1) /\ ~(x >= e)
        BY <2>2, <3>3
      <4> QED BY <2>1, <3>1, <3>2, <3>3, <4>1, <4>2
    <3>4. CASE x >= e /\ x < e + 16
      <4> DEFINE b == x - e
      <4>1. b \in 0..15 /\ x = e + b
        BY <2>2, <3>4
      <4>2. x \in r <=> IF b = 0 THEN i \in ones ELSE b - 1 \in t
        <5>1. CASE b = 0
          <6>1. x < e + 1 /\ n - x = i /\ ~(x >= e + 1)
            BY <2>2, <4>1, <5>1
          <6> QED BY <2>1, <5>1, <6>1
        <5>2. CASE b # 0
          <6>1. ~(x < e + 1) /\ x >= e + 1 /\ x < e + 17 /\ x - (e + 1) = b - 1
            BY <2>2, <4>1, <5>2
          <6> QED BY <2>1, <5>2, <6>1
        <5> QED BY <5>1, <5>2
      <4> HIDE DEF b
      <4>3. b \in T[i] <=> IF 15 \in t /\ b \in POLY
                           THEN ~(IF b = 0 THEN i \in ones ELSE b - 1 \in t)
                           ELSE IF b = 0 THEN i \in ones ELSE b - 1 \in t
        <5>1. b \in ShiftIn(t, i \in ones) <=>
                IF 15 \in t /\ b \in POLY
                THEN ~(IF b = 0 THEN i \in ones ELSE b - 1 \in t)
                ELSE IF b = 0 THEN i \in ones ELSE b - 1 \in t
          BY <2>3, <4>1, ShiftInMember, Zenon
        <5> QED BY <2>3, <5>1
      <4>4. b \in CCITT <=> b \in POLY
        BY <1>0, <4>1
      <4>5. x \in D[i] <=> IF 15 \in t /\ b \in CCITT THEN x \notin r ELSE x \in r
        BY <2>4, <3>1 DEF b
      <4>6. Left(x, i) <=> b \in T[i]
        <5>1. ~(x < e)
          BY <2>2, <3>4
        <5> QED BY <3>2, <3>4, <5>1 DEF b
      <4> QED BY <4>2, <4>3, <4>4, <4>5, <4>6
    <3>5. CASE x = e + 16
      <4>1. x - e = 16 /\ 16 \in CCITT /\ ~(x < e) /\ ~(x < e + 16)
        BY <2>2, <3>5 DEF CCITT
      <4> QED BY <3>1, <3>2, <3>5, <4>1
    <3>6. CASE x > e + 16
      <4>1. x - e \notin CCITT /\ ~(x < e) /\ ~(x < e + 16) /\ ~(x < e + 1) /\ ~(x < e + 17)
        BY <2>2, <3>6 DEF CCITT
      <4> QED BY <2>1, <3>1, <3>2, <4>1
    <3>7. x < e \/ (x >= e /\ x < e + 16) \/ x = e + 16 \/ x > e + 16
      BY <2>2
    <3> QED BY <3>3, <3>4, <3>5, <3>6, <3>7
  <2> QED BY <2>5
<1>6. \A i \in 0..n : i \in S
  <2> HIDE DEF S
  <2> QED BY <1>4, <1>5, Induct
<1>7. D[n] = T[n]
  <2>1. n \in S /\ n \in 0..n
    BY <1>6
  <2>2. D[n] \in SUBSET (0..(n + 16)) /\ T[n] \in Reg16
    BY <1>2, <1>3, <2>1
  <2>3. ASSUME NEW x \in 0..(n + 16) PROVE x \in D[n] <=> x \in T[n]
    <3>1. x \in D[n] <=> Left(x, n)
      BY <2>1
    <3>2. n - n = 0 /\ ~(x < 0) /\ x >= 0 /\ x - 0 = x /\ (x < 16 <=> x \in 0..15)
      OBVIOUS
    <3>3. Left(x, n) <=> x < 16 /\ x \in T[n]
      BY <3>2
    <3>4. x \in T[n] => x \in 0..15
      BY <2>2 DEF Reg16
    <3> QED BY <3>1, <3>2, <3>3, <3>4
  <2>4. \A x \in T[n] : x \in 0..(n + 16)
    <3>1. \A x \in 0..15 : x \in 0..(n + 16)
      OBVIOUS
    <3> QED BY <2>2, <3>1 DEF Reg16
  <2>5. D[n] \subseteq T[n]
    BY <2>2, <2>3
  <2>6. T[n] \subseteq D[n]
    BY <2>3, <2>4
  <2> QED BY <2>5, <2>6
<1> QED
  BY <1>7 DEF D, T, p

\* A packet whose CRC is right is a multiple of the polynomial.
LEMMA PacketDivides ==
    ASSUME NEW pkt \in Seq(Byte), Len(pkt) >= 4, CrcOK(pkt)
    PROVE  LET s == SubSeq(pkt, 3, Len(pkt))
           IN  Remainder(HighFirst(s), Len(s), CCITT) = {}
<1> DEFINE s == SubSeq(pkt, 3, Len(pkt))
           L == Len(pkt) - 2
           n == 8 * L
<1>1. Len(pkt) \in Nat /\ L \in Nat /\ n \in Nat
  OBVIOUS
<1>2. Len(s) = L /\ \A i \in 1..L : s[i] = pkt[i + 2]
  <2>1. s = [i \in 1..L |-> pkt[i + 2]]
    BY <1>1
  <2> HIDE DEF s
  <2> QED BY <1>1, <2>1
<1>3. ASSUME NEW j \in 1..n PROVE BitAt(s, j) <=> BitAt(pkt, j + 16)
  <2> DEFINE i == ((j - 1) \div 8) + 1
  <2>1. /\ i \in 1..L /\ ((j + 16 - 1) \div 8) + 1 = i + 2
        /\ (j + 16 - 1) % 8 = (j - 1) % 8
    OBVIOUS
  <2>2. BitAt(s, j) <=> 7 - ((j - 1) % 8) \in Bits(s[i])
    BY DEF BitAt
  <2> HIDE DEF i, s
  <2>3. BitAt(pkt, j + 16) <=> 7 - ((j - 1) % 8) \in Bits(pkt[i + 2])
    BY <2>1 DEF BitAt
  <2> QED BY <1>2, <2>1, <2>2, <2>3
<1> HIDE DEF s
<1>4. Ones(s) = Covered(pkt)
  BY <1>2, <1>3 DEF Ones, Covered
<1>5. HighFirst(s) = {n - i : i \in Covered(pkt)} /\ 8 * Len(s) = n
  BY <1>2, <1>4 DEF HighFirst
<1>6. Covered(pkt) \in SUBSET (1..n)
  BY DEF Covered
<1>7. LongDivision({n - i : i \in Covered(pkt)}, n, CCITT)[n] = Turns(Covered(pkt), n)[n]
  <2> HIDE DEF n
  <2> QED BY <1>1, <1>6, TurnsDivide
<1>8. Turns(Covered(pkt), n)[n] = {}
  BY CrcLeavesNothing
<1>9. LongDivision(HighFirst(s), 8 * L, CCITT)[8 * L] = {}
  BY <1>5, <1>7, <1>8
<1>10. HighFirst(s) \in SUBSET (0..(8 * L + 16))
  <2>1. \A i \in Covered(pkt) : n - i \in 0..(8 * L + 16)
    BY <1>1, <1>6
  <2> HIDE DEF n
  <2> QED BY <1>5, <2>1
<1>11. Remainder(HighFirst(s), L, CCITT) = {}
  <2> DEFINE g == CCITT
             d == 16
             p == HighFirst(s)
  <2>1. /\ Degree(g) = d /\ (\A k \in g : k \in 0..d) /\ d \in Nat
        /\ p \in SUBSET (0..(8 * L + d)) /\ LongDivision(p, 8 * L, g)[8 * L] = {}
    BY <1>9, <1>10, Degrees
  <2> HIDE DEF L, g, d, p
  <2>2. Remainder(p, L, g) = {}
    BY <1>1, <2>1, RemainderIsLast
  <2> QED BY <2>2 DEF p, g
<1> QED
  BY <1>2, <1>11 DEF s

-----------------------------------------------------------------------------
(* crc32_byte divides.                                                     *)

\* One turn of a CRC-32 that takes its bits one by one, bit j of reg being next.
Feed(c, reg, j) == Halve(Plus(c, IF j \in reg THEN {0} ELSE {}))

\* Its registers after each of n turns.
Fed(reg, n) ==
    {u \in [0..n -> Reg32] : u[0] = 0..31 /\ \A i \in 1..n : u[i] = Feed(u[i - 1], reg, i - 1)}

\* Every bit of the register after a turn.
LEMMA FeedMember ==
    ASSUME NEW c \in Reg32, NEW reg, NEW j
    PROVE  /\ Feed(c, reg, j) \in Reg32
           /\ \A b \in 0..31 : b \in Feed(c, reg, j) <=>
                IF ~(0 \in c <=> j \in reg) /\ b \in Reversed THEN b + 1 \notin c
                                                              ELSE b + 1 \in c
<1> DEFINE z == IF j \in reg THEN {0} ELSE {}
           v == Plus(c, z)
<1>1. z \in Reg32
  BY DEF Reg32
<1>2. (0 \in z <=> j \in reg) /\ \A b \in 0..31 : b + 1 \notin z
  OBVIOUS
<1>3. Feed(c, reg, j) = Halve(v)
  BY DEF Feed
<1> HIDE DEF z
<1>4. v \in Reg32 /\ (0 \in v <=> ~(0 \in c <=> j \in reg))
      /\ \A b \in 0..31 : b + 1 \in v <=> b + 1 \in c
  BY <1>1, <1>2, PlusReg32, PlusMember
<1> HIDE DEF v
<1>5. Halve(v) \in Reg32
  BY <1>4, HalveType
<1>6. \A b \in 0..31 : b \in Halve(v) <=>
                         IF 0 \in v /\ b \in Reversed THEN b + 1 \notin v ELSE b + 1 \in v
  BY <1>4, HalveMember
<1> QED
  BY <1>3, <1>4, <1>5, <1>6

\* The registers exist.
LEMMA FedExists ==
    ASSUME NEW reg, NEW n \in Nat
    PROVE  Fed(reg, n) # {}
<1> DEFINE step == [i \in 1..n |-> [c \in Reg32 |-> Feed(c, reg, i - 1)]]
           full == 0..31
<1>1. step \in Steps(n, Reg32)
  <2>1. ASSUME NEW i \in 1..n, NEW c \in Reg32 PROVE Feed(c, reg, i - 1) \in Reg32
    BY FeedMember
  <2> QED BY <2>1 DEF Steps
<1>2. full \in Reg32
  BY DEF Reg32
<1>3. PICK u \in [0..n -> Reg32] : u[0] = full /\ \A i \in 1..n : u[i] = step[i][u[i - 1]]
  <2> HIDE DEF step, full
  <2>1. RunsOf(step, n, full, Reg32) # {}
    BY <1>1, <1>2, Recursion
  <2> QED BY <2>1 DEF RunsOf
<1>4. ASSUME NEW i \in 1..n PROVE u[i] = Feed(u[i - 1], reg, i - 1)
  <2>1. u[i] = step[i][u[i - 1]] /\ u[i - 1] \in Reg32
    <3>1. i - 1 \in 0..n
      OBVIOUS
    <3> HIDE DEF step
    <3> QED BY <1>3, <3>1
  <2>2. \A c \in Reg32 : step[i][c] = Feed(c, reg, i - 1)
    BY Zenon
  <2> QED BY <2>1, <2>2, Zenon
<1> QED
  BY <1>3, <1>4 DEF Fed

\* The register after i turns, turned round, is to be added to what has not been looked
\* at yet, for what is left of the dividend after i steps of the division.
LEMMA FeedDivides ==
    ASSUME NEW n \in Nat, NEW reg \in SUBSET (0..(n + 31)), NEW u \in Fed(reg, n)
    PROVE  LongDivision(Plus({n + 31 - i : i \in reg}, n..(n + 31)), n, CRC32)[n] = {}
             <=> \A b \in 0..31 : b \in u[n] <=> n + b \in reg
<1> DEFINE m == {n + 31 - i : i \in reg}
           full == n..(n + 31)
           p == Plus(m, full)
           D == LongDivision(p, n, CRC32)
           Left(x, i) == /\ x < n - i + 32
                         /\ ~(n + 31 - x \in reg <=> x >= n - i /\ n - i + 31 - x \in u[i])
           S == {i \in 0..n : \A x \in 0..(n + 32) : x \in D[i] <=> Left(x, i)}
<1>0. CRC32 \in SUBSET Int /\ \A b \in 0..31 : 31 - b \in CRC32 <=> b \in Reversed
  BY DEF CRC32, Reversed
<1>1. p \in SUBSET (0..(n + 32))
      /\ \A x \in 0..(n + 32) : x \in p <=> ~(n + 31 - x \in reg <=> x >= n /\ x < n + 32)
  <2>1. \A i \in reg : n + 31 - i \in 0..(n + 32)
    OBVIOUS
  <2>2. ASSUME NEW x \in 0..(n + 32), NEW i \in reg, x = n + 31 - i PROVE n + 31 - x \in reg
    <3>1. n + 31 - x = i
      BY <2>2
    <3> QED BY <3>1
  <2>3. ASSUME NEW x \in 0..(n + 32), n + 31 - x \in reg PROVE x \in m
    <3>1. x = n + 31 - (n + 31 - x)
      OBVIOUS
    <3> QED BY <2>3, <3>1
  <2>4. m \in SUBSET (0..(n + 32)) /\ \A x \in 0..(n + 32) : x \in m <=> n + 31 - x \in reg
    BY <2>1, <2>2, <2>3
  <2>5. full \in SUBSET (0..(n + 32))
        /\ \A x \in 0..(n + 32) : x \in full <=> x >= n /\ x < n + 32
    OBVIOUS
  <2> HIDE DEF m, full
  <2>6. p \in SUBSET (0..(n + 32))
    <3> DEFINE A == 0..(n + 32)
    <3> HIDE DEF A
    <3>1. m \in SUBSET A /\ full \in SUBSET A
      BY <2>4, <2>5 DEF A
    <3>2. p \in SUBSET A
      BY <3>1 DEF Plus
    <3> QED BY <3>2 DEF A
  <2>7. \A x \in 0..(n + 32) : x \in p <=> ~(x \in m <=> x \in full)
    BY PlusMember
  <2> QED BY <2>4, <2>5, <2>6, <2>7
<1>2. /\ D \in [0..n -> SUBSET (0..(n + 32))] /\ D[0] = p
      /\ \A i \in 1..n : D[i] = Taken(D[i - 1], n - i, CRC32, 32)
  <2> HIDE DEF p
  <2>1. Degree(CRC32) = 32 /\ \A k \in CRC32 : k \in 0..32
    BY Degrees
  <2> DEFINE g == CRC32
             d == 32
  <2>2. Degree(g) = d /\ (\A k \in g : k \in 0..d) /\ d \in Nat /\ p \in SUBSET (0..(n + d))
    BY <1>1, <2>1
  <2> HIDE DEF g, d
  <2>3. /\ LongDivision(p, n, g) \in [0..n -> SUBSET (0..(n + d))]
        /\ LongDivision(p, n, g)[0] = p
        /\ \A i \in 1..n : LongDivision(p, n, g)[i] = Taken(LongDivision(p, n, g)[i - 1], n - i, g, d)
    BY <2>2, LongDivisionDef
  <2> QED BY <2>3 DEF g, d
<1>3. /\ u \in [0..n -> Reg32] /\ u[0] = 0..31
      /\ \A i \in 1..n : u[i] = Feed(u[i - 1], reg, i - 1)
  BY DEF Fed
<1> HIDE DEF p, D
<1>4. 0 \in S
  <2>1. ASSUME NEW x \in 0..(n + 32) PROVE x \in D[0] <=> Left(x, 0)
    <3>1. x \in p <=> ~(n + 31 - x \in reg <=> x >= n /\ x < n + 32)
      BY <1>1
    <3>2. x >= n - 0 /\ n - 0 + 31 - x \in u[0] <=> x >= n /\ x < n + 32
      BY <1>3
    <3>3. x < n - 0 + 32 <=> x < n + 32
      OBVIOUS
    <3>4. ~(x < n + 32) => n + 31 - x \notin reg
      OBVIOUS
    <3> QED BY <1>2, <3>1, <3>2, <3>3, <3>4
  <2> QED BY <2>1
<1>5. ASSUME NEW i \in 1..n, i - 1 \in S PROVE i \in S
  <2> DEFINE e == n - i
             r == D[i - 1]
             c == u[i - 1]
  <2>1. \A x \in 0..(n + 32) : x \in r <=>
           x < e + 33 /\ ~(n + 31 - x \in reg <=> x >= e + 1 /\ e + 32 - x \in c)
    <3>1. /\ n - (i - 1) = e + 1 /\ n - (i - 1) + 32 = e + 33
          /\ \A x \in 0..(n + 32) : n - (i - 1) + 31 - x = e + 32 - x
      OBVIOUS
    <3>2. \A x \in 0..(n + 32) : x \in D[i - 1] <=> Left(x, i - 1)
      BY <1>5
    <3> QED BY <3>1, <3>2
  <2>2. e \in 0..(n - 1) /\ n + 31 - (e + 32) = i - 1 /\ e + 32 \in 0..(n + 32)
    OBVIOUS
  <2>3. c \in Reg32 /\ u[i] = Feed(c, reg, i - 1) /\ D[i] = Taken(r, e, CRC32, 32)
    BY <1>2, <1>3
  <2>q. \A x \in 0..(n + 32) : Left(x, i) <=>
           x < e + 32 /\ ~(n + 31 - x \in reg <=> x >= e /\ e + 31 - x \in u[i])
    BY DEF e
  <2> HIDE DEF e, r, c, Left
  <2>4. e + 32 \in r <=> ~(0 \in c <=> i - 1 \in reg)
    <3>1. e + 32 < e + 33 /\ e + 32 >= e + 1 /\ e + 32 - (e + 32) = 0
      BY <2>2
    <3> QED BY <2>1, <2>2, <3>1
  <2>5. ASSUME NEW x \in 0..(n + 32) PROVE x \in D[i] <=> Left(x, i)
    <3>1. x \in D[i] <=> IF e + 32 \in r /\ x - e \in CRC32 THEN x \notin r ELSE x \in r
      BY <1>0, <2>2, <2>3, TakenMember
    <3>2. Left(x, i) <=>
             x < e + 32 /\ ~(n + 31 - x \in reg <=> x >= e /\ e + 31 - x \in u[i])
      BY <2>q
    <3>3. CASE x < e
      <4>1. x - e \notin CRC32
        BY <2>2, <3>3 DEF CRC32
      <4>2. x < e + 33 /\ x < e + 32 /\ ~(x >= e + 1) /\ ~(x >= e)
        BY <2>2, <3>3
      <4> QED BY <2>1, <3>1, <3>2, <4>1, <4>2
    <3>4. CASE x >= e /\ x < e + 32
      <4> DEFINE b == e + 31 - x
      <4>1. /\ b \in 0..31 /\ x - e = 31 - b /\ e + 32 - x = b + 1
            /\ x < e + 33 /\ (x >= e + 1 <=> b # 31)
        BY <2>2, <3>4
      <4>2. x \in r <=> ~(n + 31 - x \in reg <=> b + 1 \in c)
        <5>1. x \in r <=> ~(n + 31 - x \in reg <=> b # 31 /\ b + 1 \in c)
          BY <2>1, <4>1
        <5>2. b = 31 => b + 1 \notin c
          BY <2>3 DEF Reg32
        <5> QED BY <5>1, <5>2
      <4>3. b \in u[i] <=> IF ~(0 \in c <=> i - 1 \in reg) /\ b \in Reversed
                           THEN b + 1 \notin c ELSE b + 1 \in c
        <5> HIDE DEF b
        <5>1. b \in Feed(c, reg, i - 1) <=>
                 IF ~(0 \in c <=> i - 1 \in reg) /\ b \in Reversed THEN b + 1 \notin c
                                                                   ELSE b + 1 \in c
          BY <2>3, <4>1, FeedMember
        <5> QED BY <2>3, <5>1
      <4>4. x - e \in CRC32 <=> b \in Reversed
        <5> HIDE DEF b
        <5>1. 31 - b \in CRC32 <=> b \in Reversed
          BY <1>0, <4>1
        <5> QED BY <4>1, <5>1
      <4>5. Left(x, i) <=> ~(n + 31 - x \in reg <=> b \in u[i])
        BY <3>2, <3>4
      <4> HIDE DEF b
      <4>6. x \in D[i] <=> IF ~(0 \in c <=> i - 1 \in reg) /\ b \in Reversed
                           THEN x \notin r ELSE x \in r
        BY <2>4, <3>1, <4>4
      <4> QED BY <4>2, <4>3, <4>5, <4>6
    <3>5. CASE x = e + 32
      <4>1. x - e = 32 /\ 32 \in CRC32 /\ ~(x < e + 32)
        BY <2>2, <3>5 DEF CRC32
      <4> QED BY <3>1, <3>2, <3>5, <4>1
    <3>6. CASE x > e + 32
      <4>1. x - e \notin CRC32 /\ ~(x < e + 32) /\ ~(x < e + 33)
        BY <2>2, <3>6 DEF CRC32
      <4> QED BY <2>1, <3>1, <3>2, <4>1
    <3>7. x < e \/ (x >= e /\ x < e + 32) \/ x = e + 32 \/ x > e + 32
      BY <2>2
    <3> QED BY <3>3, <3>4, <3>5, <3>6, <3>7
  <2> QED BY <2>5
<1>6. \A i \in 0..n : i \in S
  <2> HIDE DEF S
  <2> QED BY <1>4, <1>5, Induct
<1>7. D[n] \in SUBSET (0..(n + 32))
      /\ \A x \in 0..(n + 32) : x \in D[n] <=> Left(x, n)
  <2>1. n \in S /\ n \in 0..n
    BY <1>6
  <2> QED BY <1>2, <2>1
<1>8. ASSUME NEW x \in 0..(n + 32)
      PROVE  Left(x, n) <=> x < 32 /\ ~(n + (31 - x) \in reg <=> 31 - x \in u[n])
  <2>1. n - n + 32 = 32 /\ n - n = 0 /\ x >= 0 /\ n - n + 31 - x = 31 - x
        /\ n + 31 - x = n + (31 - x)
    OBVIOUS
  <2> QED BY <2>1
<1> HIDE DEF Left
<1>9. D[n] = {} <=> \A x \in 0..31 : n + (31 - x) \in reg <=> 31 - x \in u[n]
  <2>1. \A x \in 0..(n + 32) : x < 32 <=> x \in 0..31
    OBVIOUS
  <2>2. \A x \in 0..31 : x \in 0..(n + 32)
    OBVIOUS
  <2> QED BY <1>7, <1>8, <2>1, <2>2
<1>10. (\A x \in 0..31 : n + (31 - x) \in reg <=> 31 - x \in u[n])
         <=> \A b \in 0..31 : b \in u[n] <=> n + b \in reg
  <2>1. \A x \in 0..31 : 31 - x \in 0..31 /\ 31 - (31 - x) = x
    OBVIOUS
  <2> QED BY <2>1
<1> QED
  BY <1>9, <1>10 DEF D, p

\* Eight turns that take the bits of d are one step of crc32_byte.
LEMMA FeedByte ==
    ASSUME NEW n \in Nat, NEW reg, NEW u \in Fed(reg, n), NEW i \in Nat, i + 8 <= n,
           NEW d \in SUBSET (0..7), \A j \in 0..7 : i + j \in reg <=> j \in d
    PROVE  u[i + 8] = Byte32(Plus(u[i], d))
<1> DEFINE rest(j) == {b \in 0..7 : b + j \in d}
           w(j) == Plus(u[i + j], rest(j))
<1>1. /\ \A j \in 0..8 : u[i + j] \in Reg32
      /\ \A j \in 0..7 : u[i + (j + 1)] = Feed(u[i + j], reg, i + j)
  <2>1. u \in [0..n -> Reg32] /\ \A k \in 1..n : u[k] = Feed(u[k - 1], reg, k - 1)
    BY DEF Fed
  <2>2. \A j \in 0..8 : i + j \in 0..n
    OBVIOUS
  <2>3. \A j \in 0..7 : i + (j + 1) \in 1..n /\ (i + (j + 1)) - 1 = i + j
    OBVIOUS
  <2> QED BY <2>1, <2>2, <2>3
<1>2. \A j \in 0..8 : rest(j) \in Reg32
  BY DEF Reg32
<1>3. \A j \in 0..8 : w(j) \in Reg32
  <2> HIDE DEF rest
  <2> QED BY <1>1, <1>2, PlusReg32
<1>4. \A j \in 0..8, b \in 0..31 : b \in rest(j) <=> b + j \in d
  OBVIOUS
<1> HIDE DEF rest
<1>5. ASSUME NEW j \in 0..7 PROVE Halve(w(j)) = w(j + 1)
  <2> DEFINE c == u[i + j]
  <2>1. c \in Reg32 /\ u[i + (j + 1)] = Feed(c, reg, i + j) /\ j + 1 \in 0..8
    BY <1>1
  <2>2. \A b \in 0..31 : b \in u[i + (j + 1)] <=>
           IF ~(0 \in c <=> i + j \in reg) /\ b \in Reversed THEN b + 1 \notin c
                                                             ELSE b + 1 \in c
    <3> HIDE DEF c
    <3>1. \A b \in 0..31 : b \in Feed(c, reg, i + j) <=>
             IF ~(0 \in c <=> i + j \in reg) /\ b \in Reversed THEN b + 1 \notin c
                                                               ELSE b + 1 \in c
      BY <2>1, FeedMember
    <3> QED BY <2>1, <3>1
  <2>3. i + j \in reg <=> 0 \in rest(j)
    BY <1>4
  <2>4. \A b \in 0..31 : b \in w(j) <=> ~(b \in c <=> b \in rest(j))
    BY PlusMember
  <2>5. \A b \in 0..31 : b \in w(j + 1) <=> ~(b \in u[i + (j + 1)] <=> b \in rest(j + 1))
    BY PlusMember
  <2>6. w(j) \in Reg32 /\ w(j + 1) \in Reg32 /\ Halve(w(j)) \in Reg32
    <3> HIDE DEF w
    <3> QED BY <1>3, <2>1, HalveType
  <2>7. \A b \in 0..31 : b \in Halve(w(j)) <=>
           IF 0 \in w(j) /\ b \in Reversed THEN b + 1 \notin w(j) ELSE b + 1 \in w(j)
    <3> HIDE DEF w
    <3> QED BY <2>6, HalveMember
  <2>8. ASSUME NEW b \in 0..31 PROVE b \in Halve(w(j)) <=> b \in w(j + 1)
    <3>1. b + 1 \in w(j) <=> ~(b + 1 \in c <=> b \in rest(j + 1))
      <4>1. CASE b = 31
        <5>1. b + 1 \notin w(j) /\ b + 1 \notin c
          BY <2>1, <2>6, <4>1 DEF Reg32
        <5>2. b + (j + 1) \notin d
          BY <4>1
        <5> QED BY <1>4, <2>1, <5>1, <5>2
      <4>2. CASE b # 31
        <5>1. b + 1 \in 0..31 /\ (b + 1) + j = b + (j + 1)
          BY <4>2
        <5>2. b + 1 \in rest(j) <=> b \in rest(j + 1)
          BY <1>4, <2>1, <5>1
        <5> QED BY <2>4, <5>1, <5>2
      <4> QED BY <4>1, <4>2
    <3>2. 0 \in w(j) <=> ~(0 \in c <=> i + j \in reg)
      BY <2>3, <2>4
    <3> HIDE DEF w, c
    <3> QED BY <2>2, <2>5, <2>7, <3>1, <3>2
  <2> QED BY <2>6, <2>8 DEF Reg32
<1>6. rest(8) = {} /\ rest(0) = d
  <2>1. \A b \in 0..7 : b + 8 \notin d /\ b + 0 = b
    OBVIOUS
  <2>2. rest(8) = {}
    BY <2>1 DEF rest
  <2>3. \A b \in 0..31 : b \in rest(0) <=> b \in d
    <3>1. \A b \in 0..31 : b + 0 = b
      OBVIOUS
    <3> QED BY <1>4, <3>1
  <2>4. rest(0) \in Reg32 /\ d \in Reg32
    BY <1>2 DEF Reg32
  <2>5. rest(0) = d
    BY <2>3, <2>4 DEF Reg32
  <2> QED BY <2>2, <2>5
<1>7. w(0) = Plus(u[i], d) /\ w(8) = u[i + 8]
  <2>1. i + 0 = i
    OBVIOUS
  <2>2. w(8) = Plus(u[i + 8], {})
    BY <1>6
  <2>3. Plus(u[i + 8], {}) = u[i + 8]
    BY DEF Plus
  <2> QED BY <1>6, <2>1, <2>2, <2>3
<1> HIDE DEF w
<1>8. /\ w(1) = Halve(w(0)) /\ w(2) = Halve(w(1)) /\ w(3) = Halve(w(2)) /\ w(4) = Halve(w(3))
      /\ w(5) = Halve(w(4)) /\ w(6) = Halve(w(5)) /\ w(7) = Halve(w(6)) /\ w(8) = Halve(w(7))
  <2>1. /\ 0 + 1 = 1 /\ 1 + 1 = 2 /\ 2 + 1 = 3 /\ 3 + 1 = 4
        /\ 4 + 1 = 5 /\ 5 + 1 = 6 /\ 6 + 1 = 7 /\ 7 + 1 = 8
    OBVIOUS
  <2>2. /\ Halve(w(0)) = w(0 + 1) /\ Halve(w(1)) = w(1 + 1) /\ Halve(w(2)) = w(2 + 1)
        /\ Halve(w(3)) = w(3 + 1) /\ Halve(w(4)) = w(4 + 1) /\ Halve(w(5)) = w(5 + 1)
        /\ Halve(w(6)) = w(6 + 1) /\ Halve(w(7)) = w(7 + 1)
    <3>1. /\ 0 \in 0..7 /\ 1 \in 0..7 /\ 2 \in 0..7 /\ 3 \in 0..7
          /\ 4 \in 0..7 /\ 5 \in 0..7 /\ 6 \in 0..7 /\ 7 \in 0..7
      OBVIOUS
    <3> QED BY <3>1, <1>5
  <2> QED BY <2>1, <2>2
<1> QED
  BY <1>7, <1>8 DEF Byte32

\* The bits of a file, a byte after the other.
LEMMA RegisterByte ==
    ASSUME NEW s \in Seq(Byte), NEW k \in 1..Len(s), NEW j \in 0..7
    PROVE  8 * (k - 1) + j \in Register(s) <=> j \in Bits(s[k])
<1> DEFINE i == 8 * (k - 1) + j
<1>1. i \in 0..(8 * Len(s) - 1) /\ i % 8 = j /\ (i \div 8) + 1 = k
  <2>1. Len(s) \in Nat
    OBVIOUS
  <2> QED BY <2>1
<1>2. i \in Register(s) <=> i \in 0..(8 * Len(s) - 1) /\ i % 8 \in Bits(s[(i \div 8) + 1])
  BY DEF Register
<1> HIDE DEF i
<1>3. i \in Register(s) <=> j \in Bits(s[k])
  BY <1>1, <1>2
<1> QED
  BY <1>3 DEF i

\* crc32_byte has the same registers after every byte.
LEMMA FedCrcs ==
    ASSUME NEW s \in Seq(Byte), NEW m \in 0..Len(s), NEW u \in Fed(Register(s), 8 * m)
    PROVE  u[8 * m] = Crcs(s)[m]
<1> DEFINE reg == Register(s)
           n == 8 * m
           S == {k \in 0..m : u[8 * k] = Crcs(s)[k]}
<1>0. Len(s) \in Nat /\ m \in Nat /\ m <= Len(s) /\ n \in Nat
  OBVIOUS
<1>1. 0 \in S
  <2>1. u[0] = Crcs(s)[0]
    BY CrcsDef DEF Fed
  <2>2. 8 * 0 = 0 /\ 0 \in 0..m
    BY <1>0
  <2> QED BY <2>1, <2>2
<1>2. ASSUME NEW k \in 1..m, k - 1 \in S PROVE k \in S
  <2> DEFINE i == 8 * (k - 1)
             d == Bits(s[k])
  <2>1. /\ i \in Nat /\ i + 8 <= n /\ i + 8 = 8 * k /\ k \in 1..Len(s)
    BY <1>0
  <2>2. d \in SUBSET (0..7)
    BY DEF Bits
  <2>3. \A j \in 0..7 : i + j \in reg <=> j \in d
    BY <2>1, RegisterByte
  <2>4. u[i] = Crcs(s)[k - 1]
    BY <1>2
  <2> HIDE DEF i, d, reg, n
  <2>5. u \in Fed(reg, n)
    BY DEF reg, n
  <2>6. u[i + 8] = Byte32(Plus(u[i], d))
    <3>1. i \in Nat /\ i + 8 <= n /\ n \in Nat
      BY <1>0, <2>1 DEF n
    <3> QED BY <3>1, <2>2, <2>3, <2>5, FeedByte, SMTT(30)
  <2>7. Crcs(s)[k] = Byte32(Plus(Crcs(s)[k - 1], d))
    BY <2>1, CrcsStep DEF d
  <2>8. u[8 * k] = Crcs(s)[k]
    BY <2>1, <2>4, <2>6, <2>7
  <2> QED BY <2>8
<1>3. \A k \in 0..m : k \in S
  <2> HIDE DEF S
  <2> QED BY <1>0, <1>1, <1>2, Induct
<1> QED
  BY <1>0, <1>3

\* A file whose CRC is right is a multiple of the polynomial.
LEMMA FileDivides ==
    ASSUME NEW s \in Seq(Byte), Len(s) >= 4,
           Crc32(SubSeq(s, 1, Len(s) - 4)) = Register(SubSeq(s, Len(s) - 3, Len(s)))
    PROVE  Remainder(Plus(LowFirst(s), (8 * Len(s) - 32)..(8 * Len(s) - 1)),
                     Len(s) - 4, CRC32) = {}
<1> DEFINE m == Len(s) - 4
           n == 8 * m
           reg == Register(s)
           t == SubSeq(s, 1, m)
<1>1. /\ Len(s) \in Nat /\ m \in Nat /\ n \in Nat /\ m \in 0..Len(s)
      /\ n = 8 * Len(s) - 32 /\ n + 31 = 8 * Len(s) - 1
  OBVIOUS
<1>2. reg \in SUBSET (0..(n + 31))
  BY <1>1 DEF Register
<1>3. LowFirst(s) = {n + 31 - i : i \in reg}
  <2> DEFINE G == {n + 31 - i : i \in reg}
             L == {8 * Len(s) - 1 - i : i \in reg}
  <2>1. \A i \in reg : 8 * Len(s) - 1 - i = n + 31 - i
    BY <1>1, <1>2
  <2> HIDE DEF n, reg
  <2>2. \A x \in L : x \in G
    BY <2>1
  <2>3. \A x \in G : x \in L
    BY <2>1
  <2> HIDE DEF G, L
  <2>4. L = G
    BY <2>2, <2>3
  <2> QED BY <2>4 DEF LowFirst, L, G, reg
<1>4. t \in Seq(Byte) /\ Len(t) = m /\ \A i \in 1..m : t[i] = s[i]
  <2>1. \A i \in 1..m : s[i] \in Byte
    BY <1>1
  <2>2. t = [i \in 1..m |-> s[i]]
    BY <1>1
  <2> HIDE DEF t, m
  <2> QED BY <1>1, <2>1, <2>2
<1> HIDE DEF t
<1>5. Crc32(t) = Crcs(s)[m]
  <2>1. \A i \in 0..m : Crcs(t)[i] = Crcs(s)[i]
    <3> HIDE DEF m
    <3> QED BY <1>1, <1>4, CrcsSame
  <2>2. m \in 0..m
    BY <1>1
  <2> QED BY <2>1, <2>2, <1>4 DEF Crc32
<1>6. Crcs(s)[m] = Register(SubSeq(s, Len(s) - 3, Len(s)))
  BY <1>5 DEF t
<1>7. ASSUME NEW b \in 0..31 PROVE b \in Crcs(s)[m] <=> n + b \in reg
  <2> DEFINE e == LastBits(s)
             k == b \div 8
             j == b % 8
  <2>1. k \in 0..3 /\ j \in 0..7 /\ b = 8 * k + j /\ b + 8 * 0 < 32 /\ 0 + k = k
    OBVIOUS
  <2>2. b \in Rest(e, 0) <=> b + 8 * 0 < 32 /\ j \in e[0 + k]
    BY DEF Rest
  <2>3. e[k] = Bits(s[Len(s) - 3 + k])
    BY <2>1 DEF LastBits
  <2> HIDE DEF k, j, e
  <2>4. /\ Len(s) - 3 + k \in 1..Len(s) /\ n + b = 8 * ((Len(s) - 3 + k) - 1) + j
    BY <1>1, <2>1
  <2>5. n + b \in reg <=> j \in Bits(s[Len(s) - 3 + k])
    <3> DEFINE i == Len(s) - 3 + k
    <3> HIDE DEF i
    <3>1. i \in 1..Len(s) /\ n + b = 8 * (i - 1) + j
      BY <2>4 DEF i
    <3>2. 8 * (i - 1) + j \in Register(s) <=> j \in Bits(s[i])
      BY <2>1, <3>1, RegisterByte
    <3> QED BY <3>1, <3>2 DEF i
  <2>6. Register(SubSeq(s, Len(s) - 3, Len(s))) = Rest(e, 0)
    BY LastFour DEF e
  <2> QED BY <1>6, <2>1, <2>2, <2>3, <2>5, <2>6
<1>8. PICK u : u \in Fed(reg, n)
  BY <1>1, FedExists
<1>9. u[n] = Crcs(s)[m]
  <2> HIDE DEF m
  <2> QED BY <1>1, <1>8, FedCrcs
<1> HIDE DEF n, reg
<1>n. n = 8 * m
  BY DEF n
<1> HIDE DEF m
<1>10. \A b \in 0..31 : b \in u[n] <=> n + b \in reg
  BY <1>7, <1>9
<1>d. LongDivision(Plus({n + 31 - i : i \in reg}, n..(n + 31)), n, CRC32)[n] = {}
  <2>1. LongDivision(Plus({n + 31 - i : i \in reg}, n..(n + 31)), n, CRC32)[n] = {}
          <=> \A b \in 0..31 : b \in u[n] <=> n + b \in reg
    BY <1>1, <1>2, <1>8, FeedDivides, ZenonT(30)
  <2> QED BY <1>10, <2>1, Zenon
<1> DEFINE p == Plus({n + 31 - i : i \in reg}, n..(n + 31))
<1>11. LongDivision(p, n, CRC32)[n] = {}
  BY <1>d, Zenon
<1>12. p \in SUBSET (0..(n + 32))
  <2> DEFINE S == {n + 31 - i : i \in reg}
             T == n..(n + 31)
             A == 0..(n + 32)
  <2>1. S \in SUBSET A /\ T \in SUBSET A
    <3>1. \A i \in reg : n + 31 - i \in 0..(n + 32)
      BY <1>1, <1>2
    <3> QED BY <1>1, <3>1
  <2> HIDE DEF S, T, A
  <2>2. Plus(S, T) \in SUBSET A
    BY <2>1, PlusType, ZenonT(30)
  <2> QED BY <2>2 DEF S, T, A
<1> HIDE DEF p
<1>13. Remainder(p, m, CRC32) = {}
  <2> DEFINE g == CRC32
             d == 32
  <2>1. /\ Degree(g) = d /\ (\A k \in g : k \in 0..d) /\ d \in Nat
        /\ p \in SUBSET (0..(8 * m + d)) /\ LongDivision(p, 8 * m, g)[8 * m] = {}
    BY <1>n, <1>11, <1>12, Degrees
  <2> HIDE DEF g, d
  <2>2. Remainder(p, m, g) = {}
    BY <1>1, <2>1, RemainderIsLast
  <2> QED BY <2>2 DEF g
<1>14. m = Len(s) - 4
  BY DEF m
<1> QED
  BY <1>1, <1>3, <1>13, <1>14 DEF p

-----------------------------------------------------------------------------
(* All of it.                                                              *)

\* crc_xmodem and crc32_byte divide by the polynomials they are named for.
LEMMA ChecksumsHold == IInv => ChecksumsDivide
<1> SUFFICES ASSUME IInv, bytes = original
             PROVE  /\ medium = "packet" =>
                         LET s == SubSeq(bytes, 3, Len(bytes))
                         IN  Remainder(HighFirst(s), Len(s), CCITT) = {}
                    /\ medium = "file" /\ source.suffixed =>
                         LET n == 8 * Len(bytes)
                         IN  Remainder(Plus(LowFirst(bytes), (n - 32)..(n - 1)), Len(bytes) - 4, CRC32) = {}
  BY DEF ChecksumsDivide
<1>1. CASE medium = "packet"
  <2>1. PacketWritten
    BY <1>1 DEF IInv, NothingWritten, FileWritten
  <2>2. bytes \in Seq(Byte) /\ Len(bytes) >= 4 /\ CrcOK(bytes)
    BY <2>1, PacketTypes
  <2>3. LET s == SubSeq(bytes, 3, Len(bytes))
        IN  Remainder(HighFirst(s), Len(s), CCITT) = {}
    BY <2>2, PacketDivides
  <2> QED BY <1>1, <2>3
<1>2. CASE medium = "file" /\ source.suffixed
  <2>1. FileWritten
    BY <1>2 DEF IInv, NothingWritten, PacketWritten
  <2>2. PICK image \in Images, type \in PrefixTypes, n \in Lengths \cup {16} :
          original = AddSuffix(Front(image, type), SomeIds, n)
    BY <1>2, <2>1 DEF FileWritten, WrittenFile
  <2> DEFINE f == Front(image, type)
             r == AddSuffix(f, SomeIds, n)
  <2>3. f \in Seq(Byte) /\ n \in Byte
    BY FrontBytes, LengthsType
  <2>4. bytes = r
    BY <2>2
  <2> HIDE DEF f
  <2>5. /\ r \in Seq(Byte) /\ Len(r) = Len(f) + 16
        /\ Crc32(SubSeq(r, 1, Len(r) - 4)) = Register(SubSeq(r, Len(r) - 3, Len(r)))
    BY <2>3, SuffixBytes
  <2> HIDE DEF r
  <2>6. Len(r) >= 4
    BY <2>3, <2>5
  <2>7. Remainder(Plus(LowFirst(r), (8 * Len(r) - 32)..(8 * Len(r) - 1)),
                  Len(r) - 4, CRC32) = {}
    BY <2>5, <2>6, FileDivides
  <2> QED BY <1>2, <2>4, <2>7
<1> QED
  BY <1>1, <1>2

-----------------------------------------------------------------------------
(* What the runs check, for every value of the constants.                  *)

\* Types: a byte is a byte, and what dfu_load_file says is to be downloaded is no longer
\* than the file, whatever has happened to it.
THEOREM TypeCorrect == Spec => []TypeOK
  BY InvariantIInv, TypesHold, PTL

\* crc_xmodem divides by x^16+x^12+x^5+1, and the table, crc32_byte and what surrounds
\* them by the polynomial of CRC-32, for files and payloads of any length: their registers
\* are the remainders of the long division.
THEOREM ChecksumsCorrect == Spec => []ChecksumsDivide
  BY InvariantIInv, ChecksumsHold, PTL

\* xmodem_read_pkt notices a burst of errors of up to 16 bits and two errors anywhere
\* within PairSpan bytes, for payloads of any length, but for the same bits of seq_no and of
\* ~seq_no.
THEOREM LineDamageIsNoticed == Spec => []LineDamageNoticed
  BY InvariantIInv, LineHolds, PTL

\* What dfu_store_file has written dfu_load_file reads back: the firmware, the numbers, the
\* type and the address, for every firmware that does not look like a prefix.
THEOREM StoredFilesLoad == Spec => []StoredIsLoaded
  BY InvariantIInv, StoredHolds, PTL

\* dfu_load_file takes no suffix for one in a file that has been cut short anywhere, or
\* damaged by a burst of up to 25 bits, for firmwares of any length that do not have "UFD".
THEOREM FileDamageIsNoticed == Spec => []FileDamageNoticed
  BY InvariantIInv, FileHolds, PTL
=============================================================================
