------------------------ MODULE XmodemDialogueTypes -------------------------
(***************************************************************************)
(* What is on the line in XmodemDialogue: the order of what was written,   *)
(* which reading, noise and cuts preserve, and what each end can make of   *)
(* it.  With it, the type invariant, for every value of the constants.     *)
(***************************************************************************)
EXTENDS XmodemDialogue, SequenceTheorems, TLAPS

-----------------------------------------------------------------------------
(* Lines, and what may be said of their order.                             *)

\* A packet, whole or not, and what is left of one that was read in part.
PacketKinds == {"SOH", "bad", "short", "tail"}
\* What a transmitter puts on the line.
SentKinds   == PacketKinds \cup {"EOT"}
\* Everything that can be on the line.
Kinds       == SentKinds \cup {"junk", "C", "ACK", "NAK", "CAN"}

\* A token: a package for every packet that may be stored, and for one that is not all
\* there how many bytes are left or are not.
LineToken ==
    {t \in [kind : Kinds, seq : 0..255, data : Nat, pkg : Nat] :
        /\ t.kind = "SOH" => t.pkg \in Packages
        /\ t.kind \in {"tail", "short"} => t.data \in 1..(PacketBytes - 1)}
Line      == Seq(LineToken)

\* Nothing on the line is of K.
Free(line, K) == \A i \in 1..Len(line) : line[i].kind \notin K

\* Nothing of L comes after something of K.
NoneAfter(line, K, L) ==
    \A i, j \in 1..Len(line) :
        i < j /\ line[i].kind \in K => line[j].kind \notin L

\* Nothing of L comes after something of M that comes after something of K.
NoneBetween(line, K, M, L) ==
    \A i, j, k \in 1..Len(line) :
        i < j /\ j < k /\ line[i].kind \in K /\ line[j].kind \in M
            => line[k].kind \notin L

\* Every packet that may be stored is of package p.
OfPackage(line, p) == \A i \in 1..Len(line) : line[i].kind = "SOH" => line[i].pkg = p

\* t is what reading in part, noise or a cut can leave of u.
Demoted(t, u) ==
    \/ t = u
    \/ t.kind = "junk" /\ u.kind \notin PacketKinds
    \/ t.kind = "tail" /\ u.kind \in PacketKinds
    \/ t.kind \in {"bad", "short"} /\ u.kind = "SOH"

\* A line that was read from, disturbed or cut: one token less or none, and each of
\* the others as it was or demoted.
Reduced(new, old) ==
    \E d \in {0, 1} :
        /\ Len(new) = Len(old) - d
        /\ \A i \in 1..Len(new) : Demoted(new[i], old[i + d])

\* Nothing is demoted into K from outside.
Closed(K) == \A t, u \in LineToken : Demoted(t, u) /\ t.kind \in K => u.kind \in K

\* The sets of kinds that the invariant speaks of are closed.
LEMMA KindsClosed ==
    /\ Closed(SentKinds) /\ Closed(PacketKinds) /\ Closed(Kinds)
    /\ Closed({"C"}) /\ Closed({"ACK"}) /\ Closed({"EOT"}) /\ Closed({"SOH"})
    /\ Closed({"C"} \cup PacketKinds)
    /\ Closed(SentKinds \ {"tail"}) /\ Closed(Kinds \ {"tail"})
<1>1. \A t \in LineToken : t.kind \in Kinds
  BY DEF LineToken
<1>. QED
  BY <1>1 DEF Closed, Demoted, SentKinds, PacketKinds, Kinds

\* What is not on a line does not come onto it by reading, noise or a cut; the same
\* for the orders on it and for its package, in the four lemmas that follow.
LEMMA FreeReduced ==
    ASSUME NEW old \in Line, NEW new \in Line, NEW K,
           Reduced(new, old), Closed(K), Free(old, K)
    PROVE  Free(new, K)
<1>1. PICK d \in {0, 1} : /\ Len(new) = Len(old) - d
                          /\ \A i \in 1..Len(new) : Demoted(new[i], old[i + d])
  BY DEF Reduced
<1>2. ASSUME NEW i \in 1..Len(new)
      PROVE  new[i].kind \notin K
  <2>1. i + d \in 1..Len(old) /\ Len(old) \in Nat /\ Len(new) \in Nat
    BY <1>1 DEF Line
  <2>2. new[i] \in LineToken /\ old[i + d] \in LineToken
    BY <2>1 DEF Line
  <2>. QED
    BY <1>1, <2>1, <2>2 DEF Closed, Free
<1>. QED
  BY <1>2 DEF Free

LEMMA AfterReduced ==
    ASSUME NEW old \in Line, NEW new \in Line, NEW K, NEW L,
           Reduced(new, old), Closed(K), Closed(L), NoneAfter(old, K, L)
    PROVE  NoneAfter(new, K, L)
<1>1. PICK d \in {0, 1} : /\ Len(new) = Len(old) - d
                          /\ \A i \in 1..Len(new) : Demoted(new[i], old[i + d])
  BY DEF Reduced
<1>2. \A i \in 1..Len(new) : /\ i + d \in 1..Len(old)
                             /\ new[i] \in LineToken /\ old[i + d] \in LineToken
  BY <1>1 DEF Line
<1>3. ASSUME NEW i \in 1..Len(new), NEW j \in 1..Len(new), i < j, new[i].kind \in K
      PROVE  new[j].kind \notin L
  <2>1. i + d < j + d
    BY <1>3, <1>1 DEF Line
  <2>2. old[i + d].kind \in K
    BY <1>1, <1>2, <1>3 DEF Closed
  <2>3. old[j + d].kind \notin L
    BY <1>2, <2>1, <2>2 DEF NoneAfter
  <2>. QED
    BY <1>1, <1>2, <2>3 DEF Closed
<1>. QED
  BY <1>3 DEF NoneAfter

LEMMA BetweenReduced ==
    ASSUME NEW old \in Line, NEW new \in Line, NEW K, NEW M, NEW L,
           Reduced(new, old), Closed(K), Closed(M), Closed(L),
           NoneBetween(old, K, M, L)
    PROVE  NoneBetween(new, K, M, L)
<1>1. PICK d \in {0, 1} : /\ Len(new) = Len(old) - d
                          /\ \A i \in 1..Len(new) : Demoted(new[i], old[i + d])
  BY DEF Reduced
<1>2. \A i \in 1..Len(new) : /\ i + d \in 1..Len(old)
                             /\ new[i] \in LineToken /\ old[i + d] \in LineToken
  BY <1>1 DEF Line
<1>3. ASSUME NEW i \in 1..Len(new), NEW j \in 1..Len(new), NEW k \in 1..Len(new),
             i < j, j < k, new[i].kind \in K, new[j].kind \in M
      PROVE  new[k].kind \notin L
  <2>1. i + d < j + d /\ j + d < k + d
    BY <1>3, <1>1 DEF Line
  <2>2. old[i + d].kind \in K
    BY <1>1, <1>2, <1>3 DEF Closed
  <2>3. old[j + d].kind \in M
    BY <1>1, <1>2, <1>3 DEF Closed
  <2>4. old[k + d].kind \notin L
    BY <1>2, <2>1, <2>2, <2>3 DEF NoneBetween
  <2>. QED
    BY <1>1, <1>2, <2>4 DEF Closed
<1>. QED
  BY <1>3 DEF NoneBetween

LEMMA PackageReduced ==
    ASSUME NEW old \in Line, NEW new \in Line, NEW p,
           Reduced(new, old), OfPackage(old, p)
    PROVE  OfPackage(new, p)
<1>1. PICK d \in {0, 1} : /\ Len(new) = Len(old) - d
                          /\ \A i \in 1..Len(new) : Demoted(new[i], old[i + d])
  BY DEF Reduced
<1>2. \A i \in 1..Len(new) : i + d \in 1..Len(old)
  BY <1>1 DEF Line
<1>. QED
  BY <1>1, <1>2 DEF OfPackage, Demoted, PacketKinds

\* Writing a token puts it at the end.
LEMMA AppendLine ==
    ASSUME NEW line \in Line, NEW t \in LineToken
    PROVE  /\ Append(line, t) \in Line
           /\ Len(Append(line, t)) = Len(line) + 1
           /\ Append(line, t) # <<>>
           /\ \A i \in 1..Len(line) : Append(line, t)[i] = line[i]
           /\ Append(line, t)[Len(line) + 1] = t
BY DEF Line

\* What writing a token does to each of the orders.
LEMMA FreeAppend ==
    ASSUME NEW line \in Line, NEW t \in LineToken, NEW K, Free(line, K), t.kind \notin K
    PROVE  Free(Append(line, t), K)
<1>1. \A i \in 1..(Len(line) + 1) : i \in 1..Len(line) \/ i = Len(line) + 1
  BY DEF Line
<1>. QED
  BY <1>1, AppendLine DEF Free

LEMMA AfterAppend ==
    ASSUME NEW line \in Line, NEW t \in LineToken, NEW K, NEW L, NoneAfter(line, K, L),
           Free(line, K) \/ t.kind \notin L
    PROVE  NoneAfter(Append(line, t), K, L)
<1>1. \A i \in 1..(Len(line) + 1) : i \in 1..Len(line) \/ i = Len(line) + 1
  BY DEF Line
<1>2. \A i, j \in 1..(Len(line) + 1) : i < j => i \in 1..Len(line)
  BY DEF Line
<1>. QED
  BY <1>1, <1>2, AppendLine DEF NoneAfter, Free

LEMMA BetweenAppend ==
    ASSUME NEW line \in Line, NEW t \in LineToken, NEW K, NEW M, NEW L,
           NoneBetween(line, K, M, L), NoneAfter(line, K, M) \/ t.kind \notin L
    PROVE  NoneBetween(Append(line, t), K, M, L)
<1>1. \A i \in 1..(Len(line) + 1) : i \in 1..Len(line) \/ i = Len(line) + 1
  BY DEF Line
<1>2. \A i, j \in 1..(Len(line) + 1) : i < j => i \in 1..Len(line)
  BY DEF Line
<1>. QED
  BY <1>1, <1>2, AppendLine DEF NoneBetween, NoneAfter

LEMMA PackageAppend ==
    ASSUME NEW line \in Line, NEW t \in LineToken, NEW p, OfPackage(line, p),
           t.kind = "SOH" => t.pkg = p
    PROVE  OfPackage(Append(line, t), p)
<1>1. \A i \in 1..(Len(line) + 1) : i \in 1..Len(line) \/ i = Len(line) + 1
  BY DEF Line
<1>. QED
  BY <1>1, AppendLine DEF OfPackage

\* Reading a token takes it from the front.
LEMMA HeadTail ==
    ASSUME NEW line \in Line, line # <<>>
    PROVE  /\ Head(line) \in LineToken /\ Head(line) = line[1]
           /\ Tail(line) \in Line /\ Len(line) \in Nat \ {0}
           /\ Len(Tail(line)) = Len(line) - 1
           /\ \A i \in 1..Len(Tail(line)) : Tail(line)[i] = line[i + 1]
           /\ Reduced(Tail(line), line)
<1>1. /\ Head(line) \in LineToken /\ Head(line) = line[1]
      /\ Tail(line) \in Line /\ Len(line) \in Nat \ {0}
      /\ Len(Tail(line)) = Len(line) - 1
      /\ \A i \in 1..Len(Tail(line)) : Tail(line)[i] = line[i + 1]
  BY HeadTailProperties, EmptySeq, LenProperties DEF Line
<1>2. \A i \in 1..Len(Tail(line)) : Demoted(Tail(line)[i], line[i + 1])
  BY <1>1 DEF Demoted
<1>. QED
  BY <1>1, <1>2 DEF Reduced

\* Reading a part of a token leaves another in its place.
LEMMA HeadReplaced ==
    ASSUME NEW line \in Line, line # <<>>, NEW t \in LineToken
    PROVE  /\ <<t>> \o Tail(line) \in Line
           /\ Len(<<t>> \o Tail(line)) = Len(line)
           /\ (<<t>> \o Tail(line))[1] = t
           /\ \A i \in 2..Len(line) : (<<t>> \o Tail(line))[i] = line[i]
           /\ Demoted(t, Head(line)) => Reduced(<<t>> \o Tail(line), line)
<1>1. /\ <<t>> \in Line /\ Len(<<t>>) = 1 /\ <<t>>[1] = t
  BY DEF Line
<1>2. /\ <<t>> \o Tail(line) \in Line
      /\ Len(<<t>> \o Tail(line)) = Len(line)
      /\ (<<t>> \o Tail(line))[1] = t
      /\ \A i \in 2..Len(line) : (<<t>> \o Tail(line))[i] = line[i]
  <2>1. \A i \in 2..Len(line) : i - 1 \in 1..Len(Tail(line)) /\ i = i - 1 + 1
    BY HeadTail
  <2>. QED
    BY <1>1, <2>1, HeadTail, ConcatProperties DEF Line
<1>3. \A i \in 1..Len(line) : i = 1 \/ i \in 2..Len(line)
  BY HeadTail
<1>4. Demoted(t, Head(line))
        => \A i \in 1..Len(line) : Demoted((<<t>> \o Tail(line))[i], line[i])
  BY <1>2, <1>3, HeadTail DEF Demoted
<1>5. (\A i \in 1..Len(line) : i + 0 = i) /\ Len(line) = Len(line) - 0
  BY HeadTail
<1>. QED
  BY <1>2, <1>4, <1>5 DEF Reduced

\* A line that is left alone counts as reduced.
LEMMA SelfReduced ==
    ASSUME NEW line \in Line
    PROVE  Reduced(line, line)
BY DEF Reduced, Demoted, Line

\* What the first token says of the rest of the line.
LEMMA FreeOfHead ==
    ASSUME NEW line \in Line, line # <<>>, NEW K, Free(line, K)
    PROVE  Head(line).kind \notin K
BY HeadTail DEF Free

LEMMA AfterHead ==
    ASSUME NEW line \in Line, line # <<>>, NEW K, NEW L,
           NoneAfter(line, K, L), Head(line).kind \in K
    PROVE  Free(Tail(line), L)
<1>1. \A i \in 1..Len(Tail(line)) : i + 1 \in 1..Len(line) /\ 1 < i + 1 /\ 1 \in 1..Len(line)
  BY HeadTail
<1>. QED
  BY <1>1, HeadTail DEF Free, NoneAfter

LEMMA BetweenHead ==
    ASSUME NEW line \in Line, line # <<>>, NEW K, NEW M, NEW L,
           NoneBetween(line, K, M, L), Head(line).kind \in K
    PROVE  NoneAfter(Tail(line), M, L)
<1>1. \A i \in 1..Len(Tail(line)) : i + 1 \in 1..Len(line) /\ 1 < i + 1 /\ 1 \in 1..Len(line)
  BY HeadTail
<1>2. \A i, j \in 1..Len(Tail(line)) : i < j => i + 1 < j + 1
  BY HeadTail
<1>. QED
  BY <1>1, <1>2, HeadTail DEF NoneAfter, NoneBetween

\* The empty line satisfies everything that is said of lines.
LEMMA EmptyLine ==
    /\ <<>> \in Line
    /\ \A K : Free(<<>>, K)
    /\ \A K, L : NoneAfter(<<>>, K, L)
    /\ \A K, M, L : NoneBetween(<<>>, K, M, L)
    /\ \A p : OfPackage(<<>>, p)
BY DEF Line, Free, NoneAfter, NoneBetween, OfPackage

\* All that the invariant says of the order on a line survives a reduction.
LEMMA LineReduced ==
    ASSUME NEW old \in Line, NEW new \in Line, Reduced(new, old)
    PROVE  /\ Free(old, SentKinds) => Free(new, SentKinds)
           /\ Free(old, PacketKinds) => Free(new, PacketKinds)
           /\ Free(old, {"EOT"}) => Free(new, {"EOT"})
           /\ Free(old, {"SOH"}) => Free(new, {"SOH"})
           /\ Free(old, {"C"}) => Free(new, {"C"})
           /\ Free(old, {"ACK"}) => Free(new, {"ACK"})
           /\ Free(old, {"C"} \cup PacketKinds) => Free(new, {"C"} \cup PacketKinds)
           /\ NoneAfter(old, {"EOT"}, PacketKinds) => NoneAfter(new, {"EOT"}, PacketKinds)
           /\ NoneAfter(old, SentKinds, {"C"}) => NoneAfter(new, SentKinds, {"C"})
           /\ NoneAfter(old, {"C"}, SentKinds) => NoneAfter(new, {"C"}, SentKinds)
           /\ NoneAfter(old, {"C"}, Kinds) => NoneAfter(new, {"C"}, Kinds)
           /\ NoneAfter(old, {"ACK"}, SentKinds) => NoneAfter(new, {"ACK"}, SentKinds)
           /\ Free(old, SentKinds \ {"tail"}) => Free(new, SentKinds \ {"tail"})
           /\ Free(old, Kinds \ {"tail"}) => Free(new, Kinds \ {"tail"})
           /\ NoneAfter(old, SentKinds \ {"tail"}, Kinds)
                => NoneAfter(new, SentKinds \ {"tail"}, Kinds)
           /\ NoneAfter(old, {"C"} \cup PacketKinds, {"ACK"})
                => NoneAfter(new, {"C"} \cup PacketKinds, {"ACK"})
           /\ NoneBetween(old, SentKinds, {"C"}, SentKinds)
                => NoneBetween(new, SentKinds, {"C"}, SentKinds)
           /\ NoneBetween(old, SentKinds, {"C"}, Kinds)
                => NoneBetween(new, SentKinds, {"C"}, Kinds)
           /\ Len(new) <= Len(old) /\ (old = <<>> => new = <<>>)
<1>1. \A K : Closed(K) /\ Free(old, K) => Free(new, K)
  BY FreeReduced
<1>2. \A K, L : Closed(K) /\ Closed(L) /\ NoneAfter(old, K, L) => NoneAfter(new, K, L)
  BY AfterReduced
<1>3. \A K, M, L : Closed(K) /\ Closed(M) /\ Closed(L) /\ NoneBetween(old, K, M, L)
                     => NoneBetween(new, K, M, L)
  BY BetweenReduced
<1>4. Len(new) \in Nat /\ Len(old) \in Nat /\ Len(new) <= Len(old)
  BY DEF Reduced, Line
<1>5. old = <<>> => new = <<>>
  BY <1>4, EmptySeq DEF Line
<1>. QED
  BY <1>1, <1>2, <1>3, <1>4, <1>5, KindsClosed

-----------------------------------------------------------------------------
(* What the two ends read.                                                 *)

\* A control byte is the same token whoever writes it.
LEMMA ByteToken ==
    ASSUME NEW k \in Kinds \ {"SOH", "tail", "short"}
    PROVE  /\ DevRecv!Byte(k) \in LineToken /\ DevRecv!Byte(k).kind = k
           /\ HostRecv!Byte(k) = DevRecv!Byte(k) /\ Byte(k) = DevRecv!Byte(k)
           /\ \A p : HostSend(p)!Byte(k) = DevRecv!Byte(k)
           /\ \A p : DevSend(p)!Byte(k) = DevRecv!Byte(k)
BY DEF DevRecv!Byte, HostRecv!Byte, Byte, HostSend!Byte, DevSend!Byte, LineToken

\* Every token has a byte, none more than a packet.
LEMMA TokenSize ==
    ASSUME NEW t \in LineToken
    PROVE  /\ Size(t) \in 1..PacketBytes
           /\ t.kind \in {"SOH", "bad"} => Size(t) = PacketBytes
           /\ t.kind \notin PacketKinds => Size(t) = 1
           /\ t.kind = "tail" => Size(t) = t.data
<1>1. PacketBytes \in Nat /\ PacketBytes >= 2
  BY DialogueAssumption
<1>2. CASE t.kind \in {"SOH", "bad"}
  BY <1>1, <1>2 DEF Size, PacketKinds
<1>3. CASE t.kind = "short"
  <2>1. t.data \in 1..(PacketBytes - 1)
    BY <1>3 DEF LineToken
  <2>2. Size(t) = PacketBytes - t.data
    BY <1>3 DEF Size
  <2>. QED
    BY <1>1, <1>3, <2>1, <2>2 DEF PacketKinds
<1>4. CASE t.kind = "tail"
  <2>1. t.data \in 1..(PacketBytes - 1) /\ Size(t) = t.data
    BY <1>4 DEF LineToken, Size
  <2>. QED
    BY <1>1, <1>4, <2>1 DEF PacketKinds
<1>5. CASE t.kind \notin PacketKinds
  BY <1>1, <1>5 DEF Size, PacketKinds
<1>. QED
  BY <1>2, <1>3, <1>4, <1>5 DEF PacketKinds

\* What is left of a packet is nothing or a tail.
LEMMA LeftLine ==
    ASSUME NEW line \in Line, line # <<>>, NEW n \in 0..(Size(Head(line)) - 1)
    PROVE  /\ Left(Head(line), n) \o Tail(line) \in Line
           /\ Reduced(Left(Head(line), n) \o Tail(line), line)
           /\ \/ n = 0 /\ Left(Head(line), n) \o Tail(line) = Tail(line)
              \/ /\ Head(line).kind \in PacketKinds
                 /\ \E u \in LineToken : /\ u.kind = "tail"
                                         /\ Left(Head(line), n) \o Tail(line) = <<u>> \o Tail(line)
<1>. DEFINE t == Head(line)
            number == CASE n = Size(t) - 1 /\ t.kind \in {"SOH", "short"} -> t.seq
                        [] n = PacketBytes - 2 /\ t.kind \in {"SOH", "tail"} /\ t.seq # 0 -> 255 - t.seq
                        [] OTHER -> 0
            u == [kind |-> "tail", seq |-> number, data |-> n, pkg |-> 0]
<1>1. t \in LineToken /\ Tail(line) \in Line
  BY HeadTail
<1>2. Size(t) \in 1..PacketBytes /\ (t.kind \notin PacketKinds => Size(t) = 1)
  BY <1>1, TokenSize
<1>3. CASE n = 0
  <2>1. Left(t, n) = <<>>
    BY <1>3 DEF Left
  <2>2. <<>> \o Tail(line) = Tail(line)
    BY <1>1, ConcatEmptySeq DEF Line
  <2>. QED
    BY <1>1, <1>3, <2>1, <2>2, HeadTail
<1>4. CASE n # 0
  <2>1. n \in 1..(PacketBytes - 1) /\ n \in Nat
    BY <1>2, <1>4, DialogueAssumption
  <2>2. t.kind \in PacketKinds
    BY <1>2, <1>4
  <2>3. number \in 0..255
    <3>1. t.seq \in 0..255
      BY <1>1 DEF LineToken
    <3>2. 0 \in 0..255 /\ \A k \in 0..255 : 255 - k \in 0..255
      OBVIOUS
    <3>3. 255 - t.seq \in 0..255
      <4>. HIDE DEF t, u, number
      <4>. QED
        BY <3>1, <3>2
    <3>. QED
      BY <3>1, <3>2, <3>3, Zenon
  <2>4. u \in LineToken /\ u.kind = "tail"
    <3>. HIDE DEF number
    <3>. QED
      BY <2>1, <2>3 DEF LineToken, Kinds, SentKinds, PacketKinds
  <2>5. Left(t, n) = <<u>>
    BY <1>4 DEF Left
  <2>6. Demoted(u, t)
    BY <2>2, <2>4 DEF Demoted
  <2>. HIDE DEF t, u, number
  <2>. QED
    BY <1>4, <2>2, <2>4, <2>5, <2>6, HeadReplaced DEF t
<1>. QED
  BY <1>3, <1>4

\* What a transmitter reads: an ACK or a 'C' only if it is one, or from inside a packet.
LEMMA BytesRead ==
    ASSUME NEW line \in Line, line # <<>>, NEW r \in Bytes(line)
    PROVE  /\ r[2] \in Line /\ Reduced(r[2], line)
           /\ \/ r[2] = Tail(line)
              \/ /\ Head(line).kind \in PacketKinds
                 /\ \E u \in LineToken : u.kind = "tail" /\ r[2] = <<u>> \o Tail(line)
           /\ Head(line).kind \notin PacketKinds => r[1] = Head(line).kind /\ r[2] = Tail(line)
           /\ r[1] \in {"ACK", "C"} =>
                 \/ Head(line).kind = r[1] /\ r[2] = Tail(line)
                 \/ Head(line).kind = "tail"
<1>. DEFINE t == Head(line)
            n == Size(t) - 1
<1>1. t \in LineToken /\ Size(t) \in 1..PacketBytes /\ (t.kind \notin PacketKinds => Size(t) = 1)
  BY HeadTail, TokenSize
<1>2. n \in 0..(Size(Head(line)) - 1) /\ (t.kind \notin PacketKinds => n = 0)
  BY <1>1, DialogueAssumption
<1>3. r[2] = Left(t, n) \o Tail(line)
  BY DEF Bytes
<1>4. /\ IsPacket(t) => r[1] = "SOH"
      /\ ~IsPacket(t) /\ t.kind # "tail" => r[1] = t.kind
  <2>. DEFINE kinds == CASE IsPacket(t) -> {"SOH"} [] t.kind = "tail" -> FirstKinds(t)
                         [] OTHER -> {t.kind}
  <2>1. PICK k \in kinds : r = <<k, Left(t, n) \o Tail(line)>>
    BY DEF Bytes
  <2>2. r[1] \in kinds
    BY <2>1
  <2>3. CASE IsPacket(t)
    <3>1. kinds = {"SOH"}
      BY <2>3 DEF IsPacket
    <3>. QED
      BY <2>2, <2>3, <3>1
  <2>4. CASE ~IsPacket(t) /\ t.kind = "tail"
    BY <2>4
  <2>5. CASE ~IsPacket(t) /\ t.kind # "tail"
    <3>1. kinds = {t.kind}
      BY <2>5
    <3>. QED
      BY <2>2, <2>5, <3>1
  <2>. QED
    BY <2>3, <2>4, <2>5
<1>5. /\ Left(t, n) \o Tail(line) \in Line
      /\ Reduced(Left(t, n) \o Tail(line), line)
      /\ \/ n = 0 /\ Left(t, n) \o Tail(line) = Tail(line)
         \/ /\ t.kind \in PacketKinds
            /\ \E u \in LineToken : /\ u.kind = "tail"
                                    /\ Left(t, n) \o Tail(line) = <<u>> \o Tail(line)
  BY <1>2, LeftLine
<1>6. /\ IsPacket(t) \/ t.kind = "tail" <=> t.kind \in PacketKinds
      /\ IsPacket(t) => t.kind # "tail"
  BY DEF IsPacket, PacketKinds
<1>7. t.kind \notin PacketKinds => r[2] = Tail(line)
  BY <1>3, <1>5
<1>. HIDE DEF t, n
<1>8. t = Head(line)
  BY DEF t
<1>. QED
  BY <1>3, <1>4, <1>5, <1>6, <1>7, <1>8

\* What a receiver reads: a packet only if it is one; an EOT, or the start of a packet
\* that it will find short, also from inside one.
LEMMA TokensRead ==
    ASSUME NEW line \in Line, line # <<>>, NEW r \in Tokens(line)
    PROVE  /\ r[1] \in LineToken /\ r[2] \in Line /\ Reduced(r[2], line)
           /\ \/ r[1] = Head(line) /\ r[2] = Tail(line) /\ Head(line).kind # "tail"
              \/ /\ Head(line).kind = "tail"
                 /\ \/ r[1].kind = "short" /\ r[2] = Tail(line)
                    \/ /\ r[1].kind \notin {"SOH", "bad", "short"}
                       /\ \/ r[2] = Tail(line)
                          \/ \E u \in LineToken : u.kind = "tail" /\ r[2] = <<u>> \o Tail(line)
<1>. DEFINE t == Head(line)
<1>1. t \in LineToken /\ Tail(line) \in Line /\ Reduced(Tail(line), line)
  BY HeadTail
<1>2. CASE t.kind = "tail"
  <2>1. PICK q \in Bytes(line) :
           r = IF q[1] = "SOH" THEN <<Short(Byte("SOH"), PacketBytes - t.data), Tail(line)>>
                               ELSE <<Byte(q[1]), q[2]>>
    BY <1>2 DEF Tokens
  <2>2. q[1] \in InsideKinds
    <3>1. \A k : NumberKind(k) \in InsideKinds
      BY DEF NumberKind, InsideKinds
    <3>2. FirstKinds(t) \subseteq InsideKinds
      BY <3>1 DEF FirstKinds
    <3>3. ~IsPacket(t)
      BY <1>2 DEF IsPacket
    <3>4. Bytes(line) = {<<k, Left(t, Size(t) - 1) \o Tail(line)>> : k \in FirstKinds(t)}
      BY <1>2, <3>3 DEF Bytes
    <3>5. PICK k \in FirstKinds(t) : q = <<k, Left(t, Size(t) - 1) \o Tail(line)>>
      BY <3>4
    <3>. QED
      BY <3>2, <3>5
  <2>3. CASE q[1] = "SOH"
    <3>1. t.data \in 1..(PacketBytes - 1) /\ PacketBytes \in Nat
      BY <1>1, <1>2, DialogueAssumption DEF LineToken
    <3>2. PacketBytes - t.data \in 1..(PacketBytes - 1) /\ PacketBytes - t.data \in Nat
      BY <3>1
    <3>3. Short(Byte("SOH"), PacketBytes - t.data)
            = [kind |-> "short", seq |-> 0, data |-> PacketBytes - t.data, pkg |-> 0]
      BY DEF Short, Byte, DevRecv!Byte
    <3>. DEFINE n == PacketBytes - t.data
    <3>. HIDE DEF n
    <3>4. [kind |-> "short", seq |-> 0, data |-> n, pkg |-> 0] \in LineToken
      BY <3>2 DEF LineToken, Kinds, SentKinds, PacketKinds, n
    <3>5. /\ Short(Byte("SOH"), PacketBytes - t.data) \in LineToken
          /\ Short(Byte("SOH"), PacketBytes - t.data).kind = "short"
      BY <3>3, <3>4 DEF n
    <3>. QED
      BY <1>1, <1>2, <2>1, <2>3, <3>5
  <2>4. CASE q[1] # "SOH"
    <3>1. /\ q[2] \in Line /\ Reduced(q[2], line)
          /\ \/ q[2] = Tail(line)
             \/ \E u \in LineToken : u.kind = "tail" /\ q[2] = <<u>> \o Tail(line)
      BY BytesRead
    <3>2. Byte(q[1]) \in LineToken /\ Byte(q[1]).kind = q[1]
      BY <2>2, <2>4, ByteToken DEF InsideKinds, Kinds, SentKinds, PacketKinds
    <3>3. q[1] \notin {"SOH", "bad", "short"}
      BY <2>2, <2>4 DEF InsideKinds
    <3>4. r[1] = Byte(q[1]) /\ r[2] = q[2]
      BY <2>1, <2>4
    <3>. QED
      BY <1>2, <3>1, <3>2, <3>3, <3>4
  <2>. QED
    BY <2>3, <2>4
<1>3. CASE t.kind # "tail"
  <2>1. r = <<t, Tail(line)>>
    BY <1>3 DEF Tokens
  <2>. QED
    BY <1>1, <1>3, <2>1
<1>. QED
  BY <1>2, <1>3

\* A receiver in the middle of a packet takes what is next on the line, or leaves a tail.
LEMMA FilledLine ==
    ASSUME NEW line \in Line, line # <<>>, NEW n \in 1..(PacketBytes - 1)
    PROVE  /\ Filled(line, n) \in Line /\ Reduced(Filled(line, n), line)
           /\ StillLacks(line, n) \in 0..(PacketBytes - 1)
           /\ StillLacks(line, n) > 0 => Filled(line, n) = Tail(line)
           /\ \/ Filled(line, n) = Tail(line)
              \/ /\ Head(line).kind \in PacketKinds
                 /\ \E u \in LineToken : u.kind = "tail" /\ Filled(line, n) = <<u>> \o Tail(line)
<1>. DEFINE s == Size(Head(line))
<1>1. /\ Tail(line) \in Line /\ Reduced(Tail(line), line) /\ Head(line) \in LineToken
      /\ s \in 1..PacketBytes /\ PacketBytes \in Nat
  BY HeadTail, TokenSize, DialogueAssumption
<1>2. CASE n > s
  <2>1. Filled(line, n) = Tail(line) /\ StillLacks(line, n) = n - s
    BY <1>2 DEF Filled, StillLacks
  <2>2. n - s \in 0..(PacketBytes - 1)
    BY <1>1, <1>2
  <2>. QED
    BY <1>1, <2>1, <2>2
<1>3. CASE ~(n > s)
  <2>1. s - n \in 0..(Size(Head(line)) - 1) /\ 0 \in 0..(PacketBytes - 1) /\ ~(0 > 0)
    BY <1>1, <1>3
  <2>2. Filled(line, n) = Left(Head(line), s - n) \o Tail(line) /\ StillLacks(line, n) = 0
    BY <1>3 DEF Filled, StillLacks
  <2>3. /\ Left(Head(line), s - n) \o Tail(line) \in Line
        /\ Reduced(Left(Head(line), s - n) \o Tail(line), line)
        /\ \/ Left(Head(line), s - n) \o Tail(line) = Tail(line)
           \/ /\ Head(line).kind \in PacketKinds
              /\ \E u \in LineToken : /\ u.kind = "tail"
                    /\ Left(Head(line), s - n) \o Tail(line) = <<u>> \o Tail(line)
    BY <2>1, LeftLine
  <2>. QED
    BY <2>1, <2>2, <2>3
<1>. QED
  BY <1>2, <1>3

\* A packet that loses bytes, from 1 to all but one, is a token still.
LEMMA ShortToken ==
    ASSUME NEW t \in LineToken, t.kind = "SOH", NEW n \in 1..(PacketBytes - 1)
    PROVE  Short(t, n) \in LineToken /\ Short(t, n).kind = "short" /\ Demoted(Short(t, n), t)
<1>1. n \in Nat
  BY DialogueAssumption
<1>2. Short(t, n) = [kind |-> "short", seq |-> t.seq, data |-> n, pkg |-> t.pkg]
  BY DEF Short
<1>3. t.seq \in 0..255 /\ t.pkg \in Nat
  BY DEF LineToken
<1>4. [kind |-> "short", seq |-> t.seq, data |-> n, pkg |-> t.pkg] \in LineToken
  BY <1>1, <1>3 DEF LineToken, Kinds, SentKinds, PacketKinds
<1>. QED
  BY <1>2, <1>4 DEF Demoted

\* Noise reduces a line.
LEMMA NoiseReduces ==
    ASSUME NEW line \in Line, line # <<>>, NEW new \in DisturbedLine(line)
    PROVE  /\ new \in Line /\ Reduced(new, line)
           /\ \/ new = Tail(line)
              \/ \E u \in LineToken : /\ u.kind \in {"bad", "short", "tail", "junk"}
                                      /\ u.kind # "junk" => Head(line).kind = "SOH"
                                      /\ new = <<u>> \o Tail(line)
<1>. DEFINE t == Head(line)
<1>1. t \in LineToken /\ Tail(line) \in Line /\ Reduced(Tail(line), line)
  BY HeadTail
<1>2. PICK d \in Disturbed(t) : new = d \o Tail(line)
  BY DEF DisturbedLine
<1>3. ASSUME NEW u \in LineToken, Demoted(u, t)
      PROVE  <<u>> \o Tail(line) \in Line /\ Reduced(<<u>> \o Tail(line), line)
  BY <1>3, HeadReplaced
<1>4. CASE d = <<>>
  <2>1. <<>> \o Tail(line) = Tail(line)
    BY <1>1, ConcatEmptySeq DEF Line
  <2>. QED
    BY <1>1, <1>2, <1>4, <2>1
<1>5. CASE t.kind = "SOH" /\ d # <<>>
  <2>1. d \in {<<[t EXCEPT !.kind = "bad"]>>, Left(t, PacketBytes - 1),
               <<Short(Unnumbered(t), 1)>>, <<Short(t, 1)>>}
    BY <1>5 DEF Disturbed
  <2>2. CASE d = <<[t EXCEPT !.kind = "bad"]>>
    <3>. DEFINE u == [t EXCEPT !.kind = "bad"]
    <3>1. u \in LineToken /\ u.kind = "bad" /\ Demoted(u, t)
      BY <1>1, <1>5 DEF LineToken, Kinds, SentKinds, PacketKinds, Demoted
    <3>2. new = <<u>> \o Tail(line)
      BY <1>2, <2>2
    <3>. HIDE DEF u, t
    <3>. QED
      BY <1>3, <1>5, <3>1, <3>2 DEF t
  <2>3. CASE d = <<Short(t, 1)>>
    <3>1. 1 \in 1..(PacketBytes - 1)
      BY DialogueAssumption
    <3>2. Short(t, 1) \in LineToken /\ Short(t, 1).kind = "short" /\ Demoted(Short(t, 1), t)
      BY <1>1, <1>5, <3>1, ShortToken
    <3>. HIDE DEF t
    <3>. QED
      BY <1>2, <1>3, <1>5, <2>3, <3>2 DEF t
  <2>4. CASE d = Left(t, PacketBytes - 1)
    <3>1. /\ Size(t) = PacketBytes /\ PacketBytes - 1 \in 0..(Size(Head(line)) - 1)
          /\ PacketBytes - 1 # 0
      BY <1>1, <1>5, TokenSize, DialogueAssumption
    <3>. DEFINE n == PacketBytes - 1
    <3>. HIDE DEF n
    <3>2. n \in 0..(Size(Head(line)) - 1) /\ n # 0
      BY <3>1 DEF n
    <3>. QED
      BY <1>2, <1>5, <2>4, <3>2, LeftLine DEF n
  <2>5. CASE d = <<Short(Unnumbered(t), 1)>>
    <3>. DEFINE v == Unnumbered(t)
    <3>1. 1 \in 1..(PacketBytes - 1)
      BY DialogueAssumption
    <3>2. v \in LineToken /\ v.kind = "SOH"
      <4>1. t.seq \in 0..255
        BY <1>1 DEF LineToken
      <4>2. \A k \in 0..255 : 255 - k \in 0..255
        OBVIOUS
      <4>3. 255 - t.seq \in 0..255
        BY <4>1, <4>2
      <4>. QED
        BY <1>1, <1>5, <4>3 DEF LineToken, Unnumbered
    <3>. HIDE DEF v
    <3>3. Short(v, 1) \in LineToken /\ Short(v, 1).kind = "short" /\ Demoted(Short(v, 1), t)
      BY <1>5, <3>1, <3>2, ShortToken DEF Demoted
    <3>4. new = <<Short(v, 1)>> \o Tail(line)
      BY <1>2, <2>5 DEF v
    <3>. HIDE DEF t
    <3>. QED
      BY <1>3, <1>5, <3>3, <3>4 DEF t
  <2>. QED
    BY <2>1, <2>2, <2>3, <2>4, <2>5
<1>6. CASE t.kind # "SOH" /\ d # <<>>
  <2>1. t.kind \notin PacketKinds /\ d = <<Byte("junk")>>
    BY <1>6 DEF Disturbed, IsPacket, PacketKinds
  <2>2. Byte("junk") \in LineToken /\ Byte("junk").kind = "junk"
    BY ByteToken DEF Kinds, SentKinds, PacketKinds
  <2>3. Demoted(Byte("junk"), t)
    BY <2>1, <2>2 DEF Demoted
  <2>. QED
    BY <1>2, <1>3, <2>1, <2>2, <2>3
<1>. QED
  BY <1>4, <1>5, <1>6

\* So does SIGINT.
LEMMA CutLine ==
    ASSUME NEW line \in Line, NEW new \in Cut(line)
    PROVE  new \in Line /\ Reduced(new, line)
<1>. DEFINE last == line[Len(line)]
<1>1. ASSUME line # <<>>, last.kind = "SOH", NEW n \in 1..(PacketBytes - 1),
             new = [line EXCEPT ![Len(line)] = Short(last, n)]
      PROVE  new \in Line /\ Reduced(new, line)
  <2>1. Len(line) \in 1..Len(line) /\ Len(line) \in Nat \ {0}
    BY <1>1, HeadTail
  <2>2. last \in LineToken
    BY <2>1 DEF Line
  <2>. DEFINE u == Short(last, n)
  <2>3. u \in LineToken /\ Demoted(u, line[Len(line)])
    BY <1>1, <2>2, ShortToken
  <2>4. new = [line EXCEPT ![Len(line)] = u]
    BY <1>1
  <2>. HIDE DEF u
  <2>5. new \in Line /\ Len(new) = Len(line)
        /\ \A i \in 1..Len(line) : new[i] = IF i = Len(line) THEN u ELSE line[i]
    BY <2>1, <2>3, <2>4, ExceptSeq DEF Line
  <2>6. \A i \in 1..Len(line) : Demoted(new[i], line[i])
    BY <2>3, <2>5 DEF Demoted
  <2>7. (\A i \in 1..Len(line) : i + 0 = i) /\ Len(line) - 0 = Len(line)
    BY <2>1
  <2>. QED
    BY <2>5, <2>6, <2>7 DEF Reduced
<1>2. CASE new = line
  BY <1>2, SelfReduced
<1>. QED
  BY <1>1, <1>2 DEF Cut

\* Only an ACK or an EOT is misread, and only from inside a packet.
LEMMA MisreadKinds ==
    ASSUME NEW line, NEW pc, NEW k, NEW buf
    PROVE  /\ MisreadAck(line, pc, k) \subseteq {"ACK"}
           /\ MisreadEot(line, buf, k) \subseteq {"EOT"}
           /\ MisreadAck(line, pc, k) = {}
                => ~(Head(line).kind = "tail" /\ k = "ACK" /\ pc # "wait_c")
           /\ MisreadEot(line, buf, k) = {}
                => ~(Head(line).kind = "tail" /\ k = "EOT" /\ buf # <<>>)
BY DEF MisreadAck, MisreadEot

-----------------------------------------------------------------------------
(* Types.                                                                  *)

SendPcs == {"idle", "wait_c", "pkt", "eot", "ok", "failed"}
RecvPcs == {"idle", "read", "body", "drain", "ok", "failed"}

\* The host's variables.  A receiver that still waits has errors left, and one inside a
\* packet lacks some of its bytes.
HostTypes ==
    /\ running \in BOOLEAN /\ call \in 0..MaxCalls /\ (InCall => running)
    /\ sendPc \in SendPcs /\ sendBlock \in 0..(ReqBlocks + 1) /\ sendTries \in 0..2
    /\ sendPc = "pkt" => sendBlock \in 1..ReqBlocks
    /\ recvPc \in RecvPcs /\ recvSeq \in 0..255 /\ recvBuf \in Seq(Nat)
    /\ recvErr \in 0..5 /\ (RxWaiting(recvPc) => recvErr < 5)
    /\ recvNak \in {"C", "NAK"} /\ recvFrom \in SUBSET Packages
    /\ lacks \in Nat /\ (recvPc = "body" => lacks \in 1..(PacketBytes - 1))

\* The device's variables.
DevTypes ==
    /\ devSendPc \in SendPcs /\ devSendBlock \in 0..(AnsBlocks + 1)
    /\ devSendTries \in 0..2
    /\ devSendPc = "pkt" => devSendBlock \in 1..AnsBlocks
    /\ devRecvPc \in RecvPcs /\ devRecvSeq \in 0..255 /\ devRecvBuf \in Seq(Nat)
    /\ devRecvErr \in 0..5 /\ (RxWaiting(devRecvPc) => devRecvErr < 5)
    /\ devRecvNak \in {"C", "NAK"} /\ devRecvFrom \in SUBSET Packages
    /\ devLacks \in Nat /\ (devRecvPc = "body" => devLacks \in 1..(PacketBytes - 1))

\* The timers and the bounds of the model.
RestTypes ==
    /\ expired \in {"none", "host", "device"}
    /\ noise \in 0..MaxNoise /\ stops \in 0..MaxStops
    /\ misread \subseteq {"ACK", "EOT"}

\* TypeOK with the counters of both ends and what is on the line.
TypeInv ==
    /\ HostTypes /\ DevTypes /\ RestTypes
    /\ toDevice \in Line /\ toHost \in Line

-----------------------------------------------------------------------------
(* The four instances of xmodem.c.                                         *)

\* A step of the host's transmitter: a packet of this call's request, an EOT or nothing
\* is written, and only an ACK or a 'C' takes it further.
LEMMA HostSends ==
    ASSUME TypeInv, NEW rsp, SendStep(rsp)
    PROVE  /\ sendPc \in {"wait_c", "pkt", "eot"}
           /\ sendPc' \in {"wait_c", "pkt", "eot", "ok", "failed"}
           /\ sendBlock' \in 0..(ReqBlocks + 1) /\ sendTries' \in 0..2
           /\ sendPc' = "pkt" => sendBlock' \in 1..ReqBlocks
           /\ toDevice' \in Line
           /\ \/ \E t \in LineToken :
                    /\ toDevice' = Append(toDevice, t)
                    /\ \/ t.kind = "SOH" /\ t.pkg = RequestOf(call) /\ sendPc' = "pkt"
                       \/ t.kind = "EOT" /\ sendPc' = "eot" /\ sendPc # "wait_c"
                    /\ \/ sendPc = "wait_c" /\ rsp = "C" /\ sendPc' = "pkt"
                          /\ ~(sendBlock' > 1)
                       \/ sendPc = "pkt" /\ rsp = "ACK"
                       \/ sendPc' = sendPc /\ sendBlock' = sendBlock
              \/ /\ toDevice' = toDevice
                 /\ \/ sendPc = "eot" /\ rsp = "ACK" /\ sendPc' = "ok"
                    \/ sendPc = "wait_c" /\ sendPc' = "wait_c"
                    \/ sendPc' = "failed"
<1>1. PICK p \in Packages : p = RequestOf(call) /\ HostSend(p)!TxStep(rsp)
  BY DEF SendStep
<1>. DEFINE eot == HostSend(p)!Byte("EOT")
            pkt(k) == HostSend(p)!Packet(k)
<1>2. /\ toDevice \in Line /\ sendTries \in 0..2 /\ sendBlock \in 0..(ReqBlocks + 1)
      /\ sendPc = "pkt" => sendBlock \in 1..ReqBlocks
      /\ sendPc \in {"idle", "wait_c", "pkt", "eot", "ok", "failed"}
  BY DEF TypeInv, HostTypes, DevTypes, SendPcs
<1>3. eot \in LineToken /\ eot.kind = "EOT"
  BY ByteToken DEF Kinds, SentKinds, PacketKinds
<1>4. ASSUME NEW k \in 1..ReqBlocks
      PROVE  pkt(k) \in LineToken /\ pkt(k).kind = "SOH" /\ pkt(k).pkg = RequestOf(call)
  <2>1. k % 256 \in 0..255 /\ k \in Nat /\ p \in Nat
    BY DialogueAssumption DEF Packages
  <2>. QED
    BY <1>1, <2>1 DEF HostSend!Packet, HostSend!Uint8, LineToken, Kinds, SentKinds, PacketKinds
<1>. HIDE DEF eot, pkt
<1>5. ReqBlocks \in Nat \ {0}
  BY DialogueAssumption
<1>6. CASE HostSend(p)!StartTransmit(rsp)
  <2>1. /\ sendPc = "wait_c" /\ rsp = "C" /\ sendBlock' = 1 /\ sendTries' = 2
        /\ \/ 1 <= ReqBlocks /\ sendPc' = "pkt" /\ toDevice' = Append(toDevice, pkt(1))
           \/ 1 > ReqBlocks
    BY <1>6 DEF HostSend!StartTransmit, HostSend!SendFrom, HostSend!MAX_RETRANSMIT, pkt
  <2>2. sendPc' = "pkt" /\ toDevice' = Append(toDevice, pkt(1)) /\ 1 \in 1..ReqBlocks
    BY <1>5, <2>1
  <2>. QED
    BY <1>2, <1>4, <1>5, <2>1, <2>2, AppendLine
<1>7. CASE HostSend(p)!PacketAcked(rsp)
  <2>1. /\ sendPc = "pkt" /\ rsp = "ACK" /\ sendBlock' = sendBlock + 1 /\ sendTries' = 2
        /\ \/ sendBlock + 1 <= ReqBlocks /\ sendPc' = "pkt"
              /\ toDevice' = Append(toDevice, pkt(sendBlock + 1))
           \/ sendPc' = "eot" /\ toDevice' = Append(toDevice, eot)
    BY <1>7 DEF HostSend!PacketAcked, HostSend!SendFrom, HostSend!MAX_RETRANSMIT, pkt, eot
  <2>2. sendBlock + 1 \in 0..(ReqBlocks + 1)
        /\ (sendBlock + 1 <= ReqBlocks => sendBlock + 1 \in 1..ReqBlocks)
    BY <1>2, <1>5, <2>1
  <2>3. CASE sendPc' = "pkt" /\ sendBlock + 1 <= ReqBlocks
             /\ toDevice' = Append(toDevice, pkt(sendBlock + 1))
    BY <1>2, <1>4, <2>1, <2>2, <2>3, AppendLine
  <2>4. CASE sendPc' = "eot" /\ toDevice' = Append(toDevice, eot)
    BY <1>2, <1>3, <2>1, <2>2, <2>4, AppendLine
  <2>. QED
    BY <2>1, <2>3, <2>4
<1>8. CASE HostSend(p)!EotAcked(rsp)
  BY <1>2, <1>8 DEF HostSend!EotAcked
<1>9. CASE HostSend(p)!Retry(rsp)
  <2>1. /\ sendPc \in {"wait_c", "pkt", "eot"} /\ sendTries > 0
        /\ sendTries' = sendTries - 1 /\ sendPc' = sendPc /\ sendBlock' = sendBlock
        /\ toDevice' = toDevice \o HostSend(p)!Current
    BY <1>9 DEF HostSend!Retry, HostSend!TxWaiting
  <2>2. sendTries' \in 0..2
    BY <1>2, <2>1
  <2>3. CASE sendPc = "wait_c"
    <3>1. HostSend(p)!Current = <<>>
      BY <2>3 DEF HostSend!Current
    <3>2. toDevice' = toDevice
      BY <1>2, <2>1, <3>1, ConcatEmptySeq DEF Line
    <3>. QED
      BY <1>2, <2>1, <2>2, <2>3, <3>2
  <2>4. CASE sendPc = "pkt"
    <3>1. HostSend(p)!Current = <<pkt(sendBlock)>>
      BY <2>4 DEF HostSend!Current, pkt
    <3>2. toDevice' = Append(toDevice, pkt(sendBlock)) /\ pkt(sendBlock) \in LineToken
      BY <1>2, <1>4, <2>1, <2>4, <3>1, AppendIsConcat DEF Line
    <3>. QED
      BY <1>2, <1>4, <2>1, <2>2, <2>4, <3>2, AppendLine
  <2>5. CASE sendPc = "eot"
    <3>1. HostSend(p)!Current = <<eot>>
      BY <2>5 DEF HostSend!Current, eot
    <3>2. toDevice' = Append(toDevice, eot)
      BY <1>2, <1>3, <2>1, <3>1, AppendIsConcat DEF Line
    <3>. QED
      BY <1>2, <1>3, <2>1, <2>2, <2>5, <3>2, AppendLine
  <2>. QED
    BY <2>1, <2>3, <2>4, <2>5
<1>10. CASE HostSend(p)!RetriesExceeded(rsp)
  BY <1>2, <1>10 DEF HostSend!RetriesExceeded, HostSend!TxWaiting
<1>. QED
  BY <1>1, <1>6, <1>7, <1>8, <1>9, <1>10 DEF HostSend!TxStep

\* The same at the device, whose answer is to the request in its buffer.
LEMMA DevSends ==
    ASSUME TypeInv, NEW rsp, DevSendStep(rsp)
    PROVE  \E c \in 1..MaxCalls :
           /\ RequestOf(c) \in devRecvFrom
           /\ devSendPc \in {"wait_c", "pkt", "eot"}
           /\ devSendPc' \in {"wait_c", "pkt", "eot", "ok", "failed"}
           /\ devSendBlock' \in 0..(AnsBlocks + 1) /\ devSendTries' \in 0..2
           /\ devSendPc' = "pkt" => devSendBlock' \in 1..AnsBlocks
           /\ toHost' \in Line
           /\ \/ \E t \in LineToken :
                    /\ toHost' = Append(toHost, t)
                    /\ \/ /\ t.kind = "SOH" /\ t.pkg = AnswerTo(c) /\ devSendPc' = "pkt"
                          /\ t.seq = devSendBlock'
                       \/ t.kind = "EOT" /\ devSendPc' = "eot" /\ devSendPc # "wait_c"
                    /\ \/ devSendPc = "wait_c" /\ rsp = "C" /\ devSendBlock' = 1
                       \/ /\ devSendPc = "pkt" /\ rsp = "ACK"
                          /\ devSendBlock' = devSendBlock + 1
                          /\ devSendPc' = "eot" => devSendBlock = AnsBlocks
                       \/ devSendPc' = devSendPc /\ devSendBlock' = devSendBlock
              \/ /\ toHost' = toHost
                 /\ \/ devSendPc' \in {"ok", "failed"} /\ devSendPc \in {"pkt", "eot"}
                    \/ devSendPc = "wait_c" /\ devSendPc' \in {"wait_c", "failed"}
<1>1. PICK c \in 1..MaxCalls : RequestOf(c) \in devRecvFrom
                               /\ DevSend(AnswerTo(c))!TxStep(rsp)
  BY DEF DevSendStep
<1>. DEFINE p == AnswerTo(c)
            eot == DevSend(p)!Byte("EOT")
            pkt(k) == DevSend(p)!Packet(k)
<1>2. /\ toHost \in Line /\ devSendTries \in 0..2 /\ devSendBlock \in 0..(AnsBlocks + 1)
      /\ devSendPc = "pkt" => devSendBlock \in 1..AnsBlocks
      /\ devSendPc \in {"idle", "wait_c", "pkt", "eot", "ok", "failed"}
  BY DEF TypeInv, HostTypes, DevTypes, SendPcs
<1>3. eot \in LineToken /\ eot.kind = "EOT"
  BY ByteToken DEF Kinds, SentKinds, PacketKinds
<1>4. ASSUME NEW k \in 1..AnsBlocks
      PROVE  /\ pkt(k) \in LineToken /\ pkt(k).kind = "SOH" /\ pkt(k).pkg = AnswerTo(c)
             /\ pkt(k).seq = k
  <2>1. k % 256 = k /\ k \in 0..255 /\ k \in Nat
    BY DialogueAssumption
  <2>2. p \in Nat /\ p \in Packages
    BY <1>1, DialogueAssumption DEF Packages, AnswerTo
  <2>. QED
    BY <1>1, <2>1, <2>2 DEF DevSend!Packet, DevSend!Uint8, LineToken, Kinds, SentKinds, PacketKinds
<1>. HIDE DEF eot, pkt, p
<1>5. AnsBlocks \in Nat \ {0}
  BY DialogueAssumption
<1>6. CASE DevSend(p)!StartTransmit(rsp)
  <2>1. /\ devSendPc = "wait_c" /\ rsp = "C" /\ devSendBlock' = 1 /\ devSendTries' = 2
        /\ \/ 1 <= AnsBlocks /\ devSendPc' = "pkt" /\ toHost' = Append(toHost, pkt(1))
           \/ 1 > AnsBlocks
    BY <1>6 DEF DevSend!StartTransmit, DevSend!SendFrom, DevSend!MAX_RETRANSMIT, pkt
  <2>2. devSendPc' = "pkt" /\ toHost' = Append(toHost, pkt(1)) /\ 1 \in 1..AnsBlocks
    BY <1>5, <2>1
  <2>. QED
    BY <1>1, <1>2, <1>4, <1>5, <2>1, <2>2, AppendLine
<1>7. CASE DevSend(p)!PacketAcked(rsp)
  <2>1. /\ devSendPc = "pkt" /\ rsp = "ACK" /\ devSendBlock' = devSendBlock + 1
        /\ devSendTries' = 2
        /\ \/ devSendBlock + 1 <= AnsBlocks /\ devSendPc' = "pkt"
              /\ toHost' = Append(toHost, pkt(devSendBlock + 1))
           \/ devSendBlock + 1 > AnsBlocks /\ devSendPc' = "eot" /\ toHost' = Append(toHost, eot)
    BY <1>7 DEF DevSend!PacketAcked, DevSend!SendFrom, DevSend!MAX_RETRANSMIT, pkt, eot
  <2>2. /\ devSendBlock + 1 \in 0..(AnsBlocks + 1)
        /\ devSendBlock + 1 <= AnsBlocks => devSendBlock + 1 \in 1..AnsBlocks
        /\ devSendBlock + 1 > AnsBlocks => devSendBlock = AnsBlocks
    BY <1>2, <1>5, <2>1
  <2>3. CASE devSendPc' = "pkt" /\ devSendBlock + 1 <= AnsBlocks
             /\ toHost' = Append(toHost, pkt(devSendBlock + 1))
    <3>1. devSendBlock' \in 1..AnsBlocks /\ devSendBlock' \in 0..(AnsBlocks + 1)
      BY <2>1, <2>2, <2>3
    <3>2. devSendTries' \in 0..2
      BY <2>1
    <3>3. devSendPc = "pkt" /\ rsp = "ACK" /\ devSendBlock' = devSendBlock + 1
      BY <2>1
    <3>4. toHost' = Append(toHost, pkt(devSendBlock'))
      BY <2>3, <3>3
    <3>5. /\ pkt(devSendBlock') \in LineToken /\ pkt(devSendBlock').kind = "SOH"
          /\ pkt(devSendBlock').pkg = AnswerTo(c) /\ pkt(devSendBlock').seq = devSendBlock'
      BY <1>4, <3>1
    <3>6. toHost' \in Line
      BY <1>2, <3>4, <3>5, AppendLine
    <3>. QED
      BY <1>1, <2>3, <3>1, <3>2, <3>3, <3>4, <3>5, <3>6
  <2>4. CASE devSendPc' = "eot" /\ devSendBlock + 1 > AnsBlocks
             /\ toHost' = Append(toHost, eot)
    <3>1. devSendBlock = AnsBlocks /\ devSendBlock' \in 0..(AnsBlocks + 1)
      BY <2>1, <2>2, <2>4
    <3>2. devSendTries' \in 0..2
      BY <2>1
    <3>3. devSendPc = "pkt" /\ rsp = "ACK" /\ devSendBlock' = devSendBlock + 1
      BY <2>1
    <3>4. toHost' \in Line
      BY <1>2, <1>3, <2>4, AppendLine
    <3>. QED
      BY <1>1, <1>3, <2>4, <3>1, <3>2, <3>3, <3>4
  <2>. QED
    BY <2>1, <2>3, <2>4
<1>8. CASE DevSend(p)!EotAcked(rsp)
  BY <1>1, <1>2, <1>8 DEF DevSend!EotAcked
<1>9. CASE DevSend(p)!Retry(rsp)
  <2>1. /\ devSendPc \in {"wait_c", "pkt", "eot"} /\ devSendTries > 0
        /\ devSendTries' = devSendTries - 1 /\ devSendPc' = devSendPc
        /\ devSendBlock' = devSendBlock
        /\ toHost' = toHost \o DevSend(p)!Current
    BY <1>9 DEF DevSend!Retry, DevSend!TxWaiting
  <2>2. devSendTries' \in 0..2
    BY <1>2, <2>1
  <2>3. CASE devSendPc = "wait_c"
    <3>1. DevSend(p)!Current = <<>>
      BY <2>3 DEF DevSend!Current
    <3>2. toHost' = toHost
      BY <1>2, <2>1, <3>1, ConcatEmptySeq DEF Line
    <3>. QED
      BY <1>1, <1>2, <2>1, <2>2, <2>3, <3>2
  <2>4. CASE devSendPc = "pkt"
    <3>1. DevSend(p)!Current = <<pkt(devSendBlock)>>
      BY <2>4 DEF DevSend!Current, pkt
    <3>2. toHost' = Append(toHost, pkt(devSendBlock)) /\ pkt(devSendBlock) \in LineToken
      BY <1>2, <1>4, <2>1, <2>4, <3>1, AppendIsConcat DEF Line
    <3>. QED
      BY <1>1, <1>2, <1>4, <2>1, <2>2, <2>4, <3>2, AppendLine
  <2>5. CASE devSendPc = "eot"
    <3>1. DevSend(p)!Current = <<eot>>
      BY <2>5 DEF DevSend!Current, eot
    <3>2. toHost' = Append(toHost, eot)
      BY <1>2, <1>3, <2>1, <3>1, AppendIsConcat DEF Line
    <3>. QED
      BY <1>1, <1>2, <1>3, <2>1, <2>2, <2>5, <3>2, AppendLine
  <2>. QED
    BY <2>1, <2>3, <2>4, <2>5
<1>10. CASE DevSend(p)!RetriesExceeded(rsp)
  BY <1>1, <1>2, <1>10 DEF DevSend!RetriesExceeded, DevSend!TxWaiting
<1>. QED
  BY <1>1, <1>6, <1>7, <1>8, <1>9, <1>10 DEF DevSend!TxStep, p

\* A step of the host's receiver on token t: the packet is stored, or the buffer stays
\* and the answer follows from what was read.
LEMMA HostReceives ==
    ASSUME TypeInv, recvPc = "read", NEW t \in LineToken, HostRecv!RxStep(t)
    PROVE  /\ recvPc' \in {"read", "body", "drain", "ok", "failed"}
           /\ recvSeq' \in 0..255 /\ recvBuf' \in Seq(Nat)
           /\ recvErr' \in 0..5 /\ (RxWaiting(recvPc') => recvErr' < 5)
           /\ recvNak' \in {"C", "NAK"} /\ toDevice' \in Line
           /\ \/ /\ t.kind = "SOH" /\ t.seq = recvSeq /\ recvPc' = "read"
                 /\ recvBuf' = Append(recvBuf, t.data) /\ recvBuf' # <<>>
                 /\ Len(recvBuf') = Len(recvBuf) + 1 /\ Len(recvBuf') > Len(recvBuf)
                 /\ recvSeq' = (recvSeq + 1) % 256 /\ recvNak' = "NAK"
                 /\ toDevice' = Append(toDevice, Byte("ACK"))
              \/ /\ recvBuf' = recvBuf /\ recvSeq' = recvSeq /\ recvNak' = recvNak
                 /\ ~(Len(recvBuf') > Len(recvBuf))
                 /\ \/ /\ t.kind = "SOH" /\ t.seq = recvSeq - 1 /\ recvPc' = "read"
                       /\ toDevice' = Append(toDevice, Byte("ACK"))
                    \/ /\ t.kind = "SOH" /\ recvPc' = "failed"
                       /\ toDevice' = Append(toDevice, Byte("CAN"))
                    \/ /\ t.kind = "EOT" /\ recvPc' = "ok"
                       /\ toDevice' = Append(toDevice, Byte("ACK"))
                    \/ /\ t.kind = "bad" /\ recvPc' \in {"read", "failed"}
                       /\ toDevice' = Append(toDevice, Byte(recvNak))
                    \/ /\ t.kind = "short" /\ recvPc' = "body" /\ toDevice' = toDevice
                    \/ /\ t.kind \notin {"SOH", "EOT", "bad", "short"}
                       /\ recvPc' = "drain" /\ toDevice' = toDevice
<1>1. /\ toDevice \in Line /\ recvSeq \in 0..255 /\ recvBuf \in Seq(Nat)
      /\ recvErr \in 0..5 /\ recvErr < 5 /\ recvNak \in {"C", "NAK"}
      /\ Len(recvBuf) \in Nat
  BY DEF TypeInv, HostTypes, DevTypes, RxWaiting
<1>2. /\ Append(toDevice, Byte("ACK")) \in Line /\ Append(toDevice, Byte("CAN")) \in Line
      /\ Append(toDevice, Byte(recvNak)) \in Line
      /\ \A k : HostRecv!Byte(k) = Byte(k)
  BY <1>1, ByteToken, AppendLine
     DEF Kinds, SentKinds, PacketKinds, HostRecv!Byte, Byte, DevRecv!Byte
<1>3. ~(Len(recvBuf) > Len(recvBuf))
  BY <1>1
<1>4. CASE HostRecv!StorePacket(t)
  <2>1. /\ t.kind = "SOH" /\ t.seq = recvSeq /\ recvPc' = "read"
        /\ recvBuf' = Append(recvBuf, t.data) /\ recvSeq' = (recvSeq + 1) % 256
        /\ recvNak' = "NAK" /\ recvErr' = 0
        /\ toDevice' = Append(toDevice, Byte("ACK"))
    BY <1>4, <1>2 DEF HostRecv!StorePacket, HostRecv!IsExpected, HostRecv!Uint8, HostRecv!Answer
  <2>2. t.data \in Nat
    BY DEF LineToken
  <2>3. /\ Append(recvBuf, t.data) \in Seq(Nat) /\ Append(recvBuf, t.data) # <<>>
        /\ Len(Append(recvBuf, t.data)) = Len(recvBuf) + 1
    BY <1>1, <2>2
  <2>4. /\ (recvSeq + 1) % 256 \in 0..255 /\ Len(recvBuf) + 1 > Len(recvBuf)
        /\ recvErr' \in 0..5 /\ recvErr' < 5
    BY <1>1, <2>1
  <2>. QED
    BY <1>2, <2>1, <2>3, <2>4
<1>5. CASE HostRecv!DropDuplicate(t)
  BY <1>1, <1>2, <1>3, <1>5
     DEF HostRecv!DropDuplicate, HostRecv!IsDuplicate, HostRecv!Answer, HostRecv!rxVars
<1>6. CASE HostRecv!CancelReception(t)
  BY <1>1, <1>2, <1>3, <1>6 DEF HostRecv!CancelReception, HostRecv!Answer, RxWaiting
<1>7. CASE HostRecv!EndReception(t)
  BY <1>1, <1>2, <1>3, <1>7 DEF HostRecv!EndReception, HostRecv!Answer, RxWaiting
<1>8. CASE HostRecv!CorruptedPacket(t)
  <2>1. /\ t.kind = "bad" /\ recvErr' = recvErr + 1
        /\ recvPc' = IF recvErr + 1 < 5 THEN "read" ELSE "failed"
        /\ toDevice' = Append(toDevice, Byte(recvNak))
        /\ UNCHANGED <<recvSeq, recvBuf, recvNak>>
    BY <1>8, <1>2
       DEF HostRecv!CorruptedPacket, HostRecv!ReadError, HostRecv!Answer, HostRecv!MAX_RX_ERRORS
  <2>2. recvErr' \in 0..5
    BY <1>1, <2>1
  <2>3. CASE recvErr + 1 < 5
    BY <1>1, <1>2, <1>3, <2>1, <2>2, <2>3
  <2>4. CASE ~(recvErr + 1 < 5)
    BY <1>1, <1>2, <1>3, <2>1, <2>2, <2>4 DEF RxWaiting
  <2>. QED
    BY <2>3, <2>4
<1>9. CASE HostRecv!ShortPacket(t)
  BY <1>1, <1>3, <1>9 DEF HostRecv!ShortPacket
<1>10. CASE HostRecv!UnexpectedByte(t)
  BY <1>1, <1>3, <1>10 DEF HostRecv!UnexpectedByte
<1>. QED
  BY <1>4, <1>5, <1>6, <1>7, <1>8, <1>9, <1>10 DEF HostRecv!RxStep

\* A read of the host that failed is answered by nak, the fifth time for the last.
LEMMA HostGivesUp ==
    ASSUME TypeInv, RxWaiting(recvPc), HostRecv!ReadError
    PROVE  /\ recvPc' \in {"read", "failed"}
           /\ recvErr' \in 0..5 /\ (RxWaiting(recvPc') => recvErr' < 5)
           /\ toDevice' \in Line /\ Byte(recvNak) \in LineToken
           /\ toDevice' = Append(toDevice, Byte(recvNak))
           /\ recvSeq' = recvSeq /\ recvBuf' = recvBuf /\ recvNak' = recvNak
<1>1. toDevice \in Line /\ recvErr \in 0..5 /\ recvErr < 5 /\ recvNak \in {"C", "NAK"}
  BY DEF TypeInv, HostTypes, DevTypes, RxWaiting
<1>2. /\ Append(toDevice, Byte(recvNak)) \in Line /\ Byte(recvNak) \in LineToken
      /\ \A k : HostRecv!Byte(k) = Byte(k)
  BY <1>1, ByteToken, AppendLine
     DEF Kinds, SentKinds, PacketKinds, HostRecv!Byte, Byte, DevRecv!Byte
<1>3. /\ recvErr' = recvErr + 1
      /\ recvPc' = IF recvErr + 1 < 5 THEN "read" ELSE "failed"
      /\ toDevice' = Append(toDevice, Byte(recvNak))
      /\ UNCHANGED <<recvSeq, recvBuf, recvNak>>
  BY <1>2 DEF HostRecv!ReadError, HostRecv!Answer, HostRecv!MAX_RX_ERRORS
<1>4. recvErr' \in 0..5
  BY <1>1, <1>3
<1>5. CASE recvErr + 1 < 5
  BY <1>2, <1>3, <1>4, <1>5
<1>6. CASE ~(recvErr + 1 < 5)
  BY <1>2, <1>3, <1>4, <1>6 DEF RxWaiting
<1>. QED
  BY <1>5, <1>6

\* The same at the device.
LEMMA DevReceives ==
    ASSUME TypeInv, devRecvPc = "read", NEW t \in LineToken, DevRecv!RxStep(t)
    PROVE  /\ devRecvPc' \in {"read", "body", "drain", "ok", "failed"}
           /\ devRecvSeq' \in 0..255 /\ devRecvBuf' \in Seq(Nat)
           /\ devRecvErr' \in 0..5 /\ (RxWaiting(devRecvPc') => devRecvErr' < 5)
           /\ devRecvNak' \in {"C", "NAK"} /\ toHost' \in Line
           /\ \/ /\ t.kind = "SOH" /\ t.seq = devRecvSeq /\ devRecvPc' = "read"
                 /\ devRecvBuf' = Append(devRecvBuf, t.data) /\ devRecvBuf' # <<>>
                 /\ Len(devRecvBuf') = Len(devRecvBuf) + 1 /\ Len(devRecvBuf') > Len(devRecvBuf)
                 /\ devRecvSeq' = (devRecvSeq + 1) % 256 /\ devRecvNak' = "NAK"
                 /\ toHost' = Append(toHost, Byte("ACK"))
              \/ /\ devRecvBuf' = devRecvBuf /\ devRecvSeq' = devRecvSeq /\ devRecvNak' = devRecvNak
                 /\ ~(Len(devRecvBuf') > Len(devRecvBuf))
                 /\ \/ /\ t.kind = "SOH" /\ t.seq = devRecvSeq - 1 /\ devRecvPc' = "read"
                       /\ toHost' = Append(toHost, Byte("ACK"))
                    \/ /\ t.kind = "SOH" /\ devRecvPc' = "failed"
                       /\ toHost' = Append(toHost, Byte("CAN"))
                    \/ /\ t.kind = "EOT" /\ devRecvPc' = "ok"
                       /\ toHost' = Append(toHost, Byte("ACK"))
                    \/ /\ t.kind = "bad" /\ devRecvPc' \in {"read", "failed"}
                       /\ toHost' = Append(toHost, Byte(devRecvNak))
                    \/ /\ t.kind = "short" /\ devRecvPc' = "body" /\ toHost' = toHost
                    \/ /\ t.kind \notin {"SOH", "EOT", "bad", "short"}
                       /\ devRecvPc' = "drain" /\ toHost' = toHost
<1>1. /\ toHost \in Line /\ devRecvSeq \in 0..255 /\ devRecvBuf \in Seq(Nat)
      /\ devRecvErr \in 0..5 /\ devRecvErr < 5 /\ devRecvNak \in {"C", "NAK"}
      /\ Len(devRecvBuf) \in Nat
  BY DEF TypeInv, HostTypes, DevTypes, RxWaiting
<1>2. /\ Append(toHost, Byte("ACK")) \in Line /\ Append(toHost, Byte("CAN")) \in Line
      /\ Append(toHost, Byte(devRecvNak)) \in Line
      /\ \A k : DevRecv!Byte(k) = Byte(k)
  BY <1>1, ByteToken, AppendLine
     DEF Kinds, SentKinds, PacketKinds, DevRecv!Byte, Byte, DevRecv!Byte
<1>3. ~(Len(devRecvBuf) > Len(devRecvBuf))
  BY <1>1
<1>4. CASE DevRecv!StorePacket(t)
  <2>1. /\ t.kind = "SOH" /\ t.seq = devRecvSeq /\ devRecvPc' = "read"
        /\ devRecvBuf' = Append(devRecvBuf, t.data) /\ devRecvSeq' = (devRecvSeq + 1) % 256
        /\ devRecvNak' = "NAK" /\ devRecvErr' = 0
        /\ toHost' = Append(toHost, Byte("ACK"))
    BY <1>4, <1>2 DEF DevRecv!StorePacket, DevRecv!IsExpected, DevRecv!Uint8, DevRecv!Answer
  <2>2. t.data \in Nat
    BY DEF LineToken
  <2>3. /\ Append(devRecvBuf, t.data) \in Seq(Nat) /\ Append(devRecvBuf, t.data) # <<>>
        /\ Len(Append(devRecvBuf, t.data)) = Len(devRecvBuf) + 1
    BY <1>1, <2>2
  <2>4. /\ (devRecvSeq + 1) % 256 \in 0..255 /\ Len(devRecvBuf) + 1 > Len(devRecvBuf)
        /\ devRecvErr' \in 0..5 /\ devRecvErr' < 5
    BY <1>1, <2>1
  <2>. QED
    BY <1>2, <2>1, <2>3, <2>4
<1>5. CASE DevRecv!DropDuplicate(t)
  BY <1>1, <1>2, <1>3, <1>5
     DEF DevRecv!DropDuplicate, DevRecv!IsDuplicate, DevRecv!Answer, DevRecv!rxVars
<1>6. CASE DevRecv!CancelReception(t)
  BY <1>1, <1>2, <1>3, <1>6 DEF DevRecv!CancelReception, DevRecv!Answer, RxWaiting
<1>7. CASE DevRecv!EndReception(t)
  BY <1>1, <1>2, <1>3, <1>7 DEF DevRecv!EndReception, DevRecv!Answer, RxWaiting
<1>8. CASE DevRecv!CorruptedPacket(t)
  <2>1. /\ t.kind = "bad" /\ devRecvErr' = devRecvErr + 1
        /\ devRecvPc' = IF devRecvErr + 1 < 5 THEN "read" ELSE "failed"
        /\ toHost' = Append(toHost, Byte(devRecvNak))
        /\ UNCHANGED <<devRecvSeq, devRecvBuf, devRecvNak>>
    BY <1>8, <1>2
       DEF DevRecv!CorruptedPacket, DevRecv!ReadError, DevRecv!Answer, DevRecv!MAX_RX_ERRORS
  <2>2. devRecvErr' \in 0..5
    BY <1>1, <2>1
  <2>3. CASE devRecvErr + 1 < 5
    BY <1>1, <1>2, <1>3, <2>1, <2>2, <2>3
  <2>4. CASE ~(devRecvErr + 1 < 5)
    BY <1>1, <1>2, <1>3, <2>1, <2>2, <2>4 DEF RxWaiting
  <2>. QED
    BY <2>3, <2>4
<1>9. CASE DevRecv!ShortPacket(t)
  BY <1>1, <1>3, <1>9 DEF DevRecv!ShortPacket
<1>10. CASE DevRecv!UnexpectedByte(t)
  BY <1>1, <1>3, <1>10 DEF DevRecv!UnexpectedByte
<1>. QED
  BY <1>4, <1>5, <1>6, <1>7, <1>8, <1>9, <1>10 DEF DevRecv!RxStep

\* The same at the device.
LEMMA DevGivesUp ==
    ASSUME TypeInv, RxWaiting(devRecvPc), DevRecv!ReadError
    PROVE  /\ devRecvPc' \in {"read", "failed"}
           /\ devRecvErr' \in 0..5 /\ (RxWaiting(devRecvPc') => devRecvErr' < 5)
           /\ toHost' \in Line /\ Byte(devRecvNak) \in LineToken
           /\ toHost' = Append(toHost, Byte(devRecvNak))
           /\ devRecvSeq' = devRecvSeq /\ devRecvBuf' = devRecvBuf /\ devRecvNak' = devRecvNak
<1>1. toHost \in Line /\ devRecvErr \in 0..5 /\ devRecvErr < 5 /\ devRecvNak \in {"C", "NAK"}
  BY DEF TypeInv, HostTypes, DevTypes, RxWaiting
<1>2. /\ Append(toHost, Byte(devRecvNak)) \in Line /\ Byte(devRecvNak) \in LineToken
      /\ \A k : DevRecv!Byte(k) = Byte(k)
  BY <1>1, ByteToken, AppendLine
     DEF Kinds, SentKinds, PacketKinds, DevRecv!Byte, Byte, DevRecv!Byte
<1>3. /\ devRecvErr' = devRecvErr + 1
      /\ devRecvPc' = IF devRecvErr + 1 < 5 THEN "read" ELSE "failed"
      /\ toHost' = Append(toHost, Byte(devRecvNak))
      /\ UNCHANGED <<devRecvSeq, devRecvBuf, devRecvNak>>
  BY <1>2 DEF DevRecv!ReadError, DevRecv!Answer, DevRecv!MAX_RX_ERRORS
<1>4. devRecvErr' \in 0..5
  BY <1>1, <1>3
<1>5. CASE devRecvErr + 1 < 5
  BY <1>2, <1>3, <1>4, <1>5
<1>6. CASE ~(devRecvErr + 1 < 5)
  BY <1>2, <1>3, <1>4, <1>6 DEF RxWaiting
<1>. QED
  BY <1>5, <1>6

-----------------------------------------------------------------------------
(* Type correctness.                                                       *)

\* The values that the calls start with are in range.
LEMMA StartValues ==
    /\ 0 \in 0..MaxCalls /\ 0 \in 0..(ReqBlocks + 1) /\ 0 \in 0..(AnsBlocks + 1)
    /\ 0 \in 0..2 /\ 1 \in 0..255 /\ 0 \in 0..5 /\ 0 < 5
    /\ <<>> \in Seq(Nat) /\ {} \in SUBSET Packages /\ 0 \in Nat
BY DialogueAssumption

\* The first state is well typed.
LEMMA TypeInit == Init => TypeInv
<1>. SUFFICES ASSUME Init PROVE TypeInv
  OBVIOUS
<1>1. /\ running = FALSE /\ call = 0 /\ sendPc = "idle" /\ sendBlock = 0 /\ sendTries = 0
      /\ devSendPc = "idle" /\ devSendBlock = 0 /\ devSendTries = 0
      /\ toDevice = <<>> /\ toHost = <<>>
  BY DEF Init, HostSend!TxInit, DevSend!TxInit
<1>2. /\ recvPc = "idle" /\ recvSeq = 1 /\ recvBuf = <<>> /\ recvErr = 0 /\ recvNak = "C"
      /\ devRecvPc = "idle" /\ devRecvSeq = 1 /\ devRecvBuf = <<>> /\ devRecvErr = 0
      /\ devRecvNak = "C" /\ recvFrom = {} /\ devRecvFrom = {} /\ lacks = 0 /\ devLacks = 0
  BY DEF Init, HostRecv!RxInit, DevRecv!RxInit
<1>3. HostTypes
  BY <1>1, <1>2, StartValues DEF HostTypes, SendPcs, RecvPcs, InCall, RxWaiting
<1>4. DevTypes
  BY <1>1, <1>2, StartValues DEF DevTypes, SendPcs, RecvPcs, RxWaiting
<1>5. RestTypes
  BY DialogueAssumption DEF Init, RestTypes
<1>. QED
  BY <1>1, <1>3, <1>4, <1>5, EmptyLine DEF TypeInv

LEMMA HostUnchanged ==
    ASSUME HostTypes, UNCHANGED host
    PROVE  HostTypes'
BY DEF HostTypes, host, hostSend, hostRecv, InCall, RxWaiting

LEMMA DevUnchanged ==
    ASSUME DevTypes, UNCHANGED device
    PROVE  DevTypes'
BY DEF DevTypes, device, devSend, devRecv, RxWaiting

\* A packet that is stored is of a package.
LEMMA StoredFrom ==
    ASSUME NEW from \in SUBSET Packages, NEW t \in LineToken, t.kind = "SOH"
    PROVE  from \cup {t.pkg} \in SUBSET Packages
BY DEF LineToken

\* The 'C' that opens a reception is a token.
LEMMA CToken ==
    /\ Byte("C") \in LineToken /\ Byte("C").kind = "C"
    /\ HostRecv!Byte("C") = Byte("C") /\ DevRecv!Byte("C") = Byte("C")
<1>1. "C" \in Kinds \ {"SOH", "tail", "short"}
  BY DEF Kinds, SentKinds, PacketKinds
<1>. QED
  BY <1>1, ByteToken

\* What a packet that was read lacks.
LEMMA LackingType ==
    ASSUME NEW t \in LineToken
    PROVE  Lacking(t) \in Nat /\ (t.kind = "short" => Lacking(t) \in 1..(PacketBytes - 1))
BY DEF Lacking, LineToken

\* Every step keeps the types.
LEMMA TypeNext ==
    ASSUME TypeInv, [Next]_vars
    PROVE  TypeInv'
<1>. USE DEF TypeInv
<1>1. CASE StartProgram
  <2>1. HostTypes'
    BY <1>1 DEF StartProgram, HostTypes, hostSend, hostRecv, InCall, RxWaiting
  <2>2. DevTypes'
    BY <1>1, DevUnchanged DEF StartProgram
  <2>. QED
    BY <1>1, <2>1, <2>2 DEF StartProgram, RestTypes, faults
<1>2. CASE BeginCall
  <2>1. call' \in 0..MaxCalls
    BY <1>2, DialogueAssumption DEF BeginCall, HostTypes
  <2>2. HostTypes'
    BY <1>2, <2>1 DEF BeginCall, HostTypes, HostSend!TxCall, HostSend!MAX_RETRANSMIT,
       hostRecv, InCall, RxWaiting, SendPcs
  <2>3. DevTypes'
    BY <1>2, DevUnchanged DEF BeginCall
  <2>. QED
    BY <1>2, <2>2, <2>3 DEF BeginCall, RestTypes, faults, rest, HostSend!TxCall
<1>3. ASSUME NEW rsp, SendStep(rsp), UNCHANGED <<running, call, hostRecv, device, faults>>,
             toHost' \in Line, expired' \in {"none", "host"},
             misread' \subseteq {"ACK", "EOT"}
      PROVE  TypeInv'
  <2>1. HostTypes'
    <3>1. /\ sendPc' \in SendPcs /\ sendBlock' \in 0..(ReqBlocks + 1) /\ sendTries' \in 0..2
          /\ sendPc' = "pkt" => sendBlock' \in 1..ReqBlocks
          /\ sendPc \in {"wait_c", "pkt", "eot"}
      BY <1>3, HostSends DEF SendPcs
    <3>. QED
      BY <1>3, <3>1 DEF HostTypes, hostRecv, InCall, RxWaiting
  <2>2. toDevice' \in Line
    BY <1>3, HostSends
  <2>3. DevTypes'
    BY <1>3, DevUnchanged
  <2>. QED
    BY <1>3, <2>1, <2>2, <2>3 DEF RestTypes, faults
<1>4. CASE HostSendHear
  <2>1. PICK r \in Bytes(toHost) : SendStep(r[1]) /\ toHost' = r[2]
    BY <1>4 DEF HostSendHear
  <2>2. toHost' \in Line
    BY <1>4, <2>1, BytesRead DEF HostSendHear
  <2>3. misread' \subseteq {"ACK", "EOT"}
    BY <1>4, MisreadKinds DEF HostSendHear, RestTypes
  <2>. QED
    BY <1>3, <1>4, <2>1, <2>2, <2>3 DEF HostSendHear
<1>5. CASE HostSendExpire
  BY <1>3, <1>5 DEF HostSendExpire, HostTimer, RestTypes
<1>6. CASE RequestSent
  <2>1. toDevice' \in Line
    BY <1>6, CToken, AppendLine DEF RequestSent, HostRecv!RxCall, HostRecv!Answer
  <2>2. HostTypes'
    BY <1>6, StartValues DEF RequestSent, EndSend, HostRecv!RxCall, HostTypes, InCall, RxWaiting,
       SendPcs, RecvPcs
  <2>3. DevTypes'
    BY <1>6, DevUnchanged DEF RequestSent
  <2>. QED
    BY <1>6, <2>1, <2>2, <2>3 DEF RequestSent, RestTypes, faults, rest
<1>7. CASE HostRecvHear
  <2>1. PICK r \in Tokens(toHost) : /\ HostRecv!RxStep(r[1])
                                    /\ recvFrom' = Stored(recvFrom, recvBuf, r[1])
                                    /\ lacks' = Lacking(r[1])
                                    /\ toHost' = r[2]
    BY <1>7 DEF HostRecvHear
  <2>2. r[1] \in LineToken /\ toHost' \in Line /\ recvPc = "read"
    BY <1>7, <2>1, TokensRead DEF HostRecvHear
  <2>3. /\ recvPc' \in RecvPcs /\ recvPc' # "idle"
        /\ recvSeq' \in 0..255 /\ recvBuf' \in Seq(Nat)
        /\ recvErr' \in 0..5 /\ (RxWaiting(recvPc') => recvErr' < 5)
        /\ recvNak' \in {"C", "NAK"} /\ toDevice' \in Line
        /\ Len(recvBuf') > Len(recvBuf) => r[1].kind = "SOH"
        /\ recvPc' = "body" => r[1].kind = "short"
    BY <2>1, <2>2, HostReceives DEF RecvPcs
  <2>4. recvFrom' \in SUBSET Packages
    BY <2>1, <2>2, <2>3, StoredFrom DEF Stored, HostTypes
  <2>5. lacks' \in Nat /\ (recvPc' = "body" => lacks' \in 1..(PacketBytes - 1))
    BY <2>1, <2>2, <2>3, LackingType
  <2>6. HostTypes'
    BY <1>7, <2>2, <2>3, <2>4, <2>5 DEF HostRecvHear, HostTypes, hostSend, InCall, RxWaiting
  <2>7. DevTypes'
    BY <1>7, DevUnchanged DEF HostRecvHear
  <2>8. RestTypes'
    BY <1>7, MisreadKinds DEF HostRecvHear, RestTypes, faults
  <2>. QED
    BY <2>2, <2>3, <2>6, <2>7, <2>8
<1>8. CASE HostRecvDrain
  BY <1>8, HeadTail, HostUnchanged, DevUnchanged DEF HostRecvDrain, RestTypes, rest, faults
<1>9. ASSUME HostRecv!ReadError, RxWaiting(recvPc), lacks' = 0,
             UNCHANGED <<running, call, hostSend, recvFrom>>
      PROVE  HostTypes' /\ toDevice' \in Line
  <2>1. /\ recvPc' \in {"read", "failed"}
        /\ recvErr' \in 0..5 /\ (RxWaiting(recvPc') => recvErr' < 5)
        /\ toDevice' \in Line /\ recvPc # "idle"
        /\ recvSeq' = recvSeq /\ recvBuf' = recvBuf /\ recvNak' = recvNak
    BY <1>9, HostGivesUp DEF RxWaiting
  <2>. QED
    BY <1>9, <2>1 DEF HostTypes, hostSend, InCall, RecvPcs, RxWaiting
<1>27. CASE HostRecvExpire
  <2>1. HostTypes' /\ toDevice' \in Line
    BY <1>9, <1>27 DEF HostRecvExpire
  <2>2. DevTypes'
    BY <1>27, DevUnchanged DEF HostRecvExpire
  <2>. QED
    BY <1>27, <2>1, <2>2 DEF HostRecvExpire, HostTimer, RestTypes, faults
<1>28. CASE HostRecvFill
  <2>1. /\ lacks \in 1..(PacketBytes - 1) /\ toHost # <<>> /\ RxWaiting(recvPc)
        /\ toHost' = Filled(toHost, lacks) /\ lacks' = StillLacks(toHost, lacks)
    BY <1>28 DEF HostRecvFill, HostTypes, RxWaiting
  <2>2. toHost' \in Line /\ lacks' \in 0..(PacketBytes - 1) /\ PacketBytes \in Nat
    BY <2>1, FilledLine, DialogueAssumption
  <2>3. HostTypes' /\ toDevice' \in Line
    <3>1. CASE lacks' = 0 /\ HostRecv!ReadError
      BY <1>9, <1>28, <2>1, <3>1 DEF HostRecvFill
    <3>2. CASE lacks' > 0 /\ UNCHANGED <<recvPc, recvSeq, recvBuf, recvErr, recvNak, toDevice>>
      <4>1. lacks' \in Nat /\ lacks' \in 1..(PacketBytes - 1)
        BY <2>2, <3>2
      <4>. QED
        BY <1>28, <3>2, <4>1 DEF HostRecvFill, HostTypes, hostSend, InCall, RxWaiting
    <3>. QED
      BY <1>28, <3>1, <3>2 DEF HostRecvFill
  <2>4. DevTypes'
    BY <1>28, DevUnchanged DEF HostRecvFill
  <2>. QED
    BY <1>28, <2>2, <2>3, <2>4 DEF HostRecvFill, RestTypes, faults
<1>10. CASE CallReturns
  <2>1. HostTypes'
    BY <1>10 DEF CallReturns, EndRecv, HostTypes, hostSend, InCall, RecvPcs, RxWaiting
  <2>2. DevTypes'
    BY <1>10, DevUnchanged DEF CallReturns
  <2>. QED
    BY <1>10, <2>1, <2>2 DEF CallReturns, RestTypes, rest, faults
<1>11. ASSUME EndProgram
       PROVE  HostTypes' /\ DevTypes' /\ toHost' \in Line
  <2>1. HostTypes'
    BY <1>11, StartValues
       DEF EndProgram, EndSend, EndRecv, HostTypes, InCall, SendPcs, RecvPcs, RxWaiting
  <2>2. DevTypes'
    BY <1>11, DevUnchanged DEF EndProgram
  <2>. QED
    BY <1>11, <2>1, <2>2, EmptyLine DEF EndProgram
<1>12. CASE CallFails
  BY <1>11, <1>12 DEF CallFails, RestTypes, rest, faults
<1>13. CASE Interrupted
  <2>1. toDevice' \in Line
    BY <1>13, CutLine DEF Interrupted
  <2>2. stops' \in 0..MaxStops
    <3>1. stops > 0 /\ stops' = stops - 1 /\ stops \in 0..MaxStops
      BY <1>13 DEF Interrupted, RestTypes
    <3>. QED
      BY <3>1, DialogueAssumption
  <2>. QED
    BY <1>11, <1>13, <2>1, <2>2 DEF Interrupted, RestTypes
<1>14. CASE Unread
  BY <1>14, EmptyLine, HostUnchanged, DevUnchanged DEF Unread, RestTypes, rest, faults
<1>15. CASE DevListen
  <2>1. toHost' \in Line
    BY <1>15, CToken, AppendLine DEF DevListen, DevRecv!Answer
  <2>2. DevTypes'
    BY <1>15, StartValues DEF DevListen, DevTypes, SendPcs, RecvPcs, RxWaiting
  <2>. QED
    BY <1>15, <2>1, <2>2, HostUnchanged DEF DevListen, RestTypes, rest, faults
<1>16. CASE DevRecvHear
  <2>1. PICK r \in Tokens(toDevice) : /\ DevRecv!RxStep(r[1])
                                      /\ devRecvFrom' = Stored(devRecvFrom, devRecvBuf, r[1])
                                      /\ devLacks' = Lacking(r[1])
                                      /\ toDevice' = r[2]
    BY <1>16 DEF DevRecvHear
  <2>2. r[1] \in LineToken /\ toDevice' \in Line /\ devRecvPc = "read"
    BY <1>16, <2>1, TokensRead DEF DevRecvHear
  <2>3. /\ devRecvPc' \in RecvPcs
        /\ devRecvSeq' \in 0..255 /\ devRecvBuf' \in Seq(Nat)
        /\ devRecvErr' \in 0..5 /\ (RxWaiting(devRecvPc') => devRecvErr' < 5)
        /\ devRecvNak' \in {"C", "NAK"} /\ toHost' \in Line
        /\ Len(devRecvBuf') > Len(devRecvBuf) => r[1].kind = "SOH"
        /\ devRecvPc' = "body" => r[1].kind = "short"
    BY <2>1, <2>2, DevReceives DEF RecvPcs
  <2>4. devRecvFrom' \in SUBSET Packages
    BY <2>1, <2>2, <2>3, StoredFrom DEF Stored, DevTypes
  <2>5. devLacks' \in Nat /\ (devRecvPc' = "body" => devLacks' \in 1..(PacketBytes - 1))
    BY <2>1, <2>2, <2>3, LackingType
  <2>6. DevTypes'
    BY <1>16, <2>2, <2>3, <2>4, <2>5 DEF DevRecvHear, DevTypes, devSend, RxWaiting
  <2>7. HostTypes'
    BY <1>16, HostUnchanged DEF DevRecvHear
  <2>8. RestTypes'
    BY <1>16, MisreadKinds DEF DevRecvHear, RestTypes, faults
  <2>. QED
    BY <2>2, <2>3, <2>6, <2>7, <2>8
<1>17. ASSUME DevRecv!ReadError, RxWaiting(devRecvPc), devLacks' = 0,
              UNCHANGED <<devRecvFrom, devSend>>
       PROVE  DevTypes' /\ toHost' \in Line
  <2>1. /\ devRecvPc' \in {"read", "failed"}
        /\ devRecvErr' \in 0..5 /\ (RxWaiting(devRecvPc') => devRecvErr' < 5)
        /\ toHost' \in Line
        /\ devRecvSeq' = devRecvSeq /\ devRecvBuf' = devRecvBuf /\ devRecvNak' = devRecvNak
    BY <1>17, DevGivesUp
  <2>. QED
    BY <1>17, <2>1 DEF DevTypes, devSend, RecvPcs, RxWaiting
<1>18. CASE DevRecvFill
  <2>1. /\ devLacks \in 1..(PacketBytes - 1) /\ toDevice # <<>> /\ RxWaiting(devRecvPc)
        /\ toDevice' = Filled(toDevice, devLacks) /\ devLacks' = StillLacks(toDevice, devLacks)
    BY <1>18 DEF DevRecvFill, DevTypes, RxWaiting
  <2>2. toDevice' \in Line /\ devLacks' \in 0..(PacketBytes - 1) /\ PacketBytes \in Nat
    BY <2>1, FilledLine, DialogueAssumption
  <2>3. DevTypes' /\ toHost' \in Line
    <3>1. CASE devLacks' = 0 /\ DevRecv!ReadError
      BY <1>17, <1>18, <2>1, <3>1 DEF DevRecvFill
    <3>2. CASE /\ devLacks' > 0
               /\ UNCHANGED <<devRecvPc, devRecvSeq, devRecvBuf, devRecvErr, devRecvNak, toHost>>
      <4>1. devLacks' \in Nat /\ devLacks' \in 1..(PacketBytes - 1)
        BY <2>2, <3>2
      <4>. QED
        BY <1>18, <3>2, <4>1 DEF DevRecvFill, DevTypes, devSend, RxWaiting
    <3>. QED
      BY <1>18, <3>1, <3>2 DEF DevRecvFill
  <2>4. HostTypes'
    BY <1>18, HostUnchanged DEF DevRecvFill
  <2>. QED
    BY <1>18, <2>2, <2>3, <2>4 DEF DevRecvFill, RestTypes, faults
<1>19. CASE DevRecvDrain
  BY <1>19, HeadTail, HostUnchanged, DevUnchanged DEF DevRecvDrain, RestTypes, rest, faults
<1>20. CASE DevRecvExpire
  BY <1>17, <1>20, HostUnchanged DEF DevRecvExpire, DevTimer, RestTypes, faults
<1>21. CASE DevAnswer
  <2>1. DevTypes'
    BY <1>21 DEF DevAnswer, DevSend!TxCall, DevSend!MAX_RETRANSMIT, DevTypes, SendPcs,
       RecvPcs, RxWaiting
  <2>. QED
    BY <1>21, <2>1, HostUnchanged DEF DevAnswer, DevSend!TxCall, RestTypes, rest, faults
<1>22. ASSUME NEW rsp, DevSendStep(rsp), UNCHANGED <<host, devRecv, faults>>,
              toDevice' \in Line, expired' \in {"none", "device"},
              misread' \subseteq {"ACK", "EOT"}
       PROVE  TypeInv'
  <2>1. /\ devSendPc' \in SendPcs /\ devSendBlock' \in 0..(AnsBlocks + 1)
        /\ devSendTries' \in 0..2
        /\ devSendPc' = "pkt" => devSendBlock' \in 1..AnsBlocks
        /\ toHost' \in Line
    BY <1>22, DevSends DEF SendPcs
  <2>2. DevTypes'
    BY <1>22, <2>1 DEF DevTypes, devRecv, RxWaiting
  <2>. QED
    BY <1>22, <2>1, <2>2, HostUnchanged DEF RestTypes, faults
<1>23. CASE DevSendHear
  <2>1. PICK r \in Bytes(toDevice) : DevSendStep(r[1]) /\ toDevice' = r[2]
    BY <1>23 DEF DevSendHear
  <2>2. toDevice' \in Line
    BY <1>23, <2>1, BytesRead DEF DevSendHear
  <2>3. misread' \subseteq {"ACK", "EOT"}
    BY <1>23, MisreadKinds DEF DevSendHear, RestTypes
  <2>. QED
    BY <1>22, <1>23, <2>1, <2>2, <2>3 DEF DevSendHear
<1>24. CASE DevSendExpire
  BY <1>22, <1>24 DEF DevSendExpire, DevTimer, RestTypes
<1>25. CASE Disturb
  <2>1. noise' \in 0..MaxNoise
    BY <1>25, DialogueAssumption DEF Disturb, RestTypes
  <2>2. toDevice' \in Line /\ toHost' \in Line
    BY <1>25, NoiseReduces DEF Disturb
  <2>. QED
    BY <1>25, <2>1, <2>2, HostUnchanged, DevUnchanged DEF Disturb, RestTypes
<1>26. CASE UNCHANGED vars
  BY <1>26, HostUnchanged, DevUnchanged DEF vars, RestTypes, rest, faults
<1>. QED
  BY <1>1, <1>2, <1>4, <1>5, <1>6, <1>7, <1>8, <1>10, <1>12, <1>13, <1>14, <1>15,
     <1>16, <1>18, <1>19, <1>20, <1>21, <1>23, <1>24, <1>25, <1>26, <1>27, <1>28
     DEF Next, Program, Device, Done

\* Types, and the ranges of the retry and error counters at both ends of the line, hold
\* whatever the bytes inside packets are.
THEOREM TypeCorrect == Spec => []TypeOK
<1>1. TypeInv => TypeOK
  BY DEF TypeInv, HostTypes, DevTypes, RestTypes, SendPcs, RecvPcs, TypeOK,
     DevRecv!MAX_RX_ERRORS
<1>. QED
  BY <1>1, TypeInit, TypeNext, PTL DEF Spec
=============================================================================
