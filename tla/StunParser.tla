----------------------------- MODULE StunParser -----------------------------
(***************************************************************************)
(* The parser of STUN responses (stun/stun_discoverer.go).                 *)
(*                                                                         *)
(* A datagram is its size in bytes, the fields of the 20-byte header and   *)
(* the 32-bit words behind it; attributes start at multiples of four, so   *)
(* a word is two uint16 values, high half first.  One step is the check of *)
(* the header or one turn of the loop over the attributes.  A slice or an  *)
(* index out of range panics.  The field sent of a datagram is history,    *)
(* what its server put into it, and no action reads it.                    *)
(***************************************************************************)
EXTENDS Integers, Sequences

CONSTANTS
    Datagram,  \* what the listener may hand over
    TxID,      \* the expected transaction ID, three words
    MaxSize    \* the size of the listener's buffer: 65535

U16 == 65536
UInt16 == 0 .. (U16 - 1)
Word == UInt16 \X UInt16

ASSUME ConstantsAssumption ==
    /\ MaxSize \in UInt16
    /\ TxID \in Seq(Word) /\ Len(TxID) = 3
    /\ \A d \in Datagram :
          /\ d.size \in 0 .. MaxSize
          /\ d.length \in UInt16
          /\ d.words \in Seq(Word)
          /\ Len(d.sent) \in Nat
          /\ d.size - 20 < 4 * (Len(d.words) + 1)

VARIABLES
    data,    \* the datagram
    status,  \* "header", "attrs", then "done", "failed" or "panicked"
    idx,     \* the offset of the next attribute
    addr     \* the address returned

vars == <<data, status, idx, addr>>

BindingSuccess == 257
MagicCookie == <<8466, 42050>>
MappedAddress == 1
XORMappedAddress == 32

\* What an attribute yields besides an address: an error the loop skips, or an
\* index out of the range of a slice.
NoAddr == [kind |-> "none"]
Panic == [kind |-> "panic"]

Init ==
    /\ data \in Datagram
    /\ status = "header"
    /\ idx = 0
    /\ addr = NoAddr

-----------------------------------------------------------------------------
\* a ^ b on uint16: the bits of a hexadecimal digit, then digit by digit.
XorBit(a, b) == (a + b) % 2
Xor2(a, b) == 2 * XorBit(a \div 2, b \div 2) + XorBit(a % 2, b % 2)
Xor4(a, b) == 4 * Xor2(a \div 4, b \div 4) + Xor2(a % 4, b % 4)
Xor8(a, b) == 16 * Xor4(a \div 16, b \div 16) + Xor4(a % 16, b % 16)
Xor12(a, b) == 16 * Xor8(a \div 16, b \div 16) + Xor4(a % 16, b % 16)
Xor(a, b) == 16 * Xor12(a \div 16, b \div 16) + Xor4(a % 16, b % 16)

XorWord(w, m) == <<Xor(w[1], m[1]), Xor(w[2], m[2])>>

\* Port and address in the first k words of the value of n bytes at offset o,
\* under a mask.
Read(o, n, k, port, mask) ==
    IF 4 * k > n THEN Panic
    ELSE LET v == [i \in 1 .. k |-> data.words[o \div 4 + i]] IN
         [kind |-> "addr",
          port |-> Xor(v[1][2], port),
          ip |-> [i \in 1 .. (k - 1) |-> XorWord(v[i + 1], mask[i])]]

LowByte(h) == h % 256

Family(o) == LowByte(data.words[o \div 4 + 1][1])

\* What the two attribute parsers share.
Address(o, n, port, mask) ==
    IF n < 8 THEN NoAddr
    ELSE IF Family(o) = 1 THEN Read(o, n, 2, port, mask)
    ELSE IF Family(o) = 2 /\ n >= 20 THEN Read(o, n, 5, port, mask)
    ELSE NoAddr

\* Mutant: the IPv6 mask is the cookie over and over.
parseXORCookieOnly(o, n) == Address(o, n, MagicCookie[1], [i \in 1 .. 4 |-> MagicCookie])

parseXORMappedAddress(o, n) == Address(o, n, MagicCookie[1], <<MagicCookie>> \o TxID)

parseMappedAddress(o, n) == Address(o, n, 0, [i \in 1 .. 4 |-> <<0, 0>>])

-----------------------------------------------------------------------------
(* parseSTUNResponse. *)

\* Mutant: the check adds as uint16, like the slice.
TruncatedWrapped(d) == d.size < (20 + d.length) % U16

Truncated(d) == d.size < 20 + d.length

\* The end of attrs: data[20 : 20+msgLen], a sum of uint16.
SliceEnd(d) == (20 + d.length) % U16

AttrsLen == SliceEnd(data) - 20

CheckHeader ==
    /\ status = "header"
    /\ status' = IF \/ data.size < 20
                    \/ data.type # BindingSuccess
                    \/ data.cookie # MagicCookie
                    \/ data.tx # TxID
                    \/ Truncated(data)
                 THEN "failed"
                 ELSE IF SliceEnd(data) \in 20 .. data.size THEN "attrs" ELSE "panicked"
    /\ UNCHANGED <<data, idx, addr>>

\* Mutant: the header of the attribute is not skipped.
SkipValueOnly(len) == 4 * ((len + 3) \div 4)

\* Mutant: no padding.
SkipUnpadded(len) == 4 + len

\* From one attribute to the next, aligned to four bytes.
Skip(len) == 4 + 4 * ((len + 3) \div 4)

\* Mutant: the length is compared without the offset.
OverrunsFromZero(len) == len > AttrsLen

\* The value ends behind the message.
Overruns(len) == idx + 4 + len > AttrsLen

\* The attributes that carry an address; the others are skipped.
Value(type, o, len) ==
    IF type = XORMappedAddress THEN parseXORMappedAddress(o, len)
    ELSE IF type = MappedAddress THEN parseMappedAddress(o, len)
    ELSE NoAddr

Attribute ==
    /\ status = "attrs"
    /\ idx + 4 <= AttrsLen
    /\ LET head == data.words[idx \div 4 + 1]
           len == head[2]
           value == Value(head[1], idx + 4, len)
       IN IF Overruns(len)
          THEN status' = "failed" /\ UNCHANGED <<idx, addr>>
          ELSE IF value.kind = "none"
          THEN idx' = idx + Skip(len) /\ UNCHANGED <<status, addr>>
          ELSE /\ status' = IF value.kind = "panic" THEN "panicked" ELSE "done"
               /\ addr' = value
               /\ UNCHANGED idx
    /\ UNCHANGED data

NoAttribute ==
    /\ status = "attrs"
    /\ idx + 4 > AttrsLen
    /\ status' = "failed"
    /\ UNCHANGED <<data, idx, addr>>

Next == CheckHeader \/ Attribute \/ NoAttribute

Spec == Init /\ [][Next]_vars

\* The caller runs the parser to its end.
FairSpec == Spec /\ WF_vars(Next)

-----------------------------------------------------------------------------
(* Properties. *)

\* The types of the variables; attributes start at multiples of four.
TypeOK ==
    /\ data \in Datagram
    /\ status \in {"header", "attrs", "done", "failed", "panicked"}
    /\ idx \in Nat
    /\ idx % 4 = 0

\* The loop stays inside the message: no attribute is looked for more than the
\* padding of the last one behind its end, and an address that is returned was
\* read from the bytes that were received and that the message length covers.
Inside ==
    /\ status = "attrs" => idx <= AttrsLen + 3
    /\ status = "done" => idx + 12 <= AttrsLen /\ AttrsLen <= data.size - 20

\* No datagram that fits the listener's buffer makes the parser slice or index
\* out of range, although attrs is cut with a sum of uint16 and checked with a
\* sum of int, and although lengths inside the message are the sender's.
NoPanic == status # "panicked"

\* The server's side, from the layout of RFC 5389.  A datagram keeps what the
\* server put into it as d.sent: for every attribute its type and length, the words
\* of its value, the address it carries and the word where it starts.
Addr == [kind : {"addr"}, port : UInt16, ip : [1 .. 1 -> Word] \cup [1 .. 4 -> Word]]

Carries(a) == a.of # NoAddr

FamilyOf(x) == IF DOMAIN x.ip = 1 .. 1 THEN 1 ELSE 2
WordsOf(x) == IF FamilyOf(x) = 1 THEN 2 ELSE 5

\* The attribute holds its address as it is, or under the mask.
HoldsPlain(a) ==
    /\ a.head[1] = MappedAddress
    /\ a.value[1][2] = a.of.port
    /\ \A i \in DOMAIN a.of.ip : a.value[i + 1] = a.of.ip[i]

HoldsMasked(a) ==
    /\ a.head[1] = XORMappedAddress
    /\ a.value[1][2] = Xor(a.of.port, MagicCookie[1])
    /\ \A i \in DOMAIN a.of.ip : a.value[i + 1] = XorWord(a.of.ip[i], (<<MagicCookie>> \o TxID)[i])

WithAddress(a) ==
    /\ a.of \in Addr
    /\ a.head[2] = 4 * WordsOf(a.of)
    /\ LowByte(a.value[1][1]) = FamilyOf(a.of)
    /\ HoldsPlain(a) \/ HoldsMasked(a)

\* Another type, a value too short for its family, an unknown family.
WithoutAddress(a) ==
    \/ a.head[1] \notin {MappedAddress, XORMappedAddress}
    \/ a.head[2] < 8
    \/ LET family == LowByte(a.value[1][1]) IN family \notin {1, 2} \/ (family = 2 /\ a.head[2] < 20)

\* Where attribute i starts, in words; behind the last one the words end.
StartOf(d, i) == IF i <= Len(d.sent) THEN d.sent[i].at ELSE Len(d.words)

LaidOut(d) ==
    /\ StartOf(d, 1) = 0
    /\ \A i \in 1 .. Len(d.sent) :
          LET a == d.sent[i] IN
          /\ a.at \in Nat /\ a.head \in Word /\ a.value \in Seq(Word)
          /\ Len(a.value) = (a.head[2] + 3) \div 4
          /\ StartOf(d, i + 1) = a.at + 1 + Len(a.value)
          /\ a.at + 1 + Len(a.value) <= Len(d.words)
          /\ d.words[a.at + 1] = a.head
          /\ \A j \in 1 .. Len(a.value) : d.words[a.at + 1 + j] = a.value[j]
          /\ IF Carries(a) THEN WithAddress(a) ELSE WithoutAddress(a)

Intact(d) ==
    /\ d.type = BindingSuccess /\ d.cookie = MagicCookie /\ d.tx = TxID
    /\ d.length = 4 * Len(d.words) /\ d.size = 20 + d.length

\* A response, however its header was damaged, yields nothing but the address the
\* server put into the first attribute that carries one, whatever attributes come
\* before it; and an intact response with such an attribute never fails.
ParsedIsSent ==
    LaidOut(data) =>
       /\ status = "done" => \E i \in 1 .. Len(data.sent) :
             /\ addr = data.sent[i].of /\ Carries(data.sent[i])
             /\ \A j \in 1 .. (i - 1) : ~Carries(data.sent[j])
       /\ status = "failed" /\ Intact(data) =>
             \A i \in 1 .. Len(data.sent) : ~Carries(data.sent[i])

\* The parser comes to an end on every datagram: each turn of the loop gets on.
Terminates == <>(status \in {"done", "failed"})
=============================================================================
