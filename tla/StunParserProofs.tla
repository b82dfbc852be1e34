-------------------------- MODULE StunParserProofs --------------------------
(***************************************************************************)
(* Proofs about StunParser: for every set of datagrams that fit the        *)
(* listener's buffer.                                                      *)
(***************************************************************************)
EXTENDS StunParser, TLAPS, SequenceTheorems

\* All that is used of 2^16.
LEMMA U16Large == U16 \in Nat /\ U16 > 20
  BY SMTT(30) DEF U16

\* The shape of a datagram.
LEMMA Shape ==
    ASSUME NEW d \in Datagram
    PROVE  /\ d.size \in UInt16
           /\ d.length \in UInt16
           /\ d.words \in Seq(Word)
           /\ d.size - 20 < 4 * (Len(d.words) + 1)
<1>1. MaxSize \in UInt16
  BY ConstantsAssumption, Zenon
<1>2. /\ d.size \in 0 .. MaxSize
      /\ d.length \in UInt16
      /\ d.words \in Seq(Word)
      /\ d.size - 20 < 4 * (Len(d.words) + 1)
  BY ConstantsAssumption, Zenon
<1>3. \A m \in UInt16 : \A n \in 0 .. m : n \in UInt16
  BY U16Large, SMTT(30) DEF UInt16
<1> QED
  BY <1>1, <1>2, <1>3, Zenon

\* Once the truncation check is passed, the uint16 sum does not wrap, because
\* the buffer is smaller than 2^16: attrs is as long as the message says.
LEMMA SliceExact ==
    ASSUME NEW d \in Datagram, ~Truncated(d)
    PROVE  /\ SliceEnd(d) = 20 + d.length
           /\ SliceEnd(d) \in 20 .. d.size
<1>1. d.size \in UInt16 /\ d.length \in UInt16
  BY Shape, Zenon
<1>2. 20 + d.length <= d.size
  BY <1>1, U16Large, SMTT(30) DEF Truncated, UInt16
<1>3. 20 + d.length \in 0 .. (U16 - 1)
  BY <1>1, <1>2, U16Large, SMTT(30) DEF UInt16
<1>4. (20 + d.length) % U16 = 20 + d.length
  BY <1>3, U16Large, SMTT(30)
<1> QED
  BY <1>1, <1>2, <1>4, U16Large, SMTT(30) DEF SliceEnd, UInt16

\* Skipping an attribute keeps the alignment and passes its header and value.
LEMMA SkipForward ==
    ASSUME NEW i \in Nat, i % 4 = 0, NEW n \in Nat
    PROVE  /\ i + Skip(n) \in Nat
           /\ (i + Skip(n)) % 4 = 0
           /\ i + 4 + n <= i + Skip(n)
           /\ i + Skip(n) <= i + 4 + n + 3
  BY SMTT(30) DEF Skip

\* An attribute's value is only read as far as its length says.
LEMMA AddressInRange ==
    ASSUME NEW o, NEW n \in Nat, NEW port, NEW mask
    PROVE  /\ Address(o, n, port, mask).kind # "panic"
           /\ Address(o, n, port, mask).kind # "none" => n >= 8
<1>1. CASE n < 8
  BY <1>1, SMTT(30) DEF Address, NoAddr
<1>2. CASE ~(n < 8)
  <2>1. Read(o, n, 2, port, mask).kind = "addr"
    BY <1>2, SMTT(30) DEF Read
  <2>2. n >= 20 => Read(o, n, 5, port, mask).kind = "addr"
    BY <1>2, SMTT(30) DEF Read
  <2>3. n >= 8
    BY <1>2, SMTT(30)
  <2> QED
    BY <1>2, <2>1, <2>2, <2>3, SMTT(30) DEF Address, NoAddr
<1> QED
  BY <1>1, <1>2

\* The same for an attribute of any type.
LEMMA ValueInRange ==
    ASSUME NEW type, NEW o, NEW n \in Nat
    PROVE  /\ Value(type, o, n).kind # "panic"
           /\ Value(type, o, n).kind # "none" => n >= 8
<1>1. /\ parseXORMappedAddress(o, n).kind # "panic"
      /\ parseXORMappedAddress(o, n).kind # "none" => n >= 8
  BY AddressInRange, Zenon DEF parseXORMappedAddress
<1>2. /\ parseMappedAddress(o, n).kind # "panic"
      /\ parseMappedAddress(o, n).kind # "none" => n >= 8
  BY AddressInRange, Zenon DEF parseMappedAddress
<1>3. NoAddr.kind = "none"
  BY SMTT(30) DEF NoAddr
<1> QED
  BY <1>1, <1>2, <1>3, SMTT(30) DEF Value

\* The header of an attribute the loop looks at is a word of the datagram.
LEMMA HeadExists ==
    ASSUME NEW d \in Datagram, NEW i \in Nat, i % 4 = 0, i + 4 <= d.size - 20
    PROVE  d.words[i \div 4 + 1] \in Word
<1>1. d.size \in UInt16 /\ d.words \in Seq(Word) /\ d.size - 20 < 4 * (Len(d.words) + 1)
  BY Shape, Zenon
<1>2. Len(d.words) \in Nat
  BY <1>1, SMTT(30)
<1>3. i \div 4 + 1 \in 1 .. Len(d.words)
  BY <1>1, <1>2, U16Large, SMTT(30) DEF UInt16
<1> QED
  BY <1>1, <1>3, SMTT(30)

-----------------------------------------------------------------------------
\* The inductive invariant: an exact slice needs the truncation check to have
\* been passed, and a loop inside the message needs to have started at zero.
ParseInv ==
    /\ TypeOK
    /\ NoPanic
    /\ Inside
    /\ status = "header" => idx = 0
    /\ status \in {"attrs", "done"} => ~Truncated(data)

LEMMA InitParse == Init => ParseInv
  BY SMTT(30) DEF Init, ParseInv, TypeOK, NoPanic, Inside

LEMMA HeaderStep == ParseInv /\ CheckHeader => ParseInv'
<1> SUFFICES ASSUME ParseInv, CheckHeader PROVE ParseInv'
  OBVIOUS
<1>1. data \in Datagram /\ idx = 0 /\ data' = data /\ idx' = idx
  BY Zenon DEF ParseInv, TypeOK, CheckHeader
<1>2. \/ status' = "failed"
      \/ status' = "attrs" /\ ~Truncated(data)
      \/ status' = "panicked" /\ ~Truncated(data) /\ SliceEnd(data) \notin 20 .. data.size
  BY Zenon DEF CheckHeader
<1>3. ~Truncated(data) => SliceEnd(data) \in 20 .. data.size
  BY <1>1, SliceExact, Zenon
<1>4. status' \in {"failed", "attrs"}
  BY <1>2, <1>3, Zenon
<1>5. status' = "attrs" => ~Truncated(data) /\ AttrsLen \in Nat
  <2>1. data.size \in UInt16
    BY <1>1, Shape, Zenon
  <2> QED
    BY <1>2, <1>3, <2>1, U16Large, SMTT(30) DEF AttrsLen, UInt16
<1>6. AttrsLen' = AttrsLen /\ Truncated(data') = Truncated(data)
  BY <1>1, Zenon DEF AttrsLen
<1> QED
  BY <1>1, <1>4, <1>5, <1>6, SMTT(30) DEF ParseInv, TypeOK, NoPanic, Inside

LEMMA AttributeStep == ParseInv /\ Attribute => ParseInv'
<1> SUFFICES ASSUME ParseInv, Attribute PROVE ParseInv'
  OBVIOUS
<1> DEFINE head == data.words[idx \div 4 + 1]
           value == Value(head[1], idx + 4, head[2])
<1>1. /\ data \in Datagram /\ idx \in Nat /\ idx % 4 = 0 /\ data' = data
      /\ status = "attrs" /\ ~Truncated(data) /\ idx + 4 <= AttrsLen
  BY Zenon DEF ParseInv, TypeOK, Attribute
<1>2. AttrsLen \in Nat /\ AttrsLen <= data.size - 20
  <2>1. data.size \in UInt16
    BY <1>1, Shape, Zenon
  <2>2. SliceEnd(data) \in 20 .. data.size
    BY <1>1, SliceExact, Zenon
  <2> QED
    BY <2>1, <2>2, U16Large, SMTT(30) DEF AttrsLen, UInt16
<1>3. head[2] \in Nat
  <2>1. data.size \in UInt16
    BY <1>1, Shape, Zenon
  <2>2. idx + 4 <= data.size - 20
    BY <1>1, <1>2, <2>1, U16Large, SMTT(30) DEF UInt16
  <2>3. head \in Word
    BY <1>1, <2>2, HeadExists, Zenon
  <2> QED
    BY <2>3, U16Large, SMTT(30) DEF Word, UInt16
<1>4. AttrsLen' = AttrsLen /\ Truncated(data') = Truncated(data)
  BY <1>1, Zenon DEF AttrsLen
<1>5. value.kind # "panic" /\ (value.kind # "none" => head[2] >= 8)
  BY <1>3, ValueInRange, Zenon
<1> HIDE DEF head
<1>6. \/ status' = "failed" /\ idx' = idx
      \/ ~Overruns(head[2]) /\ status' = status /\ idx' = idx + Skip(head[2])
      \/ ~Overruns(head[2]) /\ value.kind # "none" /\ status' = "done" /\ idx' = idx
  BY <1>5, Zenon DEF Attribute, head
<1>7. CASE status' = "failed" /\ idx' = idx
  BY <1>1, <1>7, SMTT(30) DEF ParseInv, TypeOK, NoPanic, Inside
<1>8. CASE ~Overruns(head[2]) /\ status' = status /\ idx' = idx + Skip(head[2])
  <2>1. idx + 4 + head[2] <= AttrsLen
    BY <1>1, <1>2, <1>3, <1>8, SMTT(30) DEF Overruns
  <2>2. /\ idx + Skip(head[2]) \in Nat
        /\ (idx + Skip(head[2])) % 4 = 0
        /\ idx + Skip(head[2]) <= idx + 4 + head[2] + 3
    BY <1>1, <1>3, SkipForward, Zenon
  <2>3. idx' \in Nat /\ idx' % 4 = 0 /\ idx' <= AttrsLen + 3
    BY <1>1, <1>2, <1>3, <1>8, <2>1, <2>2, SMTT(30)
  <2> QED
    BY <1>1, <1>4, <1>8, <2>3, SMTT(30) DEF ParseInv, TypeOK, NoPanic, Inside
<1>9. CASE ~Overruns(head[2]) /\ value.kind # "none" /\ status' = "done" /\ idx' = idx
  <2>1. idx + 4 + head[2] <= AttrsLen
    BY <1>1, <1>2, <1>3, <1>9, SMTT(30) DEF Overruns
  <2>2. idx + 12 <= AttrsLen
    BY <1>1, <1>2, <1>3, <1>5, <1>9, <2>1, SMTT(30)
  <2> QED
    BY <1>1, <1>2, <1>4, <1>9, <2>2, SMTT(30) DEF ParseInv, TypeOK, NoPanic, Inside
<1> QED
  BY <1>6, <1>7, <1>8, <1>9, Zenon

LEMMA StepParse == ParseInv /\ [Next]_vars => ParseInv'
<1> SUFFICES ASSUME ParseInv, [Next]_vars PROVE ParseInv'
  OBVIOUS
<1>1. CASE NoAttribute
  BY <1>1, SMTT(30) DEF NoAttribute, ParseInv, TypeOK, NoPanic, Inside
<1>2. CASE UNCHANGED vars
  BY <1>2, SMTT(30) DEF vars, ParseInv, TypeOK, NoPanic, Inside, AttrsLen
<1> QED
  BY <1>1, <1>2, HeaderStep, AttributeStep, Zenon DEF Next

LEMMA ParseInvariance == Spec => []ParseInv
  BY InitParse, StepParse, PTL DEF Spec

\* Attributes start at multiples of four for every datagram.
THEOREM ParserTypes == Spec => []TypeOK
<1>1. ParseInv => TypeOK
  BY DEF ParseInv
<1> QED
  BY <1>1, ParseInvariance, PTL

\* No datagram that fits the buffer makes parseSTUNResponse panic: neither the
\* slice whose end is a sum of uint16 nor a value shorter than its family needs.
THEOREM ParserNeverPanics == Spec => []NoPanic
<1>1. ParseInv => NoPanic
  BY DEF ParseInv
<1> QED
  BY <1>1, ParseInvariance, PTL

\* The loop of parseSTUNResponse stays inside the message it was given.
THEOREM ParserStaysInside == Spec => []Inside
<1>1. ParseInv => Inside
  BY DEF ParseInv
<1> QED
  BY <1>1, ParseInvariance, PTL

\* What is left of the work: the bytes from idx to the end of the message, with
\* the padding that idx may have gone past it.
Left ==
    IF status = "header" THEN U16 ELSE IF status = "attrs" THEN AttrsLen + 4 - idx ELSE 0

\* Every turn of the loop in parseSTUNResponse, and every check before it, leaves
\* less to do, whatever lengths the attributes claim: none can hold idx where
\* it is or take it back.  With the scheduling of FairSpec this is Terminates.
ParseAdvances == [][Left' \in 0 .. (Left - 1) /\ Left \in Nat]_vars

\* The attributes of a message that is not truncated are shorter than 2^16.
LEMMA AttrsShort ==
    ASSUME NEW d \in Datagram, ~Truncated(d)
    PROVE  SliceEnd(d) - 20 \in Nat /\ SliceEnd(d) - 20 < U16 - 20
<1>1. d.size \in UInt16 /\ SliceEnd(d) \in 20 .. d.size
  BY Shape, SliceExact, Zenon
<1> QED
  BY <1>1, U16Large, SMTT(30) DEF UInt16

\* The parser takes fewer than 2^16 steps on every datagram.
THEOREM ParserAdvances == Spec => ParseAdvances
<1>1. ASSUME ParseInv, Next, ParseInv' PROVE Left \in Nat /\ Left' \in 0 .. (Left - 1)
  <2>1. /\ data \in Datagram /\ idx \in Nat /\ data' = data /\ idx' \in Nat
        /\ status' \in {"header", "attrs", "done", "failed"}
    BY <1>1, Zenon DEF ParseInv, TypeOK, NoPanic, Next, CheckHeader, Attribute, NoAttribute
  <2>2. AttrsLen' = AttrsLen
    BY <2>1, Zenon DEF AttrsLen
  <2>3. status = "attrs" => AttrsLen \in Nat /\ AttrsLen < U16 - 20 /\ idx <= AttrsLen + 3
    BY <1>1, <2>1, AttrsShort, Zenon DEF ParseInv, Inside, AttrsLen
  <2>4. status' = "attrs" => AttrsLen \in Nat /\ AttrsLen < U16 - 20 /\ idx' <= AttrsLen + 3
    BY <1>1, <2>1, <2>2, AttrsShort, Zenon DEF ParseInv, Inside, AttrsLen
  <2>5. CASE CheckHeader
    <3>1. status = "header" /\ status' \in {"attrs", "failed"}
      BY <1>1, <2>5, Zenon DEF CheckHeader, ParseInv, NoPanic
    <3> QED
      BY <2>1, <2>2, <2>4, <3>1, U16Large, SMTT(30) DEF Left
  <2>6. CASE NoAttribute
    <3>1. status = "attrs" /\ status' = "failed"
      BY <2>6, Zenon DEF NoAttribute
    <3> QED
      BY <2>1, <2>3, <3>1, SMTT(30) DEF Left
  <2>7. CASE Attribute
    <3> DEFINE head == data.words[idx \div 4 + 1]
    <3>1. status = "attrs" /\ idx % 4 = 0 /\ idx + 4 <= AttrsLen
      BY <1>1, <2>7, Zenon DEF Attribute, ParseInv, TypeOK
    <3>2. head[2] \in Nat
      <4>1. data.size \in UInt16 /\ SliceEnd(data) \in 20 .. data.size
        BY <1>1, <2>1, <3>1, Shape, SliceExact, Zenon DEF ParseInv
      <4>2. idx + 4 <= data.size - 20
        BY <2>1, <3>1, <4>1, U16Large, SMTT(30) DEF UInt16, AttrsLen
      <4>3. head \in Word
        BY <2>1, <3>1, <4>2, HeadExists, Zenon
      <4> QED
        BY <4>3, U16Large, SMTT(30) DEF Word, UInt16
    <3> HIDE DEF head
    <3>3. status' \in {"done", "failed"} \/ (status' = "attrs" /\ idx' = idx + Skip(head[2]))
      BY <1>1, <2>7, <3>1, Zenon DEF Attribute, ParseInv, NoPanic, head
    <3>4. idx + 4 + head[2] <= idx + Skip(head[2]) /\ idx + Skip(head[2]) \in Nat
      BY <2>1, <3>1, <3>2, SkipForward, Zenon
    <3> QED
      BY <2>1, <2>2, <2>3, <2>4, <3>1, <3>2, <3>3, <3>4, SMTT(30) DEF Left
  <2> QED
    BY <1>1, <2>5, <2>6, <2>7, Zenon DEF Next
<1>2. ParseInv /\ ParseInv' /\ [Next]_vars => [Left' \in 0 .. (Left - 1) /\ Left \in Nat]_vars
  BY <1>1, Zenon
<1> QED
  BY <1>2, ParseInvariance, PTL DEF Spec, ParseAdvances

-----------------------------------------------------------------------------
(* The exclusive or that hides an address undoes itself. *)

\* On numbers below n.
UndoesItself(X(_, _), n) ==
    \A a, b \in 0 .. n - 1 : X(a, b) \in 0 .. n - 1 /\ X(X(a, b), b) = a /\ X(a, 0) = a

\* The numbers of one, two, three and four hexadecimal digits.
U4 == 16
U8 == 16 * U4
U12 == 16 * U8

LEMMA Digits ==
    /\ U4 \in Nat /\ U4 > 0 /\ U4 = 16
    /\ U8 \in Nat /\ U8 > 0 /\ U8 = 16 * U4
    /\ U12 \in Nat /\ U12 > 0 /\ U12 = 16 * U8
    /\ U16 \in Nat /\ U16 > 0 /\ U16 = 16 * U12
  BY SMTT(30) DEF U4, U8, U12, U16

\* Taking the last digit off a number below 16 * m, and putting one on.
DigitOff(m, a) ==
    /\ a \div 16 \in 0 .. m - 1 /\ a % 16 \in 0 .. U4 - 1
    /\ a = 16 * (a \div 16) + (a % 16)
    /\ 0 \in 0 .. m - 1 /\ 0 \in 0 .. U4 - 1

DigitOn(n, h, l) ==
    /\ 16 * h + l \in 0 .. n - 1
    /\ (16 * h + l) \div 16 = h /\ (16 * h + l) % 16 = l

LEMMA LastDigit ==
    ASSUME NEW m \in Nat, m > 0, NEW n, n = 16 * m, NEW a \in 0 .. n - 1
    PROVE  DigitOff(m, a)
  BY SMT DEF U4, DigitOff

LEMMA OneMoreDigit ==
    ASSUME NEW m \in Nat, NEW n, n = 16 * m, NEW h \in 0 .. m - 1, NEW l \in 0 .. U4 - 1
    PROVE  DigitOn(n, h, l)
  BY SMT DEF U4, DigitOn

LEMMA XorBitBack == UndoesItself(XorBit, 2)
  BY DEF UndoesItself, XorBit

LEMMA Xor2Back == UndoesItself(Xor2, 4)
<1> SUFFICES ASSUME NEW a \in 0 .. 4 - 1, NEW b \in 0 .. 4 - 1
             PROVE  Xor2(a, b) \in 0 .. 4 - 1 /\ Xor2(Xor2(a, b), b) = a /\ Xor2(a, 0) = a
  BY SMT DEF UndoesItself
<1> DEFINE h == XorBit(a \div 2, b \div 2)
           l == XorBit(a % 2, b % 2)
<1>1. /\ a \div 2 \in 0 .. 2 - 1 /\ a % 2 \in 0 .. 2 - 1
      /\ b \div 2 \in 0 .. 2 - 1 /\ b % 2 \in 0 .. 2 - 1
      /\ 0 \div 2 = 0 /\ 0 % 2 = 0 /\ a = 2 * (a \div 2) + (a % 2)
      /\ 0 \in 0 .. 2 - 1 /\ 0 \in 0 .. 2 - 1
  BY SMT
<1>2. h \in 0 .. 2 - 1 /\ XorBit(h, b \div 2) = a \div 2 /\ XorBit(a \div 2, 0) = a \div 2
  BY <1>1, XorBitBack, Zenon DEF UndoesItself
<1>3. l \in 0 .. 2 - 1 /\ XorBit(l, b % 2) = a % 2 /\ XorBit(a % 2, 0) = a % 2
  BY <1>1, XorBitBack, Zenon DEF UndoesItself
<1> HIDE DEF h, l
<1>4. 2 * h + l \in 0 .. 4 - 1 /\ (2 * h + l) \div 2 = h /\ (2 * h + l) % 2 = l
  BY <1>2, <1>3, SMT
<1>5. Xor2(a, b) = 2 * h + l
  BY SMT DEF Xor2, h, l
<1> QED
  BY <1>1, <1>2, <1>3, <1>4, <1>5, SMT DEF Xor2

LEMMA Xor4Back == UndoesItself(Xor4, U4)
<1> SUFFICES ASSUME NEW a \in 0 .. 15, NEW b \in 0 .. 15
             PROVE  Xor4(a, b) \in 0 .. 15 /\ Xor4(Xor4(a, b), b) = a /\ Xor4(a, 0) = a
  BY SMT DEF UndoesItself, U4
<1> DEFINE h == Xor2(a \div 4, b \div 4)
           l == Xor2(a % 4, b % 4)
<1>1. /\ a \div 4 \in 0 .. 4 - 1 /\ a % 4 \in 0 .. 4 - 1
      /\ b \div 4 \in 0 .. 4 - 1 /\ b % 4 \in 0 .. 4 - 1
      /\ 0 \div 4 = 0 /\ 0 % 4 = 0 /\ a = 4 * (a \div 4) + (a % 4)
      /\ 0 \in 0 .. 4 - 1 /\ 0 \in 0 .. 4 - 1
  BY SMT, Digits
<1>2. h \in 0 .. 4 - 1 /\ Xor2(h, b \div 4) = a \div 4 /\ Xor2(a \div 4, 0) = a \div 4
  BY <1>1, Xor2Back, Zenon DEF UndoesItself
<1>3. l \in 0 .. 4 - 1 /\ Xor2(l, b % 4) = a % 4 /\ Xor2(a % 4, 0) = a % 4
  BY <1>1, Xor2Back, Zenon DEF UndoesItself
<1> HIDE DEF h, l
<1>4. 4 * h + l \in 0 .. 15 /\ (4 * h + l) \div 4 = h /\ (4 * h + l) % 4 = l
  BY <1>2, <1>3, SMT, Digits
<1>5. Xor4(a, b) = 4 * h + l
  BY SMT DEF Xor4, h, l
<1> QED
  BY <1>1, <1>2, <1>3, <1>4, <1>5, SMT DEF Xor4

LEMMA Xor8Back == UndoesItself(Xor8, U8)
<1> SUFFICES ASSUME NEW a \in 0 .. U8 - 1, NEW b \in 0 .. U8 - 1
             PROVE  Xor8(a, b) \in 0 .. U8 - 1 /\ Xor8(Xor8(a, b), b) = a /\ Xor8(a, 0) = a
  BY SMT DEF UndoesItself
<1> DEFINE h == Xor4(a \div 16, b \div 16)
           l == Xor4(a % 16, b % 16)
<1>0. U4 \in Nat /\ U4 > 0 /\ U8 = 16 * U4
  BY Digits, Zenon
<1>1. /\ a \div 16 \in 0 .. U4 - 1 /\ a % 16 \in 0 .. U4 - 1
      /\ b \div 16 \in 0 .. U4 - 1 /\ b % 16 \in 0 .. U4 - 1
      /\ a = 16 * (a \div 16) + (a % 16)
      /\ 0 \in 0 .. U4 - 1 /\ 0 \in 0 .. U4 - 1
  <2>1. DigitOff(U4, a) /\ DigitOff(U4, b)
    BY <1>0, LastDigit, Zenon
  <2> QED
    BY <2>1, Zenon DEF DigitOff
<1>2. h \in 0 .. U4 - 1 /\ Xor4(h, b \div 16) = a \div 16 /\ Xor4(a \div 16, 0) = a \div 16
  BY <1>1, Xor4Back, Zenon DEF UndoesItself
<1>3. l \in 0 .. U4 - 1 /\ Xor4(l, b % 16) = a % 16 /\ Xor4(a % 16, 0) = a % 16
  BY <1>1, Xor4Back, Zenon DEF UndoesItself
<1> HIDE DEF h, l
<1>4. 16 * h + l \in 0 .. U8 - 1 /\ (16 * h + l) \div 16 = h /\ (16 * h + l) % 16 = l
  BY <1>2, <1>3, SMT DEF U8, U4
<1>5. Xor8(a, b) = 16 * h + l
  BY SMT DEF Xor8, h, l
<1>6. 0 \div 16 = 0 /\ 0 % 16 = 0
  BY SMT
<1> QED
  BY <1>1, <1>2, <1>3, <1>4, <1>5, <1>6, SMT DEF Xor8

LEMMA Xor12Back == UndoesItself(Xor12, U12)
<1> SUFFICES ASSUME NEW a \in 0 .. U12 - 1, NEW b \in 0 .. U12 - 1
             PROVE  Xor12(a, b) \in 0 .. U12 - 1 /\ Xor12(Xor12(a, b), b) = a /\ Xor12(a, 0) = a
  BY SMT DEF UndoesItself
<1> DEFINE h == Xor8(a \div 16, b \div 16)
           l == Xor4(a % 16, b % 16)
<1>0. U8 \in Nat /\ U8 > 0 /\ U12 = 16 * U8
  BY Digits, Zenon
<1>1. /\ a \div 16 \in 0 .. U8 - 1 /\ a % 16 \in 0 .. U4 - 1
      /\ b \div 16 \in 0 .. U8 - 1 /\ b % 16 \in 0 .. U4 - 1
      /\ a = 16 * (a \div 16) + (a % 16)
      /\ 0 \in 0 .. U8 - 1 /\ 0 \in 0 .. U4 - 1
  <2>1. DigitOff(U8, a) /\ DigitOff(U8, b)
    BY <1>0, LastDigit, Zenon
  <2> QED
    BY <2>1, Zenon DEF DigitOff
<1>2. h \in 0 .. U8 - 1 /\ Xor8(h, b \div 16) = a \div 16 /\ Xor8(a \div 16, 0) = a \div 16
  BY <1>1, Xor8Back, Zenon DEF UndoesItself
<1>3. l \in 0 .. U4 - 1 /\ Xor4(l, b % 16) = a % 16 /\ Xor4(a % 16, 0) = a % 16
  BY <1>1, Xor4Back, Zenon DEF UndoesItself
<1> HIDE DEF h, l
<1>4. 16 * h + l \in 0 .. U12 - 1 /\ (16 * h + l) \div 16 = h /\ (16 * h + l) % 16 = l
  <2>1. DigitOn(U12, h, l)
    BY <1>0, <1>2, <1>3, OneMoreDigit, Zenon
  <2> QED
    BY <2>1, Zenon DEF DigitOn
<1>5. Xor12(a, b) = 16 * h + l
  BY SMT DEF Xor12, h, l
<1>6. 0 \div 16 = 0 /\ 0 % 16 = 0
  BY SMT
<1> QED
  BY <1>1, <1>2, <1>3, <1>4, <1>5, <1>6, SMT DEF Xor12

LEMMA XorBack == UndoesItself(Xor, U16)
<1> SUFFICES ASSUME NEW a \in 0 .. U16 - 1, NEW b \in 0 .. U16 - 1
             PROVE  Xor(a, b) \in 0 .. U16 - 1 /\ Xor(Xor(a, b), b) = a /\ Xor(a, 0) = a
  BY SMT DEF UndoesItself
<1> DEFINE h == Xor12(a \div 16, b \div 16)
           l == Xor4(a % 16, b % 16)
<1>0. U12 \in Nat /\ U12 > 0 /\ U16 = 16 * U12
  BY Digits, Zenon
<1>1. /\ a \div 16 \in 0 .. U12 - 1 /\ a % 16 \in 0 .. U4 - 1
      /\ b \div 16 \in 0 .. U12 - 1 /\ b % 16 \in 0 .. U4 - 1
      /\ a = 16 * (a \div 16) + (a % 16)
      /\ 0 \in 0 .. U12 - 1 /\ 0 \in 0 .. U4 - 1
  <2>1. DigitOff(U12, a) /\ DigitOff(U12, b)
    BY <1>0, LastDigit, Zenon
  <2> QED
    BY <2>1, Zenon DEF DigitOff
<1>2. h \in 0 .. U12 - 1 /\ Xor12(h, b \div 16) = a \div 16 /\ Xor12(a \div 16, 0) = a \div 16
  BY <1>1, Xor12Back, Zenon DEF UndoesItself
<1>3. l \in 0 .. U4 - 1 /\ Xor4(l, b % 16) = a % 16 /\ Xor4(a % 16, 0) = a % 16
  BY <1>1, Xor4Back, Zenon DEF UndoesItself
<1> HIDE DEF h, l
<1>4. 16 * h + l \in 0 .. U16 - 1 /\ (16 * h + l) \div 16 = h /\ (16 * h + l) % 16 = l
  <2>1. DigitOn(U16, h, l)
    BY <1>0, <1>2, <1>3, OneMoreDigit, Zenon
  <2> QED
    BY <2>1, Zenon DEF DigitOn
<1>5. Xor(a, b) = 16 * h + l
  BY SMT DEF Xor, h, l
<1>6. 0 \div 16 = 0 /\ 0 % 16 = 0
  BY SMT
<1> QED
  BY <1>1, <1>2, <1>3, <1>4, <1>5, <1>6, SMT DEF Xor

\* Masking a word twice gives the word back, and masking it with zero does nothing.
LEMMA XorWordBack ==
    ASSUME NEW w \in Word, NEW m \in Word
    PROVE  XorWord(XorWord(w, m), m) = w /\ XorWord(w, <<0, 0>>) = w
<1>1. w[1] \in UInt16 /\ w[2] \in UInt16 /\ m[1] \in UInt16 /\ m[2] \in UInt16 /\ w = <<w[1], w[2]>>
  BY SMT DEF Word
<1>2. /\ Xor(Xor(w[1], m[1]), m[1]) = w[1] /\ Xor(w[1], 0) = w[1]
      /\ Xor(Xor(w[2], m[2]), m[2]) = w[2] /\ Xor(w[2], 0) = w[2]
  BY <1>1, XorBack, Zenon DEF UndoesItself, UInt16
<1> QED
  BY <1>1, <1>2, SMT DEF XorWord

-----------------------------------------------------------------------------
(* What the parser reads is what the server wrote. *)

\* The parser's view of the value of an attribute: the words from o on.
Seen(o, value) == \A j \in 1 .. Len(value) : data.words[o \div 4 + j] = value[j]

\* Under the mask, the n bytes of the value at o hold the address x.
Unmasks(x, value, o, n, port, mask) ==
    /\ n = 4 * WordsOf(x) /\ Len(value) = WordsOf(x) /\ Seen(o, value)
    /\ LowByte(value[1][1]) = FamilyOf(x)
    /\ Xor(value[1][2], port) = x.port
    /\ \A i \in DOMAIN x.ip : XorWord(value[i + 1], mask[i]) = x.ip[i]

\* A sequence of three with a sequence of one put before it.
LEMMA OneAndThree ==
    ASSUME NEW S, NEW p \in Seq(S), Len(p) = 1, NEW q \in Seq(S), Len(q) = 3, NEW i \in 1 .. 4
    PROVE  (p \o q)[i] \in S
<1>1. p \o q \in Seq(S) /\ Len(p \o q) = Len(p) + Len(q)
  BY ConcatProperties, Zenon
<1>2. DOMAIN (p \o q) = 1 .. Len(p \o q) /\ \A k \in DOMAIN (p \o q) : (p \o q)[k] \in S
  <2> SUFFICES ASSUME NEW c \in Seq(S)
               PROVE  DOMAIN c = 1 .. Len(c) /\ \A k \in DOMAIN c : c[k] \in S
    BY <1>1, Zenon
  <2> QED
    OBVIOUS
<1>3. Len(p \o q) = 4
  BY <1>1
<1> QED
  BY <1>2, <1>3, Zenon

\* The masks of the two attributes consist of words.
LEMMA Masks ==
    /\ MagicCookie \in Word
    /\ \A i \in 1 .. 4 : (<<MagicCookie>> \o TxID)[i] \in Word
<1>1. MagicCookie \in Word
  <2>1. 8466 \in UInt16 /\ 42050 \in UInt16
    BY SMTT(30) DEF UInt16, U16
  <2> QED
    BY <2>1, SMT DEF MagicCookie, Word
<1>2. TxID \in Seq(Word) /\ Len(TxID) = 3
  BY ConstantsAssumption, Zenon
<1> HIDE DEF MagicCookie
<1>3. <<MagicCookie>> \in Seq(Word) /\ Len(<<MagicCookie>>) = 1
  BY <1>1
<1>4. ASSUME NEW i \in 1 .. 4 PROVE (<<MagicCookie>> \o TxID)[i] \in Word
  BY <1>2, <1>3, OneAndThree, Zenon
<1> QED
  BY <1>1, <1>4

\* An attribute without an address yields none, whatever its type.
LEMMA NothingRead ==
    ASSUME NEW a, NEW o, a.head \in Word, a.value \in Seq(Word),
           Len(a.value) = (a.head[2] + 3) \div 4, Seen(o, a.value), WithoutAddress(a)
    PROVE  Value(a.head[1], o, a.head[2]) = NoAddr
<1> DEFINE n == a.head[2]
           family == LowByte(a.value[1][1])
<1>1. n \in Nat
  BY U16Large, SMT DEF Word, UInt16
<1>2. CASE a.head[1] \notin {MappedAddress, XORMappedAddress}
  BY <1>2, Zenon DEF Value
<1>3. ASSUME NEW port, NEW mask, n < 8 \/ family \notin {1, 2} \/ (family = 2 /\ n < 20)
      PROVE  Address(o, n, port, mask) = NoAddr
  <2>1. CASE n < 8
    BY <2>1, Zenon DEF Address
  <2>2. CASE ~(n < 8)
    <3>1. 1 \in 1 .. Len(a.value)
      BY <1>1, <2>2, SMT
    <3>2. Family(o) = family
      BY <3>1, Zenon DEF Family, Seen
    <3> HIDE DEF family
    <3>3. Family(o) # 1 /\ ~(Family(o) = 2 /\ n >= 20)
      BY <1>1, <1>3, <2>2, <3>2, SMT
    <3> QED
      BY <2>2, <3>3, Zenon DEF Address
  <2> QED
    BY <2>1, <2>2
<1>4. CASE n < 8 \/ family \notin {1, 2} \/ (family = 2 /\ n < 20)
  BY <1>3, <1>4, Zenon DEF Value, parseXORMappedAddress, parseMappedAddress
<1> QED
  BY <1>2, <1>4, Zenon DEF WithoutAddress

\* The shape of an address.
LEMMA AddrShape ==
    ASSUME NEW x \in Addr
    PROVE  /\ x.port \in UInt16
           /\ DOMAIN x.ip = 1 .. (WordsOf(x) - 1)
           /\ \A i \in DOMAIN x.ip : i \in 1 .. 4 /\ x.ip[i] \in Word
           /\ x = [kind |-> "addr", port |-> x.port, ip |-> x.ip]
           /\ x.ip = [i \in DOMAIN x.ip |-> x.ip[i]]
           /\ \/ FamilyOf(x) = 1 /\ WordsOf(x) = 2
              \/ FamilyOf(x) = 2 /\ WordsOf(x) = 5
<1>1. x.port \in UInt16 /\ x.ip \in [1 .. 1 -> Word] \cup [1 .. 4 -> Word]
  BY SMT DEF Addr
<1>2. x = [kind |-> "addr", port |-> x.port, ip |-> x.ip]
  BY SMT DEF Addr
<1>3. CASE x.ip \in [1 .. 1 -> Word]
  <2>1. DOMAIN x.ip = 1 .. 1 /\ FamilyOf(x) = 1 /\ WordsOf(x) = 2
    BY <1>3, SMT DEF FamilyOf, WordsOf
  <2> QED
    BY <1>1, <1>2, <1>3, <2>1, SMT
<1>4. CASE x.ip \in [1 .. 4 -> Word]
  <2>1. DOMAIN x.ip = 1 .. 4 /\ FamilyOf(x) = 2 /\ WordsOf(x) = 5
    <3>1. DOMAIN x.ip = 1 .. 4
      BY <1>4, SMT
    <3>2. 1 .. 4 # 1 .. 1
      <4>1. 2 \in 1 .. 4 /\ 2 \notin 1 .. 1
        BY SMT
      <4> QED
        BY <4>1, Zenon
    <3> QED
      BY <3>1, <3>2, SMT DEF FamilyOf, WordsOf
  <2> QED
    BY <1>1, <1>2, <1>4, <2>1, SMT
<1> QED
  BY <1>1, <1>3, <1>4

\* Reading under the mask under which the server wrote gives the address back.
LEMMA AddressRead ==
    ASSUME NEW x \in Addr, NEW value, NEW o, NEW n, NEW port, NEW mask,
           Unmasks(x, value, o, n, port, mask)
    PROVE  Address(o, n, port, mask) = x
<1> DEFINE k == WordsOf(x)
<1>1. /\ DOMAIN x.ip = 1 .. k - 1 /\ x = [kind |-> "addr", port |-> x.port, ip |-> x.ip]
      /\ x.ip = [i \in DOMAIN x.ip |-> x.ip[i]]
      /\ (FamilyOf(x) = 1 /\ k = 2) \/ (FamilyOf(x) = 2 /\ k = 5)
  BY AddrShape, Zenon
<1>0. /\ n = 4 * k /\ Len(value) = k /\ Seen(o, value)
      /\ LowByte(value[1][1]) = FamilyOf(x)
      /\ Xor(value[1][2], port) = x.port
      /\ \A i \in DOMAIN x.ip : XorWord(value[i + 1], mask[i]) = x.ip[i]
  BY Zenon DEF Unmasks
<1>2. 1 \in 1 .. k /\ ~(n < 8) /\ ~(4 * k > n) /\ (k = 5 => n >= 20)
  BY <1>0, <1>1, SMT
<1>3. Family(o) = FamilyOf(x)
  BY <1>0, <1>2, Zenon DEF Family, Seen
<1>4. Address(o, n, port, mask) = Read(o, n, k, port, mask)
  BY <1>1, <1>2, <1>3, SMT DEF Address
<1> DEFINE v == [i \in 1 .. k |-> data.words[o \div 4 + i]]
<1>5. \A i \in 1 .. k : v[i] = value[i]
  BY <1>0, Zenon DEF Seen
<1>6. Read(o, n, k, port, mask) =
        [kind |-> "addr", port |-> Xor(v[1][2], port),
         ip |-> [i \in 1 .. (k - 1) |-> XorWord(v[i + 1], mask[i])]]
  BY <1>2, Zenon DEF Read
<1> HIDE DEF v, k
<1>7. Xor(v[1][2], port) = x.port
  BY <1>0, <1>2, <1>5, Zenon
<1>8. ASSUME NEW i \in 1 .. (k - 1) PROVE XorWord(v[i + 1], mask[i]) = x.ip[i]
  <2>1. i + 1 \in 1 .. k
    BY <1>1, SMT
  <2> QED
    BY <1>0, <1>1, <1>5, <2>1, Zenon
<1>9. [i \in 1 .. (k - 1) |-> XorWord(v[i + 1], mask[i])] = x.ip
  BY <1>1, <1>8, Zenon
<1> QED
  BY <1>1, <1>4, <1>6, <1>7, <1>9, Zenon

\* The parser takes from an attribute exactly what it carries.
LEMMA ValueRead ==
    ASSUME NEW a, NEW o, a.head \in Word, a.value \in Seq(Word),
           Len(a.value) = (a.head[2] + 3) \div 4, Seen(o, a.value), WithAddress(a)
    PROVE  Value(a.head[1], o, a.head[2]) = a.of
<1> DEFINE x == a.of
           mask == <<MagicCookie>> \o TxID
           plain == [i \in 1 .. 4 |-> <<0, 0>>]
<1>1. x \in Addr /\ a.head[2] = 4 * WordsOf(x) /\ LowByte(a.value[1][1]) = FamilyOf(x)
  BY Zenon DEF WithAddress
<1>2. /\ x.port \in UInt16
      /\ \A i \in DOMAIN x.ip : i \in 1 .. 4 /\ x.ip[i] \in Word
      /\ WordsOf(x) = 2 \/ WordsOf(x) = 5
  BY <1>1, AddrShape, Zenon
<1>3. Len(a.value) = WordsOf(x)
  BY <1>1, <1>2, SMT
<1>4. CASE HoldsPlain(a)
  <2>1. /\ a.head[1] = MappedAddress /\ a.value[1][2] = x.port
        /\ \A i \in DOMAIN x.ip : a.value[i + 1] = x.ip[i]
    BY <1>4, Zenon DEF HoldsPlain
  <2>2. Xor(a.value[1][2], 0) = x.port
    BY <1>2, <2>1, XorBack, Zenon DEF UndoesItself, UInt16
  <2>3. ASSUME NEW i \in DOMAIN x.ip PROVE XorWord(a.value[i + 1], plain[i]) = x.ip[i]
    BY <1>2, <2>1, XorWordBack, Zenon
  <2> HIDE DEF x, plain
  <2>4. Address(o, a.head[2], 0, plain) = x
    <3>1. Unmasks(x, a.value, o, a.head[2], 0, plain)
      BY <1>1, <1>3, <2>2, <2>3, Zenon DEF Unmasks
    <3>2. x \in Addr
      BY <1>1
    <3> QED
      BY <3>1, <3>2, AddressRead, SMT
  <2>5. MappedAddress # XORMappedAddress
    BY SMT DEF MappedAddress, XORMappedAddress
  <2> QED
    BY <2>1, <2>4, <2>5, Zenon DEF Value, parseMappedAddress, plain, x
<1>5. CASE HoldsMasked(a)
  <2>1. /\ a.head[1] = XORMappedAddress /\ a.value[1][2] = Xor(x.port, MagicCookie[1])
        /\ \A i \in DOMAIN x.ip : a.value[i + 1] = XorWord(x.ip[i], mask[i])
    BY <1>5, Zenon DEF HoldsMasked
  <2>2. Xor(a.value[1][2], MagicCookie[1]) = x.port
    <3>1. MagicCookie[1] \in UInt16
      BY Masks, SMT DEF Word
    <3> QED
      BY <1>2, <2>1, <3>1, XorBack, Zenon DEF UndoesItself, UInt16
  <2>3. ASSUME NEW i \in DOMAIN x.ip PROVE XorWord(a.value[i + 1], mask[i]) = x.ip[i]
    <3>1. mask[i] \in Word /\ x.ip[i] \in Word /\ a.value[i + 1] = XorWord(x.ip[i], mask[i])
      BY <1>2, <2>1, Masks, Zenon
    <3> HIDE DEF mask, x
    <3> QED
      BY <3>1, XorWordBack, Zenon
  <2> HIDE DEF x, mask
  <2>4. Address(o, a.head[2], MagicCookie[1], mask) = x
    <3>1. Unmasks(x, a.value, o, a.head[2], MagicCookie[1], mask)
      BY <1>1, <1>3, <2>2, <2>3, Zenon DEF Unmasks
    <3>2. x \in Addr
      BY <1>1
    <3> QED
      BY <3>1, <3>2, AddressRead, SMT
  <2> QED
    BY <2>1, <2>4, Zenon DEF Value, parseXORMappedAddress, mask, x
<1> QED
  BY <1>4, <1>5, Zenon DEF WithAddress

-----------------------------------------------------------------------------
\* The loop is at the start of an attribute, or behind the last one, and none of
\* the attributes behind it carries an address.
At(i) == idx = 4 * StartOf(data, i) /\ \A j \in 1 .. (i - 1) : ~Carries(data.sent[j])

SentInv ==
    /\ ParsedIsSent
    /\ LaidOut(data) /\ status = "attrs" => \E i \in 1 .. Len(data.sent) + 1 : At(i)

\* Offsets in bytes and in words.
Aligned(at, len, m, i) ==
    /\ i \div 4 = at /\ (i + 4) \div 4 = at + 1
    /\ i + Skip(len) = 4 * (at + 1 + m)
    /\ i + 4 + len <= 4 * (at + 1 + m)

LEMMA Offsets ==
    ASSUME NEW at \in Nat, NEW len \in Nat
    PROVE  Aligned(at, len, (len + 3) \div 4, 4 * at)
  BY SMT DEF Skip, Aligned

LEMMA LenNat == ASSUME NEW s \in Seq(Word) PROVE Len(s) \in Nat
  BY SMT

LEMMA WordNat == ASSUME NEW w \in Word PROVE w[2] \in Nat
  BY U16Large, SMT DEF Word, UInt16

\* The attribute the loop looks at is one the server wrote, and its value is read
\* as what it carries.
LEMMA AtAttribute ==
    ASSUME ParseInv, LaidOut(data), status = "attrs", idx + 4 <= AttrsLen,
           NEW i \in 1 .. Len(data.sent) + 1, At(i)
    PROVE  LET a == data.sent[i] IN
           /\ i \in 1 .. Len(data.sent)
           /\ data.words[idx \div 4 + 1] = a.head
           /\ Value(a.head[1], idx + 4, a.head[2]) = a.of
           /\ Carries(a) => a.of.kind = "addr"
           /\ idx + Skip(a.head[2]) = 4 * StartOf(data, i + 1)
           /\ idx + 4 + a.head[2] <= 4 * Len(data.words)
<1> DEFINE a == data.sent[i]
           n == Len(data.sent)
<1>1. /\ data \in Datagram /\ ~Truncated(data) /\ n \in Nat /\ idx = 4 * StartOf(data, i)
  BY ConstantsAssumption, Zenon DEF ParseInv, TypeOK, At
<1>2. /\ data.words \in Seq(Word) /\ data.size \in UInt16
      /\ data.size - 20 < 4 * (Len(data.words) + 1)
      /\ SliceEnd(data) \in 20 .. data.size
  BY <1>1, Shape, SliceExact, Zenon
<1>3. i \in 1 .. n
  <2>1. CASE i <= n
    BY <1>1, <2>1, SMT
  <2>2. CASE ~(i <= n)
    <3>1. idx = 4 * Len(data.words) /\ Len(data.words) \in Nat
      BY <1>1, <1>2, <2>2, SMT DEF StartOf
    <3> QED
      BY <1>2, <3>1, U16Large, SMT DEF AttrsLen, UInt16
  <2> QED
    BY <2>1, <2>2
<1>4. /\ a.at \in Nat /\ a.head \in Word /\ a.value \in Seq(Word)
      /\ Len(a.value) = (a.head[2] + 3) \div 4
      /\ StartOf(data, i + 1) = a.at + 1 + Len(a.value)
      /\ a.at + 1 + Len(a.value) <= Len(data.words)
      /\ data.words[a.at + 1] = a.head
      /\ \A j \in 1 .. Len(a.value) : data.words[a.at + 1 + j] = a.value[j]
      /\ IF Carries(a) THEN WithAddress(a) ELSE WithoutAddress(a)
  BY <1>3, Zenon DEF LaidOut
<1>5. StartOf(data, i) = a.at
  BY <1>1, <1>3, SMT DEF StartOf
<1> HIDE DEF a
<1>6. /\ idx \div 4 = a.at /\ (idx + 4) \div 4 = a.at + 1
      /\ idx + Skip(a.head[2]) = 4 * (a.at + 1 + Len(a.value))
      /\ idx + 4 + a.head[2] <= 4 * (a.at + 1 + Len(a.value))
  <2>1. a.at \in Nat /\ a.head[2] \in Nat /\ Len(a.value) = (a.head[2] + 3) \div 4 /\ idx = 4 * a.at
    BY <1>1, <1>4, <1>5, WordNat, Zenon
  <2>2. Aligned(a.at, a.head[2], Len(a.value), idx)
    BY <2>1, Offsets, Zenon
  <2> QED
    BY <2>2, Zenon DEF Aligned
<1>7. Seen(idx + 4, a.value)
  BY <1>4, <1>6, Zenon DEF Seen
<1>8. Value(a.head[1], idx + 4, a.head[2]) = a.of
  <2>1. CASE Carries(a)
    BY <1>4, <1>7, <2>1, ValueRead, Zenon
  <2>2. CASE ~Carries(a)
    BY <1>4, <1>7, <2>2, NothingRead, Zenon DEF Carries
  <2> QED
    BY <2>1, <2>2
<1>9. Carries(a) => a.of.kind = "addr"
  <2> SUFFICES ASSUME a.of \in Addr PROVE a.of.kind = "addr"
    BY <1>4, Zenon DEF WithAddress
  <2> QED
    BY SMT DEF Addr
<1>10. idx + 4 + a.head[2] <= 4 * Len(data.words)
  <2>1. ASSUME NEW p \in Nat, NEW q \in Nat, NEW l \in Nat, p <= 4 * q, q <= l PROVE p <= 4 * l
    BY <2>1, SMT
  <2>2. idx + 4 + a.head[2] \in Nat
    <3>1. a.head[2] \in Nat /\ idx \in Nat
      BY <1>4, WordNat, Zenon DEF ParseInv, TypeOK
    <3> QED
      BY <3>1, SMT
  <2>3. a.at + 1 + Len(a.value) \in Nat /\ Len(data.words) \in Nat
    <3>1. a.at \in Nat /\ a.value \in Seq(Word) /\ data.words \in Seq(Word)
      BY <1>2, <1>4, Zenon
    <3>2. Len(a.value) \in Nat /\ Len(data.words) \in Nat
      BY <3>1, LenNat, Zenon
    <3>3. \A x, y \in Nat : x + 1 + y \in Nat
      BY SMT
    <3> QED
      BY <3>1, <3>2, <3>3, Zenon
  <2> QED
    BY <1>4, <1>6, <2>1, <2>2, <2>3, Zenon
<1> QED
  BY <1>3, <1>4, <1>6, <1>8, <1>9, <1>10, Zenon DEF a

\* A turn of the loop passes an attribute that carries nothing, or stops at the
\* first one that carries an address.
LEMMA SentAttribute == ASSUME ParseInv, SentInv, Attribute PROVE SentInv'
<1>1. /\ status = "attrs" /\ idx + 4 <= AttrsLen /\ data' = data
      /\ data \in Datagram /\ ~Truncated(data)
  BY Zenon DEF Attribute, ParseInv, TypeOK
<1>2. LaidOut(data') <=> LaidOut(data)
  BY <1>1, Zenon
<1>3. SUFFICES ASSUME LaidOut(data)
               PROVE  /\ ParsedIsSent'
                      /\ status' = "attrs" => \E i \in 1 .. Len(data.sent) + 1 : At(i)'
  <2>1. CASE ~LaidOut(data)
    BY <1>2, <2>1, Zenon DEF SentInv, ParsedIsSent
  <2> QED
    BY <1>1, <2>1, Zenon DEF SentInv
<1>4. PICK i \in 1 .. Len(data.sent) + 1 : At(i)
  BY <1>1, <1>3, Zenon DEF SentInv
<1> DEFINE a == data.sent[i]
<1>5. /\ i \in 1 .. Len(data.sent)
      /\ data.words[idx \div 4 + 1] = a.head
      /\ Value(a.head[1], idx + 4, a.head[2]) = a.of
      /\ Carries(a) => a.of.kind = "addr"
      /\ idx + Skip(a.head[2]) = 4 * StartOf(data, i + 1)
      /\ idx + 4 + a.head[2] <= 4 * Len(data.words)
  BY <1>1, <1>3, <1>4, AtAttribute, Zenon
<1>6. \A j \in 1 .. (i - 1) : ~Carries(data.sent[j])
  BY <1>4, Zenon DEF At
<1>7. IF Overruns(a.head[2])
      THEN status' = "failed"
      ELSE IF a.of.kind = "none"
      THEN idx' = idx + Skip(a.head[2]) /\ status' = status
      ELSE status' = (IF a.of.kind = "panic" THEN "panicked" ELSE "done") /\ addr' = a.of
  BY <1>5, Zenon DEF Attribute
<1>8. a.of.kind = "none" <=> ~Carries(a)
  <2>1. NoAddr.kind = "none"
    BY SMT DEF NoAddr
  <2> QED
    BY <1>5, <2>1, SMT DEF Carries
<1>9. CASE Overruns(a.head[2])
  <2>1. ~Intact(data)
    <3> SUFFICES ASSUME Intact(data) PROVE FALSE
      OBVIOUS
    <3>1. SliceEnd(data) = 20 + data.length /\ data.length = 4 * Len(data.words)
      BY <1>1, SliceExact, Zenon DEF Intact
    <3>2. data.words \in Seq(Word)
      BY <1>1, Shape, Zenon
    <3>3. AttrsLen = 4 * Len(data.words)
      <4>1. Len(data.words) \in Nat
        BY <3>2, SMT
      <4> QED
        BY <3>1, <4>1, SMT DEF AttrsLen
    <3>4. idx + 4 + a.head[2] > 4 * Len(data.words)
      BY <1>9, <3>3, Zenon DEF Overruns
    <3>5. ASSUME NEW p \in Int, NEW q \in Int, p > q, p <= q PROVE FALSE
      BY <3>5, SMT
    <3>6. idx + 4 + a.head[2] \in Int /\ 4 * Len(data.words) \in Int
      <4>1. a.head[2] \in Nat /\ idx \in Nat
        BY <1>3, <1>5, WordNat, Zenon DEF LaidOut, ParseInv, TypeOK
      <4>2. Len(data.words) \in Nat
        BY <3>2, SMT
      <4> QED
        BY <4>1, <4>2, SMT
    <3> QED
      BY <1>5, <3>4, <3>5, <3>6, Zenon
  <2>2. status' = "failed"
    BY <1>7, <1>9, Zenon
  <2> QED
    BY <1>1, <2>1, <2>2, Zenon DEF ParsedIsSent
<1>10. CASE ~Overruns(a.head[2]) /\ ~Carries(a)
  <2>1. status' = "attrs" /\ idx' = 4 * StartOf(data, i + 1)
    BY <1>1, <1>5, <1>7, <1>8, <1>10, Zenon
  <2>2. /\ i + 1 \in 1 .. Len(data.sent) + 1 /\ (i + 1) - 1 = i
        /\ \A j \in 1 .. i : j = i \/ j \in 1 .. (i - 1)
    <3>1. Len(data.sent) \in Nat
      BY <1>1, ConstantsAssumption, Zenon
    <3> QED
      BY <1>5, <3>1, SMT
  <2>3. At(i + 1)'
    BY <1>1, <1>6, <1>10, <2>1, <2>2, Zenon DEF At
  <2>4. ParsedIsSent'
    BY <2>1, Zenon DEF ParsedIsSent
  <2> QED
    BY <2>2, <2>3, <2>4, Zenon
<1>11. CASE ~Overruns(a.head[2]) /\ Carries(a)
  <2>1. a.of.kind = "addr" /\ a.of.kind # "none" /\ a.of.kind # "panic"
    BY <1>5, <1>11, SMT
  <2>2. status' = "done" /\ addr' = a.of
    BY <1>7, <1>11, <2>1, Zenon
  <2> QED
    BY <1>1, <1>5, <1>6, <1>11, <2>2, Zenon DEF ParsedIsSent
<1> QED
  BY <1>9, <1>10, <1>11, Zenon

\* The header check starts the loop at the first attribute, and refuses no intact
\* response.
LEMMA SentHeader == ASSUME ParseInv, SentInv, CheckHeader PROVE SentInv'
<1>1. /\ status = "header" /\ idx = 0 /\ data' = data /\ idx' = idx /\ data \in Datagram
  BY Zenon DEF CheckHeader, ParseInv, TypeOK
<1>2. status' \in {"failed", "attrs", "panicked"}
  BY Zenon DEF CheckHeader
<1>3. Intact(data) => status' # "failed"
  <2> SUFFICES ASSUME Intact(data) PROVE status' # "failed"
    OBVIOUS
  <2>1. data.size \in UInt16 /\ data.length \in UInt16 /\ data.size = 20 + data.length
    BY <1>1, Shape, Zenon DEF Intact
  <2>2. ~(data.size < 20) /\ ~Truncated(data)
    BY <2>1, U16Large, SMT DEF UInt16, Truncated
  <2> QED
    BY <2>2, Zenon DEF CheckHeader, Intact
<1>4. ParsedIsSent'
  BY <1>1, <1>2, <1>3, Zenon DEF ParsedIsSent
<1>5. ASSUME LaidOut(data) PROVE At(1)' /\ 1 \in 1 .. Len(data.sent) + 1
  <2>1. StartOf(data, 1) = 0 /\ Len(data.sent) \in Nat
    BY <1>1, <1>5, ConstantsAssumption, Zenon DEF LaidOut
  <2>2. 1 \in 1 .. Len(data.sent) + 1 /\ 1 .. (1 - 1) = {} /\ 4 * 0 = 0
    BY <2>1, SMT
  <2> QED
    BY <1>1, <2>1, <2>2, Zenon DEF At
<1> QED
  BY <1>1, <1>4, <1>5, Zenon DEF SentInv

\* When the loop runs out of an intact response it is behind its last attribute.
LEMMA SentEnd == ASSUME ParseInv, SentInv, NoAttribute PROVE SentInv'
<1>1. /\ status = "attrs" /\ status' = "failed" /\ idx + 4 > AttrsLen /\ data' = data
      /\ data \in Datagram /\ ~Truncated(data)
  BY Zenon DEF NoAttribute, ParseInv, TypeOK
<1>2. ASSUME LaidOut(data), Intact(data), NEW j \in 1 .. Len(data.sent)
      PROVE  ~Carries(data.sent[j])
  <2>1. PICK i \in 1 .. Len(data.sent) + 1 : At(i)
    BY <1>1, <1>2, Zenon DEF SentInv
  <2>2. Len(data.sent) \in Nat /\ data.words \in Seq(Word)
    BY <1>1, Shape, ConstantsAssumption, Zenon
  <2>3. AttrsLen = 4 * Len(data.words)
    <3>1. SliceEnd(data) = 20 + data.length /\ data.length = 4 * Len(data.words)
      BY <1>1, <1>2, SliceExact, Zenon DEF Intact
    <3>2. Len(data.words) \in Nat
      BY <2>2, SMT
    <3> QED
      BY <3>1, <3>2, SMT DEF AttrsLen
  <2>4. CASE i \in 1 .. Len(data.sent)
    <3>1. /\ idx = 4 * data.sent[i].at /\ data.sent[i].at \in Nat
          /\ data.sent[i].value \in Seq(Word)
          /\ data.sent[i].at + 1 + Len(data.sent[i].value) <= Len(data.words)
      <4>1. i <= Len(data.sent)
        BY <2>2, <2>4, SMT
      <4> QED
        BY <1>2, <2>1, <2>4, <4>1, Zenon DEF At, StartOf, LaidOut
    <3>2. Len(data.words) \in Nat /\ Len(data.sent[i].value) \in Nat
      BY <2>2, <3>1, LenNat, Zenon
    <3>3. ASSUME NEW at \in Nat, NEW m \in Nat, NEW l \in Nat, at + 1 + m <= l
          PROVE  ~(4 * at + 4 > 4 * l)
      BY <3>3, SMT
    <3> QED
      BY <1>1, <2>3, <3>1, <3>2, <3>3, Zenon
  <2>5. CASE i \notin 1 .. Len(data.sent)
    <3>1. j \in 1 .. (i - 1)
      BY <2>1, <2>2, <2>5, SMT
    <3> QED
      BY <2>1, <3>1, Zenon DEF At
  <2> QED
    BY <2>4, <2>5
<1> QED
  BY <1>1, <1>2, Zenon DEF SentInv, ParsedIsSent

\* For every response, of any number of attributes and any lengths: the address
\* parseSTUNResponse returns is the one the server put into the first attribute
\* that carries one, and an intact response with such an attribute is never refused.
THEOREM AddressIsTheServers == Spec => []ParsedIsSent
<1>1. Init => SentInv
  BY SMT DEF Init, SentInv, ParsedIsSent
<1>2. ParseInv /\ SentInv /\ [Next]_vars => SentInv'
  <2> SUFFICES ASSUME ParseInv, SentInv, [Next]_vars PROVE SentInv'
    OBVIOUS
  <2>1. CASE UNCHANGED vars
    BY <2>1, Zenon DEF vars, SentInv, ParsedIsSent, At
  <2> QED
    BY <2>1, SentHeader, SentAttribute, SentEnd, Zenon DEF Next
<1>3. SentInv => ParsedIsSent
  BY Zenon DEF SentInv
<1> QED
  BY <1>1, <1>2, <1>3, ParseInvariance, PTL DEF Spec
=============================================================================
