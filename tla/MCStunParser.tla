---------------------------- MODULE MCStunParser ----------------------------
(***************************************************************************)
(* TLC instances of StunParser.  The servers' side is written from the     *)
(* layout of RFC 5389, the way the responses of the repository's tests     *)
(* are put together: an attribute is its type, its length and its value.   *)
(***************************************************************************)
EXTENDS StunParser, SequencesExt

Bits == INSTANCE Bitwise

Tx == << <<1, 2>>, <<3, 4>>, <<65535, 6>> >>

IPv4 == [kind |-> "addr", port |-> 3478, ip |-> << <<49320, 257>> >>]
IPv6 == [kind |-> "addr", port |-> 65535, ip |-> << <<8193, 3512>>, <<0, 0>>, <<43690, 21845>>, <<0, 1>> >>]

Mapped(x) ==
    [head |-> <<MappedAddress, 4 * WordsOf(x)>>, value |-> << <<FamilyOf(x), x.port>> >> \o x.ip,
     of |-> x, at |-> 0]

XORMapped(x) ==
    LET mask == <<MagicCookie>> \o Tx IN
    [head |-> <<XORMappedAddress, 4 * WordsOf(x)>>,
     value |-> << <<FamilyOf(x), Xor(x.port, MagicCookie[1])>> >>
                  \o [i \in DOMAIN x.ip |-> XorWord(x.ip[i], mask[i])],
     of |-> x, at |-> 0]

\* Attributes without an address the parser takes: another type (with values of
\* every alignment), a value that is too short, an unknown family.
Other(len) ==
    [head |-> <<32802, len>>, value |-> [i \in 1 .. ((len + 3) \div 4) |-> <<32, 8>>], of |-> NoAddr, at |-> 0]
Short == [head |-> <<XORMappedAddress, 4>>, value |-> << <<1, 80>> >>, of |-> NoAddr, at |-> 0]
ShortIPv6 == [head |-> <<MappedAddress, 8>>, value |-> << <<2, 80>>, <<1, 8>> >>, of |-> NoAddr, at |-> 0]
Unknown == [head |-> <<MappedAddress, 8>>, value |-> << <<3, 80>>, <<1, 8>> >>, of |-> NoAddr, at |-> 0]

Attr == {Mapped(IPv4), Mapped(IPv6), XORMapped(IPv4), XORMapped(IPv6), Short, ShortIPv6, Unknown}
           \cup {Other(len) : len \in 0 .. 5}

Encode(attrs) == FlattenSeq([i \in DOMAIN attrs |-> <<attrs[i].head>> \o attrs[i].value])

\* Up to two attributes of every form, and three of a few.
Sent ==
    UNION {[1 .. n -> Attr] : n \in 0 .. 2}
       \cup [1 .. 3 -> {Other(5), ShortIPv6, Mapped(IPv4), XORMapped(IPv6)}]

Message(attrs) ==
    LET words == Encode(attrs)
        at(i) == Len(Encode(SubSeq(attrs, 1, i - 1)))
    IN
    [size |-> 20 + 4 * Len(words), type |-> BindingSuccess, length |-> 4 * Len(words),
     cookie |-> MagicCookie, tx |-> Tx, words |-> words,
     sent |-> [i \in DOMAIN attrs |-> [attrs[i] EXCEPT !.at = at(i)]]]

\* Datagrams that are something else, or damaged: a wrong header field, a size
\* or a length that does not fit.
Spoilt(m) ==
    {[m EXCEPT !.type = 273], [m EXCEPT !.cookie = <<0, 0>>], [m EXCEPT !.tx[1] = <<0, 0>>],
     [m EXCEPT !.size = 19]}
       \cup {[m EXCEPT !.length = n] : n \in {m.length + 1, m.length + 4, 65516, 65535}}
Cut(m) == {[m EXCEPT !.length = m.length - n] : n \in 0 .. m.length}

MCDatagram ==
    LET short == {Message(attrs) : attrs \in UNION {[1 .. n -> Attr] : n \in 0 .. 1}} IN
    {Message(attrs) : attrs \in Sent} \cup UNION {Spoilt(m) \cup Cut(m) : m \in short}

\* Every one of them is what LaidOut says of a response, and Xor is the exclusive
\* or of the bits.
ASSUME ResponseAssumption == \A d \in MCDatagram : LaidOut(d)

ASSUME XorAssumption ==
    LET Sample == {0, 1, 2, 255, 256, 8466, 21845, 43690, 42050, 65535} IN
    \A a, b \in Sample : Xor(a, b) = Bits!^^(a, b)
=============================================================================
