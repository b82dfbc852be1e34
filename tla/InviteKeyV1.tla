---------------------------- MODULE InviteKeyV1 ----------------------------
(***************************************************************************)
(* Version 1 invite keys: KeyGeneratorV1.GenerateKey and                   *)
(* KeyParserV1.ParseKey (invitekey/) as functions on character sequences.  *)
(*                                                                         *)
(* A character is a tuple.  The Base64 URL alphabet, which contains the    *)
(* separator '-', and the lengths of encoded keys and signatures are       *)
(* parameters, given with the values the code has.  The prefix is one      *)
(* character.                                                              *)
(***************************************************************************)
EXTENDS Naturals, Sequences, SequencesExt

CONSTANTS
    Base,      \* characters of the alphabet (64)
    KeyLen,    \* characters of an encoded public key (43)
    SigLen,    \* characters of an encoded signature (86)
    KeySpare,  \* last characters of a key's encoding that decode alike (4)
    SigSpare   \* and of a signature's (16)

ASSUME EncodingAssumption ==
    /\ Base \in Nat /\ KeyLen \in Nat \ {0, 1} /\ SigLen \in Nat \ {0, 1}
    /\ KeySpare \in 1 .. Base /\ SigSpare \in 1 .. Base

Letter(n) == <<"base64", n>>
Alphabet == {Letter(n) : n \in 0 .. Base - 1}
Dash == Letter(1)
Bar == <<"bar">>
Newline == <<"newline">>
Other == <<"other">>

prefixDash == << <<"gota1">>, Dash >>
minKeyLen == Len(prefixDash) + (1 + 1 + KeyLen + 1 + KeyLen) + 1 + SigLen

Invalid == [valid |-> FALSE, addr |-> <<>>, x |-> <<>>]
NoKey == <<>>

\* The bytes of a public key, in the units of the encoding: the last character
\* carries only a part of a byte.
KeyBytes == {k \in [1 .. KeyLen -> 0 .. Base - 1] : KeySpare * k[KeyLen] < Base}

\* RawURLEncoding.  Decoding skips line breaks and ignores the spare bits of the
\* last character, and <<>> stands for its error.
Encode(bytes) ==
    [i \in DOMAIN bytes |-> Letter(IF i = Len(bytes) THEN KeySpare * bytes[i] ELSE bytes[i])]

Decode(str) ==
    LET s == IF Newline \in Range(str) THEN SelectSeq(str, LAMBDA c : c # Newline) ELSE str IN
    IF \A i \in DOMAIN s : s[i] \in Alphabet
    THEN [i \in DOMAIN s |-> IF i = Len(s) THEN s[i][2] \div KeySpare ELSE s[i][2]]
    ELSE <<>>

\* Ed25519: only the holder of the key to ed makes this signature of payload.
\* The first character stands for all of it but the last one.
Signature(ed, payload) == <<"signature", ed, payload>>

EncodeSignature(sig) == [i \in 1 .. SigLen |-> IF i = 1 THEN sig ELSE Letter(0)]

\* The encodings of sig: the last character has spare bits here too, and a line
\* break would leave too few bytes.
DecodesTo(str, sig) ==
    /\ Len(str) = SigLen
    /\ str[1] = sig
    /\ \A i \in 2 .. SigLen - 1 : str[i] = Letter(0)
    /\ str[SigLen] \in {Letter(n) : n \in 0 .. SigSpare - 1}

-----------------------------------------------------------------------------
\* A generator is what NewKeyGeneratorV1 was given; NoKey is nil.
Payload(g) == g.addr \o <<Bar>> \o Encode(g.x) \o <<Bar>> \o Encode(g.ed)

GenerateKey(g) ==
    IF g.addr = <<>> \/ g.x = NoKey \/ g.ed = NoKey
    THEN <<>>
    ELSE prefixDash \o Payload(g) \o <<Dash>> \o EncodeSignature(Signature(g.ed, Payload(g)))

\* Mutant: the address ends at the first bar.
SplitFirst(str) == SelectInSeq(str, LAMBDA c : c = Bar)

\* strings.LastIndex, 0 if there is no bar.
Split(str) == SelectLastInSeq(str, LAMBDA c : c = Bar)

\* Mutant: the signature is not compared with the payload.
VerifiesAny(ed, payload, str) == Len(str) = SigLen

Verifies(ed, payload, str) == DecodesTo(str, Signature(ed, payload))

ParseKey(str) ==
    LET n == Len(str)
        dashIdx == n - SigLen
        payload == SubSeq(str, Len(prefixDash) + 1, dashIdx - 1)
        idxEd == Split(payload)
        remaining == SubSeq(payload, 1, idxEd - 1)
        idxX == Split(remaining)
        ed == Decode(SubSeq(payload, idxEd + 1, Len(payload)))
        x == Decode(SubSeq(remaining, idxX + 1, Len(remaining)))
        addr == SubSeq(remaining, 1, idxX - 1)
    IN IF /\ IsPrefix(prefixDash, str)
          /\ n >= minKeyLen
          /\ str[dashIdx] = Dash
          /\ idxEd # 0 /\ idxX # 0
          /\ addr # <<>>
          /\ Len(ed) = KeyLen
          /\ Verifies(ed, payload, SubSeq(str, dashIdx + 1, n))
          /\ Len(x) = KeyLen
       THEN [valid |-> TRUE, addr |-> addr, x |-> x]
       ELSE Invalid
=============================================================================
