-------------------------- MODULE KeyManagerProofs --------------------------
(***************************************************************************)
(* Proofs about invite keys, for any lengths, alphabet, addresses and      *)
(* callers: a key that arrives as it was made is read as it was made, one  *)
(* that was damaged is never read as something else, and the map of        *)
(* parsers is not written once it has a version 1 parser.                  *)
(***************************************************************************)
EXTENDS KeyManager, TLAPS, SequenceTheorems

-----------------------------------------------------------------------------
(* Encoding and decoding. *)

\* Dropping the spare bits gives back the unit they were added to.
LEMMA DivCancel == ASSUME NEW s \in Nat \ {0}, NEW b \in Nat PROVE (s * b) \div s = b
  OBVIOUS

\* The separator of the payload is not a character of the alphabet, nor is a
\* line break or a signature.
LEMMA AlphabetApart ==
  /\ \A c \in Alphabet : c # Bar /\ c # Newline /\ c[1] = "base64"
  /\ Bar[1] = "bar" /\ Dash[1] = "base64" /\ gota1 = <<"gota1">> /\ gota1[1] = "gota1"
  /\ gota1 # Dash
  BY DEF Alphabet, Letter, Bar, Newline, Dash, gota1, prefixDash

\* A key is encoded in characters of the alphabet, and decoding gives it back.
LEMMA EncodeKey ==
  ASSUME NEW k \in KeyBytes
  PROVE  /\ Encode(k) \in Seq(Alphabet)
         /\ Len(Encode(k)) = KeyLen
         /\ Decode(Encode(k)) = k
<1> USE EncodingAssumption
<1>1. k \in [1 .. KeyLen -> 0 .. Base - 1] /\ KeySpare * k[KeyLen] < Base /\ Len(k) = KeyLen
  BY DEF KeyBytes
<1>2. \A i \in 1 .. KeyLen : k[i] \in Nat /\ k[i] < Base
  BY <1>1
<1>3. KeySpare * k[KeyLen] \in 0 .. Base - 1
  BY <1>1, <1>2
<1> DEFINE unit(i) == IF i = KeyLen THEN KeySpare * k[i] ELSE k[i]
           e == Encode(k)
<1>4. e = [i \in 1 .. KeyLen |-> Letter(unit(i))]
  BY <1>1 DEF Encode
<1>5. \A i \in 1 .. KeyLen : unit(i) \in 0 .. Base - 1
  BY <1>1, <1>3
<1> HIDE DEF unit, e
<1>6. \A i \in 1 .. KeyLen : e[i] = Letter(unit(i)) /\ e[i] \in Alphabet
  BY <1>4, <1>5 DEF Alphabet
<1>7. e \in Seq(Alphabet) /\ Len(e) = KeyLen /\ DOMAIN e = 1 .. KeyLen
  <2>1. e \in [1 .. KeyLen -> Alphabet]
    BY <1>4, <1>6
  <2> QED
    BY <2>1
<1>8. Newline \notin Range(e)
  BY <1>6, <1>7, AlphabetApart DEF Range
<1>9. Decode(e) = [i \in 1 .. KeyLen |-> IF i = KeyLen THEN e[i][2] \div KeySpare ELSE e[i][2]]
  BY <1>6, <1>7, <1>8, Zenon DEF Decode
<1>10. \A i \in 1 .. KeyLen : e[i][2] = unit(i)
  BY <1>6 DEF Letter
<1>11. (KeySpare * k[KeyLen]) \div KeySpare = k[KeyLen]
  BY <1>2, DivCancel
<1>12. Decode(e) = [i \in 1 .. KeyLen |-> k[i]]
  BY <1>9, <1>10, <1>11 DEF unit
<1> QED
  BY <1>1, <1>7, <1>12 DEF e

\* The parts of a string around a separator, index by index.
LEMMA Separated ==
  ASSUME NEW S, NEW s \in Seq(S), NEW t \in Seq(S), NEW c \in S,
         NEW u, u = s \o <<c>> \o t
  PROVE  /\ u \in Seq(S) /\ Len(u) = Len(s) + 1 + Len(t)
         /\ \A i \in 1 .. Len(s) : u[i] = s[i]
         /\ u[Len(s) + 1] = c
         /\ \A i \in 1 .. Len(t) : u[Len(s) + 1 + i] = t[i]
<1> DEFINE q == s \o <<c>>
<1>1. /\ q \in Seq(S) /\ Len(q) = Len(s) + 1 /\ q[Len(s) + 1] = c
      /\ \A i \in 1 .. Len(s) : q[i] = s[i]
  OBVIOUS
<1>2. u = q \o t
  OBVIOUS
<1> HIDE DEF q
<1>3. /\ u \in Seq(S) /\ Len(u) = Len(q) + Len(t)
      /\ \A i \in 1 .. Len(q) : u[i] = q[i]
      /\ \A i \in 1 .. Len(t) : u[Len(q) + i] = t[i]
  BY <1>1, <1>2
<1>4. Len(s) \in Nat /\ Len(t) \in Nat
  BY LenProperties
<1> QED
  BY <1>1, <1>3, <1>4

\* u is a, b, s, c and t, one after another.
FormedOf(u, a, b, s, c, t) ==
    /\ Len(u) = 2 + Len(s) + 1 + Len(t)
    /\ u[1] = a /\ u[2] = b /\ u[3 + Len(s)] = c
    /\ \A i \in 1 .. Len(s) : u[2 + i] = s[i]
    /\ \A i \in 1 .. Len(t) : u[3 + Len(s) + i] = t[i]

\* The same of a string with two characters before it.
LEMMA Prefixed ==
  ASSUME NEW S, NEW s \in Seq(S), NEW t \in Seq(S), NEW a \in S, NEW b \in S, NEW c \in S,
         NEW u, u = <<a, b>> \o s \o <<c>> \o t
  PROVE  u \in Seq(S) /\ FormedOf(u, a, b, s, c, t)
  BY DEF FormedOf

\* A part of a string that agrees with t character by character is t.
LEMMA Part ==
  ASSUME NEW S, NEW s \in Seq(S), NEW t \in Seq(S), NEW n \in Nat, NEW m \in Nat,
         n + Len(t) = m, m <= Len(s), \A i \in 1 .. Len(t) : s[n + i] = t[i]
  PROVE  SubSeq(s, n + 1, m) = t
<1> DEFINE v == SubSeq(s, n + 1, m)
<1>1. v \in Seq(S) /\ Len(v) = Len(t) /\ \A i \in 1 .. Len(t) : v[i] = t[i]
  OBVIOUS
<1> HIDE DEF v
<1>2. v = t
  BY <1>1, SeqEqual
<1> QED
  BY <1>2 DEF v

NoBar(t) == \A i \in 1 .. Len(t) : t[i] # Bar

\* The last bar of u is between s and t.
SplitsInto(u, s, t) ==
    /\ Len(u) = Len(s) + 1 + Len(t)
    /\ Split(u) = Len(s) + 1
    /\ SubSeq(u, 1, Split(u) - 1) = s
    /\ SubSeq(u, Split(u) + 1, Len(u)) = t

\* strings.LastIndex finds the bar after which there is none.
LEMMA SplitAt ==
  ASSUME NEW S, Bar \in S, NEW s \in Seq(S), NEW t \in Seq(S), NoBar(t),
         NEW u, u = s \o <<Bar>> \o t
  PROVE  u \in Seq(S) /\ SplitsInto(u, s, t)
<1> DEFINE n == Len(s) + 1
           I == {i \in 1 .. Len(u) : u[i] = Bar}
<1>1. Len(s) \in Nat /\ Len(t) \in Nat
  BY LenProperties
<1>3. /\ u \in Seq(S) /\ Len(u) = n + Len(t)
      /\ u[n] = Bar
      /\ \A i \in 1 .. Len(s) : u[i] = s[i]
      /\ \A i \in 1 .. Len(t) : u[n + i] = t[i]
  BY Separated
<1>4. n \in I /\ \A i \in I : n >= i
  <2>1. SUFFICES ASSUME NEW i \in I, i > n PROVE FALSE
    BY <1>3
  <2>2. i - n \in 1 .. Len(t) /\ u[n + (i - n)] = u[i]
    BY <2>1, <1>3
  <2> QED
    BY <2>1, <2>2, <1>3 DEF NoBar
<1>5. Max(I) = n
  BY <1>4 DEF Max
<1>6. Split(u) = n
  BY <1>4, <1>5, Zenon DEF Split, SelectLastInSeq
<1>7. SubSeq(u, 1, n - 1) = s
  <2>1. SubSeq(u, 0 + 1, Len(s)) = s
    BY <1>1, <1>3, Part
  <2> QED
    BY <2>1, <1>1
<1>8. SubSeq(u, n + 1, Len(u)) = t
  BY <1>1, <1>3, Part
<1> QED
  BY <1>3, <1>6, <1>7, <1>8, Zenon DEF SplitsInto

-----------------------------------------------------------------------------
(* The parts of a key. *)

\* What a generator that makes keys was given.
Complete(g) ==
    /\ g.addr \in Seq(Range(g.addr)) /\ g.addr # <<>>
    /\ \A c \in Range(g.addr) : c[1] # "signature"
    /\ g.x \in KeyBytes /\ g.ed \in KeyBytes

\* The characters of its payload, and its signature.
Chars(g) == Range(g.addr) \cup Alphabet \cup {Bar, Dash, gota1}
Sig(g) == Signature(g.ed, Payload(g))

\* What ParseKey cuts out of a payload.
Remaining(p) == SubSeq(p, 1, Split(p) - 1)
EdOf(p) == SubSeq(p, Split(p) + 1, Len(p))
XOf(p) == SubSeq(Remaining(p), Split(Remaining(p)) + 1, Len(Remaining(p)))
AddrOf(p) == SubSeq(Remaining(p), 1, Split(Remaining(p)) - 1)

\* The length of a payload is that of its parts.
LEMMA PayloadLength ==
  ASSUME NEW k \in Nat, NEW a, NEW r, NEW p, Len(a) \in Nat,
         Len(r) = Len(a) + 1 + k, Len(p) = Len(r) + 1 + k
  PROVE  Len(p) = Len(a) + 2 + 2 * k /\ Len(r) + 1 # 0 /\ Len(a) + 1 # 0
  OBVIOUS

\* A key is long enough.
LEMMA KeyLength ==
  ASSUME NEW a \in Nat \ {0}, NEW k \in Nat, NEW s \in Nat,
         NEW p, p = a + 2 + 2 * k, NEW n, n = 2 + p + 1 + s
  PROVE  n \in Nat /\ n >= 2 + (1 + 1 + k + 1 + k) + 1 + s /\ n >= 2
  OBVIOUS

\* ParseKey cuts a payload into the three parts it was put together from.
LEMMA PayloadParts ==
  ASSUME NEW g, Complete(g)
  PROVE  /\ Payload(g) \in Seq(Chars(g))
         /\ Len(Payload(g)) = Len(g.addr) + 2 + 2 * KeyLen
         /\ Split(Payload(g)) # 0 /\ Split(Remaining(Payload(g))) # 0
         /\ EdOf(Payload(g)) = Encode(g.ed)
         /\ XOf(Payload(g)) = Encode(g.x)
         /\ AddrOf(Payload(g)) = g.addr
<1> DEFINE S == Chars(g)
           X == Encode(g.x)
           E == Encode(g.ed)
           r == g.addr \o <<Bar>> \o X
           p == r \o <<Bar>> \o E
<1>1. Bar \in S /\ g.addr \in Seq(S)
  <2>1. Range(g.addr) \subseteq S
    BY DEF Chars
  <2> QED
    BY <2>1, SeqMonotonic DEF Complete, Chars
<1>2. /\ X \in Seq(Alphabet) /\ Len(X) = KeyLen
      /\ E \in Seq(Alphabet) /\ Len(E) = KeyLen
  BY EncodeKey DEF Complete
<1>3. X \in Seq(S) /\ E \in Seq(S)
  <2>1. Alphabet \subseteq S
    BY DEF Chars
  <2> QED
    BY <2>1, <1>2, SeqMonotonic
<1>4. NoBar(X) /\ NoBar(E)
  BY <1>2, AlphabetApart, ElementOfSeq DEF NoBar
<1>7. Payload(g) = p
  BY DEF Payload
<1>8. Len(g.addr) \in Nat /\ KeyLen \in Nat
  BY <1>1, LenProperties, EncodingAssumption
<1> HIDE DEF S, X, E
<1>9. r = g.addr \o <<Bar>> \o X /\ p = r \o <<Bar>> \o E
  OBVIOUS
<1> HIDE DEF r, p
<1>5. r \in Seq(S) /\ SplitsInto(r, g.addr, X)
  BY <1>1, <1>3, <1>4, <1>9, SplitAt, Zenon
<1>6. p \in Seq(S) /\ SplitsInto(p, r, E)
  BY <1>1, <1>3, <1>4, <1>5, <1>9, SplitAt, Zenon
<1>10. Len(p) = Len(g.addr) + 2 + 2 * KeyLen /\ Split(p) # 0 /\ Split(r) # 0
  <2>1. /\ Len(r) = Len(g.addr) + 1 + KeyLen /\ Split(r) = Len(g.addr) + 1
        /\ Len(p) = Len(r) + 1 + KeyLen /\ Split(p) = Len(r) + 1
    BY <1>2, <1>5, <1>6, Zenon DEF SplitsInto
  <2>2. Len(p) = Len(g.addr) + 2 + 2 * KeyLen /\ Len(r) + 1 # 0 /\ Len(g.addr) + 1 # 0
    BY <2>1, <1>8, PayloadLength, Zenon
  <2>3. Split(p) # 0 /\ Split(r) # 0
    BY <2>1, <2>2, Zenon
  <2> QED
    BY <2>2, <2>3, Zenon
<1> QED
  BY <1>5, <1>6, <1>7, <1>10, Zenon DEF SplitsInto, Remaining, EdOf, XOf, AddrOf, S, X, E

\* And a key into the prefix, the payload and the signature.
LEMMA KeyParts ==
  ASSUME NEW g, Complete(g)
  PROVE  LET k == GenerateKey(g)
             n == Len(GenerateKey(g))
         IN /\ k \in Seq(Chars(g) \cup {Sig(g)})
            /\ n = 2 + Len(Payload(g)) + 1 + SigLen
            /\ k[1] = gota1 /\ k[2] = Dash
            /\ k[n - SigLen] = Dash
            /\ SubSeq(k, 3, n - SigLen - 1) = Payload(g)
            /\ SubSeq(k, n - SigLen + 1, n) = EncodeSignature(Sig(g))
<1> DEFINE S == Chars(g) \cup {Sig(g)}
           p == Payload(g)
           e == EncodeSignature(Sig(g))
           k == prefixDash \o p \o <<Dash>> \o e
           m == Len(p)
<1>1. GenerateKey(g) = k
  <2>1. g.addr # <<>> /\ g.x # NoKey /\ g.ed # NoKey
    <3>1. 1 \in DOMAIN g.x /\ 1 \in DOMAIN g.ed
      BY EncodingAssumption DEF Complete, KeyBytes
    <3> QED
      BY <3>1 DEF Complete, NoKey
  <2> QED
    BY <2>1 DEF GenerateKey, Sig
<1>2. p \in Seq(S) /\ Len(p) \in Nat
  BY PayloadParts, SeqMonotonic, LenProperties
<1>3. e \in Seq(S) /\ Len(e) = SigLen /\ SigLen \in Nat
  <2>1. Letter(0) \in S
    BY EncodingAssumption DEF Chars, Alphabet
  <2>2. e \in [1 .. SigLen -> S] /\ SigLen \in Nat
    BY <2>1, EncodingAssumption DEF EncodeSignature
  <2> QED
    BY <2>2
<1>5. Dash \in S /\ gota1 \in S /\ prefixDash = <<gota1, Dash>>
  BY DEF Chars, prefixDash, gota1
<1>6. k = <<gota1, Dash>> \o p \o <<Dash>> \o e
  BY <1>5
<1> HIDE DEF S, p, e, k
<1>8. /\ k \in Seq(S) /\ Len(k) = 2 + m + 1 + SigLen
      /\ k[1] = gota1 /\ k[2] = Dash /\ k[3 + m] = Dash
      /\ \A i \in 1 .. m : k[2 + i] = p[i]
      /\ \A i \in 1 .. SigLen : k[3 + m + i] = e[i]
  <2>1. k \in Seq(S) /\ FormedOf(k, gota1, Dash, p, Dash, e)
    BY <1>2, <1>3, <1>5, <1>6, Prefixed, Zenon
  <2> QED
    BY <2>1, <1>3 DEF FormedOf
<1>9. SubSeq(k, 3, 2 + m) = p
  <2>1. SubSeq(k, 2 + 1, 2 + m) = p
    BY <1>2, <1>3, <1>8, Part
  <2> QED
    BY <2>1
<1>10. SubSeq(k, 4 + m, Len(k)) = e
  <2>1. SubSeq(k, (3 + m) + 1, Len(k)) = e
    BY <1>2, <1>3, <1>8, Part
  <2> QED
    BY <2>1, <1>2
<1>11. /\ Len(k) - SigLen = 3 + m /\ Len(k) - SigLen - 1 = 2 + m
       /\ Len(k) - SigLen + 1 = 4 + m /\ Len(k) = 2 + m + 1 + SigLen
  BY <1>2, <1>3, <1>8
<1> QED
  BY <1>1, <1>8, <1>9, <1>10, <1>11, Zenon DEF S, p, e

\* A signature is encoded in a way that decodes to it.
LEMMA EncodesSignature == ASSUME NEW sig PROVE DecodesTo(EncodeSignature(sig), sig)
  BY EncodingAssumption DEF EncodeSignature, DecodesTo

-----------------------------------------------------------------------------
(* Keys are read as they were made. *)

\* ParseKey in terms of the parts it cuts a string into.
LEMMA ParseDef ==
  ASSUME NEW str
  PROVE  LET d == Len(str) - SigLen
             p == SubSeq(str, 3, d - 1)
         IN ParseKey(str) =
              IF /\ IsPrefix(prefixDash, str) /\ Len(str) >= minKeyLen /\ str[d] = Dash
                 /\ Split(p) # 0 /\ Split(Remaining(p)) # 0
                 /\ AddrOf(p) # <<>>
                 /\ Len(Decode(EdOf(p))) = KeyLen
                 /\ Verifies(Decode(EdOf(p)), p, SubSeq(str, d + 1, Len(str)))
                 /\ Len(Decode(XOf(p))) = KeyLen
              THEN [valid |-> TRUE, addr |-> AddrOf(p), x |-> Decode(XOf(p))]
              ELSE Invalid
<1>1. Len(prefixDash) + 1 = 3
  BY DEF prefixDash
<1> QED
  BY <1>1, Zenon DEF ParseKey, Remaining, EdOf, XOf, AddrOf

\* A key gives the address and the identity it was made of, whatever characters
\* the address has: the separators are searched from the end.
THEOREM ReadAsMade ==
  ASSUME NEW g, Complete(g)
  PROVE  ParseKey(GenerateKey(g)) = [valid |-> TRUE, addr |-> g.addr, x |-> g.x]
<1> DEFINE k == GenerateKey(g)
           n == Len(k)
           p == Payload(g)
<1>1. /\ Split(p) # 0 /\ Split(Remaining(p)) # 0
      /\ EdOf(p) = Encode(g.ed) /\ XOf(p) = Encode(g.x) /\ AddrOf(p) = g.addr
      /\ Len(p) = Len(g.addr) + 2 + 2 * KeyLen
  BY PayloadParts, Zenon
<1>2. /\ k \in Seq(Chars(g) \cup {Sig(g)})
      /\ n = 2 + Len(p) + 1 + SigLen
      /\ k[1] = gota1 /\ k[2] = Dash /\ k[n - SigLen] = Dash
      /\ SubSeq(k, 3, n - SigLen - 1) = p
      /\ SubSeq(k, n - SigLen + 1, n) = EncodeSignature(Sig(g))
  BY KeyParts, Zenon
<1>3. /\ Decode(Encode(g.ed)) = g.ed /\ Decode(Encode(g.x)) = g.x
      /\ Len(g.ed) = KeyLen /\ Len(g.x) = KeyLen
  <2>1. g.ed \in KeyBytes /\ g.x \in KeyBytes
    BY DEF Complete
  <2>2. Decode(Encode(g.ed)) = g.ed /\ Decode(Encode(g.x)) = g.x
    BY <2>1, EncodeKey, Zenon
  <2>3. \A b \in KeyBytes : Len(b) = KeyLen
    BY EncodingAssumption DEF KeyBytes
  <2> QED
    BY <2>1, <2>2, <2>3, Zenon
<1>4. Len(g.addr) \in Nat \ {0} /\ SigLen \in Nat /\ KeyLen \in Nat
  BY EmptySeq, EncodingAssumption DEF Complete
<1> HIDE DEF k, p
<1>5. n \in Nat /\ n >= minKeyLen /\ n >= 2
  <2>1. Len(prefixDash) = 2
    BY DEF prefixDash
  <2>2. Len(p) = Len(g.addr) + 2 + 2 * KeyLen /\ n = 2 + Len(p) + 1 + SigLen
    BY <1>1, <1>2, Zenon
  <2> QED
    BY <2>1, <2>2, <1>4, KeyLength, Zenon DEF minKeyLen
<1>6. IsPrefix(prefixDash, k)
  <2> DEFINE q == <<gota1, Dash>>
             S == Chars(g) \cup {Sig(g)}
  <2>1. q \in Seq(S) /\ Len(q) = 2 /\ q[1] = gota1 /\ q[2] = Dash
    BY DEF Chars
  <2>2. prefixDash = q
    BY DEF prefixDash, gota1
  <2> HIDE DEF q, S
  <2>3. \A i \in 1 .. 2 : k[i] = q[i]
    BY <1>2, <2>1
  <2>4. k \in Seq(S)
    BY <1>2 DEF S
  <2>5. SubSeq(k, 0 + 1, 2) = q
    BY <2>1, <2>3, <2>4, <1>5, Part
  <2>6. SubSeq(q, 1, 2) = q
    BY <2>1, SubSeqFull
  <2>7. SubSeq(k, 1, 2) = q
    BY <2>5
  <2> QED
    BY <2>1, <2>2, <2>6, <2>7, <1>5, Zenon DEF IsPrefix
<1>7. Verifies(g.ed, p, EncodeSignature(Sig(g)))
  BY EncodesSignature DEF Verifies, Sig, p
<1>8. g.addr # <<>>
  BY DEF Complete
<1> QED
  BY <1>1, <1>2, <1>3, <1>5, <1>6, <1>7, <1>8, ParseDef, Zenon DEF k

\* A string with no signature but that of g's key is refused, or gives what g's
\* key was made of: the signature is of the whole payload.
THEOREM NeverReadAsAnother ==
  ASSUME NEW g, Complete(g), NEW str, str \in Seq(Range(str)),
         \A c \in Range(str) : c[1] = "signature" => c \in Range(GenerateKey(g)),
         ParseKey(str).valid
  PROVE  ParseKey(str).addr = g.addr /\ ParseKey(str).x = g.x
<1> DEFINE n == Len(str)
           p == SubSeq(str, 3, n - SigLen - 1)
           sig == SubSeq(str, n - SigLen + 1, n)
<1>1. /\ n >= minKeyLen
      /\ Verifies(Decode(EdOf(p)), p, sig)
      /\ ParseKey(str).addr = AddrOf(p) /\ ParseKey(str).x = Decode(XOf(p))
  BY ParseDef DEF Invalid
<1>2. n \in Nat /\ SigLen \in Nat \ {0} /\ n - SigLen + 1 \in 1 .. n
  BY <1>1, LenProperties, EncodingAssumption DEF minKeyLen, prefixDash
<1>3. sig[1] = str[n - SigLen + 1] /\ str[n - SigLen + 1] \in Range(str)
  BY <1>2 DEF Range
<1>4. sig[1] = Signature(Decode(EdOf(p)), p)
  BY <1>1, Zenon DEF Verifies, DecodesTo
<1> HIDE DEF p, sig
<1>5. sig[1][1] = "signature"
  BY <1>4 DEF Signature
<1>6. sig[1] \in Range(GenerateKey(g))
  BY <1>3, <1>5
<1>7. sig[1] = Sig(g)
  <2>1. sig[1] \in Chars(g) \cup {Sig(g)}
    BY <1>6, KeyParts, RangeOfSeq, Zenon
  <2>2. \A c \in Chars(g) : c[1] # "signature"
    BY AlphabetApart DEF Chars, Complete
  <2> QED
    BY <2>1, <2>2, <1>5
<1>8. p = Payload(g)
  BY <1>4, <1>7 DEF Sig, Signature
<1>9. AddrOf(p) = g.addr /\ Decode(XOf(p)) = g.x
  BY <1>8, PayloadParts, EncodeKey DEF Complete
<1> QED
  BY <1>1, <1>9 DEF p

-----------------------------------------------------------------------------
(* The key manager. *)

Kind == {"none", "v1", "other"}

TypeInv ==
    /\ generator \in Generator \cup {NoGenerator}
    /\ ecdhParserList \in [Version -> Kind]
    /\ prefixToVersion \in [Prefix -> Version \cup {NoVersion}]
    /\ prefixToVersion[gota1] \in Version
    /\ serving \in BOOLEAN /\ preset \in BOOLEAN /\ race \in BOOLEAN
    /\ pc \in [Caller -> {"idle", "parse", "reading", "write", "writing", "run", "done"}]
    /\ parser \in [Caller -> Kind]
    /\ DOMAIN received = Caller /\ DOMAIN result = Caller

\* What a call knows where it is: it works on what became of the generator's
\* key, it writes the map only for version 1 and where no other parser is, and
\* if gota1 keys reach a version 1 parser it runs one on them.
CallInv(c) ==
    /\ pc[c] # "idle" =>
          /\ serving
          /\ GenerateKey(generator) # <<>>
          /\ received[c] \in Damage(c, GenerateKey(generator))
    /\ pc[c] # "done" => result[c] = Invalid
    /\ pc[c] = "done" => result[c] \in {Invalid, ParseKey(received[c])}
    /\ pc[c] \in {"reading", "write", "writing", "run"} => VersionOf(received[c]) \in Version
    /\ pc[c] \in {"write", "writing"} =>
          /\ VersionOf(received[c]) = v1keytype
          /\ parser[c] = "v1"
          /\ ecdhParserList[v1keytype] # "other"
    /\ Wired /\ VersionOf(received[c]) = prefixToVersion[gota1] =>
          /\ pc[c] \in {"write", "writing", "run"} => parser[c] = "v1"
          /\ pc[c] = "done" => result[c] = ParseKey(received[c])

\* With a version 1 parser from the start, no call gets to write the map.
PresetInv ==
    preset => /\ serving
              /\ ecdhParserList[v1keytype] # "none"
              /\ \A c \in Caller : pc[c] \notin {"write", "writing"}
              /\ ~race

KeyInv == TypeInv /\ PresetInv /\ \A c \in Caller : CallInv(c)

\* A step leaves every variable well typed.
LEMMA TypeStep == ASSUME TypeInv, \A c \in Caller : CallInv(c), [Next]_vars PROVE TypeInv'
<1> USE VersionAssumption DEF TypeInv, Kind, setup, calls
<1>1. ASSUME NEW g \in Generator, RegisterGenerator(g) PROVE TypeInv'
  BY <1>1, Zenon DEF RegisterGenerator
<1>2. ASSUME NEW v \in Version, NEW p \in Prefix, NEW kind \in {"v1", "other"},
             RegisterParser(v, p, kind)
      PROVE  TypeInv'
  BY <1>2 DEF RegisterParser
<1>3. ASSUME Serve PROVE TypeInv'
  BY <1>3 DEF Serve
<1>4. ASSUME NEW c \in Caller, Receive(c) PROVE TypeInv'
  BY <1>4 DEF Receive
<1>5. ASSUME NEW c \in Caller, ParseUnsupported(c) PROVE TypeInv'
  BY <1>5 DEF ParseUnsupported, Return
<1>6. ASSUME NEW c \in Caller, ReadBegin(c) PROVE TypeInv'
  BY <1>6 DEF ReadBegin
<1>7. ASSUME NEW c \in Caller, Lookup(c), CallInv(c) PROVE TypeInv'
  BY <1>7 DEF Lookup, ReadEnd, Return, CallInv
<1>8. ASSUME NEW c \in Caller, WriteBegin(c) PROVE TypeInv'
  BY <1>8 DEF WriteBegin
<1>9. ASSUME NEW c \in Caller, WriteEnd(c), CallInv(c) PROVE TypeInv'
  BY <1>9 DEF WriteEnd, CallInv
<1>10. ASSUME NEW c \in Caller, Run(c) PROVE TypeInv'
  BY <1>10 DEF Run, Return
<1>11. CASE UNCHANGED vars
  BY <1>11 DEF vars
<1> HIDE DEF TypeInv, Kind, setup, calls
<1> QED
  BY <1>1, <1>2, <1>3, <1>4, <1>5, <1>6, <1>7, <1>8, <1>9, <1>10, <1>11 DEF Next

\* With a parser in the map a call finds it, and does not write.
LEMMA PresetStep == ASSUME KeyInv, [Next]_vars PROVE PresetInv'
<1> USE DEF setup, calls
<1>1. ASSUME preset, UNCHANGED setup, race' = race, NEW c \in Caller,
             NEW l, l \notin {"write", "writing"}, pc' = [pc EXCEPT ![c] = l]
      PROVE  PresetInv'
  BY <1>1, Zenon DEF KeyInv, TypeInv, PresetInv
<1>2. ASSUME NEW c \in Caller, preset PROVE pc[c] \notin {"write", "writing"}
  BY <1>2 DEF KeyInv, PresetInv
<1>3. ASSUME Serve, ~race PROVE PresetInv'
  <2>1. \A c \in Caller : pc[c] = "idle"
    BY <1>3 DEF Serve, KeyInv, CallInv
  <2> QED
    BY <1>3, <2>1, Zenon DEF Serve, PresetInv
<1>4. ASSUME NEW c \in Caller, preset, Receive(c) PROVE PresetInv'
  BY <1>4, <1>1, Zenon DEF Receive
<1>5. ASSUME NEW c \in Caller, preset, ParseUnsupported(c) PROVE PresetInv'
  BY <1>5, <1>1, Zenon DEF ParseUnsupported, Return
<1>6. ASSUME NEW c \in Caller, preset, ReadBegin(c) PROVE PresetInv'
  <2>1. race' = race
    BY <1>2, <1>6 DEF ReadBegin, KeyInv, PresetInv, TypeInv
  <2> QED
    BY <1>1, <1>6, <2>1, Zenon DEF ReadBegin
<1>7. ASSUME NEW c \in Caller, preset, Lookup(c) PROVE PresetInv'
  <2>1. /\ ecdhParserList[v1keytype] # "none"
        /\ pc' = [pc EXCEPT ![c] = "done"] \/ pc' = [pc EXCEPT ![c] = "run"]
    BY <1>7 DEF KeyInv, PresetInv, Lookup, ReadEnd, Return
  <2> QED
    BY <1>1, <1>7, <2>1 DEF Lookup, ReadEnd
<1>8. ASSUME NEW c \in Caller, preset, Run(c) PROVE PresetInv'
  BY <1>8, <1>1, Zenon DEF Run, Return
<1>9. ASSUME NEW c \in Caller, preset, WriteBegin(c) \/ WriteEnd(c) PROVE FALSE
  BY <1>2, <1>9, Zenon DEF WriteBegin, WriteEnd
<1>10. ASSUME NEW c \in Caller,
              \/ Receive(c) \/ ParseUnsupported(c) \/ ReadBegin(c) \/ Lookup(c)
              \/ WriteBegin(c) \/ WriteEnd(c) \/ Run(c)
       PROVE  preset' = preset
  BY <1>10 DEF Receive, ParseUnsupported, ReadBegin, Lookup, ReadEnd, WriteBegin, WriteEnd, Run
<1>11. ASSUME NEW g \in Generator, RegisterGenerator(g) PROVE PresetInv'
  BY <1>11 DEF RegisterGenerator, KeyInv, PresetInv
<1>12. ASSUME NEW v \in Version, NEW p \in Prefix, NEW kind \in {"v1", "other"},
              RegisterParser(v, p, kind)
       PROVE  PresetInv'
  BY <1>12 DEF RegisterParser, KeyInv, PresetInv
<1>13. CASE UNCHANGED vars
  BY <1>13 DEF vars, KeyInv, PresetInv
<1>14. ~preset' => PresetInv'
  BY DEF PresetInv
<1> QED
  BY <1>3, <1>4, <1>5, <1>6, <1>7, <1>8, <1>9, <1>10, <1>11, <1>12, <1>13, <1>14 DEF Next

\* What a call knows depends only on its own variables, on the generator and on
\* what the maps say, and the maps change only before calls are made.
LEMMA CallFrame ==
  ASSUME NEW d \in Caller, CallInv(d), UNCHANGED setup,
         pc'[d] = pc[d], received'[d] = received[d],
         parser'[d] = parser[d], result'[d] = result[d]
  PROVE  CallInv(d)'
  BY DEF setup, CallInv, Wired, VersionOf

\* A step of a call preserves what the call knows, and what the others know.
LEMMA CallStep ==
  ASSUME KeyInv, [Next]_vars, NEW d \in Caller
  PROVE  CallInv(d)'
<1> USE VersionAssumption DEF setup, calls
<1>0. TypeInv /\ CallInv(d) /\ \A c \in Caller : CallInv(c)
  BY Zenon DEF KeyInv
<1>1. ASSUME ~serving, UNCHANGED calls PROVE CallInv(d)'
  <2>1. pc[d] = "idle"
    BY <1>0, <1>1 DEF CallInv
  <2> QED
    BY <1>0, <1>1, <2>1 DEF CallInv
<1>2. ASSUME NEW c \in Caller, Receive(c) PROVE CallInv(d)'
  <2>1. CASE c # d
    BY <1>0, <1>2, <2>1, CallFrame DEF Receive, TypeInv
  <2>2. CASE c = d
    <3>1. /\ serving' /\ pc'[d] = "parse" /\ generator' = generator
          /\ GenerateKey(generator) # <<>>
          /\ received'[d] \in Damage(d, GenerateKey(generator))
      BY <1>0, <1>2, <2>2 DEF Receive, TypeInv
    <3>2. result'[d] = Invalid
      BY <1>0, <1>2, <2>2, Zenon DEF Receive, CallInv
    <3> QED
      BY <3>1, <3>2, Zenon DEF CallInv
  <2> QED
    BY <2>1, <2>2
<1>3. ASSUME NEW c \in Caller, ParseUnsupported(c) PROVE CallInv(d)'
  <2>1. CASE c # d
    BY <1>0, <1>3, <2>1, CallFrame DEF ParseUnsupported, Return, TypeInv
  <2>2. CASE c = d
    <3>1. /\ UNCHANGED <<setup, received>> /\ pc'[d] = "done" /\ pc[d] = "parse"
          /\ result'[d] = Invalid
      BY <1>0, <1>3, <2>2, Zenon DEF ParseUnsupported, Return, TypeInv
    <3>2. VersionOf(received[d])' = NoVersion /\ prefixToVersion'[gota1] \in Version
      BY <1>0, <1>3, <2>2, <3>1 DEF ParseUnsupported, VersionOf, TypeInv
    <3>3. VersionOf(received[d])' # prefixToVersion'[gota1]
      BY <3>2, Zenon
    <3> QED
      BY <1>0, <3>1, <3>3, Zenon DEF CallInv
  <2> QED
    BY <2>1, <2>2
<1>4. ASSUME NEW c \in Caller, ReadBegin(c) PROVE CallInv(d)'
  <2>1. CASE c # d
    BY <1>0, <1>4, <2>1, CallFrame DEF ReadBegin, TypeInv
  <2>2. CASE c = d
    <3>1. /\ UNCHANGED <<setup, received, parser, result>> /\ pc'[d] = "reading" /\ pc[d] = "parse"
      BY <1>0, <1>4, <2>2 DEF ReadBegin, TypeInv
    <3>2. VersionOf(received[d])' = VersionOf(received[d]) /\ VersionOf(received[d]) \in Version
      BY <1>0, <1>4, <2>2, <3>1 DEF ReadBegin, VersionOf, TypeInv
    <3> QED
      BY <1>0, <3>1, <3>2, Zenon DEF CallInv
  <2> QED
    BY <2>1, <2>2
<1>5. ASSUME NEW c \in Caller, Lookup(c) PROVE CallInv(d)'
  <2>1. CASE c # d
    BY <1>0, <1>5, <2>1, CallFrame DEF Lookup, ReadEnd, Return, TypeInv
  <2>2. CASE c = d
    <3> DEFINE v == VersionOf(received[d])
               found == ecdhParserList[v]
    <3>1. UNCHANGED <<setup, received>> /\ pc[d] = "reading" /\ v \in Version /\ v' = v /\ Wired' = Wired
      BY <1>0, <1>5, <2>2, Zenon DEF Lookup, ReadEnd, CallInv, VersionOf, Wired
    <3>2. CASE found = "none" /\ v # v1keytype
      <4>1. pc'[d] = "done" /\ result'[d] = Invalid
        BY <1>0, <1>5, <2>2, <3>2, Zenon DEF Lookup, ReadEnd, Return, TypeInv
      <4>2. ~(Wired /\ v = prefixToVersion[gota1])
        BY <3>2, Zenon DEF Wired
      <4> QED
        BY <1>0, <3>1, <4>1, <4>2, Zenon DEF CallInv
    <3>3. CASE ~(found = "none" /\ v # v1keytype)
      <4>1. /\ parser'[d] = IF found = "none" THEN "v1" ELSE found
            /\ pc'[d] = IF found = "none" THEN "write" ELSE "run"
            /\ result'[d] = result[d]
        BY <1>0, <1>5, <2>2, <3>3, Zenon DEF Lookup, ReadEnd, TypeInv
      <4>2. Wired /\ v = prefixToVersion[gota1] => parser'[d] = "v1"
        BY <4>1 DEF Wired
      <4> QED
        BY <1>0, <3>1, <3>3, <4>1, <4>2, Zenon DEF CallInv
    <3> QED
      BY <3>2, <3>3
  <2> QED
    BY <2>1, <2>2
<1>6. ASSUME NEW c \in Caller, WriteBegin(c) PROVE CallInv(d)'
  <2>1. CASE c # d
    BY <1>0, <1>6, <2>1, CallFrame DEF WriteBegin, TypeInv
  <2>2. CASE c = d
    <3>1. UNCHANGED <<setup, received, parser, result>> /\ pc'[d] = "writing" /\ pc[d] = "write"
      BY <1>0, <1>6, <2>2, Zenon DEF WriteBegin, TypeInv
    <3> QED
      BY <1>0, <3>1, Zenon DEF CallInv, VersionOf, Wired
  <2> QED
    BY <2>1, <2>2
<1>7. ASSUME NEW c \in Caller, WriteEnd(c) PROVE CallInv(d)'
  <2>1. /\ UNCHANGED <<generator, prefixToVersion, serving, received, parser, result>>
        /\ ecdhParserList' = [ecdhParserList EXCEPT ![v1keytype] = "v1"]
        /\ ecdhParserList[v1keytype] # "other" /\ pc[c] = "writing"
    BY <1>0, <1>7, Zenon DEF WriteEnd, CallInv
  <2>2. Wired' => Wired
    BY <1>0, <2>1 DEF Wired, TypeInv, Kind
  <2>3. VersionOf(received[d])' = VersionOf(received[d])
    BY <2>1 DEF VersionOf
  <2>4. ecdhParserList'[v1keytype] = "v1"
    BY <1>0, <2>1 DEF TypeInv
  <2>5. CASE c # d
    <3>1. pc'[d] = pc[d]
      BY <1>0, <1>7, <2>5, Zenon DEF WriteEnd, TypeInv
    <3> QED
      BY <1>0, <2>1, <2>2, <2>3, <2>4, <3>1, Zenon DEF CallInv
  <2>6. CASE c = d
    <3>1. pc'[d] = "run"
      BY <1>0, <1>7, <2>6, Zenon DEF WriteEnd, TypeInv
    <3> QED
      BY <1>0, <2>1, <2>2, <2>3, <2>4, <2>6, <3>1, Zenon DEF CallInv
  <2> QED
    BY <2>5, <2>6
<1>8. ASSUME NEW c \in Caller, Run(c) PROVE CallInv(d)'
  <2>1. CASE c # d
    BY <1>0, <1>8, <2>1, CallFrame DEF Run, Return, TypeInv
  <2>2. CASE c = d
    <3>1. /\ UNCHANGED <<setup, received, parser>> /\ pc'[d] = "done" /\ pc[d] = "run"
          /\ result'[d] = IF parser[d] = "v1" THEN ParseKey(received[d]) ELSE Invalid
      BY <1>0, <1>8, <2>2, Zenon DEF Run, Return, TypeInv
    <3> QED
      BY <1>0, <3>1, Zenon DEF CallInv, VersionOf, Wired
  <2> QED
    BY <2>1, <2>2
<1>9. ASSUME NEW g \in Generator, RegisterGenerator(g) PROVE CallInv(d)'
  BY <1>1, <1>9 DEF RegisterGenerator
<1>10. ASSUME NEW v \in Version, NEW p \in Prefix, NEW kind \in {"v1", "other"},
              RegisterParser(v, p, kind)
       PROVE  CallInv(d)'
  BY <1>1, <1>10 DEF RegisterParser
<1>11. CASE Serve
  BY <1>1, <1>11 DEF Serve
<1>12. CASE UNCHANGED vars
  BY <1>0, <1>12, CallFrame DEF vars
<1> QED
  BY <1>2, <1>3, <1>4, <1>5, <1>6, <1>7, <1>8, <1>9, <1>10, <1>11, <1>12 DEF Next

\* The invariant of the key manager.
THEOREM CallsKnow == Spec => []KeyInv
<1>1. Init => KeyInv
  <2> SUFFICES ASSUME Init PROVE KeyInv
    OBVIOUS
  <2>1. TypeInv
    BY VersionAssumption, Zenon DEF Init, TypeInv, Kind
  <2>2. PresetInv
    BY DEF Init, PresetInv
  <2>3. \A c \in Caller : CallInv(c)
    BY DEF Init, CallInv
  <2> QED
    BY <2>1, <2>2, <2>3 DEF KeyInv
<1>2. KeyInv /\ [Next]_vars => KeyInv'
  <2> SUFFICES ASSUME KeyInv, [Next]_vars PROVE KeyInv'
    OBVIOUS
  <2>1. TypeInv'
    BY TypeStep DEF KeyInv
  <2> QED
    BY <2>1, PresetStep, CallStep DEF KeyInv
<1> QED
  BY <1>1, <1>2, PTL DEF Spec

-----------------------------------------------------------------------------
(* What callers get. *)

\* A generator that makes a key was given an address and both keys.
LEMMA MakesKeys ==
  ASSUME TypeInv, GenerateKey(generator) # <<>>
  PROVE  Complete(generator) /\ generator \in Generator
<1>1. generator.addr # <<>> /\ generator.x # NoKey /\ generator.ed # NoKey
  BY DEF GenerateKey
<1>2. generator \in Generator
  BY <1>1 DEF TypeInv, NoGenerator
<1> QED
  BY <1>1, <1>2, GeneratorAssumption DEF Complete

\* The characters before the first dash of a key are its prefix.
LEMMA PrefixOfKey == ASSUME NEW g, Complete(g) PROVE PrefixOf(GenerateKey(g)) = gota1
<1> DEFINE k == GenerateKey(g)
           I == {i \in 1 .. Len(k) : k[i] = Dash}
<1>1. k[1] = gota1 /\ k[2] = Dash /\ Len(k) \in Nat /\ Len(k) >= 2
  <2>1. /\ k[1] = gota1 /\ k[2] = Dash /\ Len(k) = 2 + Len(Payload(g)) + 1 + SigLen
    BY KeyParts, Zenon
  <2>2. Len(Payload(g)) \in Nat /\ SigLen \in Nat
    BY PayloadParts, LenProperties, EncodingAssumption
  <2> QED
    BY <2>1, <2>2
<1> HIDE DEF k
<1>2. 2 \in I /\ \A i \in I : i >= 2
  BY <1>1, AlphabetApart
<1>3. Min(I) = 2
  BY <1>2 DEF Min
<1>4. SelectInSeq(k, LAMBDA c : c = Dash) = 2
  BY <1>2, <1>3 DEF SelectInSeq
<1> QED
  BY <1>1, <1>4 DEF PrefixOf, k

\* A key that arrives as it was generated is read as it was made.
THEOREM RoundTrips == Spec => []RoundTrip
<1>1. KeyInv => RoundTrip
  <2> SUFFICES ASSUME KeyInv, NEW c \in Caller,
                      pc[c] = "done", Wired, received[c] = GenerateKey(generator)
               PROVE  result[c] = [valid |-> TRUE, addr |-> generator.addr, x |-> generator.x]
    BY Zenon DEF RoundTrip
  <2>1. TypeInv /\ CallInv(c)
    BY DEF KeyInv
  <2>2. Complete(generator)
    BY <2>1, MakesKeys DEF CallInv
  <2>3. VersionOf(received[c]) = prefixToVersion[gota1]
    BY <2>2, PrefixOfKey, VersionAssumption DEF VersionOf
  <2>4. result[c] = ParseKey(GenerateKey(generator))
    BY <2>1, <2>3 DEF CallInv
  <2> QED
    BY <2>2, <2>4, ReadAsMade
<1> QED
  BY <1>1, CallsKnow, PTL

\* A key that was damaged on its way is refused or read as it was made.
THEOREM DamageIsDetected == Spec => []DamageDetected
<1>1. KeyInv => DamageDetected
  <2> SUFFICES ASSUME KeyInv, NEW c \in Caller, result[c].valid
               PROVE  result[c].addr = generator.addr /\ result[c].x = generator.x
    BY DEF DamageDetected
  <2>1. TypeInv /\ CallInv(c)
    BY DEF KeyInv
  <2>2. result[c] # Invalid
    BY DEF Invalid
  <2>3. /\ pc[c] = "done" /\ result[c] = ParseKey(received[c])
        /\ GenerateKey(generator) # <<>>
        /\ received[c] \in Damage(c, GenerateKey(generator))
    BY <2>1, <2>2 DEF CallInv
  <2>4. Complete(generator) /\ generator \in Generator
    BY <2>1, <2>3, MakesKeys
  <2>5. /\ received[c] \in Seq(Range(received[c]))
        /\ \A ch \in Range(received[c]) :
              ch[1] = "signature" => ch \in Range(GenerateKey(generator))
    BY <2>3, <2>4, DamageAssumption
  <2> QED
    BY <2>3, <2>4, <2>5, NeverReadAsAnother
<1> QED
  BY <1>1, CallsKnow, PTL

\* With a version 1 parser registered, ParseKey never writes the map.
THEOREM NoRace == Spec => []NoMapRace
<1>1. KeyInv => NoMapRace
  BY DEF KeyInv, PresetInv, NoMapRace
<1> QED
  BY <1>1, CallsKnow, PTL
=============================================================================
