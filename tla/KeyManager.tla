----------------------------- MODULE KeyManager -----------------------------
(***************************************************************************)
(* KeyManager (invitekey/key_manager.go): generators and parsers are       *)
(* registered by one goroutine before requests are served; then any number *)
(* of goroutines generate keys, hand them on, and parse what they receive, *)
(* which may have been damaged on the way.                                 *)
(*                                                                         *)
(* A Go map may be read by many goroutines at once, but an overlapping     *)
(* write crashes the program: accesses to the map that ParseKey may write  *)
(* have a beginning and an end here.                                       *)
(***************************************************************************)
EXTENDS InviteKeyV1

CONSTANTS
    Caller,      \* goroutines that parse a key
    Generator,   \* what a generator may be made of: [addr, x, ed]
    Version,     \* key versions; v1keytype is one of them
    Prefix,      \* prefixes parsers are registered for; gota1 is one of them
    Damage(_, _) \* what may become of a key on its way to a caller

v1keytype == 0
NoVersion == 99
gota1 == prefixDash[1]

VARIABLES
    generator,        \* km.generatorList[v1keytype]
    ecdhParserList,   \* km.ecdhParserList: "none", "v1" or another parser
    prefixToVersion,  \* km.prefixToVersion
    serving,          \* registration is over
    preset,           \* history: v1 had a parser when it was
    pc,               \* where a caller is
    received,         \* the key the caller parses
    parser,           \* the parser its ParseKey uses
    result,           \* what its ParseKey returned
    race              \* a write of the parser map overlapped another access

setup == <<generator, ecdhParserList, prefixToVersion, serving, preset>>
calls == <<pc, received, parser, result>>
vars == <<setup, calls, race>>

NoGenerator == [addr |-> <<>>, x |-> NoKey, ed |-> NoKey]

\* A key that was not given is nil, and no address contains a signature.
ASSUME GeneratorAssumption ==
    \A g \in Generator :
       /\ g = [addr |-> g.addr, x |-> g.x, ed |-> g.ed]
       /\ g.addr \in Seq(Range(g.addr)) /\ \A c \in Range(g.addr) : c[1] # "signature"
       /\ {g.x, g.ed} \subseteq KeyBytes \cup {NoKey}

\* Whatever happens to a key on its way, no signature is made but the generator's.
ASSUME DamageAssumption ==
    \A g \in Generator, c \in Caller :
       GenerateKey(g) # <<>> =>
          \A k \in Damage(c, GenerateKey(g)) :
             /\ k \in Seq(Range(k))
             /\ \A ch \in Range(k) : ch[1] = "signature" => ch \in Range(GenerateKey(g))

ASSUME VersionAssumption ==
    v1keytype \in Version /\ NoVersion \notin Version /\ gota1 \in Prefix

Init ==
    /\ generator = NoGenerator
    /\ ecdhParserList = [v \in Version |-> "none"]
    /\ prefixToVersion = [p \in Prefix |-> IF p = gota1 THEN v1keytype ELSE NoVersion]
    /\ serving = FALSE
    /\ preset = FALSE
    /\ pc = [c \in Caller |-> "idle"]
    /\ received = [c \in Caller |-> <<>>]
    /\ parser = [c \in Caller |-> "none"]
    /\ result = [c \in Caller |-> Invalid]
    /\ race = FALSE

-----------------------------------------------------------------------------
(* Set-up. *)

RegisterGenerator(g) ==
    /\ ~serving
    /\ generator' = g
    /\ UNCHANGED <<ecdhParserList, prefixToVersion, serving, preset, calls, race>>

RegisterParser(v, p, kind) ==
    /\ ~serving
    /\ ecdhParserList' = [ecdhParserList EXCEPT ![v] = kind]
    /\ prefixToVersion' = [prefixToVersion EXCEPT ![p] = v]
    /\ UNCHANGED <<generator, serving, preset, calls, race>>

Serve ==
    /\ ~serving
    /\ serving' = TRUE
    /\ preset' = (ecdhParserList[v1keytype] # "none")
    /\ UNCHANGED <<generator, ecdhParserList, prefixToVersion, calls, race>>

-----------------------------------------------------------------------------
(* Calls. *)

\* GenerateKey(v1keytype) succeeds and its key, or what became of it, reaches c.
Receive(c) ==
    /\ serving
    /\ pc[c] = "idle"
    /\ GenerateKey(generator) # <<>>
    /\ \E k \in Damage(c, GenerateKey(generator)) : received' = [received EXCEPT ![c] = k]
    /\ pc' = [pc EXCEPT ![c] = "parse"]
    /\ UNCHANGED <<setup, parser, result, race>>

\* strings.Cut and the look-up of the version, up to the read of the parser map.
PrefixOf(k) ==
    LET i == SelectInSeq(k, LAMBDA c : c = Dash) IN
    IF i = 2 THEN k[1] ELSE <<>>

VersionOf(k) ==
    IF PrefixOf(k) \in Prefix THEN prefixToVersion[PrefixOf(k)] ELSE NoVersion

Return(c, r) ==
    /\ pc' = [pc EXCEPT ![c] = "done"]
    /\ result' = [result EXCEPT ![c] = r]

ParseUnsupported(c) ==
    /\ pc[c] = "parse"
    /\ VersionOf(received[c]) = NoVersion
    /\ Return(c, Invalid)
    /\ UNCHANGED <<setup, received, parser, race>>

ReadBegin(c) ==
    /\ pc[c] = "parse"
    /\ VersionOf(received[c]) # NoVersion
    /\ pc' = [pc EXCEPT ![c] = "reading"]
    /\ race' = (race \/ \E d \in Caller : pc[d] = "writing")
    /\ UNCHANGED <<setup, received, parser, result>>

\* The parser that is found, or a new one for v1.
ReadEnd(c, write) ==
    LET v == VersionOf(received[c])
        found == ecdhParserList[v]
    IN /\ pc[c] = "reading"
       /\ IF found = "none" /\ v # v1keytype
          THEN Return(c, Invalid) /\ UNCHANGED parser
          ELSE /\ parser' = [parser EXCEPT ![c] = IF found = "none" THEN "v1" ELSE found]
               /\ pc' = [pc EXCEPT ![c] = IF write THEN "write" ELSE "run"]
               /\ UNCHANGED result
       /\ UNCHANGED <<setup, received, race>>

\* Mutant: the parser is stored whether it was there or not.
LookupStore(c) == ReadEnd(c, TRUE)

Lookup(c) == ReadEnd(c, ecdhParserList[VersionOf(received[c])] = "none")

WriteBegin(c) ==
    /\ pc[c] = "write"
    /\ pc' = [pc EXCEPT ![c] = "writing"]
    /\ race' = (race \/ \E d \in Caller : pc[d] \in {"reading", "writing"})
    /\ UNCHANGED <<setup, received, parser, result>>

WriteEnd(c) ==
    /\ pc[c] = "writing"
    /\ ecdhParserList' = [ecdhParserList EXCEPT ![VersionOf(received[c])] = parser[c]]
    /\ pc' = [pc EXCEPT ![c] = "run"]
    /\ UNCHANGED <<generator, prefixToVersion, serving, preset, received, parser, result, race>>

\* Another version's parser may make anything of the key; its result is not used.
Run(c) ==
    /\ pc[c] = "run"
    /\ Return(c, IF parser[c] = "v1" THEN ParseKey(received[c]) ELSE Invalid)
    /\ UNCHANGED <<setup, received, parser, race>>

Next ==
    /\ ~race
    /\ \/ \E g \in Generator : RegisterGenerator(g)
       \/ \E v \in Version, p \in Prefix, kind \in {"v1", "other"} : RegisterParser(v, p, kind)
       \/ Serve
       \/ \E c \in Caller :
             \/ Receive(c) \/ ParseUnsupported(c) \/ ReadBegin(c) \/ Lookup(c)
             \/ WriteBegin(c) \/ WriteEnd(c) \/ Run(c)

Spec == Init /\ [][Next]_vars

-----------------------------------------------------------------------------
(* Properties. *)

\* gota1 keys reach a version 1 parser, registered or made by ParseKey itself.
Wired ==
    \/ ecdhParserList[prefixToVersion[gota1]] = "v1"
    \/ ecdhParserList[prefixToVersion[gota1]] = "none" /\ prefixToVersion[gota1] = v1keytype

\* A key that arrives as it was generated gives the address and the identity it
\* was made of, whatever characters the address has, the separators of the
\* format included, and whether the parser was registered or is made on first
\* use, by however many goroutines at once.
RoundTrip ==
    \A c \in Caller :
       pc[c] = "done" /\ Wired /\ received[c] = GenerateKey(generator)
          => result[c] = [valid |-> TRUE, addr |-> generator.addr, x |-> generator.x]

\* A key that was damaged on its way is refused, or gives what it was made of
\* (when only spare bits of its encoding changed): never another address or
\* another identity.
DamageDetected ==
    \A c \in Caller :
       result[c].valid => result[c].addr = generator.addr /\ result[c].x = generator.x

\* If version 1 has a parser when requests are first served, ParseKey never
\* writes the map, and goroutines may parse at the same time.
NoMapRace == preset => ~race
=============================================================================
