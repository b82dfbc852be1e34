# TLA+ verification of DaemonProc

DaemonProc is a local daemon. Applications connect to it over a Unix socket or a
named pipe, and it talks to peers over UDP. This directory holds TLA+ models of
its concurrent parts, the TLC runs that check them on small instances, and
TLAPS proofs of their main safety properties for all values of the constants.

## The system

| Part | Source | Model | Status |
|---|---|---|---|
| IPC session manager: a table of connections by dispatch ID (DID), two loops each | `ipc/session_manager.go` | `SessionManager`, abstract: `SessionLife` | modelled, proved |
| Control center: system calls from applications | `controlcenter/` | `ControlCenter`, composed with `SessionManager` | modelled, proved |
| UDP port listener: one socket, a read loop, subscribers | `network/udp_listener.go` | `UdpListener`, abstract: `PacketBus` | modelled, proved |
| IPC listener: Unix socket and named pipe | `ipc/listener_*.go` | `IpcListener` | modelled, proved |
| STUN discoverer: finds the public address | `stun/stun_discoverer.go` | `Discoverer`, `StunParser` | modelled, proved |
| Invite keys | `invitekey/` | `InviteKeyV1`, `KeyManager` | modelled, proved |
| Node identity | `identify/identifier.go` | in `Discoverer` | `SetPublicAddr` only |
| Interfaces | `interfaces/` | `SessionLife`, `PacketBus` | the two with promises that can be compared with code |
| Handshake, NAT punching | `handshake/`, `natpunch/` | | package comments only |

How they interact: a connection from `IIpcListener.Accept` is given to
`RegisterSession`. The read loop passes each frame to the control callback,
which asks the dispatcher and answers through `SendToLocal`; that wiring exists
only in `controlcenter/integration_test.go`, and there is no main program yet.
The handlers of the dispatcher generate invite keys through the key manager and
hand data to an `IEgress`, which has no implementation yet. The discoverer
subscribes to the UDP listener, sends a query through it, and stores the answer
in the identity.

## The modules

A step of a model is a stretch of code that no other goroutine can observe
half done: a critical section of a mutex, a channel operation, one read or
write. Locals that live across such stretches are variables. Calls that the
code refuses without changing anything (a nil connection, a second Start) are
stutters and left out, unless a caller waits for their result.

**sync.WaitGroup.** `Wait` is released when the counter reaches zero and panics
if the counter is non-zero again when it wakes. The labels are `waiting`,
`woken` (released, and somebody has added since), `returned` and `panicked`.
A panic ends the process, so `Next` and every fairness condition require `Alive`.

**SessionManager.** `sessions`, `nextDID`, `onClose`, `onControl` are the fields;
`conn`, `out`, `outClosed`, `isClosed`, `closeOnce` the state of a session. Each
session has four goroutines that may unregister it (`Kind`): the two loops, the
slow-client goroutine and one call of the application (for the sessions in
`Dropped`). `pc[s][k]` says where each is, `target` which session its
`UnregisterSession` took out. `SendToLocal` is split where it releases the table
lock. A packet is empty, normal or oversize; writes may fail or tear. `wire`,
`accepted`, `notified`, `watched`, `swept` are history for the properties.

**UdpListener.** A `Run` is one successful `StartListener` with its socket,
context and loop. `StartListener` is two steps, because it unlocks before
`wg.Add(1)`. Each callback is a goroutine of its own (`tasks`).

**PacketBus** is what the subscription methods of `IUdpPortListener` promise: a
datagram is offered once, to exactly those subscribed at that moment, and each
offer ends in one delivery or is dropped. `UdpListener` implements it
(`ImplementsBus`): the datagrams not yet dispatched are `Fresh`, the callback
goroutines are the `Offers`, and starts, stops, sends and reads are stutters.

**SessionLife** is what `IIpcSessionManager` promises about one connection, without
goroutines and locks: registered, in the table, leaving, gone, or swept by
Close; told at most once, at the end; given packets only before that.
`SessionManager` implements it (`ImplementsLife`) through `StageOf`.

**ControlCenter** extends `SessionManager` and puts the body of the control callback
in the place of its `CallbackReturn`: `ReadRequest` starts it, `DispatchLookup` is
the critical section of `DispatchSysCall`, `DispatchSysCall` the handler and the
response, `Reply` the two halves of `SendToLocal` with the DID the callback was
called with, and `ReturnToLoop` the return to the read loop. A request is its
opcode, its length and its first two uint16 values; a handler is the set of
statuses it may return. `asked` and `owner` are history. The read loop's
callback and the handlers are set before clients are accepted (`Wired`), as in
the integration test.

**IpcListener.** A `Run` is one successful `Start`; `address` is what a client
that connects now would reach, `Stale` the file a crash leaves. `platform` is
chosen once, from `Platform`, and selects the Unix or the Windows Start and
Stop. The two Accept functions have the same control, and one action models
both.

**Discoverer.** Queries are numbered in the order they are made; the number
stands for the random transaction ID, so IDs are assumed not to collide. Servers
may answer any query they were sent, any number of times, at any later time;
`parseSTUNResponse` yields an address or fails (`Bad`). `overlapped` records that
some Start was called before an earlier Stop had returned.

**StunParser.** `parseSTUNResponse` step by step: the check of the header, then one
attribute per step. A datagram is its size, its header fields and its 32-bit
words as pairs of uint16; `SliceEnd` adds as uint16, as the slice expression in
the code does, and `Truncated` as int. Indexing past a slice is a panic. `Xor`
is the exclusive or of the source, written out bit by bit, so that the prover
can reason about it; `MCStunParser` has TLC compare it with the one of the
library. A datagram also keeps what its sender put into it (`sent`), which no
action reads.

**InviteKeyV1** has `GenerateKey` and `ParseKey` as functions on sequences of
characters. The size of the Base64 alphabet, which contains the separator `-`,
the lengths of encoded keys and signatures and the spare bits of their last
characters are parameters (64, 43, 86, 4 and 16 in the code); decoding skips
line breaks and ignores the spare bits. A signature is ideal: it is the tuple
of key and payload, and nothing that happens to a key makes another one
(`DamageAssumption`). **KeyManager** has the registration calls, then
goroutines whose `ParseKey` is split at the accesses of the parser map, which
has no lock; an overlapping write is a `race`.

## The runs

Deadlock is not checked: all these systems may legitimately stop (nothing left
to register, everything closed, parsed, a panic).

| Run | Instance | Checks |
|---|---|---|
| `SM_session` | 1 session, 2 packets (one oversize), queue of 1, callbacks set and unset, Close | `TypeOK`, `NoPanic`, `TableIsLive`, `StreamFramed`, `OnCloseExactlyOnce`, `NotifiedIsGone` |
| `SM_two` | 2 sessions, Close, callbacks set | `OwnTeardown`, `UniqueNonZeroDID`, `LifeInv` |
| `CC_live` | fairness; 1 session, 2 of 3 kinds of requests, queue of 1, Close | `AnswersInOrder`, `ImplementsLife`, `NoLeak`, `CloseEnds`, `AnswerOrEnd` |
| `UDP_deliver` | 2 runs, 1 stopper, 1 sender, 3 subscribers, 1 datagram | `TypeOK`, `SubscribersKept`, `ImplementsBus` |
| `UDP_restart` | fairness; 2 runs, 2 stoppers, 1 subscriber, 2 datagrams | `OneSocket`, `ListenerServes`, `StopQuiesces`, `StoppedLoopEnds`, `CallbacksEnd` |
| `IPC_run` | fairness; either platform, 2 instances, 3 runs, 2 accepters, crashes | `TypeOK`, `OneListener`, `Reachable`, `CancelUnblocksAccept` |
| `DS_run` | fairness; 2 runs, 1 stopper, 2 servers, 2 queries, 2 addresses | `TypeOK`, `AddressIsAnswer`, `NoLeakedSubscription`, `StopQuiesces`, `NeverStale`, `StopReturns` |
| `STUN_parse` | fairness; 511 datagrams, whole and damaged | `TypeOK`, `Inside`, `NoPanic`, `ParsedIsSent`, `Terminates` |
| `KEY` | 2 callers, 2 versions, 5 addresses, 3 public keys, one damaged character | `RoundTrip`, `DamageDetected`, `NoMapRace` |

What some of the properties say:

- `AnswersInOrder`: a client can pair responses with requests by their order; a
  response that is lost (closed queue, missing entry) is the last one.
- `AnswerOrEnd`: every request read is answered on the connection, whatever its
  opcode and payload, or its session ends.
- `StreamFramed`: cut into frames the way a client does it, the stream on a
  connection is the packets accepted for it, the k-th frame the k-th packet; only
  the end can be missing, and only the last write can be torn.
- `ParsedIsSent`: of a response laid out as RFC 5389 says (`LaidOut`; its
  header and its size may be damaged), the parser returns the address of the
  first attribute that carries one. If it refuses one that is intact, none does.
- `NoMapRace` holds if a version 1 parser is registered before requests are
  served. Without one, the first two calls of `ParseKey` race on the map; no
  comment says whether `ParseKey` may be called concurrently, so this is a
  condition of use and not a finding.
- `Reachable` holds of a Unix listener as long as no other process used its path:
  each Start and Stop removes the other's socket file. Of named pipes it always
  holds.
- `NeverStale` holds unless a Start overlapped a waiting Stop, and `StopReturns` lets
  a Stop go on waiting only after such an overlap, for the new worker.

Why the bounds suffice: a queue of one is full after one packet, so two packets
give an accepted and a blocked one, and a sender that is late; two sessions are
enough for one to be mistaken for another; two runs are enough for a restart
that meets the loop or the stopper of the run before; two requests are enough
for an answer to overtake or replace another. The three kinds of requests in
`CC_live` reach both handlers and an unknown opcode, with and without a payload
in the answer; a call that succeeds differs only in its status, and the proof
covers them all. The damaged datagrams of `STUN_parse` include lengths of 65516
and 65535, where the uint16 sum wraps. Two stoppers of the discoverer hold too,
but take TLC over five minutes. `DIDModulus` and `IDModulus` stand for 2^32 and
exceed the number of sessions or subscribers: after 2^32 registrations the
counter would yield 0 and DIDs still in use, and `UniqueNonZeroDID` and
`OwnTeardown` would fail. The proofs cover the other sizes for the properties
they state. In `KEY` an encoded key has 2 characters and a signature 3; the code
uses the lengths only as offsets, and the addresses contain both separators at
their ends and inside.

Three further runs show a comment of the source that the code does not keep:

| Run | Comment | What happens |
|---|---|---|
| `SM_onclose` | "SetOnClose sets a callback to be run when a session is closed." | sessions closed by `Close` never run it |
| `IPC_watcher` | "Handle context cancellation to stop the listener." | the watcher of an earlier Start stops a later run |
| `DS_block` | "It blocks until the background worker has terminated." | a second concurrent Stop returns at once |

Two more behaviours of `Close` are in the model and worth knowing. A
registration at the moment Close is released from its wait makes the WaitGroup
panic. And Close may return before a connection that another
`UnregisterSession` call has taken out of the table is closed; `NoLeak` says that
it is closed in the end.

## Fairness

Weak fairness of each goroutine that can run, which the Go scheduler gives.
Nothing outside the process is forced: a client need not send, a datagram need
not arrive, a server need not answer. A blocked read ends only because its
connection or socket is closed (or the client has gone); a wait for an answer
ends by the timeout or the context. A write ends by its two-second deadline.
onClose is assumed to return. Control callbacks are assumed to return in
`SessionManager`; in `ControlCenter` only the handlers are, and the fairness is that
of each goroutine: the read loop with the callback that runs on it, the write
loop, the slow-client goroutine, Close. The parser is run to its end by its
caller.

## The proofs

| Module | Theorems |
|---|---|
| `SessionManagerProofs` | `Typing`, `ChannelSafety`, `StreamIsFramed` |
| `SessionLifecycleProofs` | `Lifecycle`, `OnCloseOnce`, `TeardownOwn`, `TableLive`, `NotifiedGone`, `DIDsUnique`, `LifeImplemented`, `ReadersWoken`, `ConnsClosed` |
| `ControlCenterProofs` | `ResponsesInOrder`, `Implements`, `ClientReadsAnswers` |
| `UdpListenerProofs` | `Typing`, `Restarts`, `SocketOwned`, `Served`, `Quiesced`, `StoppedLoopsWindUp`, `SubscribersStay`, `DeliveredAtMostOnce`, `BusImplemented`, `LeftAlone` |
| `IpcListenerProofs` | `Typing`, `ListenerOwned`, `ListenerReached`, `CancelReaches` |
| `DiscovererProofs` | `Typing`, `Queries`, `Answered`, `SubscriptionsReleased`, `Quiesced`, `PublishedInOrder`, `StopWaits` |
| `StunParserProofs` | `ParserTypes`, `ParserNeverPanics`, `ParserStaysInside`, `ParserAdvances`, `AddressIsTheServers` |
| `KeyManagerProofs` | `ReadAsMade`, `NeverReadAsAnother`, `CallsKnow`, `RoundTrips`, `DamageIsDetected`, `NoRace` |

Every safety property that a run checks of the code as it is has a theorem. They
rest on each module's assumptions about its constants; the theorems of
`SessionLifecycleProofs` and `ControlCenterProofs`, and the last four of
`UdpListenerProofs`, also on `NoWrap` (fewer sessions than DIDs, fewer
subscribers than subscription IDs, so that the counter does not wrap).

- *Channel safety*: a channel is closed exactly when `isClosed` is set, both
  under the same mutex, and each use re-reads `isClosed` there.
- *The stream*: `StreamInv` splits what was accepted for a session into the
  packets whose frames are on the connection, the one in the hands of the write
  loop and the ones in the queue; `Progress` says which of the two writes of a
  frame comes next, and that a loop on its way out writes nothing more. The
  number of frames begun, which `StreamFramed` counts, then grows with the stream
  by one per header. It needs neither the table nor the DIDs.
- *Lifecycle*: "exactly once" is not inductive. `LifeInv` says that a session is
  `Fresh`, `Listed`, `Leaving` with one goroutine `k`, `Swept` or `Gone`, that
  DIDs below the counter belong to one session each, and what its loops may rely
  on. The other theorems of the module follow from it stage by stage.
- *Life implemented*: the stages of `LifeInv` are those of `StageOf`; each action is
  shown to be one abstract step of its session, or a stutter. That no packet is
  accepted for a session that is gone needs `isClosed` from `Gone`.
- *Responses in order*: `CCInv` says that at most one response of a session is
  under way, that it answers the last request, and that a session which still
  accepts packets has accepted an answer to everything handled. So the first
  answer that is lost is lost to a session that accepts nothing any more. The
  composition also implements `SessionManager`, so what is proved there holds of
  it; `CCInv` is inductive only together with `LifeInv`. With `StreamIsFramed`
  this gives `FramesAnswer`: the k-th frame a client finds on its connection
  answers the k-th request the daemon read from it.
- *UDP restarts*: `RunInv` conjoins the three properties with what a stopper
  knows of the run it stopped: its context is done and its loop was at least
  about to be spawned, also between the unlock and the `wg.Add` of StartListener.
- *UDP delivery*: `SubInv` says that the table holds exactly the subscribers that
  have not left, each under an ID given out once. `OnceInv` says that a datagram is
  unread, held by one loop, or has been dispatched, and that a callback still to
  run has not delivered. Both give the refinement: the tasks spawned by a
  dispatch are the members of that moment. `DeliveredOnce` and
  `NoCallbackAfterUnsubscribe` are what a single subscriber sees of it, and are
  proved but have no run of their own beside `ImplementsBus`.
- *IPC listener*: `AddressInv` adds that the run in the field belongs to its
  instance and is open; with it Stop closes what the field records.
- *Discoverer*: `QueryInv` says that the packet in a worker's channel, and the
  address it is about to publish, came from the network in answer to its own
  query. For `PublishedInOrder`, `SerialInv` adds that, as long as nothing
  overlapped, at most one worker runs and that its query is the latest.
- *Parser*: `ParseInv` keeps the result of the length check. Since the size is at
  most 65535 and at least 20 + length, the uint16 sum at
  `stun_discoverer.go:227` does not wrap, and every value that is read ends
  inside the words that were received.
- *The address*: `SentInv` follows `idx` through the attributes the server sent:
  it is at the start of one of them, or behind the last, and none before it
  carries an address. That the mask comes off rests on `XorBack`, which goes up
  from bits to pairs, digits and 16 bits (`OneMoreDigit`), and on the layout of a
  value for each family.
- *Invite keys*: the key and the signature have fixed lengths and the encodings
  contain no bar, so the searches from the end find the separators the
  generator wrote, whatever the address contains (`ReadAsMade`). A string that is
  accepted carries a signature of its own payload, and the only one there is
  is that of the generator's payload, so both agree (`NeverReadAsAnother`).
  `KeyInv` says what a call of `ParseKey` holds at each of its steps, and that a
  parser map with a version 1 parser in it is never written.

Only model-checked: the liveness properties, since fairness and ENABLED are
outside the prover's reach. The safety half of most of them is proved, that is,
what the argument for progress needs of the states; the rest is that a goroutine
that can run does run:

| Property | Proved | Left to TLC |
|---|---|---|
| `Terminates` | `ParserAdvances`: each step leaves less of the message | a number cannot fall for ever, which is an induction |
| `CloseEnds` | `ReadersWoken`: after the sweep no reader is blocked on a connection that nobody will close | loops whose reads and writes end do end |
| `NoLeak` | `ConnsClosed`: loops that ended left a closed connection and no entry | the loops end |
| `StoppedLoopEnds` | `StoppedLoopsWindUp`: a stopped loop has at most three steps left | it takes them |
| `CancelUnblocksAccept` | `CancelReaches`: an open listener has its watcher | the watcher runs |
| `StopReturns` | `StopWaits`: Stop waits only for the worker it cancelled | the worker leaves its select (strong fairness) |
| `AnswerOrEnd` | `ClientReadsAnswers`: what is answered is answered right | that it is answered |
| `CallbacksEnd` | | that the two steps of a callback happen |

`CloseInv`, `WatchInv` and `StoppedInv` are the invariants behind these: the context
is done before Close sweeps the table, so a reader that is blocked afterwards
was registered before and is in one of the stages of `LifeInv`; a run of the IPC
listener and its watcher start together and the watcher ends only with its run;
the socket of a run is closed by the call that cancels its context.

## Not modelled

- `handshake/` and `natpunch/` are package comments, and the interfaces
  `IHandshaker`, `INatPuncher`, `IIngress` and `IEgress` have no
  implementation; `IEgress` appears as a call that may fail.
- The constructor and the getters of the identity: keys are drawn from
  `crypto/rand`, and the getters return copies of what was made.
- `IpcResponse.Encode`, which only tests call.
- `time.NewTicker` with an interval that is not positive (`stun_discoverer.go:99`):
  a tick may come at any time.
- Cryptography, logging, wording of errors and timer values.
