--------------------------- MODULE ControlCenter ---------------------------
(***************************************************************************)
(* The control center (controlcenter/) on top of the session manager, as   *)
(* controlcenter/integration_test.go wires them: the control callback runs *)
(* on the session's read loop, has the dispatcher execute the system call  *)
(* and hands its response to SendToLocal.                                  *)
(*                                                                         *)
(* A request is its opcode, the length of its payload and the payload's    *)
(* first two uint16 values; a packet of SessionManager is a response, of   *)
(* which Empty tells whether it has a payload.                             *)
(***************************************************************************)
EXTENDS SessionManager

CONSTANTS
    Request,      \* the requests clients send: [op, len, first, second]
    Versions,     \* the key versions with a registered generator
    HasEgress,    \* RegisterDefaultHandlers is given an IEgress
    HasKeys,      \* RegisterDefaultHandlers is given a KeyManager
    MaxRequests   \* bound: requests read from one session

ASSUME RequestAssumption ==
    /\ HasEgress \in BOOLEAN
    /\ HasKeys \in BOOLEAN
    /\ MaxRequests \in Nat

Asked == [request : Request, known : BOOLEAN]

VARIABLES
    syscalls,  \* d.syscalls: the handler of an opcode
    setup,     \* progress of RegisterDefaultHandlers
    phase,     \* where the control callback of a session is
    handler,   \* the descriptor DispatchSysCall found
    reply,     \* the IpcResponse a packet carries
    \* History variables, read only to bound the model and to pair responses.
    owner,     \* the session whose request a packet answers
    asked      \* the requests given to the callback, in order

center == <<syscalls, setup>>
callback == <<phase, handler, reply, owner, asked>>
ccVars == <<vars, center, callback>>

OpcodeEgressRoute == 1
OpcodeGetInviteKey == 513
Opcode == {OpcodeEgressRoute, OpcodeGetInviteKey} \cup {q.op : q \in Request}

Success == 0
ErrInvalidArgs == 4097
ErrUnknownOpcode == 4099
ErrInvalidKey == 8193
ErrInternalDaemon == 20480
Status == {Success, ErrInvalidArgs, ErrUnknownOpcode, ErrInvalidKey, ErrInternalDaemon}

CCInit ==
    /\ Init
    /\ syscalls = [op \in Opcode |-> "none"]
    /\ setup = "egress"
    /\ phase = [s \in Session |-> "idle"]
    /\ handler = [s \in Session |-> "none"]
    /\ reply = [p \in Packet |-> [did |-> 0, op |-> 0, status |-> Success]]
    /\ owner = [p \in Packet |-> NoSession]
    /\ asked = [s \in Session |-> <<>>]

-----------------------------------------------------------------------------
(* Registration of the system calls. *)

\* An opcode that is taken keeps its handler: ErrAlreadyRegistered.
RegisterSysCall(op, h) ==
    syscalls' = IF syscalls[op] = "none" THEN [syscalls EXCEPT ![op] = h] ELSE syscalls

RegisterEgress ==
    /\ setup = "egress"
    /\ setup' = "keys"
    /\ IF HasEgress THEN RegisterSysCall(OpcodeEgressRoute, "egress") ELSE UNCHANGED syscalls
    /\ UNCHANGED <<vars, callback>>

RegisterKeys ==
    /\ setup = "keys"
    /\ setup' = "done"
    /\ IF HasKeys THEN RegisterSysCall(OpcodeGetInviteKey, "invite") ELSE UNCHANGED syscalls
    /\ UNCHANGED <<vars, callback>>

RegisterDefaultHandlers == RegisterEgress \/ RegisterKeys

-----------------------------------------------------------------------------
(* The handlers: the status they may return, and whether the payload is empty. *)

ReadBytesParam(q) ==
    IF q.len < 2 \/ q.len < 2 + q.first THEN ErrInvalidArgs ELSE Success

\* RouteToNetwork returns nil or an error, whose text is the payload.
EgressRoute(q) ==
    IF ReadBytesParam(q) # Success
    THEN {[status |-> ReadBytesParam(q), empty |-> TRUE]}
    ELSE {[status |-> Success, empty |-> TRUE], [status |-> ErrInternalDaemon, empty |-> FALSE]}

Version(q) == IF q.len >= 4 THEN q.first * 65536 + q.second ELSE 0

\* A registered generator may fail too.
GetInviteKey(q) ==
    {[status |-> ErrInvalidKey, empty |-> FALSE]}
       \cup {[status |-> Success, empty |-> FALSE] : v \in Versions \cap {Version(q)}}

Outcomes(h, q) ==
    IF h = "egress" THEN EgressRoute(q)
    ELSE IF h = "invite" THEN GetInviteKey(q)
    ELSE {[status |-> ErrUnknownOpcode, empty |-> TRUE]}

-----------------------------------------------------------------------------
(* The control callback. *)

Current(s) == asked[s][Len(asked[s])]

\* The read loop has a frame; without a callback it is dropped.
ReadRequest(s) ==
    /\ ReadPacket(s)
    /\ IF onControl
       THEN \E q \in Request :
               /\ Len(asked[s]) < MaxRequests
               /\ asked' = [asked EXCEPT ![s] =
                     Append(@, [request |-> q, known |-> syscalls[q.op] # "none"])]
               /\ phase' = [phase EXCEPT ![s] = "lookup"]
       ELSE UNCHANGED <<asked, phase>>
    /\ UNCHANGED <<center, handler, reply, owner>>

\* DispatchSysCall up to the end of its critical section.
DispatchLookup(s) ==
    /\ phase[s] = "lookup"
    /\ handler' = [handler EXCEPT ![s] = syscalls[Current(s).request.op]]
    /\ phase' = [phase EXCEPT ![s] = "handle"]
    /\ UNCHANGED <<vars, center, reply, owner, asked>>

\* A packet that answers nothing yet, with or without a payload.
Free(empty) == {p \in Packet \ Oversize : owner[p] = NoSession /\ (p \in Empty <=> empty)}

\* The rest of DispatchSysCall: the response that goes to SendToLocal.
Respond(s, h) ==
    /\ phase[s] = "handle"
    /\ \E o \in Outcomes(h, Current(s).request) :
          /\ Free(o.empty) # {}
          /\ LET p == CHOOSE x \in Free(o.empty) : TRUE IN
             /\ owner' = [owner EXCEPT ![p] = s]
             /\ reply' = [reply EXCEPT ![p] =
                   [did |-> did[s], op |-> Current(s).request.op, status |-> o.status]]
    /\ phase' = [phase EXCEPT ![s] = "reply"]
    /\ UNCHANGED <<vars, center, handler, asked>>

\* Mutant: an unknown opcode is not answered.
DispatchSilent(s) ==
    IF handler[s] = "none"
    THEN /\ phase[s] = "handle"
         /\ phase' = [phase EXCEPT ![s] = "reply"]
         /\ UNCHANGED <<vars, center, handler, reply, owner, asked>>
    ELSE Respond(s, handler[s])

DispatchSysCall(s) == Respond(s, handler[s])

\* SendToLocal of a response, to the DID the callback was called with.
Reply(p) ==
    /\ owner[p] # NoSession
    /\ \/ SendNotFound(p, reply[p].did) \/ SendFound(p, reply[p].did)
       \/ SendToClosed(p) \/ SendAccept(p) \/ SendBlocked(p)
    /\ UNCHANGED <<center, callback>>

Return(s) ==
    /\ phase[s] = "reply"
    /\ CallbackReturn(s)
    /\ phase' = [phase EXCEPT ![s] = "idle"]
    /\ handler' = [handler EXCEPT ![s] = "none"]
    /\ UNCHANGED <<center, reply, owner, asked>>

\* Mutant: the response is sent by a goroutine of its own.
ReturnEarly(s) == Return(s)

\* The callback returns to the read loop once its SendToLocal has.
ReturnToLoop(s) ==
    /\ \A p \in Packet : owner[p] = s => send[p] \notin {"idle", "found"}
    /\ Return(s)

-----------------------------------------------------------------------------
\* The daemon accepts clients when the callback and the handlers are in place.
Wired == setup = "done" /\ onControl

\* What the session manager does on its own.
Others ==
    /\ \/ \E cb \in Callback : SetControlCallback(cb)
       \/ ParentCancel
       \/ \E s \in Session : Wired /\ RegisterSession(s)
       \/ \E s \in Session : PeerClose(s)
       \/ \E s \in Session : ReadCheck(s) \/ ReadError(s) \/ WriteLoop(s)
       \/ \E s \in Session, k \in Kind : Unregister(s, k)
       \/ Close
    /\ UNCHANGED <<center, callback>>

CCNext ==
    /\ Alive
    /\ \/ Others
       \/ RegisterDefaultHandlers
       \/ \E s \in Session : ReadRequest(s) \/ DispatchLookup(s) \/ DispatchSysCall(s) \/ ReturnToLoop(s)
       \/ \E p \in Packet : Reply(p)

CCSpec == CCInit /\ [][CCNext]_ccVars

\* What the goroutine of a read loop does without waiting for its client.
Serve(s) ==
    \/ (ReadCheck(s) \/ ReadError(s) \/ Unregister(s, "read")) /\ UNCHANGED <<center, callback>>
    \/ DispatchLookup(s) \/ DispatchSysCall(s) \/ ReturnToLoop(s)
    \/ \E p \in Packet : owner[p] = s /\ Reply(p)

\* The fairness of SessionManager, by goroutine; the handlers return, and so does
\* SendToLocal, which never waits.
CCFairness ==
    /\ \A s \in Session :
          /\ WF_ccVars(Alive /\ Serve(s))
          /\ WF_ccVars(Alive /\ (WriteLoop(s) \/ Unregister(s, "write")) /\ UNCHANGED <<center, callback>>)
          /\ \A k \in Kind \ {"read", "write"} :
                WF_ccVars(Alive /\ Unregister(s, k) /\ UNCHANGED <<center, callback>>)
    /\ WF_ccVars(Alive /\ closePc # "idle" /\ Close /\ UNCHANGED <<center, callback>>)

CCFairSpec == CCSpec /\ CCFairness

-----------------------------------------------------------------------------
(* Properties. *)

\* Packet p can be the response to session s's request a.
Answers(p, s, a) ==
    /\ owner[p] = s
    /\ reply[p].op = a.request.op
    /\ reply[p].status = ErrUnknownOpcode => ~a.known

\* What session s was sent so far answers its first requests.
InOrder(s) ==
    /\ Len(accepted[s]) <= Len(asked[s])
    /\ \A i \in 1 .. Len(accepted[s]) : Answers(accepted[s][i], s, asked[s][i])

\* A client can match responses to requests by their order: the responses queued
\* for a session are those to its first requests, none left out and none of
\* another session's, each with the opcode of its request; one that names an
\* unknown opcode answers a request whose opcode had no handler when it came.
\* A response that is lost to a closed queue or a missing entry must therefore
\* be the last one.
AnswersInOrder == \A s \in Session : InOrder(s)

\* The whole frame of a session's i-th response is on the connection.
Answered(s, i) ==
    /\ i <= Len(accepted[s])
    /\ LET p == accepted[s][i] IN
       \E j \in DOMAIN wire[s] :
          wire[s][j] = <<p, IF p \in Empty THEN "header" ELSE "payload">>

\* Every request that is read is answered on the connection, whatever its opcode
\* and payload, unless the session comes to its end.
AnswerOrEnd ==
    \A s \in Session, i \in 1 .. MaxRequests :
       Len(asked[s]) >= i ~> Answered(s, i) \/ LoopsDone(s) \/ ~Alive
-----------------------------------------------------------------------------
(* The inductive strengthening of AnswersInOrder. *)

CallbackTypes ==
    /\ syscalls \in [Opcode -> {"none", "egress", "invite"}]
    /\ phase \in [Session -> {"idle", "lookup", "handle", "reply"}]
    /\ handler \in [Session -> {"none", "egress", "invite"}]
    /\ reply \in [Packet -> [did : DID, op : Opcode \cup {0}, status : Status]]
    /\ owner \in [Packet -> Session \cup {NoSession}]
    /\ asked \in [Session -> Seq(Asked)]
    /\ \A s \in Session : phase[s] # "idle" => pc[s]["read"] = "callback" /\ asked[s] # <<>>

\* The response p of session s is not queued or refused yet.
Pending(p, s) == owner[p] = s /\ send[p] \in {"idle", "found"}

\* The last request of s has no result yet.
Outstanding(s) == phase[s] \in {"lookup", "handle"} \/ \E p \in Packet : Pending(p, s)

Handled(s) == IF Outstanding(s) THEN Len(asked[s]) - 1 ELSE Len(asked[s])

\* SendToLocal would accept a packet for s.
Serving(s) == sessions[did[s]] = s /\ ~isClosed[s]

\* A response is addressed to the session whose callback made it.
Addressed(p) ==
    /\ owner[p] = NoSession => send[p] = "idle"
    /\ owner[p] # NoSession => Registered(owner[p]) /\ reply[p].did = did[owner[p]]
    /\ send[p] = "found" => sendTo[p] = owner[p]

\* The only response of s under way answers its last request.
Paired(p, s) ==
    /\ phase[s] = "reply"
    /\ \A q \in Packet : Pending(q, s) => q = p
    /\ Answers(p, s, Current(s))

ReplyInv ==
    /\ \A p \in Packet : Addressed(p)
    /\ \A p \in Packet, s \in Session : Pending(p, s) => Paired(p, s)

\* A session that still accepts packets has accepted a response to everything
\* that was handled; one that does not has missed only the end.
Counted(s) ==
    /\ ~Registered(s) => asked[s] = <<>>
    /\ Len(accepted[s]) <= Handled(s)
    /\ Serving(s) => Len(accepted[s]) = Handled(s)
    /\ \A p \in Packet : Pending(p, s) /\ send[p] = "found" /\ ~isClosed[s]
          => Len(accepted[s]) = Handled(s)

\* Handlers are registered once and for all.
Known(s) ==
    /\ \A i \in 1 .. Len(asked[s]) :
          asked[s][i].known => syscalls[asked[s][i].request.op] # "none"
    /\ phase[s] = "handle" /\ handler[s] = "none" => ~Current(s).known

CCInv ==
    /\ CallbackTypes
    /\ ReplyInv
    /\ \A s \in Session : Counted(s) /\ Known(s)
    /\ AnswersInOrder
=============================================================================
