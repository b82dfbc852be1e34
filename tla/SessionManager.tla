--------------------------- MODULE SessionManager ---------------------------
(***************************************************************************)
(* The IPC session manager (ipc/session_manager.go).                       *)
(*                                                                         *)
(* Every session owns two goroutines, readLoop and writeLoop.  Either of   *)
(* them, the goroutine SendToLocal spawns for a slow client, and the       *)
(* application may run UnregisterSession; Close sweeps the whole table.    *)
(* A step is what one goroutine does between two points where another one  *)
(* can see its effects: a critical section of sm.mu or of sess.writeMu is  *)
(* one step, and so is each call on the connection.                        *)
(***************************************************************************)
EXTENDS Integers, Sequences, FiniteSets

CONSTANTS
    Session,     \* the connections given to RegisterSession, one SessionState each
    Dropped,     \* the sessions the application may call UnregisterSession for
    Packet,      \* the calls of SendToLocal; each one sends its own packet
    Empty,       \* the packets without data: only a header is written
    Oversize,    \* the packets longer than maxPacketSize
    NoSession,   \* a DID with no entry in the table, a nil *SessionState
    NoPacket,    \* the write loop holds no packet
    DIDModulus,  \* number of values of the DID counter: 2^32
    QueueSize,   \* sessionQueueSize: capacity of a session's outbound channel
    Callback     \* what SetOnClose and SetControlCallback are given: TRUE is a
                 \* function, FALSE is nil

ASSUME ConstantsAssumption ==
    /\ Dropped \subseteq Session
    /\ NoSession \notin Session
    /\ NoPacket \notin Packet
    /\ Empty \subseteq Packet
    /\ Oversize \subseteq Packet
    /\ Empty \cap Oversize = {}
    /\ DIDModulus \in Nat \ {0}
    /\ QueueSize \in Nat \ {0}
    /\ Callback \subseteq BOOLEAN

DID == 0 .. (DIDModulus - 1)

\* The goroutines that may unregister a session: its two loops, the one
\* spawned by SendToLocal when the queue is full, and an application caller.
Kind == {"read", "write", "slow", "app"}

\* The steps of UnregisterSession after the entry left the table.
Teardown == {"queue", "conn", "notify"}

Label == {"unborn", "check", "reading", "callback", "select", "header",
          "payload", "lookup", "done"} \cup Teardown

VARIABLES
    sessions,   \* sm.sessions
    nextDID,    \* sm.nextDID
    did,        \* sess.DID
    cancelled,  \* sm.ctx is done
    onClose,    \* sm.onClose # nil
    onControl,  \* sm.onControl # nil
    conn,       \* the daemon's end of sess.Conn
    peer,       \* the client's end of the connection is open
    wire,       \* what the writes put on the connection
    out,        \* the buffer of sess.outbound
    outClosed,  \* sess.outbound has been closed
    isClosed,   \* sess.isClosed
    closeOnce,  \* sess.closeOnce has been used
    pc,         \* where the goroutines of a session are
    target,     \* the session an UnregisterSession call took out of the table
    captured,   \* the local onClose of the call that took the session out is not nil
    cur,        \* the packet the write loop has in hand
    send,       \* progress, then result, of each SendToLocal call
    sendTo,     \* the session a SendToLocal call found
    closePc,    \* progress of Close
    toClose,    \* activeSessions whose connection Close has yet to close
    panic,      \* a closed channel was closed again or sent on
    \* History variables, read by no action.
    accepted,   \* the packets SendToLocal put on the queue, in order
    notified,   \* number of onClose calls for the session
    watched,    \* onClose has been set ever since the session was registered
    swept       \* the sessions Close took out of the table

table   == <<sessions, nextDID, did>>
hooks   == <<onClose, onControl>>
link    == <<conn, peer, wire>>
queue   == <<out, outClosed, isClosed>>
calls   == <<send, sendTo>>
closing == <<closePc, toClose, swept>>
vars    == <<table, cancelled, hooks, link, queue, closeOnce, pc, target, captured,
             cur, calls, closing, panic, accepted, notified, watched>>

InTable(s) == \E d \in DID : sessions[d] = s
Registered(s) == conn[s] # "none"

\* sm.wg counts the two loops of every registered session.
LoopsDone(s) == \A k \in {"read", "write"} : pc[s][k] \in {"unborn", "done"}
WgZero == \A s \in Session : LoopsDone(s)

Goto(s, k, l) == pc' = [pc EXCEPT ![s][k] = l]

Init ==
    /\ sessions = [d \in DID |-> NoSession]
    /\ nextDID = 0
    /\ did = [s \in Session |-> 0]
    /\ cancelled = FALSE
    /\ onClose = FALSE
    /\ onControl = FALSE
    /\ conn = [s \in Session |-> "none"]
    /\ peer = [s \in Session |-> TRUE]
    /\ wire = [s \in Session |-> <<>>]
    /\ out = [s \in Session |-> <<>>]
    /\ outClosed = [s \in Session |-> FALSE]
    /\ isClosed = [s \in Session |-> FALSE]
    /\ closeOnce = [s \in Session |-> FALSE]
    /\ pc = [s \in Session |-> [k \in Kind |-> "unborn"]]
    /\ target = [s \in Session |-> [k \in Kind |-> NoSession]]
    /\ captured = [s \in Session |-> FALSE]
    /\ cur = [s \in Session |-> NoPacket]
    /\ send = [p \in Packet |-> "idle"]
    /\ sendTo = [p \in Packet |-> NoSession]
    /\ closePc = "idle"
    /\ toClose = {}
    /\ panic = FALSE
    /\ accepted = [s \in Session |-> <<>>]
    /\ notified = [s \in Session |-> 0]
    /\ watched = [s \in Session |-> FALSE]
    /\ swept = {}

-----------------------------------------------------------------------------
(* Set-up and registration. *)

SetOnClose(cb) ==
    /\ onClose' = cb
    /\ watched' = [s \in Session |-> cb /\ watched[s]]
    /\ UNCHANGED <<table, cancelled, onControl, link, queue, closeOnce, pc, target,
                   captured, cur, calls, closing, panic, accepted, notified>>

SetControlCallback(cb) ==
    /\ onControl' = cb
    /\ UNCHANGED <<table, cancelled, onClose, link, queue, closeOnce, pc, target,
                   captured, cur, calls, closing, panic, accepted, notified, watched>>

\* The parent of sm.ctx is cancelled.
ParentCancel ==
    /\ ~cancelled
    /\ cancelled' = TRUE
    /\ UNCHANGED <<table, hooks, link, queue, closeOnce, pc, target, captured, cur,
                   calls, closing, panic, accepted, notified, watched>>

\* The tail of RegisterSession once the DID is chosen; the mutex is still held.
\* A Close whose Wait was released by a zero counter, and has not returned yet,
\* will find the counter in use again.
Track(s, d) ==
    /\ conn[s] = "none"
    /\ did' = [did EXCEPT ![s] = d]
    /\ sessions' = [sessions EXCEPT ![d] = s]
    /\ conn' = [conn EXCEPT ![s] = "open"]
    /\ pc' = [pc EXCEPT ![s] = [@ EXCEPT !["read"] = "check", !["write"] = "select"]]
    /\ watched' = [watched EXCEPT ![s] = onClose]
    /\ closePc' = IF closePc = "waiting" /\ WgZero THEN "woken" ELSE closePc
    /\ UNCHANGED <<cancelled, hooks, peer, wire, queue, closeOnce, target, captured,
                   cur, calls, toClose, panic, accepted, notified, swept>>

\* Mutant: the DID is the number of live sessions plus one.
RegisterByCount(s) ==
    Track(s, 1 + Cardinality({x \in Session : InTable(x)})) /\ UNCHANGED nextDID

RegisterSession(s) ==
    LET d == (nextDID + 1) % DIDModulus IN Track(s, d) /\ nextDID' = d

\* The client closes its end; from here on the daemon reads end-of-file.
PeerClose(s) ==
    /\ Registered(s)
    /\ peer[s]
    /\ peer' = [peer EXCEPT ![s] = FALSE]
    /\ UNCHANGED <<table, cancelled, hooks, conn, wire, queue, closeOnce, pc, target,
                   captured, cur, calls, closing, panic, accepted, notified, watched>>

-----------------------------------------------------------------------------
(* UnregisterSession, run by goroutine k of session s with s's own DID. *)

unregLocals == <<cancelled, hooks, cur, calls, closing, accepted, watched>>

UnregisterCall(s) ==
    /\ Registered(s)
    /\ pc[s]["app"] = "unborn"
    /\ Goto(s, "app", "lookup")
    /\ UNCHANGED <<table, link, queue, closeOnce, target, captured, panic, notified,
                   unregLocals>>

UnregisterNotFound(s, k) ==
    /\ pc[s][k] = "lookup"
    /\ sessions[did[s]] = NoSession
    /\ Goto(s, k, "done")
    /\ UNCHANGED <<table, link, queue, closeOnce, target, captured, panic, notified,
                   unregLocals>>

\* The critical section of sm.mu that takes the session out of the table.
TakeOut(s, k) ==
    /\ pc[s][k] = "lookup"
    /\ sessions[did[s]] # NoSession
    /\ sessions' = [sessions EXCEPT ![did[s]] = NoSession]
    /\ target' = [target EXCEPT ![s][k] = sessions[did[s]]]
    /\ Goto(s, k, "queue")
    /\ UNCHANGED <<nextDID, did, link, queue, closeOnce, panic, unregLocals>>

\* Mutant: onClose is called as soon as the entry is deleted.
UnregisterDeleteNotify(s, k) ==
    /\ TakeOut(s, k)
    /\ notified' = [notified EXCEPT ![sessions[did[s]]] = IF onClose THEN @ + 1 ELSE @]
    /\ UNCHANGED captured

UnregisterDelete(s, k) ==
    /\ TakeOut(s, k)
    /\ captured' = [captured EXCEPT ![sessions[did[s]]] = onClose]
    /\ UNCHANGED notified

\* closeOnce.Do up to the end of the critical section of writeMu.
CloseQueue(s, k, skip) ==
    LET x == target[s][k] IN
    /\ pc[s][k] = "queue"
    /\ closeOnce' = [closeOnce EXCEPT ![x] = TRUE]
    /\ IF skip
       THEN /\ Goto(s, k, "done")
            /\ target' = [target EXCEPT ![s][k] = NoSession]
            /\ UNCHANGED <<outClosed, isClosed, panic>>
       ELSE /\ Goto(s, k, "conn")
            /\ UNCHANGED target
            /\ isClosed' = [isClosed EXCEPT ![x] = TRUE]
            /\ outClosed' = [outClosed EXCEPT ![x] = @ \/ ~isClosed[x]]
            /\ panic' = (panic \/ (~isClosed[x] /\ outClosed[x]))
    /\ UNCHANGED <<table, link, out, captured, notified, unregLocals>>

\* Mutant: a session whose queue is closed already counts as unregistered.
UnregisterUnlessClosed(s, k) ==
    CloseQueue(s, k, closeOnce[target[s][k]] \/ isClosed[target[s][k]])

UnregisterCloseQueue(s, k) == CloseQueue(s, k, closeOnce[target[s][k]])

UnregisterCloseConn(s, k) ==
    /\ pc[s][k] = "conn"
    /\ conn' = [conn EXCEPT ![target[s][k]] = "closed"]
    /\ Goto(s, k, "notify")
    /\ UNCHANGED <<table, peer, wire, queue, closeOnce, target, captured, panic,
                   notified, unregLocals>>

UnregisterNotify(s, k) ==
    LET x == target[s][k] IN
    /\ pc[s][k] = "notify"
    /\ notified' = [notified EXCEPT ![x] = IF captured[x] THEN @ + 1 ELSE @]
    /\ target' = [target EXCEPT ![s][k] = NoSession]
    /\ Goto(s, k, "done")
    /\ UNCHANGED <<table, link, queue, closeOnce, captured, panic, unregLocals>>

-----------------------------------------------------------------------------
(* SendToLocal: look the session up, then enqueue under its writeMu. *)

sendFrame == <<cancelled, hooks, link, closeOnce, target, captured, cur, closing,
               notified, watched>>

SendNotFound(p, d) ==
    /\ send[p] = "idle"
    /\ sessions[d] = NoSession
    /\ send' = [send EXCEPT ![p] = "notfound"]
    /\ UNCHANGED <<table, queue, pc, sendTo, panic, accepted, sendFrame>>

SendFound(p, d) ==
    /\ send[p] = "idle"
    /\ sessions[d] # NoSession
    /\ send' = [send EXCEPT ![p] = "found"]
    /\ sendTo' = [sendTo EXCEPT ![p] = sessions[d]]
    /\ UNCHANGED <<table, queue, pc, panic, accepted, sendFrame>>

SendToClosed(p) ==
    /\ send[p] = "found"
    /\ isClosed[sendTo[p]]
    /\ send' = [send EXCEPT ![p] = "closed"]
    /\ UNCHANGED <<table, queue, pc, sendTo, panic, accepted, sendFrame>>

\* The send case of the select: a send on a closed channel panics.
Enqueue(p) ==
    LET x == sendTo[p] IN
    /\ send' = [send EXCEPT ![p] = "ok"]
    /\ out' = [out EXCEPT ![x] = Append(@, p)]
    /\ panic' = (panic \/ outClosed[x])
    /\ accepted' = [accepted EXCEPT ![x] = Append(@, p)]
    /\ UNCHANGED <<table, outClosed, isClosed, pc, sendTo, sendFrame>>

\* Mutant: isClosed was read before writeMu was taken.
SendAcceptStale(p) ==
    send[p] = "found" /\ Len(out[sendTo[p]]) < QueueSize /\ Enqueue(p)

\* Mutant: one packet more than the channel holds.
SendAcceptOneMore(p) ==
    /\ send[p] = "found"
    /\ ~isClosed[sendTo[p]]
    /\ Len(out[sendTo[p]]) <= QueueSize
    /\ Enqueue(p)

SendAccept(p) ==
    /\ send[p] = "found"
    /\ ~isClosed[sendTo[p]]
    /\ Len(out[sendTo[p]]) < QueueSize
    /\ Enqueue(p)

\* The default case: the queue is full, the client is slow.
CutOff(p) ==
    LET x == sendTo[p] IN
    /\ send[p] = "found"
    /\ ~isClosed[x]
    /\ Len(out[x]) = QueueSize
    /\ send' = [send EXCEPT ![p] = "blocked"]
    /\ isClosed' = [isClosed EXCEPT ![x] = TRUE]
    /\ outClosed' = [outClosed EXCEPT ![x] = TRUE]
    /\ panic' = (panic \/ outClosed[x])
    /\ UNCHANGED <<table, out, sendTo, accepted, sendFrame>>

\* Mutant: the queue is closed, but nobody unregisters the session.
SendBlockedOnly(p) == CutOff(p) /\ UNCHANGED pc

SendBlocked(p) == CutOff(p) /\ Goto(sendTo[p], "slow", "lookup")

-----------------------------------------------------------------------------
(* readLoop. *)

readFrame == <<table, cancelled, hooks, link, queue, closeOnce, target, captured, cur,
               calls, closing, panic, accepted, notified, watched>>

ReadCheck(s) ==
    /\ pc[s]["read"] = "check"
    /\ Goto(s, "read", IF cancelled THEN "lookup" ELSE "reading")
    /\ UNCHANGED readFrame

ReadPacket(s) ==
    /\ pc[s]["read"] = "reading"
    /\ conn[s] = "open"
    /\ peer[s]
    /\ Goto(s, "read", IF onControl THEN "callback" ELSE "check")
    /\ UNCHANGED readFrame

ReadError(s) ==
    /\ pc[s]["read"] = "reading"
    /\ conn[s] = "closed" \/ ~peer[s]
    /\ Goto(s, "read", "lookup")
    /\ UNCHANGED readFrame

\* onControl returns; what it does is the dispatcher's business.
CallbackReturn(s) ==
    /\ pc[s]["read"] = "callback"
    /\ Goto(s, "read", "check")
    /\ UNCHANGED readFrame

-----------------------------------------------------------------------------
(* writeLoop and writePacket. *)

writeFrame == <<table, cancelled, hooks, conn, peer, outClosed, isClosed, closeOnce,
                target, captured, calls, closing, panic, accepted, notified, watched>>

WriteStop(s) ==
    /\ pc[s]["write"] = "select"
    /\ cancelled \/ (outClosed[s] /\ out[s] = <<>>)
    /\ Goto(s, "write", "lookup")
    /\ UNCHANGED <<wire, out, cur, writeFrame>>

WriteDequeue(s) ==
    /\ pc[s]["write"] = "select"
    /\ out[s] # <<>>
    /\ cur' = [cur EXCEPT ![s] = Head(out[s])]
    /\ out' = [out EXCEPT ![s] = Tail(@)]
    /\ Goto(s, "write", "header")
    /\ UNCHANGED <<wire, writeFrame>>

CanWrite(s) == conn[s] = "open" /\ peer[s]

WriteHeader(s) ==
    /\ pc[s]["write"] = "header"
    /\ cur[s] \notin Oversize
    /\ CanWrite(s)
    /\ wire' = [wire EXCEPT ![s] = Append(@, <<cur[s], "header">>)]
    /\ IF cur[s] \in Empty
       THEN Goto(s, "write", "select") /\ cur' = [cur EXCEPT ![s] = NoPacket]
       ELSE Goto(s, "write", "payload") /\ UNCHANGED cur
    /\ UNCHANGED <<out, writeFrame>>

WritePayload(s) ==
    /\ pc[s]["write"] = "payload"
    /\ CanWrite(s)
    /\ wire' = [wire EXCEPT ![s] = Append(@, <<cur[s], "payload">>)]
    /\ Goto(s, "write", "select")
    /\ cur' = [cur EXCEPT ![s] = NoPacket]
    /\ UNCHANGED <<out, writeFrame>>

\* writePacket returns an error: the packet is too long, the connection is gone,
\* or the client did not read for two seconds.  A write that fails may have put
\* part of its bytes out.
WriteFails(s) ==
    /\ pc[s]["write"] \in {"header", "payload"}
    /\ \E torn \in BOOLEAN :
          /\ torn => CanWrite(s) /\ cur[s] \notin Oversize
          /\ wire' = IF torn THEN [wire EXCEPT ![s] = Append(@, <<cur[s], "torn">>)]
                             ELSE wire
    /\ cur' = [cur EXCEPT ![s] = NoPacket]
    /\ UNCHANGED <<out, writeFrame>>

\* Mutant: the loop goes on with the next packet after a failed write.
WriteErrorIgnored(s) == WriteFails(s) /\ Goto(s, "write", "select")

WriteError(s) == WriteFails(s) /\ Goto(s, "write", "lookup")

-----------------------------------------------------------------------------
(* Close. *)

closeFrame == <<nextDID, did, hooks, peer, wire, queue, closeOnce, pc, target,
                captured, cur, calls, panic, accepted, notified, watched>>

Cancel ==
    /\ closePc = "idle"
    /\ closePc' = "cancelled"
    /\ UNCHANGED <<sessions, conn, toClose, swept, closeFrame>>

\* Mutant: Close does not cancel the context.
CloseWithoutCancel == Cancel /\ UNCHANGED cancelled

CloseCancel == Cancel /\ cancelled' = TRUE

Snapshot ==
    /\ closePc = "cancelled"
    /\ closePc' = "closing"
    /\ toClose' = {s \in Session : InTable(s)}
    /\ swept' = {s \in Session : InTable(s)}
    /\ UNCHANGED <<cancelled, conn, closeFrame>>

\* Mutant: Close leaves the entries in the table.
CloseKeepsTable == Snapshot /\ UNCHANGED sessions

CloseSweep == Snapshot /\ sessions' = [d \in DID |-> NoSession]

CloseConn(s) ==
    /\ closePc = "closing"
    /\ s \in toClose
    /\ conn' = [conn EXCEPT ![s] = "closed"]
    /\ toClose' = toClose \ {s}
    /\ UNCHANGED <<sessions, cancelled, closePc, swept, closeFrame>>

CloseWait ==
    /\ closePc = "closing"
    /\ toClose = {}
    /\ closePc' = IF WgZero THEN "returned" ELSE "waiting"
    /\ UNCHANGED <<sessions, cancelled, conn, toClose, swept, closeFrame>>

\* sync.WaitGroup panics when it is in use again before Wait has returned.
CloseReturn ==
    /\ closePc = "woken" \/ (closePc = "waiting" /\ WgZero)
    /\ closePc' = IF WgZero THEN "returned" ELSE "panicked"
    /\ UNCHANGED <<sessions, cancelled, conn, toClose, swept, closeFrame>>

-----------------------------------------------------------------------------
Unregister(s, k) ==
    \/ UnregisterNotFound(s, k)
    \/ UnregisterDelete(s, k)
    \/ UnregisterCloseQueue(s, k)
    \/ UnregisterCloseConn(s, k)
    \/ UnregisterNotify(s, k)

ReadLoop(s) == ReadCheck(s) \/ ReadPacket(s) \/ ReadError(s) \/ CallbackReturn(s)

WriteLoop(s) ==
    WriteStop(s) \/ WriteDequeue(s) \/ WriteHeader(s) \/ WritePayload(s) \/ WriteError(s)

SendToLocal(p) ==
    \/ \E d \in DID : SendNotFound(p, d) \/ SendFound(p, d)
    \/ SendToClosed(p) \/ SendAccept(p) \/ SendBlocked(p)

Close ==
    \/ CloseCancel \/ CloseSweep \/ CloseWait \/ CloseReturn
    \/ \E s \in Session : CloseConn(s)

\* A panic ends the process.
Alive == closePc # "panicked"

Next ==
    /\ Alive
    /\ \/ \E cb \in Callback : SetOnClose(cb) \/ SetControlCallback(cb)
       \/ ParentCancel
       \/ \E s \in Session : RegisterSession(s) \/ PeerClose(s)
       \/ \E s \in Dropped : UnregisterCall(s)
       \/ \E s \in Session : ReadLoop(s) \/ WriteLoop(s)
       \/ \E s \in Session, k \in Kind : Unregister(s, k)
       \/ \E p \in Packet : SendToLocal(p)
       \/ Close

Spec == Init /\ [][Next]_vars

\* The Go scheduler runs every goroutine that can run.  A read that could
\* deliver a frame is not forced: the client may never send one.
Fairness ==
    /\ \A s \in Session :
          /\ WF_vars(Alive /\ (ReadCheck(s) \/ ReadError(s) \/ CallbackReturn(s)))
          /\ WF_vars(Alive /\ WriteLoop(s))
          /\ \A k \in Kind : WF_vars(Alive /\ Unregister(s, k))
    /\ WF_vars(Alive /\ closePc # "idle" /\ Close)

FairSpec == Spec /\ Fairness

-----------------------------------------------------------------------------
(* Properties.  The ones about DIDs assume fewer sessions than DIDs: NoWrap. *)

NoWrap == IsFiniteSet(Session) /\ Cardinality(Session) < DIDModulus

FlagTypes ==
    /\ cancelled \in BOOLEAN
    /\ onClose \in BOOLEAN
    /\ onControl \in BOOLEAN
    /\ panic \in BOOLEAN

ThreadTypes ==
    /\ pc \in [Session -> [Kind -> Label]]
    /\ target \in [Session -> [Kind -> Session \cup {NoSession}]]
    /\ \A s \in Session, k \in Kind : pc[s][k] \in Teardown => target[s][k] \in Session

WriterTypes ==
    /\ wire \in [Session -> Seq(Packet \X {"header", "payload", "torn"})]
    /\ cur \in [Session -> Packet \cup {NoPacket}]
    /\ \A s \in Session : pc[s]["write"] \in {"header", "payload"} => cur[s] \in Packet

DataTypes ==
    /\ sessions \in [DID -> Session \cup {NoSession}]
    /\ nextDID \in DID
    /\ did \in [Session -> DID]
    /\ conn \in [Session -> {"none", "open", "closed"}]
    /\ peer \in [Session -> BOOLEAN]
    /\ out \in [Session -> Seq(Packet)]
    /\ \A s \in Session : Len(out[s]) <= QueueSize
    /\ outClosed \in [Session -> BOOLEAN]
    /\ isClosed \in [Session -> BOOLEAN]
    /\ closeOnce \in [Session -> BOOLEAN]
    /\ captured \in [Session -> BOOLEAN]
    /\ send \in [Packet -> {"idle", "found", "notfound", "closed", "ok", "blocked"}]
    /\ sendTo \in [Packet -> Session \cup {NoSession}]
    /\ \A p \in Packet : send[p] = "found" => sendTo[p] \in Session
    /\ closePc \in {"idle", "cancelled", "closing", "waiting", "woken", "returned",
                     "panicked"}
    /\ toClose \in SUBSET Session
    /\ accepted \in [Session -> Seq(Packet)]
    /\ notified \in [Session -> Nat]
    /\ watched \in [Session -> BOOLEAN]
    /\ swept \in SUBSET Session

\* The types of the variables; no queue holds more than its capacity, and a
\* goroutine that is about to use a session or a packet has one.
TypeOK == FlagTypes /\ ThreadTypes /\ WriterTypes /\ DataTypes

\* No goroutine ever sends on, or closes again, an outbound channel that is
\* closed (Go panics).  SendToLocal, its slow-client branch and
\* UnregisterSession all touch the channel, from different goroutines, and
\* SendToLocal may hold a session that has left the table since.
NoPanic == ~panic

\* A call of UnregisterSession is between the deletion of x and its return.
BeingTornDown(x) ==
    \E s \in Session, k \in Kind : pc[s][k] \in Teardown /\ target[s][k] = x

\* onClose runs at most once for a session however many goroutines race to
\* unregister it, and exactly once when the session has left the table and no
\* call is still tearing it down; the sessions that Close swept are left out.
OnCloseExactlyOnce ==
    \A s \in Session :
       /\ notified[s] <= 1
       /\ Registered(s) /\ watched[s] /\ ~InTable(s) /\ ~BeingTornDown(s) /\ s \notin swept
             => notified[s] = 1

\* UnregisterSession is called with a DID; the session it finds under that DID
\* is the one its caller meant, even when the caller was late.
OwnTeardown ==
    \A s \in Session, k \in Kind : pc[s][k] \in Teardown => target[s][k] = s

\* What RegisterSession's comment says, "Select a unique non-zero DID": the DIDs
\* of the sessions that have a loop left are distinct and not zero, also when
\* sessions have come and gone in between.
UniqueNonZeroDID ==
    \A s \in Session : Registered(s) /\ ~LoopsDone(s) =>
       /\ did[s] # 0
       /\ \A t \in Session \ {s} : Registered(t) /\ ~LoopsDone(t) => did[t] # did[s]

\* A session in the table can still be served: its connection is open, both
\* loops run (or are just about to unregister it), and if its queue is closed
\* then the goroutine that will unregister it is on its way.
TableIsLive ==
    \A s \in Session : InTable(s) =>
       /\ conn[s] = "open"
       /\ pc[s]["read"] \in {"check", "reading", "callback", "lookup"}
       /\ pc[s]["write"] \in {"select", "header", "payload", "lookup"}
       /\ isClosed[s] => pc[s]["slow"] = "lookup"

\* When onClose has been called for a session, the session cannot be reached
\* any more: no entry, no queue that accepts packets, no open connection.
NotifiedIsGone ==
    \A s \in Session : notified[s] > 0 =>
       conn[s] = "closed" /\ isClosed[s] /\ ~InTable(s)

\* How the client takes the stream apart: a frame ends with its payload, or with
\* the header of a packet without data, and the next write begins a frame.
Ends(x) == x[2] = "payload" \/ (x[2] = "header" /\ x[1] \in Empty)
Begins(w, i) == i = 1 \/ Ends(w[i - 1])
Begun(w, i) == {j \in 1 .. i : Begins(w, j)}

Framed(w, ps) ==
    \A i \in DOMAIN w :
       LET k == Cardinality(Begun(w, i)) IN
       /\ k \in DOMAIN ps /\ w[i][1] = ps[k]
       /\ w[i][2] = "torn" \/ w[i][2] = IF Begins(w, i) THEN "header" ELSE "payload"
       /\ w[i][2] = "torn" => i = Len(w)

\* The client reads the frames of the packets SendToLocal accepted, in order and
\* whole: the k-th frame on the connection is the k-th packet accepted.  Whatever
\* fails or is cut off, only the end of the stream can be missing, and only the
\* last write on the connection can be torn.
StreamFramed == \A s \in Session : Framed(wire[s], accepted[s])

\* Close gets through its WaitGroup, whatever the loops were doing and whoever
\* registers or unregisters sessions meanwhile; it may panic, as sync.WaitGroup does
\* when RegisterSession uses it again while Close is being released.
CloseEnds == closePc # "idle" ~> closePc \in {"returned", "panicked"}

\* Once the client is gone, the context is done or the client was found slow,
\* both loops end, the connection is closed and the entry is gone: no
\* goroutine and no descriptor is leaked, also when the session is registered
\* after Close.
NoLeak ==
    \A s \in Session :
       Registered(s) /\ (~peer[s] \/ cancelled \/ isClosed[s])
          ~> (LoopsDone(s) /\ conn[s] = "closed" /\ ~InTable(s)) \/ ~Alive

\* What the comment of SetOnClose says, "a callback to be run when a session is
\* closed", of a session that is closed and has no goroutine left.
OnCloseRuns ==
    \A s \in Session :
       watched[s] /\ conn[s] = "closed" /\ LoopsDone(s) /\ ~BeingTornDown(s)
          => notified[s] = 1

-----------------------------------------------------------------------------
(* The life of a session, stage by stage: the inductive strengthening.       *)

Quiet(s) == \A k \in Kind : pc[s][k] \notin Teardown

Fresh(s) ==
    /\ conn[s] = "none"
    /\ \A k \in Kind : pc[s][k] = "unborn"
    /\ ~closeOnce[s] /\ ~isClosed[s] /\ ~watched[s]
    /\ notified[s] = 0
    /\ s \notin swept

Listed(s) ==
    /\ conn[s] = "open"
    /\ sessions[did[s]] = s
    /\ Quiet(s)
    /\ ~closeOnce[s]
    /\ notified[s] = 0
    /\ s \notin swept
    /\ \A k \in {"read", "write"} : pc[s][k] \notin {"unborn", "done"}
    /\ isClosed[s] => pc[s]["slow"] = "lookup"

Leaving(s, k) ==
    /\ conn[s] # "none"
    /\ sessions[did[s]] # s
    /\ pc[s][k] \in Teardown
    /\ target[s][k] = s
    /\ \A j \in Kind \ {k} : pc[s][j] \notin Teardown
    /\ closeOnce[s] <=> pc[s][k] # "queue"
    /\ closeOnce[s] => isClosed[s]
    /\ pc[s][k] = "notify" => conn[s] = "closed"
    /\ watched[s] => captured[s]
    /\ notified[s] = 0
    /\ s \notin swept

Swept(s) ==
    /\ conn[s] # "none"
    /\ sessions[did[s]] # s
    /\ Quiet(s)
    /\ ~closeOnce[s]
    /\ notified[s] = 0
    /\ s \in swept

Gone(s) ==
    /\ conn[s] = "closed"
    /\ sessions[did[s]] # s
    /\ Quiet(s)
    /\ closeOnce[s] /\ isClosed[s]
    /\ notified[s] <= 1
    /\ watched[s] => notified[s] = 1
    /\ s \notin swept

Stage(s) == Fresh(s) \/ Listed(s) \/ (\E k \in Kind : Leaving(s, k)) \/ Swept(s) \/ Gone(s)

\* DIDs are handed out once, and the table files every session under its own.
DIDInv ==
    /\ nextDID = Cardinality({s \in Session : Registered(s)})
    /\ \A s \in Session : Registered(s) => did[s] \in 1 .. nextDID
    /\ \A s, t \in Session : Registered(s) /\ Registered(t) /\ did[s] = did[t] => s = t
    /\ \A d \in DID : sessions[d] # NoSession =>
          Registered(sessions[d]) /\ did[sessions[d]] = d

\* What the steps of one goroutine rely on about the others.
RelyInv ==
    /\ \A s \in Session : pc[s]["slow"] # "unborn" => isClosed[s]
    /\ \A s \in Session : watched[s] => onClose
    /\ \A p \in Packet : send[p] = "found" => Registered(sendTo[p])
    /\ closePc \in {"idle", "cancelled"} => swept = {}
    /\ toClose \subseteq swept

\* Every session is in exactly one stage of its life: not yet registered, in
\* the table, being torn down by one call, swept by Close, or gone.
LifeInv == DIDInv /\ RelyInv /\ \A s \in Session : Stage(s)

-----------------------------------------------------------------------------
(* What users of the interface see. *)

StageOf(s) ==
    IF ~Registered(s) THEN "fresh"
    ELSE IF sessions[did[s]] = s THEN "listed"
    ELSE IF s \in swept THEN "swept"
    ELSE IF BeingTornDown(s) THEN "leaving" ELSE "gone"

Life == INSTANCE SessionLife
           WITH stage <- [s \in Session |-> StageOf(s)], told <- notified, inbox <- accepted

\* The session manager keeps the promises of its interface: seen from outside,
\* racing loops, senders, unregistrations and Close look like one life per
\* connection, with onClose as the last thing that happens to it and no packet
\* accepted after it.
ImplementsLife == Life!Spec
=============================================================================
