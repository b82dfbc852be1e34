------------------------------ MODULE Discoverer ------------------------------
(***************************************************************************)
(* The STUN discoverer (stun/stun_discoverer.go) and the public address it *)
(* keeps in the node's identity (identify/identifier.go).                  *)
(*                                                                         *)
(* A run is one successful Start: it has its own context and its own       *)
(* discoveryLoop.  A query is one binding request with a fresh transaction *)
(* ID; its response is taken from the UDP listener by a subscription that  *)
(* lasts as long as the query.  Responses are lost, late, duplicated or    *)
(* malformed, and the mapped address may change between two queries.       *)
(***************************************************************************)
EXTENDS Integers

CONSTANTS
    Run,         \* the calls of Start that launch a worker
    Stopper,     \* the calls of Stop
    NumServers,  \* len(d.servers)
    MaxQuery,    \* bound on the transaction IDs
    Addr,        \* the addresses a server may see us under
    Bad,         \* a response that parseSTUNResponse rejects
    NoAddr,      \* a nil publicAddr
    NoRun,       \* a nil d.cancel
    NoPacket     \* an empty packetChan

ASSUME ConstantsAssumption ==
    /\ NumServers \in Nat
    /\ MaxQuery \in Nat
    /\ NoRun \notin Run
    /\ NoAddr \notin Addr
    /\ Bad \notin Addr

Query == 1 .. MaxQuery
Response == Query \X (Addr \cup {Bad})

VARIABLES
    isRunning,   \* d.isRunning
    current,     \* the run that d.cancel belongs to
    ctxDone,     \* the childCtx of a run is done
    loop,        \* where the discoveryLoop of a run is
    server,      \* the index of the range loop of queryAll
    tx,          \* the transaction ID of a run's latest query
    packet,      \* the packetChan of that query, of capacity 1
    found,       \* what queryServer returned
    stop,        \* where a call of Stop is
    stopped,     \* history: the run that a call of Stop stopped
    seen,        \* history: the workers that ran when Stop was called
    overlapped,  \* history: a Start came before an earlier Stop had returned
    asked,       \* the transaction IDs used so far
    sent,        \* the queries whose request went out
    subs,        \* the queries with a subscription at the listener
    net,         \* the responses of the servers
    publicAddr,  \* identity.publicAddr
    pub          \* history: the query publicAddr is the response to, 0 if none

worker == <<server, tx, packet, found>>
stops == <<stop, stopped, seen, overlapped>>
wire == <<asked, sent, subs, net>>
ident == <<publicAddr, pub>>
vars == <<isRunning, current, ctxDone, loop, worker, stops, wire, ident>>

\* The places of a loop between wg.Add and wg.Done.
Running == {"next", "query", "send", "wait", "publish", "tick"}
WgZero == \A r \in Run : loop[r] \notin Running

Init ==
    /\ isRunning = FALSE
    /\ current = NoRun
    /\ ctxDone = [r \in Run |-> FALSE]
    /\ loop = [r \in Run |-> "unborn"]
    /\ server = [r \in Run |-> 1]
    /\ tx = [r \in Run |-> 0]
    /\ packet = [r \in Run |-> NoPacket]
    /\ found = [r \in Run |-> NoAddr]
    /\ stop = [c \in Stopper |-> "idle"]
    /\ stopped = [c \in Stopper |-> NoRun]
    /\ seen = [c \in Stopper |-> {}]
    /\ overlapped = FALSE
    /\ asked = 0
    /\ sent = {}
    /\ subs = {}
    /\ net = {}
    /\ publicAddr = NoAddr
    /\ pub = 0

Goto(r, l) == loop' = [loop EXCEPT ![r] = l]

-----------------------------------------------------------------------------
(* Start and Stop. *)

\* wg.Add is called under the lock.  A Wait that was released by a zero
\* counter, and has not returned yet, will find the counter in use again.
Start(r) ==
    /\ ~isRunning
    /\ NumServers > 0
    /\ loop[r] = "unborn"
    /\ isRunning' = TRUE
    /\ current' = r
    /\ Goto(r, "next")
    /\ stop' = [c \in Stopper |-> IF stop[c] = "waiting" /\ WgZero THEN "woken" ELSE stop[c]]
    /\ overlapped' = (overlapped \/ \E c \in Stopper : stop[c] \notin {"idle", "returned"})
    /\ UNCHANGED <<ctxDone, worker, stopped, seen, wire, ident>>

\* The context given to Start is cancelled.
ParentCancel(r) ==
    /\ loop[r] # "unborn"
    /\ ctxDone' = [ctxDone EXCEPT ![r] = TRUE]
    /\ UNCHANGED <<isRunning, current, loop, worker, stops, wire, ident>>

Seen(c) == seen' = [seen EXCEPT ![c] = {r \in Run : loop[r] \in Running}]

StopNotRunning(c) ==
    /\ stop[c] = "idle"
    /\ ~isRunning
    /\ stop' = [stop EXCEPT ![c] = "returned"]
    /\ Seen(c)
    /\ UNCHANGED <<isRunning, current, ctxDone, loop, worker, stopped, overlapped, wire, ident>>

Halt(c, next) ==
    /\ stop[c] = "idle"
    /\ isRunning
    /\ isRunning' = FALSE
    /\ stop' = [stop EXCEPT ![c] = next]
    /\ stopped' = [stopped EXCEPT ![c] = current]
    /\ Seen(c)
    /\ UNCHANGED <<current, loop, worker, overlapped, wire, ident>>

\* Mutant: the context is not cancelled.
StopWithoutCancel(c) == Halt(c, "wait") /\ UNCHANGED ctxDone

\* Mutant: Stop does not wait for the worker.
StopWithoutWait(c) == Halt(c, "returned") /\ ctxDone' = [ctxDone EXCEPT ![current] = TRUE]

Stop(c) == Halt(c, "wait") /\ ctxDone' = [ctxDone EXCEPT ![current] = TRUE]

StopWait(c) ==
    /\ stop[c] = "wait"
    /\ stop' = [stop EXCEPT ![c] = IF WgZero THEN "returned" ELSE "waiting"]
    /\ UNCHANGED <<isRunning, current, ctxDone, loop, worker, stopped, seen, overlapped, wire,
                   ident>>

\* sync.WaitGroup panics when it is in use again before Wait has returned.
StopReturn(c) ==
    /\ stop[c] = "woken" \/ (stop[c] = "waiting" /\ WgZero)
    /\ stop' = [stop EXCEPT ![c] = IF WgZero THEN "returned" ELSE "panicked"]
    /\ UNCHANGED <<isRunning, current, ctxDone, loop, worker, stopped, seen, overlapped, wire,
                   ident>>

-----------------------------------------------------------------------------
(* discoveryLoop and queryAll. *)

control == <<isRunning, current, ctxDone, stops>>

\* Mutant: one more server than there are.
QueryNextOneMore(r) ==
    /\ loop[r] = "next"
    /\ Goto(r, IF server[r] > NumServers + 1 \/ ctxDone[r] THEN "tick" ELSE "query")
    /\ UNCHANGED <<control, worker, wire, ident>>

\* The head of queryAll: the next server, or back to the select of the loop.
QueryNext(r) ==
    /\ loop[r] = "next"
    /\ Goto(r, IF server[r] > NumServers \/ ctxDone[r] THEN "tick" ELSE "query")
    /\ UNCHANGED <<control, worker, wire, ident>>

TickStop(r) ==
    /\ loop[r] = "tick"
    /\ ctxDone[r]
    /\ Goto(r, "done")
    /\ UNCHANGED <<control, worker, wire, ident>>

TickQuery(r) ==
    /\ loop[r] = "tick"
    /\ Goto(r, "next")
    /\ server' = [server EXCEPT ![r] = 1]
    /\ UNCHANGED <<control, tx, packet, found, wire, ident>>

\* identity.SetPublicAddr
SetPublicAddr(a, q) == publicAddr' = a /\ pub' = q

Publish(r) ==
    /\ loop[r] = "publish"
    /\ SetPublicAddr(found[r], tx[r])
    /\ Goto(r, "tick")
    /\ UNCHANGED <<control, worker, wire>>

-----------------------------------------------------------------------------
(* queryServer. *)

\* queryServer returns an error: queryAll goes on with the next server.
NextServer(r) ==
    /\ server' = [server EXCEPT ![r] = @ + 1]
    /\ Goto(r, "next")
    /\ UNCHANGED <<control, tx, packet, found, asked, sent, net, ident>>

\* The server's name does not resolve, or there is no random transaction ID.
QueryFails(r) ==
    /\ loop[r] = "query"
    /\ NextServer(r)
    /\ UNCHANGED subs

QuerySubscribe(r) ==
    /\ loop[r] = "query"
    /\ asked < MaxQuery
    /\ asked' = asked + 1
    /\ tx' = [tx EXCEPT ![r] = asked + 1]
    /\ packet' = [packet EXCEPT ![r] = NoPacket]
    /\ subs' = subs \cup {asked + 1}
    /\ Goto(r, "send")
    /\ UNCHANGED <<control, server, found, sent, net, ident>>

QuerySend(r) ==
    /\ loop[r] = "send"
    /\ sent' = sent \cup {tx[r]}
    /\ Goto(r, "wait")
    /\ UNCHANGED <<control, worker, asked, subs, net, ident>>

\* Mutant: the subscription is released only after a request that went out.
QuerySendFailsLeak(r) ==
    /\ loop[r] = "send"
    /\ NextServer(r)
    /\ UNCHANGED subs

QuerySendFails(r) ==
    /\ loop[r] = "send"
    /\ NextServer(r)
    /\ subs' = subs \ {tx[r]}

\* The context is done, or two seconds have passed: the code does the same.
WaitGivesUp(r) ==
    /\ loop[r] = "wait"
    /\ NextServer(r)
    /\ subs' = subs \ {tx[r]}

WaitPacket(r) ==
    /\ loop[r] = "wait"
    /\ packet[r] # NoPacket
    /\ packet[r][2] # Bad
    /\ found' = [found EXCEPT ![r] = packet[r][2]]
    /\ subs' = subs \ {tx[r]}
    /\ Goto(r, "publish")
    /\ UNCHANGED <<control, server, tx, packet, asked, sent, net, ident>>

WaitBadPacket(r) ==
    /\ loop[r] = "wait"
    /\ packet[r] # NoPacket
    /\ packet[r][2] = Bad
    /\ NextServer(r)
    /\ subs' = subs \ {tx[r]}

-----------------------------------------------------------------------------
(* The servers and the listener. *)

\* Mutant: the callback does not compare the transaction ID.
MatchesAny(q, m) == TRUE

\* The callback of query q, for a datagram from its server.
Matches(q, m) == m[1] = q

\* A server answers a request, at any time or never.
Answer(q) ==
    /\ q \in sent
    /\ \A m \in net : m[1] # q
    /\ \E a \in Addr \cup {Bad} : net' = net \cup {<<q, a>>}
    /\ UNCHANGED <<control, loop, worker, asked, sent, subs, ident>>

\* The listener delivers a response, perhaps not for the first time.  A push
\* that comes after the query has left its select is never received.
Deliver(r, m) ==
    /\ m \in net
    /\ tx[r] \in subs
    /\ Matches(tx[r], m)
    /\ packet[r] = NoPacket
    /\ packet' = [packet EXCEPT ![r] = m]
    /\ UNCHANGED <<control, loop, server, tx, found, wire, ident>>

-----------------------------------------------------------------------------
StopCall(c) == StopNotRunning(c) \/ Stop(c) \/ StopWait(c) \/ StopReturn(c)

QueryServer(r) ==
    \/ QueryFails(r) \/ QuerySubscribe(r) \/ QuerySend(r) \/ QuerySendFails(r)
    \/ WaitGivesUp(r) \/ WaitPacket(r) \/ WaitBadPacket(r)

DiscoveryLoop(r) == QueryNext(r) \/ QueryServer(r) \/ Publish(r) \/ TickStop(r) \/ TickQuery(r)

\* A panic ends the process.
Alive == \A c \in Stopper : stop[c] # "panicked"

Next ==
    /\ Alive
    /\ \/ \E r \in Run : Start(r) \/ ParentCancel(r) \/ DiscoveryLoop(r)
       \/ \E c \in Stopper : StopCall(c)
       \/ \E q \in Query : Answer(q)
       \/ \E r \in Run, m \in net : Deliver(r, m)

Spec == Init /\ [][Next]_vars

\* The scheduler runs the loops and the waiting callers.  When its context is
\* done, a loop whose ticker keeps firing too gets out of the select at last:
\* Go picks one of the ready cases at random.
Fairness ==
    /\ \A r \in Run : WF_vars(Alive /\ DiscoveryLoop(r)) /\ SF_vars(Alive /\ TickStop(r))
    /\ \A c \in Stopper : WF_vars(Alive /\ (StopWait(c) \/ StopReturn(c)))

FairSpec == Spec /\ Fairness

-----------------------------------------------------------------------------
(* Properties. *)

\* The types of the variables; a loop that publishes has an address.
TypeOK ==
    /\ isRunning \in BOOLEAN
    /\ current \in Run \cup {NoRun}
    /\ isRunning => current \in Run
    /\ ctxDone \in [Run -> BOOLEAN]
    /\ loop \in [Run -> {"unborn", "done"} \cup Running]
    /\ server \in [Run -> 1 .. (NumServers + 1)]
    /\ \A r \in Run : loop[r] \in {"query", "send", "wait"} => server[r] <= NumServers
    /\ asked \in 0 .. MaxQuery
    /\ tx \in [Run -> 0 .. asked]
    /\ \A r \in Run : loop[r] \in {"send", "wait", "publish"} => tx[r] \in Query
    /\ packet \in [Run -> Response \cup {NoPacket}]
    /\ found \in [Run -> Addr \cup {NoAddr}]
    /\ \A r \in Run : loop[r] = "publish" => found[r] \in Addr
    /\ stop \in [Stopper -> {"idle", "wait", "waiting", "woken", "returned", "panicked"}]
    /\ stopped \in [Stopper -> Run \cup {NoRun}]
    /\ seen \in [Stopper -> SUBSET Run]
    /\ overlapped \in BOOLEAN
    /\ sent \in SUBSET Query
    /\ subs \in SUBSET Query
    /\ net \in SUBSET Response
    /\ publicAddr \in Addr \cup {NoAddr}
    /\ pub \in 0 .. asked

\* The published address is the one a server sent in answer to the very query
\* it was taken for, however late or often other answers arrive.
AddressIsAnswer == publicAddr # NoAddr => <<pub, publicAddr>> \in net

\* The address never goes back to the answer to an earlier query, as long as
\* the discoverer is not started again before Stop has returned.
NeverStale == [][~overlapped' => pub' >= pub]_vars

\* queryServer releases its subscription on every path: the listener holds one
\* for a query only while a worker is in it.
NoLeakedSubscription ==
    \A q \in subs : \E r \in Run : tx[r] = q /\ loop[r] \in {"send", "wait"}

\* When the Stop that stopped a worker has returned, the worker has ended:
\* it will not touch the identity any more.
StopQuiesces ==
    \A c \in Stopper : stop[c] = "returned" /\ stopped[c] # NoRun => loop[stopped[c]] = "done"

\* Stop returns, whatever the worker was waiting for.  Only a Start that came
\* in between can hold it up, with its own worker or by the panic.
StopReturns ==
    \A c \in Stopper :
       stop[c] # "idle" ~> stop[c] = "returned" \/ (overlapped /\ (isRunning \/ ~Alive))

\* What the comment of Stop says: "It blocks until the background worker has
\* terminated."
StopBlocks ==
    \A c \in Stopper : stop[c] = "returned" => \A r \in seen[c] : loop[r] = "done"
=============================================================================
