----------------------------- MODULE UdpListener -----------------------------
(***************************************************************************)
(* The UDP listener (network/udp_listener.go).                             *)
(*                                                                         *)
(* A run is one successful StartListener: it has its own socket, its own   *)
(* context and its own readLoop.  Runs follow one another on the same      *)
(* UDPListener, whose fields isListening, conn and cancel belong to the    *)
(* latest run only, while its WaitGroup counts the loops of all of them.   *)
(* A critical section of l.mu is one step, and so is each socket or        *)
(* channel operation outside it.                                           *)
(***************************************************************************)
EXTENDS Integers, Sequences, FiniteSets

CONSTANTS
    Run,         \* the calls of StartListener that get a socket
    Stopper,     \* the calls of StopListener
    Sender,      \* the calls of SendPacketTo
    Subscriber,  \* the calls of SubscribeToPacketReceived, each with its channel
    Packet,      \* the datagrams that arrive; a duplicate is a datagram of its own
    NoRun,       \* a nil l.conn
    NoSub,       \* an ID with no entry in l.subscriptions
    NoPacket,    \* a loop that holds no datagram
    IDModulus,   \* number of values of nextSubID: 2^32
    ChanSize     \* the capacity of a subscriber's channel

ASSUME ConstantsAssumption ==
    /\ NoRun \notin Run
    /\ NoSub \notin Subscriber
    /\ NoPacket \notin Packet
    /\ IDModulus \in Nat \ {0}
    /\ ChanSize \in Nat

ID == 0 .. (IDModulus - 1)

VARIABLES
    isListening,  \* l.isListening
    current,      \* the run that l.conn and l.cancel belong to
    sock,         \* the socket of a run
    ctxDone,      \* the childCtx of a run is done
    loop,         \* where the readLoop of a run is
    holding,      \* the datagram a loop has read and not yet dispatched
    stop,         \* where a call of StopListener is
    stopped,      \* history: the run that a call of StopListener stopped
    send,         \* a call of SendPacketTo: its socket, then its result
    subs,         \* l.subscriptions
    nextSubID,    \* l.nextSubID
    subID,        \* the ID a subscriber was given
    member,       \* whether the subscriber has called Subscribe, Unsubscribe
    unread,       \* the datagrams no loop has read yet
    tasks,        \* the callback goroutines
    ch,           \* the subscribers' channels
    got           \* history: what was put into the channels

life == <<isListening, current, sock, ctxDone>>
loops == <<loop, holding>>
stops == <<stop, stopped>>
registry == <<subs, nextSubID, subID, member>>
traffic == <<unread, tasks, ch, got>>
vars == <<life, loops, stops, send, registry, traffic>>

\* The places of a loop between wg.Add and wg.Done.
Running == {"check", "reading", "failed", "deliver"}
WgZero == \A r \in Run : loop[r] \notin Running

Task == Subscriber \X Packet \X {"callback", "push"}

Init ==
    /\ isListening = FALSE
    /\ current = NoRun
    /\ sock = [r \in Run |-> "none"]
    /\ ctxDone = [r \in Run |-> FALSE]
    /\ loop = [r \in Run |-> "unborn"]
    /\ holding = [r \in Run |-> NoPacket]
    /\ stop = [c \in Stopper |-> "idle"]
    /\ stopped = [c \in Stopper |-> NoRun]
    /\ send = [x \in Sender |-> "idle"]
    /\ subs = [i \in ID |-> NoSub]
    /\ nextSubID = 0
    /\ subID = [s \in Subscriber |-> 0]
    /\ member = [s \in Subscriber |-> "no"]
    /\ unread = Packet
    /\ tasks = {}
    /\ ch = [s \in Subscriber |-> <<>>]
    /\ got = [s \in Subscriber |-> <<>>]

-----------------------------------------------------------------------------
(* StartListener and StopListener. *)

StartListener(r) ==
    /\ ~isListening
    /\ loop[r] = "unborn"
    /\ isListening' = TRUE
    /\ current' = r
    /\ sock' = [sock EXCEPT ![r] = "open"]
    /\ loop' = [loop EXCEPT ![r] = "starting"]
    /\ UNCHANGED <<ctxDone, holding, stops, send, registry, traffic>>

\* After the unlock.  A Wait that was released by a zero counter, and has not
\* returned yet, will find the counter in use again.
StartSpawn(r) ==
    /\ loop[r] = "starting"
    /\ loop' = [loop EXCEPT ![r] = "check"]
    /\ stop' = [c \in Stopper |-> IF stop[c] = "waiting" /\ WgZero THEN "woken" ELSE stop[c]]
    /\ UNCHANGED <<life, holding, stopped, send, registry, traffic>>

\* The context given to StartListener is cancelled.
ParentCancel(r) ==
    /\ loop[r] # "unborn"
    /\ ctxDone' = [ctxDone EXCEPT ![r] = TRUE]
    /\ UNCHANGED <<isListening, current, sock, loops, stops, send, registry, traffic>>

StopNotRunning(c) ==
    /\ stop[c] = "idle"
    /\ ~isListening
    /\ stop' = [stop EXCEPT ![c] = "returned"]
    /\ UNCHANGED <<life, loops, stopped, send, registry, traffic>>

Halt(c, next) ==
    /\ stop[c] = "idle"
    /\ isListening
    /\ isListening' = FALSE
    /\ sock' = [sock EXCEPT ![current] = "closed"]
    /\ stop' = [stop EXCEPT ![c] = next]
    /\ stopped' = [stopped EXCEPT ![c] = current]
    /\ UNCHANGED <<current, loops, send, registry, traffic>>

\* Mutant: the socket is left to the garbage collector.
StopWithoutClose(c) ==
    /\ stop[c] = "idle"
    /\ isListening
    /\ isListening' = FALSE
    /\ ctxDone' = [ctxDone EXCEPT ![current] = TRUE]
    /\ stop' = [stop EXCEPT ![c] = "wait"]
    /\ stopped' = [stopped EXCEPT ![c] = current]
    /\ UNCHANGED <<sock, current, loops, send, registry, traffic>>

\* Mutant: StopListener does not wait for the loop.
StopWithoutWait(c) == Halt(c, "returned") /\ ctxDone' = [ctxDone EXCEPT ![current] = TRUE]

StopListener(c) == Halt(c, "wait") /\ ctxDone' = [ctxDone EXCEPT ![current] = TRUE]

StopWait(c) ==
    /\ stop[c] = "wait"
    /\ stop' = [stop EXCEPT ![c] = IF WgZero THEN "returned" ELSE "waiting"]
    /\ UNCHANGED <<life, loops, stopped, send, registry, traffic>>

\* sync.WaitGroup panics when it is in use again before Wait has returned.
StopReturn(c) ==
    /\ stop[c] = "woken" \/ (stop[c] = "waiting" /\ WgZero)
    /\ stop' = [stop EXCEPT ![c] = IF WgZero THEN "returned" ELSE "panicked"]
    /\ UNCHANGED <<life, loops, stopped, send, registry, traffic>>

-----------------------------------------------------------------------------
(* SendPacketTo: the socket is picked under the lock and used after it. *)

SendPacketTo(x) ==
    /\ send[x] = "idle"
    /\ send' = [send EXCEPT ![x] = IF isListening THEN current ELSE "failed"]
    /\ UNCHANGED <<life, loops, stops, registry, traffic>>

SendWrite(x) ==
    /\ send[x] \in Run
    /\ send' = [send EXCEPT ![x] = IF sock[send[x]] = "open" THEN "sent" ELSE "failed"]
    /\ UNCHANGED <<life, loops, stops, registry, traffic>>

\* WriteToUDP may fail on an open socket too.
SendFails(x) ==
    /\ send[x] \in Run
    /\ send' = [send EXCEPT ![x] = "failed"]
    /\ UNCHANGED <<life, loops, stops, registry, traffic>>

-----------------------------------------------------------------------------
(* Subscriptions. *)

Enroll(s, i) ==
    /\ member[s] = "no"
    /\ nextSubID' = i
    /\ subID' = [subID EXCEPT ![s] = i]
    /\ subs' = [subs EXCEPT ![i] = s]
    /\ member' = [member EXCEPT ![s] = "yes"]
    /\ UNCHANGED <<life, loops, stops, send, traffic>>

\* Mutant: the ID is the number of subscriptions.
SubscribeByCount(s) ==
    Enroll(s, (Cardinality({i \in ID : subs[i] # NoSub}) + 1) % IDModulus)

SubscribeToPacketReceived(s) == Enroll(s, (nextSubID + 1) % IDModulus)

UnsubscribeFromPacketReceived(s) ==
    /\ member[s] = "yes"
    /\ subs' = [subs EXCEPT ![subID[s]] = NoSub]
    /\ member' = [member EXCEPT ![s] = "left"]
    /\ UNCHANGED <<life, loops, stops, send, nextSubID, subID, traffic>>

-----------------------------------------------------------------------------
(* readLoop. *)

\* Mutant: the loop relies on the socket alone.
LoopNoCheck(r) ==
    /\ loop[r] = "check"
    /\ loop' = [loop EXCEPT ![r] = "reading"]
    /\ UNCHANGED <<life, holding, stops, send, registry, traffic>>

LoopCheck(r) ==
    /\ loop[r] = "check"
    /\ loop' = [loop EXCEPT ![r] = IF ctxDone[r] THEN "done" ELSE "reading"]
    /\ UNCHANGED <<life, holding, stops, send, registry, traffic>>

LoopRead(r) ==
    /\ loop[r] = "reading"
    /\ sock[r] = "open"
    /\ \E p \in unread :
          /\ holding' = [holding EXCEPT ![r] = p]
          /\ unread' = unread \ {p}
    /\ loop' = [loop EXCEPT ![r] = "deliver"]
    /\ UNCHANGED <<life, stops, send, registry, tasks, ch, got>>

\* Mutant: the error is not looked at, and what the buffer holds is dispatched.
LoopReadErrorIgnored(r) ==
    /\ loop[r] = "reading"
    /\ loop' = [loop EXCEPT ![r] = "deliver"]
    /\ UNCHANGED <<life, holding, stops, send, registry, traffic>>

\* ReadFromUDP fails on a closed socket, and now and then on an open one.
LoopReadError(r) ==
    /\ loop[r] = "reading"
    /\ loop' = [loop EXCEPT ![r] = "failed"]
    /\ UNCHANGED <<life, holding, stops, send, registry, traffic>>

\* Mutant: every read error ends the loop.
LoopGivesUp(r) ==
    /\ loop[r] = "failed"
    /\ loop' = [loop EXCEPT ![r] = "done"]
    /\ UNCHANGED <<life, holding, stops, send, registry, traffic>>

LoopAfterError(r) ==
    /\ loop[r] = "failed"
    /\ loop' = [loop EXCEPT ![r] = IF isListening THEN "check" ELSE "done"]
    /\ UNCHANGED <<life, holding, stops, send, registry, traffic>>

Dispatch(r, to) ==
    /\ loop[r] = "deliver"
    /\ tasks' = tasks \cup {<<s, holding[r], "callback">> : s \in to}
    /\ UNCHANGED <<life, stops, send, registry, unread, ch, got>>

\* Mutant: the IDs are walked through without the latest one.
LoopDispatchOlder(r) ==
    /\ Dispatch(r, {subs[i] : i \in ID \ {nextSubID}} \ {NoSub})
    /\ holding' = [holding EXCEPT ![r] = NoPacket]
    /\ loop' = [loop EXCEPT ![r] = "check"]

LoopDispatch(r) ==
    /\ Dispatch(r, {subs[i] : i \in ID} \ {NoSub})
    /\ holding' = [holding EXCEPT ![r] = NoPacket]
    /\ loop' = [loop EXCEPT ![r] = "check"]

\* A callback goroutine runs the callback, which says whether to push.
TaskCallback(t) ==
    /\ t[3] = "callback"
    /\ \E push \in {{}, {<<t[1], t[2], "push">>}} : tasks' = (tasks \ {t}) \cup push
    /\ UNCHANGED <<life, loops, stops, send, registry, unread, ch, got>>

Push(t) ==
    /\ t[3] = "push"
    /\ Len(ch[t[1]]) < ChanSize
    /\ ch' = [ch EXCEPT ![t[1]] = Append(@, t[2])]
    /\ got' = [got EXCEPT ![t[1]] = Append(@, t[2])]
    /\ tasks' = tasks \ {t}
    /\ UNCHANGED <<life, loops, stops, send, registry, unread>>

\* Mutant: the send on the channel blocks while it is full.
TaskPushBlocking(t) == Push(t)

TaskPush(t) ==
    \/ Push(t)
    \/ /\ t[3] = "push"
       /\ Len(ch[t[1]]) >= ChanSize
       /\ tasks' = tasks \ {t}
       /\ UNCHANGED <<life, loops, stops, send, registry, unread, ch, got>>

\* The subscriber receives from its channel, if it still does.
Receive(s) ==
    /\ ch[s] # <<>>
    /\ ch' = [ch EXCEPT ![s] = Tail(@)]
    /\ UNCHANGED <<life, loops, stops, send, registry, unread, tasks, got>>

-----------------------------------------------------------------------------
StopCall(c) == StopNotRunning(c) \/ StopListener(c) \/ StopWait(c) \/ StopReturn(c)

ReadLoop(r) == LoopCheck(r) \/ LoopReadError(r) \/ LoopAfterError(r) \/ LoopDispatch(r)

\* A panic ends the process.
Alive == \A c \in Stopper : stop[c] # "panicked"

Next ==
    /\ Alive
    /\ \/ \E r \in Run : StartListener(r) \/ StartSpawn(r) \/ ParentCancel(r)
       \/ \E c \in Stopper : StopCall(c)
       \/ \E x \in Sender : SendPacketTo(x) \/ SendWrite(x) \/ SendFails(x)
       \/ \E s \in Subscriber :
             \/ SubscribeToPacketReceived(s)
             \/ UnsubscribeFromPacketReceived(s)
             \/ Receive(s)
       \/ \E r \in Run : ReadLoop(r) \/ LoopRead(r)
       \/ \E t \in tasks : TaskCallback(t) \/ TaskPush(t)

Spec == Init /\ [][Next]_vars

\* The scheduler runs every goroutine that can run.  Reading a datagram and
\* failing to read one from an open socket are not forced.
Fairness ==
    /\ \A r \in Run :
          /\ WF_vars(Alive /\ StartSpawn(r))
          /\ WF_vars(Alive /\ (LoopCheck(r) \/ LoopAfterError(r) \/ LoopDispatch(r)))
          /\ WF_vars(Alive /\ sock[r] = "closed" /\ LoopReadError(r))
    /\ \A c \in Stopper : WF_vars(Alive /\ (StopWait(c) \/ StopReturn(c)))
    /\ \A t \in Task : WF_vars(Alive /\ t \in tasks /\ (TaskCallback(t) \/ TaskPush(t)))

FairSpec == Spec /\ Fairness

-----------------------------------------------------------------------------
(* Properties.  The ones about IDs assume fewer subscribers than IDs: NoWrap. *)

NoWrap == IsFiniteSet(Subscriber) /\ Cardinality(Subscriber) < IDModulus

\* The types of the variables; no channel holds more than its capacity.
TypeOK ==
    /\ isListening \in BOOLEAN
    /\ current \in Run \cup {NoRun}
    /\ isListening => current \in Run
    /\ sock \in [Run -> {"none", "open", "closed"}]
    /\ ctxDone \in [Run -> BOOLEAN]
    /\ loop \in [Run -> {"unborn", "starting", "done"} \cup Running]
    /\ holding \in [Run -> Packet \cup {NoPacket}]
    /\ \A r \in Run : loop[r] = "deliver" => holding[r] \in Packet
    /\ stop \in [Stopper -> {"idle", "wait", "waiting", "woken", "returned", "panicked"}]
    /\ stopped \in [Stopper -> Run \cup {NoRun}]
    /\ send \in [Sender -> Run \cup {"idle", "sent", "failed"}]
    /\ subs \in [ID -> Subscriber \cup {NoSub}]
    /\ nextSubID \in ID
    /\ subID \in [Subscriber -> ID]
    /\ member \in [Subscriber -> {"no", "yes", "left"}]
    /\ unread \in SUBSET Packet
    /\ tasks \in SUBSET Task
    /\ ch \in [Subscriber -> Seq(Packet)]
    /\ \A s \in Subscriber : Len(ch[s]) <= ChanSize
    /\ got \in [Subscriber -> Seq(Packet)]

\* However StartListener and StopListener are interleaved, the listener has an
\* open socket exactly while it says that it is listening, and only the one
\* in its conn field: no socket is leaked by a restart.
OneSocket == \A r \in Run : sock[r] = "open" <=> isListening /\ r = current

\* While the listener says that it is listening there is a loop that reads the
\* socket, or is about to be spawned, unless the caller cancelled its context.
\* Neither a read error nor the end of an earlier run's loop takes it away.
ListenerServes ==
    isListening /\ ~ctxDone[current] => loop[current] \notin {"unborn", "done"}

\* When StopListener has returned, the loop it stopped has ended, or, if
\* StartListener had not got round to spawning it, can only end: it never
\* dispatches another datagram.
StopQuiesces ==
    \A c \in Stopper : stop[c] = "returned" /\ stopped[c] # NoRun =>
       /\ ctxDone[stopped[c]]
       /\ loop[stopped[c]] \in {"starting", "check", "done"}

\* A subscriber stays in the table until it unsubscribes itself: no later
\* subscription takes its ID and no other Unsubscribe removes it.
SubscribersKept ==
    \A s \in Subscriber : member[s] = "yes" => subs[subID[s]] = s

\* No callback starts for somebody who has unsubscribed; the ones started
\* earlier may still run.
NoCallbackAfterUnsubscribe ==
    [][\A t \in tasks' \ tasks : t[3] = "callback" => member[t[1]] = "yes"]_vars

\* A datagram reaches a channel at most once, across restarts too.
DeliveredOnce ==
    \A s \in Subscriber : \A i, j \in DOMAIN got[s] : got[s][i] = got[s][j] => i = j

\* The loop of a run that was stopped ends, also when the listener has been
\* started again meanwhile and isListening is true once more.
StoppedLoopEnds ==
    \A r \in Run : sock[r] = "closed" ~> loop[r] = "done" \/ ~Alive

\* Every callback goroutine ends, also when nobody empties the channel:
\* "Safely drop package if channel is full or blocked."
CallbacksEnd == \A t \in Task : t \in tasks ~> t \notin tasks \/ ~Alive

-----------------------------------------------------------------------------
(* What a subscriber of the interface sees. *)

\* The datagrams that have not been dispatched: still to be read, or in the
\* hands of a loop.
Fresh == unread \cup ({holding[r] : r \in Run} \ {NoPacket})

\* A callback goroutine is an offer to its subscriber.
Offers == {<<t[1], t[2]>> : t \in tasks}

Bus == INSTANCE PacketBus WITH fresh <- Fresh, offers <- Offers

\* The listener implements the subscriptions of IUdpPortListener: through
\* restarts, read errors and subscriptions that come and go in between, each
\* datagram it reads is offered once, to all subscribers of that moment and to
\* nobody else.
ImplementsBus == Bus!Spec
=============================================================================
