-------------------------- MODULE UdpListenerProofs --------------------------
(***************************************************************************)
(* Proofs about UdpListener: its types, what restarting and stopping leave *)
(* of the sockets and of the read loops, who is in the table of            *)
(* subscriptions, how often a datagram is delivered, and that the listener *)
(* implements the subscription interface, for any number of runs,          *)
(* subscribers and datagrams.                                              *)
(***************************************************************************)
EXTENDS UdpListener, TLAPS, FiniteSetTheorems

\* A step leaves every variable well typed.
LEMMA TypeStep == ASSUME TypeOK, [Next]_vars PROVE TypeOK'
<1> USE ConstantsAssumption DEF life, loops, stops, registry, traffic, TypeOK, Running
<1>1. ASSUME NEW r \in Run, StartListener(r) \/ ParentCancel(r) PROVE TypeOK'
  <2>1. CASE StartListener(r)
    BY <2>1 DEF StartListener
  <2>2. CASE ParentCancel(r)
    BY <2>2 DEF ParentCancel
  <2> QED
    BY <1>1, <2>1, <2>2
<1>2. ASSUME NEW r \in Run, StartSpawn(r) PROVE TypeOK'
  BY <1>2 DEF StartSpawn
<1>3. ASSUME NEW c \in Stopper, StopNotRunning(c) PROVE TypeOK'
  BY <1>3 DEF StopNotRunning
<1>4. ASSUME NEW c \in Stopper, StopListener(c) PROVE TypeOK'
  BY <1>4, Zenon DEF StopListener, Halt
<1>5. ASSUME NEW c \in Stopper, StopWait(c) \/ StopReturn(c) PROVE TypeOK'
  <2>1. stop' \in [Stopper -> {"idle", "wait", "waiting", "woken", "returned", "panicked"}]
    <3>1. \E l \in {"returned", "waiting", "panicked"} : stop' = [stop EXCEPT ![c] = l]
      BY <1>5 DEF StopWait, StopReturn
    <3> QED
      BY <3>1
  <2>2. UNCHANGED <<life, loops, stopped, send, registry, traffic>>
    BY <1>5 DEF StopWait, StopReturn
  <2> QED
    BY <2>1, <2>2
<1>6. ASSUME NEW x \in Sender, SendPacketTo(x) \/ SendWrite(x) \/ SendFails(x) PROVE TypeOK'
  <2>1. send' \in [Sender -> Run \cup {"idle", "sent", "failed"}]
    BY <1>6 DEF SendPacketTo, SendWrite, SendFails
  <2> QED
    BY <1>6, <2>1 DEF SendPacketTo, SendWrite, SendFails
<1>7. ASSUME NEW s \in Subscriber, SubscribeToPacketReceived(s) PROVE TypeOK'
  BY <1>7, SMTT(30) DEF SubscribeToPacketReceived, Enroll, ID
<1>8. ASSUME NEW s \in Subscriber, UnsubscribeFromPacketReceived(s) PROVE TypeOK'
  BY <1>8 DEF UnsubscribeFromPacketReceived
<1>9. ASSUME NEW s \in Subscriber, Receive(s) PROVE TypeOK'
  BY <1>9 DEF Receive
<1>10. ASSUME NEW r \in Run, LoopCheck(r) \/ LoopReadError(r) \/ LoopAfterError(r) PROVE TypeOK'
  BY <1>10 DEF LoopCheck, LoopReadError, LoopAfterError
<1>11. ASSUME NEW r \in Run, LoopRead(r) PROVE TypeOK'
  BY <1>11 DEF LoopRead
<1>12. ASSUME NEW r \in Run, LoopDispatch(r) PROVE TypeOK'
  <2>1. tasks' \in SUBSET Task
    BY <1>12 DEF LoopDispatch, Dispatch, Task
  <2> QED
    BY <1>12, <2>1 DEF LoopDispatch, Dispatch
<1>13. ASSUME NEW t \in tasks, TaskCallback(t) PROVE TypeOK'
  <2>1. tasks' \in SUBSET Task
    BY <1>13 DEF TaskCallback, Task
  <2> QED
    BY <1>13, <2>1 DEF TaskCallback
<1>14. ASSUME NEW t \in tasks, TaskPush(t) PROVE TypeOK'
  <2>1. t[1] \in Subscriber /\ t[2] \in Packet
    BY DEF Task
  <2>2. CASE Push(t)
    BY <2>1, <2>2, SMTT(30) DEF Push
  <2>3. CASE ~Push(t)
    BY <1>14, <2>3 DEF TaskPush
  <2> QED
    BY <2>2, <2>3
<1>15. CASE UNCHANGED vars
  BY <1>15 DEF vars
<1> QED
  BY <1>1, <1>2, <1>3, <1>4, <1>5, <1>6, <1>7, <1>8, <1>9, <1>10, <1>11, <1>12, <1>13,
     <1>14, <1>15, Zenon DEF Next, StopCall, ReadLoop

\* Every variable of the listener keeps its type, and no channel overflows.
THEOREM Typing == Spec => []TypeOK
<1>1. Init => TypeOK
  <2> SUFFICES ASSUME Init PROVE TypeOK
    OBVIOUS
  <2>1. 0 \in ID
    BY ConstantsAssumption DEF ID
  <2>2. /\ ch \in [Subscriber -> Seq(Packet)] /\ got \in [Subscriber -> Seq(Packet)]
        /\ \A s \in Subscriber : Len(ch[s]) <= ChanSize
    BY ConstantsAssumption DEF Init
  <2> QED
    BY <2>1, <2>2, Zenon DEF Init, TypeOK
<1> QED
  BY <1>1, TypeStep, PTL DEF Spec

-----------------------------------------------------------------------------
(* Sockets and loops over restarts. *)

\* The three properties, and what they rest on: the run a StopListener stopped
\* has been started and its context is cancelled, for good.
RunInv ==
    /\ OneSocket
    /\ ListenerServes
    /\ \A c \in Stopper : stopped[c] # NoRun =>
          ctxDone[stopped[c]] /\ loop[stopped[c]] # "unborn"
    /\ StopQuiesces
    /\ \A c \in Stopper : stop[c] = "idle" => stopped[c] = NoRun
    /\ isListening => loop[current] # "unborn"

\* A step keeps the bookkeeping of the runs right.
LEMMA RunStep == ASSUME TypeOK, RunInv, [Next]_vars PROVE RunInv'
<1> USE ConstantsAssumption DEF life, loops, stops, registry, traffic, TypeOK, Running,
        RunInv, OneSocket, ListenerServes, StopQuiesces
<1>1. ASSUME UNCHANGED <<life, loop, stops>> PROVE RunInv'
  BY <1>1, Zenon
<1>2. ASSUME NEW r \in Run, StartListener(r) PROVE RunInv'
  BY <1>2 DEF StartListener
<1>3. ASSUME NEW r \in Run, StartSpawn(r) PROVE RunInv'
  BY <1>3 DEF StartSpawn
<1>4. ASSUME NEW r \in Run, ParentCancel(r) PROVE RunInv'
  BY <1>4 DEF ParentCancel
<1>5. ASSUME NEW c \in Stopper, StopNotRunning(c) PROVE RunInv'
  BY <1>5 DEF StopNotRunning
<1>6. ASSUME NEW c \in Stopper, StopListener(c) PROVE RunInv'
  BY <1>6 DEF StopListener, Halt
<1>7. ASSUME NEW c \in Stopper, StopWait(c) \/ StopReturn(c) PROVE RunInv'
  BY <1>7 DEF StopWait, StopReturn, WgZero
<1>8. ASSUME NEW r \in Run, LoopCheck(r) PROVE RunInv'
  BY <1>8 DEF LoopCheck
<1>9. ASSUME NEW r \in Run, LoopReadError(r) \/ LoopRead(r) \/ LoopDispatch(r) PROVE RunInv'
  <2>1. \E l \in {"failed", "deliver", "check"} : loop' = [loop EXCEPT ![r] = l]
    BY <1>9 DEF LoopReadError, LoopRead, LoopDispatch, Dispatch
  <2>2. loop[r] \in {"reading", "deliver"} /\ UNCHANGED <<life, stops>>
    BY <1>9 DEF LoopReadError, LoopRead, LoopDispatch, Dispatch
  <2> QED
    BY <2>1, <2>2
<1>10. ASSUME NEW r \in Run, LoopAfterError(r) PROVE RunInv'
  BY <1>10 DEF LoopAfterError
<1>11. ASSUME NEW x \in Sender, SendPacketTo(x) \/ SendWrite(x) \/ SendFails(x) PROVE RunInv'
  BY <1>1, <1>11 DEF SendPacketTo, SendWrite, SendFails
<1>12. ASSUME NEW s \in Subscriber,
              SubscribeToPacketReceived(s) \/ UnsubscribeFromPacketReceived(s) \/ Receive(s)
       PROVE  RunInv'
  BY <1>1, <1>12 DEF SubscribeToPacketReceived, Enroll, UnsubscribeFromPacketReceived, Receive
<1>13. ASSUME NEW t \in tasks, TaskCallback(t) \/ TaskPush(t) PROVE RunInv'
  BY <1>1, <1>13, Zenon DEF TaskCallback, TaskPush, Push
<1>14. CASE UNCHANGED vars
  BY <1>1, <1>14 DEF vars
<1> QED
  BY <1>2, <1>3, <1>4, <1>5, <1>6, <1>7, <1>8, <1>9, <1>10, <1>11, <1>12, <1>13, <1>14, Zenon
     DEF Next, StopCall, ReadLoop

\* Any number of StartListener and StopListener calls, however interleaved.
THEOREM Restarts == Spec => []RunInv
<1>1. Init => RunInv
  BY ConstantsAssumption DEF Init, RunInv, OneSocket, ListenerServes, StopQuiesces
<1>2. TypeOK /\ RunInv /\ [Next]_vars => RunInv'
  BY RunStep
<1> QED
  BY <1>1, <1>2, Typing, PTL DEF Spec

\* No socket is leaked: the open socket is the one in l.conn.
THEOREM SocketOwned == Spec => []OneSocket
<1>1. RunInv => OneSocket
  BY DEF RunInv
<1> QED
  BY <1>1, Restarts, PTL

\* A listener that says it is listening has a live reader.
THEOREM Served == Spec => []ListenerServes
<1>1. RunInv => ListenerServes
  BY DEF RunInv
<1> QED
  BY <1>1, Restarts, PTL

\* After StopListener the loop it stopped dispatches nothing more.
THEOREM Quiesced == Spec => []StopQuiesces
<1>1. RunInv => StopQuiesces
  BY DEF RunInv
<1> QED
  BY <1>1, Restarts, PTL

\* How many steps of its own a loop that was stopped has before it.
StepsLeft(l) ==
    IF l = "reading" THEN 3
    ELSE IF l \in {"starting", "failed", "deliver"} THEN 2
    ELSE IF l = "check" THEN 1 ELSE 0

\* The socket of a run is closed by the StopListener that cancels its context, and
\* a context stays cancelled.
StoppedInv == \A r \in Run : sock[r] = "closed" => ctxDone[r] /\ loop[r] # "unborn"

\* A loop that was stopped only gets nearer to its end: every step it still takes
\* is one of at most three, none of them reads a datagram, and a StartListener
\* that sets isListening again, for another run, does not send it back.  With
\* the scheduling of FairSpec this is StoppedLoopEnds.
StoppedWindsUp ==
    [][\A r \in Run : sock[r] = "closed" =>
          /\ sock'[r] = "closed"
          /\ loop'[r] # loop[r] => StepsLeft(loop'[r]) < StepsLeft(loop[r])
          /\ holding'[r] \in {holding[r], NoPacket}]_vars

\* A step of the loop of one run, its context being cancelled.
LEMMA WindUp ==
  ASSUME TypeOK, NEW r \in Run, ReadLoop(r) \/ LoopRead(r)
  PROVE  /\ UNCHANGED <<sock, ctxDone>>
         /\ \A q \in Run : q # r => loop'[q] = loop[q] /\ holding'[q] = holding[q]
         /\ loop'[r] # "unborn"
         /\ sock[r] = "closed" /\ ctxDone[r] =>
               /\ StepsLeft(loop'[r]) < StepsLeft(loop[r])
               /\ holding'[r] \in {holding[r], NoPacket}
<1> USE DEF life, loops, TypeOK, StepsLeft
<1>1. CASE LoopCheck(r)
  BY <1>1 DEF LoopCheck
<1>2. CASE LoopReadError(r)
  BY <1>2 DEF LoopReadError
<1>3. CASE LoopAfterError(r)
  BY <1>3 DEF LoopAfterError
<1>4. CASE LoopDispatch(r)
  BY <1>4 DEF LoopDispatch, Dispatch
<1>5. CASE LoopRead(r)
  BY <1>5 DEF LoopRead
<1> QED
  BY <1>1, <1>2, <1>3, <1>4, <1>5, Zenon DEF ReadLoop

\* A run that was stopped, over one step.
LEMMA StoppedStep ==
  ASSUME TypeOK, RunInv, StoppedInv, [Next]_vars
  PROVE  /\ StoppedInv'
         /\ \A r \in Run : sock[r] = "closed" =>
               /\ sock'[r] = "closed"
               /\ loop'[r] # loop[r] => StepsLeft(loop'[r]) < StepsLeft(loop[r])
               /\ holding'[r] \in {holding[r], NoPacket}
<1> DEFINE Goal ==
         /\ StoppedInv'
         /\ \A r \in Run : sock[r] = "closed" =>
               /\ sock'[r] = "closed"
               /\ loop'[r] # loop[r] => StepsLeft(loop'[r]) < StepsLeft(loop[r])
               /\ holding'[r] \in {holding[r], NoPacket}
<1> USE DEF life, loops, stops, registry, traffic
<1>1. ASSUME UNCHANGED <<sock, ctxDone, loop, holding>> PROVE Goal
  BY <1>1, Zenon DEF StoppedInv
<1>2. ASSUME NEW r \in Run, StartListener(r) PROVE Goal
  BY <1>2 DEF StartListener, StoppedInv, TypeOK
<1>3. ASSUME NEW r \in Run, StartSpawn(r) PROVE Goal
  BY <1>3 DEF StartSpawn, StoppedInv, TypeOK, StepsLeft
<1>4. ASSUME NEW r \in Run, ParentCancel(r) PROVE Goal
  BY <1>4 DEF ParentCancel, StoppedInv, TypeOK
<1>5. ASSUME NEW c \in Stopper, StopListener(c) PROVE Goal
  BY <1>5 DEF StopListener, Halt, StoppedInv, TypeOK, RunInv
<1>6. ASSUME NEW c \in Stopper, StopNotRunning(c) \/ StopWait(c) \/ StopReturn(c) PROVE Goal
  BY <1>1, <1>6, Zenon DEF StopNotRunning, StopWait, StopReturn
<1>7. ASSUME NEW r \in Run, ReadLoop(r) \/ LoopRead(r) PROVE Goal
  <2>1. /\ UNCHANGED <<sock, ctxDone>>
        /\ \A q \in Run : q # r => loop'[q] = loop[q] /\ holding'[q] = holding[q]
        /\ loop'[r] # "unborn"
        /\ sock[r] = "closed" /\ ctxDone[r] =>
              /\ StepsLeft(loop'[r]) < StepsLeft(loop[r])
              /\ holding'[r] \in {holding[r], NoPacket}
    BY <1>7, WindUp
  <2>2. sock' = sock /\ ctxDone' = ctxDone
    BY <2>1
  <2> QED
    BY <2>1, <2>2, Zenon DEF StoppedInv
<1>8. ASSUME NEW x \in Sender, SendPacketTo(x) \/ SendWrite(x) \/ SendFails(x) PROVE Goal
  BY <1>1, <1>8, Zenon DEF SendPacketTo, SendWrite, SendFails
<1>9. ASSUME NEW s \in Subscriber,
             SubscribeToPacketReceived(s) \/ UnsubscribeFromPacketReceived(s) \/ Receive(s)
      PROVE  Goal
  BY <1>1, <1>9, Zenon DEF SubscribeToPacketReceived, Enroll, UnsubscribeFromPacketReceived, Receive
<1>10. ASSUME NEW t \in tasks, TaskCallback(t) \/ TaskPush(t) PROVE Goal
  BY <1>1, <1>10, Zenon DEF TaskCallback, TaskPush, Push
<1>11. ASSUME UNCHANGED vars PROVE Goal
  BY <1>1, <1>11, Zenon DEF vars
<1> HIDE DEF Goal
<1>12. Goal
  BY <1>2, <1>3, <1>4, <1>5, <1>6, <1>7, <1>8, <1>9, <1>10, <1>11, Zenon DEF Next, StopCall
<1> QED
  BY <1>12, Zenon DEF Goal

\* For any number of restarts: a loop whose run was stopped takes at most three
\* more steps.
THEOREM StoppedLoopsWindUp == Spec => StoppedWindsUp
<1>1. Init => StoppedInv
  BY DEF Init, StoppedInv
<1>2. TypeOK /\ RunInv /\ StoppedInv /\ [Next]_vars
      => /\ StoppedInv'
         /\ [\A r \in Run : sock[r] = "closed" =>
                /\ sock'[r] = "closed"
                /\ loop'[r] # loop[r] => StepsLeft(loop'[r]) < StepsLeft(loop[r])
                /\ holding'[r] \in {holding[r], NoPacket}]_vars
  BY StoppedStep, Zenon
<1> QED
  BY <1>1, <1>2, Typing, Restarts, PTL DEF Spec, StoppedWindsUp

-----------------------------------------------------------------------------
(* Subscriptions. *)

Subscribed == {s \in Subscriber : member[s] # "no"}

\* IDs are given out in order and never twice, so that the table holds the
\* subscribers that have not left, each under its own ID.
SubInv ==
    /\ nextSubID = Cardinality(Subscribed)
    /\ \A s \in Subscribed : 1 <= subID[s] /\ subID[s] <= nextSubID
    /\ \A s, u \in Subscribed : subID[s] = subID[u] => s = u
    /\ SubscribersKept
    /\ \A i \in ID : subs[i] # NoSub => member[subs[i]] = "yes" /\ subID[subs[i]] = i

\* The next ID is a new one.
LEMMA NewID ==
  ASSUME NoWrap, TypeOK, SubInv, NEW s \in Subscriber, member[s] = "no"
  PROVE  /\ (nextSubID + 1) % IDModulus = nextSubID + 1
         /\ Cardinality(Subscribed \cup {s}) = nextSubID + 1
<1>1. Subscribed \subseteq Subscriber /\ Subscribed \cup {s} \subseteq Subscriber /\ s \notin Subscribed
  BY DEF Subscribed
<1>2. IsFiniteSet(Subscribed) /\ Cardinality(Subscribed \cup {s}) = Cardinality(Subscribed) + 1
  BY <1>1, FS_Subset, FS_AddElement DEF NoWrap
<1>3. Cardinality(Subscribed \cup {s}) <= Cardinality(Subscriber)
  BY <1>1, FS_Subset DEF NoWrap
<1>4. /\ Cardinality(Subscriber) \in Nat /\ Cardinality(Subscriber) < IDModulus
      /\ Cardinality(Subscribed) \in Nat /\ nextSubID = Cardinality(Subscribed)
  BY <1>2, FS_CardinalityType DEF NoWrap, SubInv
<1> QED
  BY <1>2, <1>3, <1>4, ConstantsAssumption

\* A step that does not subscribe or unsubscribe leaves the table alone.
LEMMA RegistryFrame ==
  ASSUME Next, \A s \in Subscriber :
                  ~SubscribeToPacketReceived(s) /\ ~UnsubscribeFromPacketReceived(s)
  PROVE  UNCHANGED registry
<1> USE DEF life, loops, stops, registry, traffic
<1>1. ASSUME NEW r \in Run, StartListener(r) \/ StartSpawn(r) \/ ParentCancel(r)
      PROVE  UNCHANGED registry
  BY <1>1, Zenon DEF StartListener, StartSpawn, ParentCancel
<1>2. ASSUME NEW c \in Stopper, StopCall(c) PROVE UNCHANGED registry
  BY <1>2, Zenon DEF StopCall, StopNotRunning, StopListener, Halt, StopWait, StopReturn
<1>3. ASSUME NEW x \in Sender, SendPacketTo(x) \/ SendWrite(x) \/ SendFails(x)
      PROVE  UNCHANGED registry
  BY <1>3, Zenon DEF SendPacketTo, SendWrite, SendFails
<1>4. ASSUME NEW s \in Subscriber, Receive(s) PROVE UNCHANGED registry
  BY <1>4, Zenon DEF Receive
<1>5. ASSUME NEW r \in Run, ReadLoop(r) \/ LoopRead(r) PROVE UNCHANGED registry
  BY <1>5, Zenon DEF ReadLoop, LoopCheck, LoopRead, LoopReadError, LoopAfterError,
     LoopDispatch, Dispatch
<1>6. ASSUME NEW t \in tasks, TaskCallback(t) \/ TaskPush(t) PROVE UNCHANGED registry
  BY <1>6, Zenon DEF TaskCallback, TaskPush, Push
<1> QED
  BY <1>1, <1>2, <1>3, <1>4, <1>5, <1>6, Zenon DEF Next

\* A step keeps the table right.
LEMMA SubStep == ASSUME NoWrap, TypeOK, SubInv, [Next]_vars PROVE SubInv'
<1>1. ASSUME UNCHANGED registry PROVE SubInv'
  BY <1>1, Zenon DEF SubInv, Subscribed, SubscribersKept, registry
<1>2. ASSUME NEW s \in Subscriber, SubscribeToPacketReceived(s) PROVE SubInv'
  <2> DEFINE n == nextSubID + 1
  <2>1. /\ member[s] = "no" /\ nextSubID' = n /\ n \in ID /\ nextSubID \in Nat
        /\ subID' = [subID EXCEPT ![s] = n]
        /\ subs' = [subs EXCEPT ![n] = s]
        /\ member' = [member EXCEPT ![s] = "yes"]
    <3>1. member[s] = "no"
      BY <1>2 DEF SubscribeToPacketReceived, Enroll
    <3>2. (nextSubID + 1) % IDModulus = n
      BY <3>1, NewID
    <3>3. n \in ID /\ nextSubID \in Nat
      BY <3>2, ConstantsAssumption DEF TypeOK, ID
    <3> QED
      BY <1>2, <3>1, <3>2, <3>3, Zenon DEF SubscribeToPacketReceived, Enroll
  <2> HIDE DEF n
  <2>2. Subscribed' = Subscribed \cup {s}
    BY <2>1 DEF Subscribed, TypeOK
  <2>3. nextSubID' = Cardinality(Subscribed')
    BY <2>1, <2>2, NewID DEF n
  <2>4. \A u \in Subscribed : u # s /\ u \in Subscriber /\ subID'[u] = subID[u] /\ subID[u] # n
    <3> SUFFICES ASSUME NEW u \in Subscribed
                 PROVE  u # s /\ u \in Subscriber /\ subID'[u] = subID[u] /\ subID[u] # n
      OBVIOUS
    <3>1. u # s /\ u \in Subscriber
      BY <2>1 DEF Subscribed
    <3>2. subID[u] \in Nat /\ subID[u] <= nextSubID
      BY <3>1 DEF SubInv, TypeOK, ID
    <3> QED
      BY <2>1, <3>1, <3>2 DEF TypeOK, n
  <2>5. \A u \in Subscribed' : 1 <= subID'[u] /\ subID'[u] <= nextSubID'
    <3>1. 1 <= n /\ \A k \in ID : k <= nextSubID => k <= n
      BY <2>1 DEF n, ID
    <3>2. subID'[s] = n
      BY <2>1 DEF TypeOK
    <3>3. \A u \in Subscribed : 1 <= subID'[u] /\ subID'[u] <= n
      BY <2>4, <3>1 DEF SubInv, TypeOK
    <3> QED
      BY <2>1, <2>2, <3>1, <3>2, <3>3 DEF n
  <2>6. \A u, v \in Subscribed' : subID'[u] = subID'[v] => u = v
    <3>1. subID'[s] = n
      BY <2>1 DEF TypeOK
    <3>2. \A u, v \in Subscribed : subID'[u] = subID'[v] => u = v
      BY <2>4 DEF SubInv
    <3> QED
      BY <2>2, <2>4, <3>1, <3>2
  <2>7. SubscribersKept'
    <3> SUFFICES ASSUME NEW u \in Subscriber, member'[u] = "yes" PROVE subs'[subID'[u]] = u
      BY DEF SubscribersKept
    <3>1. CASE u = s
      BY <2>1, <3>1 DEF TypeOK
    <3>2. CASE u # s
      <4>1. member[u] = "yes" /\ u \in Subscribed
        BY <2>1, <3>2 DEF TypeOK, Subscribed
      <4> QED
        BY <2>1, <2>4, <4>1 DEF TypeOK, SubInv, SubscribersKept
    <3> QED
      BY <3>1, <3>2
  <2>8. \A i \in ID : subs'[i] # NoSub => member'[subs'[i]] = "yes" /\ subID'[subs'[i]] = i
    <3> SUFFICES ASSUME NEW i \in ID, subs'[i] # NoSub
                 PROVE  member'[subs'[i]] = "yes" /\ subID'[subs'[i]] = i
      OBVIOUS
    <3>1. CASE i = n
      BY <2>1, <3>1 DEF TypeOK
    <3>2. CASE i # n
      <4>1. subs'[i] = subs[i] /\ subs[i] \in Subscriber /\ member[subs[i]] = "yes"
            /\ subID[subs[i]] = i
        BY <2>1, <3>2 DEF TypeOK, SubInv
      <4> QED
        BY <2>1, <4>1 DEF TypeOK
    <3> QED
      BY <3>1, <3>2
  <2> QED
    BY <2>3, <2>5, <2>6, <2>7, <2>8, Zenon DEF SubInv
<1>3. ASSUME NEW s \in Subscriber, UnsubscribeFromPacketReceived(s) PROVE SubInv'
  <2>1. /\ member[s] = "yes" /\ UNCHANGED <<nextSubID, subID>>
        /\ subs' = [subs EXCEPT ![subID[s]] = NoSub]
        /\ member' = [member EXCEPT ![s] = "left"]
    BY <1>3 DEF UnsubscribeFromPacketReceived
  <2>2. Subscribed' = Subscribed
    BY <2>1 DEF Subscribed, TypeOK
  <2>3. \A u \in Subscriber : member'[u] = "yes" => u # s /\ member[u] = "yes" /\ subID[u] # subID[s]
    <3> SUFFICES ASSUME NEW u \in Subscriber, member'[u] = "yes"
                 PROVE  u # s /\ member[u] = "yes" /\ subID[u] # subID[s]
      OBVIOUS
    <3>1. u # s /\ member[u] = "yes"
      BY <2>1 DEF TypeOK
    <3>2. u \in Subscribed /\ s \in Subscribed
      BY <2>1, <3>1 DEF Subscribed
    <3> QED
      BY <3>1, <3>2 DEF SubInv
  <2>4. SubscribersKept'
    BY <2>1, <2>3 DEF TypeOK, SubInv, SubscribersKept
  <2>5. \A i \in ID : subs'[i] # NoSub => member'[subs'[i]] = "yes" /\ subID'[subs'[i]] = i
    <3> SUFFICES ASSUME NEW i \in ID, subs'[i] # NoSub
                 PROVE  member'[subs'[i]] = "yes" /\ subID'[subs'[i]] = i
      OBVIOUS
    <3>1. subs'[i] = subs[i] /\ i # subID[s] /\ subs[i] \in Subscriber
      BY <2>1 DEF TypeOK
    <3>2. member[subs[i]] = "yes" /\ subID[subs[i]] = i
      BY <3>1 DEF SubInv
    <3> QED
      BY <2>1, <3>1, <3>2 DEF TypeOK
  <2> QED
    BY <2>1, <2>2, <2>4, <2>5, Zenon DEF SubInv
<1>4. CASE UNCHANGED vars
  BY <1>1, <1>4 DEF vars
<1> QED
  BY <1>1, <1>2, <1>3, <1>4, RegistryFrame, Zenon

\* The table is right in every state, as long as the IDs do not wrap around.
LEMMA Subscriptions == ASSUME NoWrap PROVE Spec => []SubInv
<1>1. Init => SubInv
  <2> SUFFICES ASSUME Init PROVE SubInv
    OBVIOUS
  <2>1. Subscribed = {}
    BY DEF Init, Subscribed
  <2> QED
    BY <2>1, FS_EmptySet, Zenon DEF Init, SubInv, SubscribersKept, Subscribed
<1> QED
  BY <1>1, SubStep, Typing, PTL DEF Spec

\* A subscriber stays in the table until it unsubscribes itself.
THEOREM SubscribersStay == ASSUME NoWrap PROVE Spec => []SubscribersKept
<1>1. SubInv => SubscribersKept
  BY DEF SubInv
<1> QED
  BY <1>1, Subscriptions, PTL

-----------------------------------------------------------------------------
(* Datagrams. *)

Got(s, p) == \E i \in DOMAIN got[s] : got[s][i] = p

\* A datagram is at one place: unread, with one loop, or dispatched; and then,
\* for each subscriber, with one goroutine or once in the channel.
OnceInv ==
    /\ \A r \in Run : loop[r] # "deliver" => holding[r] = NoPacket
    /\ \A r \in Run : holding[r] \notin unread
    /\ \A r, q \in Run : holding[r] = holding[q] /\ holding[r] # NoPacket => r = q
    /\ \A t \in tasks : t[2] \notin Fresh
    /\ \A t, u \in tasks : t[1] = u[1] /\ t[2] = u[2] => t = u
    /\ \A s \in Subscriber : \A p \in Fresh : ~Got(s, p)
    /\ \A t \in tasks : ~Got(t[1], t[2])
    /\ DeliveredOnce

\* A step that moves no datagram.
Quiet ==
    /\ UNCHANGED <<unread, holding, tasks, got>>
    /\ \A r \in Run : loop'[r] = loop[r] \/ loop[r] # "deliver"

\* The steps that move a datagram are those of a loop that reads or dispatches
\* and those of the callback goroutines.
LEMMA StepKinds ==
  ASSUME TypeOK, [Next]_vars
  PROVE  \/ Quiet
         \/ \E r \in Run : LoopRead(r) \/ LoopDispatch(r)
         \/ \E t \in tasks : TaskCallback(t) \/ TaskPush(t)
<1> USE DEF life, loops, stops, registry, traffic, TypeOK
<1>1. ASSUME UNCHANGED <<loops, unread, tasks, got>> PROVE Quiet
  BY <1>1, Zenon DEF Quiet
<1>2. ASSUME NEW r \in Run, NEW l, loop' = [loop EXCEPT ![r] = l], loop[r] # "deliver",
             UNCHANGED <<unread, holding, tasks, got>>
      PROVE  Quiet
  BY <1>2, Zenon DEF Quiet
<1>3. ASSUME NEW r \in Run, StartListener(r) \/ StartSpawn(r) PROVE Quiet
  BY <1>2, <1>3, Zenon DEF StartListener, StartSpawn
<1>4. ASSUME NEW r \in Run, ParentCancel(r) PROVE Quiet
  BY <1>1, <1>4, Zenon DEF ParentCancel
<1>5. ASSUME NEW c \in Stopper, StopCall(c) PROVE Quiet
  BY <1>1, <1>5, Zenon DEF StopCall, StopNotRunning, StopListener, Halt, StopWait, StopReturn
<1>6. ASSUME NEW x \in Sender, SendPacketTo(x) \/ SendWrite(x) \/ SendFails(x) PROVE Quiet
  BY <1>1, <1>6, Zenon DEF SendPacketTo, SendWrite, SendFails
<1>7. ASSUME NEW s \in Subscriber,
             SubscribeToPacketReceived(s) \/ UnsubscribeFromPacketReceived(s) \/ Receive(s)
      PROVE  Quiet
  BY <1>1, <1>7, Zenon DEF SubscribeToPacketReceived, Enroll, UnsubscribeFromPacketReceived,
     Receive
<1>8. ASSUME NEW r \in Run, LoopCheck(r) \/ LoopReadError(r) \/ LoopAfterError(r) PROVE Quiet
  BY <1>2, <1>8, Zenon DEF LoopCheck, LoopReadError, LoopAfterError
<1>9. CASE UNCHANGED vars
  BY <1>1, <1>9, Zenon DEF vars
<1> QED
  BY <1>3, <1>4, <1>5, <1>6, <1>7, <1>8, <1>9, Zenon DEF Next, ReadLoop

\* A loop that reads takes a datagram from the socket into its hands.
LEMMA ReadFresh ==
  ASSUME TypeOK, OnceInv, NEW r \in Run, LoopRead(r)
  PROVE  /\ Fresh' = Fresh
         /\ UNCHANGED <<tasks, got>>
         /\ \E p \in unread : /\ holding' = [holding EXCEPT ![r] = p]
                              /\ unread' = unread \ {p}
         /\ loop' = [loop EXCEPT ![r] = "deliver"]
<1>1. PICK p \in unread : holding' = [holding EXCEPT ![r] = p] /\ unread' = unread \ {p}
  BY DEF LoopRead
<1>2. holding[r] = NoPacket /\ p # NoPacket
  BY ConstantsAssumption DEF LoopRead, OnceInv, TypeOK
<1>3. \A q \in Run : holding'[q] = IF q = r THEN p ELSE holding[q]
  BY <1>1 DEF TypeOK
<1>4. Fresh' = Fresh
  BY <1>1, <1>2, <1>3 DEF Fresh
<1> QED
  BY <1>1, <1>4 DEF LoopRead

\* A loop that dispatches gives its datagram to those in the table.
LEMMA DispatchFresh ==
  ASSUME TypeOK, OnceInv, NEW r \in Run, LoopDispatch(r)
  PROVE  /\ holding[r] \in Fresh /\ holding[r] \in Packet
         /\ Fresh' = Fresh \ {holding[r]}
         /\ holding' = [holding EXCEPT ![r] = NoPacket]
         /\ loop' = [loop EXCEPT ![r] = "check"]
         /\ tasks' = tasks \cup {<<s, holding[r], "callback">> : s \in {subs[i] : i \in ID} \ {NoSub}}
         /\ UNCHANGED <<unread, got, member>>
<1>1. /\ holding' = [holding EXCEPT ![r] = NoPacket]
      /\ loop' = [loop EXCEPT ![r] = "check"]
      /\ tasks' = tasks \cup {<<s, holding[r], "callback">> : s \in {subs[i] : i \in ID} \ {NoSub}}
      /\ UNCHANGED <<unread, got, member>>
  BY Zenon DEF LoopDispatch, Dispatch, registry
<1>2. holding[r] \in Packet /\ holding[r] # NoPacket
  BY ConstantsAssumption DEF LoopDispatch, Dispatch, TypeOK
<1>3. holding[r] \in Fresh /\ holding[r] \notin unread
  BY <1>2 DEF Fresh, OnceInv
<1>4. \A q \in Run : holding'[q] = IF q = r THEN NoPacket ELSE holding[q]
  BY <1>1 DEF TypeOK
<1>5. \A q \in Run : holding[q] = holding[r] => q = r
  BY <1>2 DEF OnceInv
<1>6. Fresh' = Fresh \ {holding[r]}
  BY <1>1, <1>2, <1>3, <1>4, <1>5 DEF Fresh
<1> QED
  BY <1>1, <1>2, <1>3, <1>6

\* What a callback goroutine does: it goes on to push, gives up, or pushes.
LEMMA TaskKinds ==
  ASSUME TypeOK, NEW t \in tasks, TaskCallback(t) \/ TaskPush(t)
  PROVE  /\ t \in Task /\ UNCHANGED <<unread, holding, loop, member>>
         /\ \/ tasks' = tasks \ {t} /\ got' = got
            \/ tasks' = (tasks \ {t}) \cup {<<t[1], t[2], "push">>} /\ got' = got
            \/ tasks' = tasks \ {t} /\ got' = [got EXCEPT ![t[1]] = Append(@, t[2])]
<1>1. t \in Task
  BY DEF TypeOK
<1>2. CASE TaskCallback(t)
  BY <1>1, <1>2 DEF TaskCallback, loops, registry
<1>3. CASE TaskPush(t)
  BY <1>1, <1>3, Zenon DEF TaskPush, Push, loops, registry
<1> QED
  BY <1>2, <1>3

\* A step keeps every datagram at one place.
LEMMA OnceStep == ASSUME NoWrap, TypeOK, SubInv, OnceInv, [Next]_vars PROVE OnceInv'
<1>0. ASSUME got' = got
      PROVE  (\A s \in Subscriber : \A x : Got(s, x)' <=> Got(s, x)) /\ DeliveredOnce'
  BY <1>0 DEF Got, OnceInv, DeliveredOnce
<1>1. CASE Quiet
  <2>1. Fresh' = Fresh /\ UNCHANGED <<unread, holding, tasks, got>>
    BY <1>1 DEF Quiet, Fresh
  <2>2. \A t \in tasks : t[1] \in Subscriber
    BY DEF TypeOK, Task
  <2>3. \A r \in Run : loop'[r] # "deliver" => holding'[r] = NoPacket
    BY <1>1 DEF Quiet, OnceInv
  <2> QED
    BY <1>0, <2>1, <2>2, <2>3 DEF OnceInv
<1>2. ASSUME NEW r \in Run, LoopRead(r) PROVE OnceInv'
  <2>1. Fresh' = Fresh /\ UNCHANGED <<tasks, got>> /\ loop' = [loop EXCEPT ![r] = "deliver"]
    BY <1>2, ReadFresh
  <2>2. PICK p \in unread : holding' = [holding EXCEPT ![r] = p] /\ unread' = unread \ {p}
    BY <1>2, ReadFresh
  <2>3. \A q \in Run : holding'[q] = IF q = r THEN p ELSE holding[q]
    BY <2>2 DEF TypeOK
  <2>4. /\ \A q \in Run : loop'[q] # "deliver" => holding'[q] = NoPacket
        /\ \A q \in Run : holding'[q] \notin unread'
        /\ \A q, x \in Run : holding'[q] = holding'[x] /\ holding'[q] # NoPacket => q = x
    BY <2>1, <2>2, <2>3 DEF OnceInv, TypeOK
  <2>5. /\ \A t \in tasks' : t[2] \notin Fresh'
        /\ \A t, u \in tasks' : t[1] = u[1] /\ t[2] = u[2] => t = u
        /\ \A s \in Subscriber : \A x \in Fresh' : ~Got(s, x)'
        /\ \A t \in tasks' : ~Got(t[1], t[2])'
        /\ DeliveredOnce'
    <3>1. \A t \in tasks : t[1] \in Subscriber
      BY DEF TypeOK, Task
    <3> QED
      BY <1>0, <2>1, <3>1 DEF OnceInv
  <2> QED
    BY <2>4, <2>5, Zenon DEF OnceInv
<1>3. ASSUME NEW r \in Run, LoopDispatch(r) PROVE OnceInv'
  <2> DEFINE p == holding[r]
             new == {<<s, p, "callback">> : s \in {subs[i] : i \in ID} \ {NoSub}}
  <2>1. /\ p \in Fresh /\ Fresh' = Fresh \ {p}
        /\ holding' = [holding EXCEPT ![r] = NoPacket]
        /\ loop' = [loop EXCEPT ![r] = "check"]
        /\ tasks' = tasks \cup new
        /\ UNCHANGED <<unread, got>>
    BY <1>3, DispatchFresh
  <2>2. \A t \in new : t[1] \in Subscriber /\ t[2] = p /\ t = <<t[1], p, "callback">>
    BY DEF TypeOK
  <2>3. \A t \in tasks : t[2] # p
    BY <2>1 DEF OnceInv
  <2> HIDE DEF new, p
  <2>4. \A q \in Run : holding'[q] = IF q = r THEN NoPacket ELSE holding[q]
    BY <2>1 DEF TypeOK
  <2>5. /\ \A q \in Run : loop'[q] # "deliver" => holding'[q] = NoPacket
        /\ \A q \in Run : holding'[q] \notin unread'
        /\ \A q, x \in Run : holding'[q] = holding'[x] /\ holding'[q] # NoPacket => q = x
    <3>1. \A q \in Run : loop'[q] # "deliver" => q = r \/ loop[q] # "deliver"
      BY <2>1 DEF TypeOK
    <3>2. NoPacket \notin unread
      BY ConstantsAssumption DEF TypeOK
    <3>3. holding'[r] = NoPacket /\ unread' = unread
          /\ \A q \in Run : q # r => holding'[q] = holding[q]
      BY <2>1, <2>4, Zenon
    <3>4. \A q \in Run : loop'[q] # "deliver" => holding'[q] = NoPacket
      BY <3>1, <3>3, Zenon DEF OnceInv
    <3>5. \A q \in Run : holding'[q] \notin unread'
      BY <3>2, <3>3, Zenon DEF OnceInv
    <3>6. ASSUME NEW q \in Run, NEW x \in Run, holding'[q] = holding'[x], holding'[q] # NoPacket
          PROVE  q = x
      <4>1. q # r /\ x # r
        BY <3>3, <3>6, Zenon
      <4>2. holding[q] = holding[x] /\ holding[q] # NoPacket
        BY <3>3, <3>6, <4>1, Zenon
      <4> QED
        BY <4>2, Zenon DEF OnceInv
    <3> QED
      BY <3>4, <3>5, <3>6, Zenon
  <2>6. \A t \in tasks' : t[2] \notin Fresh'
    BY <2>1, <2>2, Zenon DEF OnceInv
  <2>7. \A t, u \in tasks' : t[1] = u[1] /\ t[2] = u[2] => t = u
    BY <2>1, <2>2, <2>3 DEF OnceInv
  <2>8. /\ \A s \in Subscriber : \A x \in Fresh' : ~Got(s, x)'
        /\ DeliveredOnce'
    <3>1. got' = got /\ \A x \in Fresh' : x \in Fresh
      BY <2>1, Zenon
    <3>2. \A s \in Subscriber : \A x \in Fresh : ~Got(s, x)
      BY Zenon DEF OnceInv
    <3> QED
      BY <1>0, <3>1, <3>2, Zenon
  <2>9. \A t \in tasks' : ~Got(t[1], t[2])'
    <3>1. \A t \in tasks : ~Got(t[1], t[2])'
      BY <2>1 DEF OnceInv, Got
    <3>2. \A t \in new : ~Got(t[1], t[2])
      BY <2>1, <2>2 DEF OnceInv
    <3>3. \A t \in new : ~Got(t[1], t[2])'
      BY <2>1, <3>2 DEF Got
    <3> QED
      BY <2>1, <3>1, <3>3
  <2> QED
    BY <2>5, <2>6, <2>7, <2>8, <2>9, Zenon DEF OnceInv
<1>4. ASSUME NEW t \in tasks, TaskCallback(t) \/ TaskPush(t) PROVE OnceInv'
  <2>1. t \in Task /\ UNCHANGED <<unread, holding, loop>>
    BY <1>4, TaskKinds
  <2>2. t[1] \in Subscriber /\ t[2] \in Packet
    BY <2>1 DEF Task
  <2>3. Fresh' = Fresh
    BY <2>1 DEF Fresh
  <2>a. \A v \in tasks : /\ v[1] \in Subscriber
                        /\ v # t => ~(v[1] = t[1] /\ v[2] = t[2])
    BY DEF OnceInv, TypeOK, Task
  <2>4. CASE tasks' = tasks \ {t} /\ got' = got
    <3>1. \A v \in tasks' : v[2] \notin Fresh' /\ ~Got(v[1], v[2])'
      BY <2>3, <2>4 DEF OnceInv, Got
    <3>2. \A s \in Subscriber : \A x \in Fresh' : ~Got(s, x)'
      BY <1>0, <2>3, <2>4 DEF OnceInv
    <3>3. \A v, w \in tasks' : v[1] = w[1] /\ v[2] = w[2] => v = w
      BY <2>4 DEF OnceInv
    <3> QED
      BY <1>0, <2>1, <2>4, <3>1, <3>2, <3>3, Zenon DEF OnceInv
  <2>5. CASE tasks' = (tasks \ {t}) \cup {<<t[1], t[2], "push">>} /\ got' = got
    <3> DEFINE u == <<t[1], t[2], "push">>
    <3>1. u[1] = t[1] /\ u[2] = t[2]
      OBVIOUS
    <3>2. \A v \in tasks' : v = u \/ (v \in tasks /\ v # t)
      BY <2>5
    <3> HIDE DEF u
    <3>3. \A v, w \in tasks' : v[1] = w[1] /\ v[2] = w[2] => v = w
      BY <3>1, <3>2, <2>a DEF OnceInv
    <3>4. \A v \in tasks' : v[2] \notin Fresh' /\ ~Got(v[1], v[2])'
      <4>1. t[2] \notin Fresh' /\ ~Got(t[1], t[2])'
        BY <1>0, <2>2, <2>3, <2>5, Zenon DEF OnceInv
      <4>2. \A v \in tasks : v[2] \notin Fresh' /\ ~Got(v[1], v[2])'
        BY <2>3, <2>5 DEF OnceInv, Got
      <4> QED
        BY <3>1, <3>2, <4>1, <4>2, Zenon
    <3>5. /\ \A s \in Subscriber : \A x \in Fresh' : ~Got(s, x)'
          /\ DeliveredOnce'
      BY <1>0, <2>3, <2>5 DEF OnceInv
    <3> QED
      BY <2>1, <3>3, <3>4, <3>5, Zenon DEF OnceInv
  <2>6. CASE tasks' = tasks \ {t} /\ got' = [got EXCEPT ![t[1]] = Append(@, t[2])]
    <3>1. \A s \in Subscriber : got'[s] = IF s = t[1] THEN Append(got[s], t[2]) ELSE got[s]
      BY <2>2, <2>6 DEF TypeOK
    <3>2. \A s \in Subscriber, x \in Packet : Got(s, x)' <=> Got(s, x) \/ (s = t[1] /\ x = t[2])
      <4> SUFFICES ASSUME NEW s \in Subscriber, NEW x \in Packet
                   PROVE  Got(s, x)' <=> Got(s, x) \/ (s = t[1] /\ x = t[2])
        OBVIOUS
      <4>1. CASE s # t[1]
        BY <3>1, <4>1 DEF Got
      <4>2. CASE s = t[1]
        <5>1. got[s] \in Seq(Packet) /\ got'[s] = Append(got[s], t[2])
          BY <3>1, <4>2 DEF TypeOK
        <5>2. /\ DOMAIN got'[s] = DOMAIN got[s] \cup {Len(got[s]) + 1}
              /\ \A i \in DOMAIN got[s] : got'[s][i] = got[s][i]
              /\ got'[s][Len(got[s]) + 1] = t[2]
          BY <5>1, <2>2
        <5> QED
          BY <4>2, <5>2, Zenon DEF Got
      <4> QED
        BY <4>1, <4>2
    <3>3. \A v \in tasks' : /\ v \in tasks /\ v[1] \in Subscriber /\ v[2] \in Packet
                            /\ ~(v[1] = t[1] /\ v[2] = t[2])
      BY <2>6 DEF OnceInv, TypeOK, Task
    <3>4. \A v \in tasks' : ~Got(v[1], v[2])'
      BY <3>2, <3>3, Zenon DEF OnceInv
    <3>5. Fresh \subseteq Packet
      <4>1. unread \subseteq Packet /\ \A q \in Run : holding[q] \in Packet \cup {NoPacket}
        BY DEF TypeOK
      <4> QED
        BY <4>1, Zenon DEF Fresh
    <3>6. \A s \in Subscriber : \A x \in Fresh' : ~Got(s, x)'
      BY <2>3, <3>2, <3>5, Zenon DEF OnceInv
    <3>7. ASSUME NEW s \in Subscriber, NEW i \in DOMAIN got'[s], NEW j \in DOMAIN got'[s],
                 got'[s][i] = got'[s][j]
          PROVE  i = j
      <4>1. CASE s # t[1]
        BY <3>1, <3>7, <4>1 DEF OnceInv, DeliveredOnce
      <4>2. CASE s = t[1]
        <5>1. got[s] \in Seq(Packet) /\ got'[s] = Append(got[s], t[2])
          BY <3>1, <4>2 DEF TypeOK
        <5>2. \A k \in DOMAIN got[s] : got[s][k] # t[2]
          BY <4>2 DEF OnceInv, Got
        <5>3. \A k, l \in DOMAIN got[s] : got[s][k] = got[s][l] => k = l
          BY DEF OnceInv, DeliveredOnce
        <5>4. /\ DOMAIN got'[s] = DOMAIN got[s] \cup {Len(got[s]) + 1}
              /\ \A k \in DOMAIN got[s] : got'[s][k] = got[s][k]
              /\ got'[s][Len(got[s]) + 1] = t[2]
          BY <5>1
        <5> QED
          BY <3>7, <5>2, <5>3, <5>4, Zenon
      <4> QED
        BY <4>1, <4>2
    <3>8. DeliveredOnce'
      BY <3>7 DEF DeliveredOnce
    <3>9. /\ \A v \in tasks' : v[2] \notin Fresh'
          /\ \A v, w \in tasks' : v[1] = w[1] /\ v[2] = w[2] => v = w
      BY <2>3, <3>3, Zenon DEF OnceInv
    <3> QED
      BY <2>1, <3>4, <3>6, <3>8, <3>9, Zenon DEF OnceInv
  <2> QED
    BY <1>4, <2>4, <2>5, <2>6, TaskKinds
<1> QED
  BY <1>1, <1>2, <1>3, <1>4, StepKinds

\* Both invariants hold in every state.
LEMMA Deliveries == ASSUME NoWrap PROVE Spec => [](TypeOK /\ SubInv /\ OnceInv)
<1>1. Init => OnceInv
  BY ConstantsAssumption DEF Init, OnceInv, Fresh, Got, DeliveredOnce
<1>2. TypeOK /\ SubInv /\ OnceInv /\ [Next]_vars => OnceInv'
  BY OnceStep
<1> QED
  BY <1>1, <1>2, Subscriptions, Typing, PTL DEF Spec

\* No datagram reaches a channel twice, over any number of restarts.
THEOREM DeliveredAtMostOnce == ASSUME NoWrap PROVE Spec => []DeliveredOnce
<1>1. OnceInv => DeliveredOnce
  BY DEF OnceInv
<1> QED
  BY <1>1, Deliveries, PTL

-----------------------------------------------------------------------------
(* The subscription interface. *)

\* The table holds exactly the subscribers that have not left.
LEMMA TableIsMembers ==
  ASSUME TypeOK, SubInv
  PROVE  {subs[i] : i \in ID} \ {NoSub} = {x \in Subscriber : member[x] = "yes"}
<1>1. ASSUME NEW i \in ID, subs[i] # NoSub PROVE subs[i] \in Subscriber /\ member[subs[i]] = "yes"
  BY <1>1 DEF TypeOK, SubInv
<1>2. ASSUME NEW x \in Subscriber, member[x] = "yes"
      PROVE  subID[x] \in ID /\ subs[subID[x]] = x /\ x # NoSub
  <2>1. subID[x] \in ID /\ x # NoSub
    BY <1>2, ConstantsAssumption DEF TypeOK
  <2>2. subs[subID[x]] = x
    BY <1>2, Zenon DEF SubInv, SubscribersKept
  <2> QED
    BY <2>1, <2>2
<1>3. ASSUME NEW x \in {subs[i] : i \in ID} \ {NoSub} PROVE x \in Subscriber /\ member[x] = "yes"
  BY <1>1, Zenon
<1>4. ASSUME NEW x \in Subscriber, member[x] = "yes" PROVE x \in {subs[i] : i \in ID} \ {NoSub}
  BY <1>2, <1>4, Zenon
<1> QED
  BY <1>3, <1>4, Zenon

\* Every step of the listener is a step of the interface, or none.
LEMMA BusStep ==
  ASSUME NoWrap, TypeOK, SubInv, OnceInv, [Next]_vars PROVE [Bus!Next]_(Bus!vars)
<1>1. CASE Quiet
  <2>1. Fresh' = Fresh /\ Offers' = Offers /\ got' = got
    BY <1>1 DEF Quiet, Fresh, Offers
  <2>2. ASSUME NEW s \in Subscriber, SubscribeToPacketReceived(s) PROVE Bus!Subscribe(s)
    BY <2>1, <2>2 DEF SubscribeToPacketReceived, Enroll, Bus!Subscribe
  <2>3. ASSUME NEW s \in Subscriber, UnsubscribeFromPacketReceived(s) PROVE Bus!Unsubscribe(s)
    BY <2>1, <2>3 DEF UnsubscribeFromPacketReceived, Bus!Unsubscribe
  <2>4. CASE member' = member
    BY <2>1, <2>4 DEF Bus!vars
  <2> QED
    BY <2>2, <2>3, <2>4, RegistryFrame, Zenon DEF Bus!Next, vars, registry
<1>2. ASSUME NEW r \in Run, LoopRead(r) PROVE UNCHANGED Bus!vars
  <2>1. Fresh' = Fresh /\ UNCHANGED <<tasks, got, member>>
    BY <1>2, ReadFresh DEF LoopRead, registry
  <2> QED
    BY <2>1 DEF Bus!vars, Offers
<1>3. ASSUME NEW r \in Run, LoopDispatch(r) PROVE Bus!Next
  <2> DEFINE p == holding[r]
             to == {x \in Subscriber : member[x] = "yes"}
  <2>1. /\ p \in Fresh /\ p \in Packet /\ Fresh' = Fresh \ {p}
        /\ tasks' = tasks \cup {<<s, p, "callback">> : s \in to}
        /\ UNCHANGED <<got, member>>
    BY <1>3, DispatchFresh, TableIsMembers
  <2> HIDE DEF p, to
  <2>2. Offers' = Offers \cup {<<s, p>> : s \in to}
    <3> DEFINE new == {<<s, p, "callback">> : s \in to}
    <3>1. \A v \in new : v[1] \in to /\ v[2] = p
      OBVIOUS
    <3>2. ASSUME NEW s \in to PROVE \E v \in new : <<v[1], v[2]>> = <<s, p>>
      <4>1. <<s, p, "callback">> \in new
        OBVIOUS
      <4> QED
        BY <4>1
    <3>3. tasks' = tasks \cup new
      BY <2>1
    <3> HIDE DEF new
    <3>4. Offers' = Offers \cup {<<v[1], v[2]>> : v \in new}
      BY <3>3 DEF Offers
    <3>5. {<<v[1], v[2]>> : v \in new} = {<<s, p>> : s \in to}
      BY <3>1, <3>2
    <3> QED
      BY <3>4, <3>5
  <2>3. Bus!Offer(p)
    BY <2>1, <2>2 DEF Bus!Offer, to
  <2> QED
    BY <2>1, <2>3 DEF Bus!Next
<1>4. ASSUME NEW t \in tasks, TaskCallback(t) \/ TaskPush(t) PROVE [Bus!Next]_(Bus!vars)
  <2> DEFINE o == <<t[1], t[2]>>
  <2>1. t \in Task /\ UNCHANGED <<unread, holding, member>>
    BY <1>4, TaskKinds
  <2>2. t[1] \in Subscriber /\ t[2] \in Packet /\ o \in Offers
    BY <2>1 DEF Task, Offers
  <2>3. Fresh' = Fresh
    BY <2>1 DEF Fresh
  <2>4. ASSUME tasks' = tasks \ {t} PROVE Offers' = Offers \ {o}
    <3>1. \A v \in tasks : v # t => <<v[1], v[2]>> # o
      BY DEF OnceInv
    <3> QED
      BY <2>4, <3>1 DEF Offers
  <2>5. CASE tasks' = tasks \ {t} /\ got' = got
    <3>1. Bus!Drop(t[1], t[2])
      BY <2>1, <2>2, <2>3, <2>4, <2>5 DEF Bus!Drop
    <3> QED
      BY <2>2, <3>1 DEF Bus!Next
  <2>6. CASE tasks' = (tasks \ {t}) \cup {<<t[1], t[2], "push">>} /\ got' = got
    <3>1. Offers' = Offers
      <4> DEFINE u == <<t[1], t[2], "push">>
      <4>1. <<u[1], u[2]>> = o
        OBVIOUS
      <4>2. tasks' = (tasks \ {t}) \cup {u}
        BY <2>6
      <4> HIDE DEF u
      <4>3. \A x : x \in Offers' <=> x = o \/ \E v \in tasks \ {t} : x = <<v[1], v[2]>>
        BY <4>1, <4>2 DEF Offers
      <4>4. \A x : x \in Offers <=> x = o \/ \E v \in tasks \ {t} : x = <<v[1], v[2]>>
        BY DEF Offers
      <4> QED
        BY <4>3, <4>4
    <3> QED
      BY <2>1, <2>3, <2>6, <3>1 DEF Bus!vars
  <2>7. CASE tasks' = tasks \ {t} /\ got' = [got EXCEPT ![t[1]] = Append(@, t[2])]
    <3>1. Bus!Deliver(t[1], t[2])
      BY <2>1, <2>2, <2>3, <2>4, <2>7 DEF Bus!Deliver
    <3> QED
      BY <2>2, <3>1 DEF Bus!Next
  <2> QED
    BY <1>4, <2>5, <2>6, <2>7, TaskKinds
<1> QED
  BY <1>1, <1>2, <1>3, <1>4, StepKinds

\* The listener implements the subscription interface, for any number of runs,
\* subscribers and datagrams, as long as the IDs do not wrap around.
THEOREM BusImplemented == ASSUME NoWrap PROVE Spec => ImplementsBus
<1>1. Init => Bus!Init
  BY ConstantsAssumption DEF Init, Bus!Init, Fresh, Offers
<1>2. TypeOK /\ SubInv /\ OnceInv /\ [Next]_vars => [Bus!Next]_(Bus!vars)
  BY BusStep
<1> QED
  BY <1>1, <1>2, Deliveries, PTL DEF Spec, ImplementsBus, Bus!Spec

\* No callback is started for somebody who has unsubscribed.
THEOREM LeftAlone == ASSUME NoWrap PROVE Spec => NoCallbackAfterUnsubscribe
<1>1. ASSUME TypeOK, SubInv, OnceInv, [Next]_vars
      PROVE  \A t \in tasks' \ tasks : t[3] = "callback" => member[t[1]] = "yes"
  <2>1. CASE Quiet
    BY <2>1 DEF Quiet
  <2>2. ASSUME NEW r \in Run, LoopRead(r) PROVE tasks' = tasks
    BY <1>1, <2>2, ReadFresh
  <2>3. ASSUME NEW r \in Run, LoopDispatch(r), NEW t \in tasks' \ tasks
        PROVE  member[t[1]] = "yes"
    BY <1>1, <2>3, DispatchFresh, TableIsMembers
  <2>4. ASSUME NEW u \in tasks, TaskCallback(u) \/ TaskPush(u), NEW t \in tasks' \ tasks
        PROVE  t[3] # "callback"
    BY <1>1, <2>4, TaskKinds
  <2> QED
    BY <1>1, <2>1, <2>2, <2>3, <2>4, StepKinds
<1>2. TypeOK /\ SubInv /\ OnceInv /\ [Next]_vars =>
        [\A t \in tasks' \ tasks : t[3] = "callback" => member[t[1]] = "yes"]_vars
  BY <1>1
<1> QED
  BY <1>2, Deliveries, PTL DEF Spec, NoCallbackAfterUnsubscribe
=============================================================================
