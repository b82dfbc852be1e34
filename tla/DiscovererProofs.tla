--------------------------- MODULE DiscovererProofs ---------------------------
(***************************************************************************)
(* Proofs about Discoverer: its types, its subscriptions, where the public *)
(* address comes from, and what Stop leaves behind.                        *)
(***************************************************************************)
EXTENDS Discoverer, TLAPS

\* A step leaves every variable well typed.
LEMMA TypeStep == ASSUME TypeOK, [Next]_vars PROVE TypeOK'
<1> USE ConstantsAssumption DEF worker, stops, wire, ident, control, TypeOK, Running, Goto
<1>1. ASSUME NEW r \in Run, Start(r) PROVE TypeOK'
  <2>1. stop' \in [Stopper -> {"idle", "wait", "waiting", "woken", "returned", "panicked"}]
    BY <1>1 DEF Start
  <2> QED
    BY <1>1, <2>1 DEF Start
<1>2. ASSUME NEW r \in Run, ParentCancel(r) PROVE TypeOK'
  BY <1>2 DEF ParentCancel
<1>3. ASSUME NEW c \in Stopper, StopNotRunning(c) PROVE TypeOK'
  BY <1>3 DEF StopNotRunning, Seen
<1>4. ASSUME NEW c \in Stopper, Stop(c) PROVE TypeOK'
  BY <1>4, Zenon DEF Stop, Halt, Seen
<1>5. ASSUME NEW c \in Stopper, StopWait(c) \/ StopReturn(c) PROVE TypeOK'
  <2>1. \E l \in {"returned", "waiting", "panicked"} : stop' = [stop EXCEPT ![c] = l]
    BY <1>5 DEF StopWait, StopReturn
  <2>2. UNCHANGED <<isRunning, current, ctxDone, loop, worker, stopped, seen, overlapped, wire,
                  ident>>
    BY <1>5 DEF StopWait, StopReturn
  <2> QED
    BY <2>1, <2>2
<1>6. ASSUME NEW r \in Run, QueryNext(r) PROVE TypeOK'
  BY <1>6 DEF QueryNext
<1>7. ASSUME NEW r \in Run, TickStop(r) PROVE TypeOK'
  BY <1>7 DEF TickStop
<1>8. ASSUME NEW r \in Run, TickQuery(r) PROVE TypeOK'
  BY <1>8 DEF TickQuery
<1>9. ASSUME NEW r \in Run, Publish(r) PROVE TypeOK'
  BY <1>9 DEF Publish, SetPublicAddr
<1>10. ASSUME NEW r \in Run, loop[r] \in {"query", "send", "wait"}, NextServer(r),
              subs' \in SUBSET subs
       PROVE  TypeOK'
  BY <1>10 DEF NextServer
<1>11. ASSUME NEW r \in Run,
              QueryFails(r) \/ QuerySendFails(r) \/ WaitGivesUp(r) \/ WaitBadPacket(r)
       PROVE  TypeOK'
  BY <1>10, <1>11 DEF QueryFails, QuerySendFails, WaitGivesUp, WaitBadPacket
<1>12. ASSUME NEW r \in Run, QuerySubscribe(r) PROVE TypeOK'
  BY <1>12 DEF QuerySubscribe, Query
<1>13. ASSUME NEW r \in Run, QuerySend(r) PROVE TypeOK'
  BY <1>13, Zenon DEF QuerySend, Query
<1>14. ASSUME NEW r \in Run, WaitPacket(r) PROVE TypeOK'
  BY <1>14 DEF WaitPacket, Response
<1>15. ASSUME NEW q \in Query, Answer(q) PROVE TypeOK'
  BY <1>15 DEF Answer, Response
<1>16. ASSUME NEW r \in Run, NEW m \in net, Deliver(r, m) PROVE TypeOK'
  BY <1>16 DEF Deliver
<1>17. CASE UNCHANGED vars
  BY <1>17 DEF vars
<1> QED
  BY <1>1, <1>2, <1>3, <1>4, <1>5, <1>6, <1>7, <1>8, <1>9, <1>11, <1>12, <1>13, <1>14,
     <1>15, <1>16, <1>17, Zenon DEF Next, StopCall, DiscoveryLoop, QueryServer

\* Every variable of the discoverer keeps its type: queryAll never reads past
\* the end of the server list and never publishes an address it has not got.
THEOREM Typing == Spec => []TypeOK
<1>1. Init => TypeOK
  <2> SUFFICES ASSUME Init PROVE TypeOK
    OBVIOUS
  <2>1. 1 \in 1 .. (NumServers + 1) /\ 0 \in 0 .. MaxQuery /\ 0 \in 0 .. 0
    BY ConstantsAssumption
  <2> QED
    BY <2>1, Zenon DEF Init, TypeOK
<1> QED
  BY <1>1, TypeStep, PTL DEF Spec
-----------------------------------------------------------------------------
(* Subscriptions, addresses and stopped workers. *)

\* What a query has to do with the responses: its channel holds one of its own,
\* and what it found is the address in it.
QueryInv ==
    /\ \A r \in Run : packet[r] # NoPacket => packet[r] \in net /\ packet[r][1] = tx[r]
    /\ \A r \in Run : loop[r] = "publish" => <<tx[r], found[r]>> \in net
    /\ AddressIsAnswer
    /\ NoLeakedSubscription

\* A step keeps the queries and their responses together.
LEMMA QueryStep == ASSUME TypeOK, QueryInv, [Next]_vars PROVE QueryInv'
<1> USE ConstantsAssumption DEF worker, stops, wire, ident, control, TypeOK, Goto,
        QueryInv, AddressIsAnswer, NoLeakedSubscription
<1>1. ASSUME UNCHANGED <<tx, packet, found, subs, net, ident>>,
             \A r \in Run : loop[r] \in {"send", "wait"} => loop'[r] \in {"send", "wait"},
             \A r \in Run : loop'[r] = "publish" => loop[r] = "publish"
      PROVE  QueryInv'
  BY <1>1
<1>2. ASSUME NEW r \in Run, Start(r) \/ ParentCancel(r) PROVE QueryInv'
  BY <1>1, <1>2 DEF Start, ParentCancel
<1>3. ASSUME NEW c \in Stopper, StopCall(c) PROVE QueryInv'
  BY <1>1, <1>3 DEF StopCall, StopNotRunning, Stop, Halt, StopWait, StopReturn
<1>4. ASSUME NEW r \in Run, QueryNext(r) \/ TickStop(r) \/ TickQuery(r) \/ QuerySend(r)
      PROVE  QueryInv'
  BY <1>1, <1>4, SMTT(30) DEF QueryNext, TickStop, TickQuery, QuerySend
<1>5. ASSUME NEW r \in Run, Publish(r) PROVE QueryInv'
  BY <1>5 DEF Publish, SetPublicAddr
<1>6. ASSUME NEW r \in Run, NextServer(r), subs' = subs \ {tx[r]} PROVE QueryInv'
  BY <1>6 DEF NextServer
<1>7. ASSUME NEW r \in Run, QueryFails(r) PROVE QueryInv'
  BY <1>7, <1>1 DEF QueryFails, NextServer
<1>8. ASSUME NEW r \in Run, QuerySendFails(r) \/ WaitGivesUp(r) \/ WaitBadPacket(r)
      PROVE  QueryInv'
  BY <1>6, <1>8 DEF QuerySendFails, WaitGivesUp, WaitBadPacket
<1>9. ASSUME NEW r \in Run, QuerySubscribe(r) PROVE QueryInv'
  BY <1>9 DEF QuerySubscribe
<1>10. ASSUME NEW r \in Run, WaitPacket(r) PROVE QueryInv'
  BY <1>10 DEF WaitPacket, Response
<1>11. ASSUME NEW q \in Query, Answer(q) PROVE QueryInv'
  BY <1>11 DEF Answer
<1>12. ASSUME NEW r \in Run, NEW m \in net, Deliver(r, m) PROVE QueryInv'
  BY <1>12 DEF Deliver, Matches
<1>13. CASE UNCHANGED vars
  BY <1>1, <1>13, Zenon DEF vars
<1> QED
  BY <1>2, <1>3, <1>4, <1>5, <1>7, <1>8, <1>9, <1>10, <1>11, <1>12, <1>13, Zenon
     DEF Next, DiscoveryLoop, QueryServer

\* Where addresses and subscriptions come from, for any number of queries.
THEOREM Queries == Spec => []QueryInv
<1>1. Init => QueryInv
  BY DEF Init, QueryInv, AddressIsAnswer, NoLeakedSubscription
<1>2. TypeOK /\ QueryInv /\ [Next]_vars => QueryInv'
  BY QueryStep
<1> QED
  BY <1>1, <1>2, Typing, PTL DEF Spec

\* The address in the identity answers the query it was taken for.
THEOREM Answered == Spec => []AddressIsAnswer
<1>1. QueryInv => AddressIsAnswer
  BY DEF QueryInv
<1> QED
  BY <1>1, Queries, PTL

\* The listener keeps no subscription of a query that is over.
THEOREM SubscriptionsReleased == Spec => []NoLeakedSubscription
<1>1. QueryInv => NoLeakedSubscription
  BY DEF QueryInv
<1> QED
  BY <1>1, Queries, PTL

\* What Stop relies on about the run it stops.
StopInv ==
    /\ isRunning => loop[current] # "unborn"
    /\ \A c \in Stopper : stop[c] = "idle" => stopped[c] = NoRun
    /\ \A c \in Stopper : stopped[c] # NoRun => loop[stopped[c]] # "unborn"
    /\ StopQuiesces

\* A step keeps stopped workers stopped.
LEMMA StopStep == ASSUME TypeOK, StopInv, [Next]_vars PROVE StopInv'
<1> USE ConstantsAssumption DEF worker, stops, wire, ident, control, TypeOK, Goto, Running,
        StopInv, StopQuiesces
<1>1. ASSUME UNCHANGED <<isRunning, current, stops>>,
             \A r \in Run : loop'[r] = loop[r] \/ loop[r] \notin {"unborn", "done"},
             \A r \in Run : loop'[r] = "unborn" => loop[r] = "unborn"
      PROVE  StopInv'
  BY <1>1, Zenon
<1>2. ASSUME NEW r \in Run, Start(r) PROVE StopInv'
  BY <1>2 DEF Start
<1>3. ASSUME NEW r \in Run, ParentCancel(r) PROVE StopInv'
  BY <1>1, <1>3 DEF ParentCancel
<1>4. ASSUME NEW c \in Stopper, StopNotRunning(c) PROVE StopInv'
  BY <1>4 DEF StopNotRunning
<1>5. ASSUME NEW c \in Stopper, Stop(c) PROVE StopInv'
  BY <1>5 DEF Stop, Halt
<1>6. ASSUME NEW c \in Stopper, StopWait(c) \/ StopReturn(c) PROVE StopInv'
  BY <1>6 DEF StopWait, StopReturn, WgZero
<1>7. ASSUME NEW r \in Run, DiscoveryLoop(r) PROVE StopInv'
  <2>1. /\ loop[r] \notin {"unborn", "done"} /\ UNCHANGED <<isRunning, current, stops>>
        /\ \E l \in {"done"} \cup Running : loop' = [loop EXCEPT ![r] = l]
    BY <1>7, Zenon DEF DiscoveryLoop, QueryServer, QueryNext, TickStop, TickQuery, Publish,
       QueryFails, QuerySubscribe, QuerySend, QuerySendFails, WaitGivesUp, WaitPacket,
       WaitBadPacket, NextServer
  <2> QED
    BY <1>1, <2>1
<1>8. ASSUME NEW q \in Query, Answer(q) PROVE StopInv'
  BY <1>1, <1>8, Zenon DEF Answer
<1>9. ASSUME NEW r \in Run, NEW m \in net, Deliver(r, m) PROVE StopInv'
  BY <1>1, <1>9, Zenon DEF Deliver
<1>10. CASE UNCHANGED vars
  BY <1>1, <1>10, Zenon DEF vars
<1> QED
  BY <1>2, <1>3, <1>4, <1>5, <1>6, <1>7, <1>8, <1>9, <1>10, Zenon DEF Next, StopCall

\* After Stop the worker it stopped never touches the identity again.
THEOREM Quiesced == Spec => []StopQuiesces
<1>1. Init => StopInv
  BY DEF Init, StopInv, StopQuiesces
<1>2. TypeOK /\ StopInv /\ [Next]_vars => StopInv'
  BY StopStep
<1>3. StopInv => StopQuiesces
  BY Zenon DEF StopInv
<1> QED
  BY <1>1, <1>2, <1>3, Typing, PTL DEF Spec
-----------------------------------------------------------------------------
(* Serial use: nobody starts the discoverer before Stop has returned. *)

Pending(c) == stop[c] \notin {"idle", "returned"}

\* At most one worker at a time, and its query is the latest one.
SerialInv ==
    /\ \A r, t \in Run : loop[r] \in Running /\ loop[t] \in Running => r = t
    /\ ~isRunning /\ (\A c \in Stopper : ~Pending(c)) => WgZero
    /\ isRunning => \A c \in Stopper : ~Pending(c)
    /\ \A c \in Stopper : stop[c] \notin {"woken", "panicked"}
    /\ \A r \in Run : loop[r] \in {"send", "wait", "publish"} => tx[r] = asked
    /\ \A r \in Run : isRunning /\ loop[r] \in Running => r = current

\* An overlap is never forgotten.
LEMMA OverlapKept == ASSUME TypeOK, [Next]_vars, ~overlapped' PROVE ~overlapped
<1> USE DEF stops, control
<1>1. ASSUME NEW r \in Run, Start(r) PROVE ~overlapped
  BY <1>1, Zenon DEF Start
<1>2. ASSUME NEW r \in Run, ParentCancel(r) PROVE ~overlapped
  BY <1>2, Zenon DEF ParentCancel
<1>3. ASSUME NEW c \in Stopper, StopCall(c) PROVE ~overlapped
  BY <1>3, Zenon DEF StopCall, StopNotRunning, Stop, Halt, StopWait, StopReturn
<1>4. ASSUME NEW r \in Run, DiscoveryLoop(r) PROVE ~overlapped
  BY <1>4, Zenon DEF DiscoveryLoop, QueryServer, QueryNext, TickStop, TickQuery, Publish,
     QueryFails, QuerySubscribe, QuerySend, QuerySendFails, WaitGivesUp, WaitPacket,
     WaitBadPacket, NextServer
<1>5. ASSUME NEW q \in Query, Answer(q) PROVE ~overlapped
  BY <1>5, Zenon DEF Answer
<1>6. ASSUME NEW r \in Run, NEW m \in net, Deliver(r, m) PROVE ~overlapped
  BY <1>6, Zenon DEF Deliver
<1>7. CASE UNCHANGED vars
  BY <1>7, Zenon DEF vars
<1> QED
  BY <1>1, <1>2, <1>3, <1>4, <1>5, <1>6, <1>7, Zenon DEF Next

\* Without overlapping calls a step keeps the workers apart.
LEMMA SerialStep ==
  ASSUME ~overlapped', TypeOK, StopInv, SerialInv, [Next]_vars PROVE SerialInv'
<1> USE ConstantsAssumption DEF worker, stops, wire, ident, control, TypeOK, Goto, Running,
        WgZero, Pending, SerialInv
<1>1. ASSUME UNCHANGED <<isRunning, current, stops, tx, asked, loop>> PROVE SerialInv'
  BY <1>1, Zenon
<1>2. ASSUME NEW r \in Run, Start(r) PROVE SerialInv'
  <2>1. WgZero /\ \A c \in Stopper : stop[c] \in {"idle", "returned"}
    BY <1>2 DEF Start
  <2>2. stop' = stop
    BY <1>2, <2>1 DEF Start
  <2> QED
    BY <1>2, <2>1, <2>2, SMTT(30) DEF Start
<1>3. ASSUME NEW r \in Run, ParentCancel(r) PROVE SerialInv'
  BY <1>1, <1>3 DEF ParentCancel
<1>4. ASSUME NEW c \in Stopper, StopNotRunning(c) PROVE SerialInv'
  BY <1>4 DEF StopNotRunning
<1>5. ASSUME NEW c \in Stopper, Stop(c) PROVE SerialInv'
  BY <1>5, Zenon DEF Stop, Halt
<1>6. ASSUME NEW c \in Stopper, StopWait(c) \/ StopReturn(c) PROVE SerialInv'
  BY <1>6 DEF StopWait, StopReturn
<1>7. ASSUME NEW r \in Run, loop[r] \in Running, UNCHANGED <<isRunning, current, stops>>,
             NEW l \in {"done"} \cup Running, Goto(r, l),
             l \in {"send", "wait", "publish"} => tx'[r] = asked',
             \A t \in Run : t # r => tx'[t] = tx[t]
      PROVE  SerialInv'
  BY <1>7, SMTT(30)
<1>8. ASSUME NEW r \in Run, DiscoveryLoop(r) PROVE SerialInv'
  <2>1. CASE QuerySubscribe(r)
    <3>1. /\ loop[r] \in Running /\ Goto(r, "send") /\ tx'[r] = asked'
          /\ UNCHANGED <<isRunning, current, stops>>
          /\ \A t \in Run : t # r => tx'[t] = tx[t]
      BY <2>1 DEF QuerySubscribe
    <3> QED
      BY <3>1, <1>7, Zenon
  <2>2. CASE ~QuerySubscribe(r)
    <3>1. CASE QueryNext(r) \/ TickStop(r) \/ TickQuery(r) \/ Publish(r)
      <4>1. /\ loop[r] \in Running /\ UNCHANGED <<isRunning, current, stops, tx, asked>>
            /\ \E l \in {"tick", "query", "done", "next"} : Goto(r, l)
        BY <3>1, Zenon DEF QueryNext, TickStop, TickQuery, Publish
      <4> QED
        BY <4>1, <1>7, Zenon
    <3>2. CASE QueryFails(r) \/ QuerySendFails(r) \/ WaitGivesUp(r) \/ WaitBadPacket(r)
      <4>1. /\ loop[r] \in Running /\ UNCHANGED <<isRunning, current, stops, tx, asked>>
            /\ Goto(r, "next")
        BY <3>2, Zenon DEF QueryFails, QuerySendFails, WaitGivesUp, WaitBadPacket, NextServer
      <4> QED
        BY <4>1, <1>7, Zenon
    <3>3. CASE QuerySend(r) \/ WaitPacket(r)
      <4>1. /\ loop[r] \in {"send", "wait"}
            /\ UNCHANGED <<isRunning, current, stops, tx, asked>>
            /\ \E l \in {"wait", "publish"} : Goto(r, l)
        BY <3>3, Zenon DEF QuerySend, WaitPacket
      <4> QED
        BY <4>1, <1>7, Zenon
    <3> QED
      BY <1>8, <2>2, <3>1, <3>2, <3>3, Zenon DEF DiscoveryLoop, QueryServer
  <2> QED
    BY <2>1, <2>2, Zenon
<1>9. ASSUME NEW q \in Query, Answer(q) PROVE SerialInv'
  BY <1>1, <1>9, Zenon DEF Answer
<1>10. ASSUME NEW r \in Run, NEW m \in net, Deliver(r, m) PROVE SerialInv'
  BY <1>1, <1>10, Zenon DEF Deliver
<1>11. CASE UNCHANGED vars
  BY <1>1, <1>11, Zenon DEF vars
<1> QED
  BY <1>2, <1>3, <1>4, <1>5, <1>6, <1>8, <1>9, <1>10, <1>11, Zenon DEF Next, StopCall

\* A step never replaces the address by the answer to an earlier query.
LEMMA PubStep == ASSUME TypeOK, SerialInv, [Next]_vars PROVE pub' >= pub
<1> USE DEF stops, ident, control, TypeOK
<1>1. ASSUME UNCHANGED pub PROVE pub' >= pub
  BY <1>1
<1>2. ASSUME NEW r \in Run, Publish(r) PROVE pub' >= pub
  BY <1>2, ConstantsAssumption DEF Publish, SetPublicAddr, SerialInv
<1>3. ASSUME NEW r \in Run, Start(r) \/ ParentCancel(r) PROVE pub' >= pub
  BY <1>1, <1>3, Zenon DEF Start, ParentCancel
<1>4. ASSUME NEW c \in Stopper, StopCall(c) PROVE pub' >= pub
  BY <1>1, <1>4 DEF StopCall, StopNotRunning, Stop, Halt, StopWait, StopReturn
<1>5. ASSUME NEW r \in Run, DiscoveryLoop(r), ~Publish(r) PROVE pub' >= pub
  BY <1>1, <1>5, Zenon DEF DiscoveryLoop, QueryServer, QueryNext, TickStop, TickQuery, QueryFails,
     QuerySubscribe, QuerySend, QuerySendFails, WaitGivesUp, WaitPacket, WaitBadPacket,
     NextServer
<1>6. ASSUME NEW q \in Query, Answer(q) PROVE pub' >= pub
  BY <1>1, <1>6, Zenon DEF Answer
<1>7. ASSUME NEW r \in Run, NEW m \in net, Deliver(r, m) PROVE pub' >= pub
  BY <1>1, <1>7 DEF Deliver
<1>8. CASE UNCHANGED vars
  BY <1>1, <1>8 DEF vars
<1> QED
  BY <1>2, <1>3, <1>4, <1>5, <1>6, <1>7, <1>8 DEF Next

\* Used serially, the discoverer publishes addresses in the order in which it
\* asked for them, over any number of restarts and queries.
THEOREM PublishedInOrder == Spec => NeverStale
<1>1. Init => StopInv /\ SerialInv
  BY DEF Init, StopInv, StopQuiesces, SerialInv, Running, WgZero, Pending
<1>2. /\ TypeOK /\ StopInv /\ (~overlapped => SerialInv) /\ [Next]_vars
      => StopInv' /\ (~overlapped' => SerialInv')
  BY StopStep, SerialStep, OverlapKept
<1>3. TypeOK /\ (~overlapped => SerialInv) /\ [Next]_vars => [~overlapped' => pub' >= pub]_vars
  BY PubStep, OverlapKept
<1> QED
  BY <1>1, <1>2, <1>3, Typing, PTL DEF Spec, NeverStale

-----------------------------------------------------------------------------
(* Whom Stop waits for: what StopReturns rests on. *)

\* As long as the discoverer is not started again before Stop has returned, a
\* Stop that waits has only the worker it stopped to wait for, whose context it
\* has cancelled, and its Wait does not panic.
StopWaitsForOwn ==
    ~overlapped => \A c \in Stopper :
       /\ stop[c] # "panicked"
       /\ Pending(c) => \A r \in Run : loop[r] \in Running => r = stopped[c] /\ ctxDone[r]

\* A step keeps the workers of the waiting calls cancelled.
LEMMA OwnStep ==
  ASSUME TypeOK, StopInv, ~overlapped => SerialInv, StopWaitsForOwn, [Next]_vars
  PROVE  StopWaitsForOwn'
<1> SUFFICES ASSUME ~overlapped'
             PROVE  \A c \in Stopper :
                       /\ stop'[c] # "panicked"
                       /\ Pending(c)' => \A r \in Run : loop'[r] \in Running =>
                                            r = stopped'[c] /\ ctxDone'[r]
  BY DEF StopWaitsForOwn
<1>0. ~overlapped /\ SerialInv /\ SerialInv'
  BY OverlapKept, SerialStep
<1>1. \A c \in Stopper : stop'[c] # "panicked"
  BY <1>0, Zenon DEF SerialInv
<1> DEFINE Goal == \A c \in Stopper : Pending(c)' => \A r \in Run : loop'[r] \in Running =>
                      r = stopped'[c] /\ ctxDone'[r]
<1> USE DEF worker, stops, wire, ident, control, Pending
<1>2. ASSUME UNCHANGED <<stop, stopped>>, \A r \in Run : ctxDone[r] => ctxDone'[r],
             \A r \in Run : loop'[r] \in Running => loop[r] \in Running
      PROVE  Goal
  BY <1>0, <1>2, Zenon DEF StopWaitsForOwn
<1>3. ASSUME NEW r \in Run, Start(r) PROVE Goal
  <2>1. \A c \in Stopper : stop[c] \in {"idle", "returned"}
    BY <1>3 DEF Start
  <2>2. \A c \in Stopper : stop'[c] = stop[c]
    BY <1>3, <2>1 DEF Start
  <2> QED
    BY <2>1, <2>2
<1>4. ASSUME NEW r \in Run, ParentCancel(r) PROVE Goal
  <2>1. UNCHANGED <<stop, stopped, loop>> /\ \A q \in Run : ctxDone[q] => ctxDone'[q]
    BY <1>4 DEF ParentCancel, TypeOK
  <2> QED
    BY <1>2, <2>1
<1>5. ASSUME NEW c \in Stopper, StopNotRunning(c) \/ StopWait(c) \/ StopReturn(c) PROVE Goal
  <2>1. /\ UNCHANGED <<stopped, ctxDone, loop>>
        /\ \A b \in Stopper : Pending(b)' => Pending(b)
    BY <1>5 DEF StopNotRunning, StopWait, StopReturn, TypeOK
  <2> QED
    BY <1>0, <2>1, Zenon DEF StopWaitsForOwn
<1>6. ASSUME NEW c \in Stopper, Stop(c) PROVE Goal
  <2>1. /\ isRunning /\ loop' = loop
        /\ stop' = [stop EXCEPT ![c] = "wait"]
        /\ stopped' = [stopped EXCEPT ![c] = current]
        /\ ctxDone' = [ctxDone EXCEPT ![current] = TRUE]
    BY <1>6 DEF Stop, Halt
  <2>2. \A b \in Stopper : Pending(b)' => b = c
    BY <1>0, <2>1 DEF SerialInv, TypeOK
  <2>3. \A r \in Run : loop'[r] \in Running => r = current /\ ctxDone'[r]
    BY <1>0, <2>1 DEF SerialInv, TypeOK
  <2>4. stopped'[c] = current
    BY <2>1 DEF TypeOK
  <2> QED
    BY <2>2, <2>3, <2>4, Zenon
<1>7. ASSUME NEW r \in Run, DiscoveryLoop(r) PROVE Goal
  <2>1. /\ loop[r] \in Running /\ UNCHANGED <<ctxDone, stop, stopped>>
        /\ \E l \in {"done"} \cup Running : Goto(r, l)
    BY <1>7, Zenon DEF Running, DiscoveryLoop, QueryServer, QueryNext, TickStop, TickQuery,
       Publish, QueryFails, QuerySubscribe, QuerySend, QuerySendFails, WaitGivesUp,
       WaitPacket, WaitBadPacket, NextServer
  <2>2. \A q \in Run : loop'[q] \in Running => loop[q] \in Running
    BY <2>1 DEF Goto, TypeOK
  <2> QED
    BY <1>2, <2>1, <2>2
<1>8. ASSUME NEW q \in Query, Answer(q) PROVE Goal
  BY <1>2, <1>8, Zenon DEF Answer
<1>9. ASSUME NEW r \in Run, NEW m \in net, Deliver(r, m) PROVE Goal
  BY <1>2, <1>9, Zenon DEF Deliver
<1>10. ASSUME UNCHANGED vars PROVE Goal
  BY <1>2, <1>10, Zenon DEF vars
<1> HIDE DEF Goal
<1>11. Goal
  BY <1>3, <1>4, <1>5, <1>6, <1>7, <1>8, <1>9, <1>10, Zenon DEF Next, StopCall
<1> QED
  BY <1>1, <1>11, Zenon DEF Goal

\* Used serially, over any number of restarts, Stop never waits for a worker that
\* was not told to end, and the WaitGroup is never in use again too early.
THEOREM StopWaits == Spec => []StopWaitsForOwn
<1>1. Init => StopInv /\ SerialInv /\ StopWaitsForOwn
  BY DEF Init, StopInv, StopQuiesces, SerialInv, Running, WgZero, Pending, StopWaitsForOwn
<1>2. /\ TypeOK /\ StopInv /\ (~overlapped => SerialInv) /\ StopWaitsForOwn /\ [Next]_vars
      => StopInv' /\ (~overlapped' => SerialInv') /\ StopWaitsForOwn'
  BY StopStep, SerialStep, OverlapKept, OwnStep
<1> QED
  BY <1>1, <1>2, Typing, PTL DEF Spec
=============================================================================
