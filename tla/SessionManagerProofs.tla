------------------------ MODULE SessionManagerProofs ------------------------
(***************************************************************************)
(* Proofs about the session manager for any number of sessions, packets    *)
(* and callers and any queue capacity.                                     *)
(***************************************************************************)
EXTENDS SessionManager, TLAPS, FiniteSetTheorems

\* Moving goroutine k of session s to label l moves nothing else.
LEMMA GotoMoves ==
  ASSUME ThreadTypes, NEW s \in Session, NEW k \in Kind, NEW l \in Label, Goto(s, k, l)
  PROVE  /\ pc' \in [Session -> [Kind -> Label]]
         /\ pc'[s][k] = l
         /\ \A t \in Session, j \in Kind : t # s \/ j # k => pc'[t][j] = pc[t][j]
  BY DEF ThreadTypes, Goto

\* The labels the actions use.
LEMMA Labels ==
  /\ Teardown \subseteq Label
  /\ {"unborn", "check", "reading", "callback", "select", "header", "payload", "lookup",
      "done", "queue", "conn", "notify"} \subseteq Label
  /\ {"unborn", "check", "reading", "callback", "select", "header", "payload", "lookup",
      "done"} \cap Teardown = {}
  /\ {"queue", "conn", "notify"} = Teardown
  /\ {"read", "write", "slow", "app"} = Kind
  BY DEF Label, Teardown, Kind

-----------------------------------------------------------------------------
(* Types. *)

\* A step leaves the four flags Boolean.
LEMMA FlagStep == ASSUME TypeOK, [Next]_vars PROVE FlagTypes'
<1> USE ConstantsAssumption
    DEF table, hooks, link, queue, calls, closing, unregLocals, sendFrame, readFrame,
        writeFrame, closeFrame, TypeOK, FlagTypes
<1>1. ASSUME NEW cb \in Callback, SetOnClose(cb) \/ SetControlCallback(cb)
      PROVE  FlagTypes'
  BY <1>1 DEF SetOnClose, SetControlCallback
<1>2. CASE ParentCancel
  BY <1>2 DEF ParentCancel
<1>3. ASSUME NEW s \in Session, RegisterSession(s) \/ PeerClose(s) PROVE FlagTypes'
  BY <1>3 DEF RegisterSession, Track, PeerClose
<1>4. ASSUME NEW s \in Dropped, UnregisterCall(s) PROVE FlagTypes'
  BY <1>4 DEF UnregisterCall
<1>5. ASSUME NEW s \in Session, ReadLoop(s) \/ WriteLoop(s) PROVE FlagTypes'
  BY <1>5, Zenon DEF ReadLoop, ReadCheck, ReadPacket, ReadError, CallbackReturn, WriteLoop,
              WriteStop, WriteDequeue, WriteHeader, WritePayload, WriteError, WriteFails
<1>6. ASSUME NEW s \in Session, NEW k \in Kind, Unregister(s, k) PROVE FlagTypes'
  BY <1>6, Zenon DEF Unregister, UnregisterNotFound, UnregisterDelete, TakeOut,
              UnregisterCloseQueue, CloseQueue, UnregisterCloseConn, UnregisterNotify
<1>7. ASSUME NEW p \in Packet, SendToLocal(p) PROVE FlagTypes'
  BY <1>7, Zenon DEF SendToLocal, SendNotFound, SendFound, SendToClosed, SendAccept, Enqueue,
              SendBlocked, CutOff
<1>8. CASE Close
  BY <1>8, Zenon DEF Close, CloseCancel, Cancel, CloseSweep, Snapshot, CloseConn, CloseWait, CloseReturn
<1>9. CASE UNCHANGED vars
  BY <1>9 DEF vars
<1> QED
  BY <1>1, <1>2, <1>3, <1>4, <1>5, <1>6, <1>7, <1>8, <1>9 DEF Next

\* A step moves a goroutine to a known label, and a goroutine in the middle of
\* UnregisterSession holds a session.
LEMMA ThreadStep == ASSUME TypeOK, [Next]_vars PROVE ThreadTypes'
<1> USE Labels DEF TypeOK
<1>0. ASSUME NEW s \in Session, NEW k \in Kind, NEW l \in Label, Goto(s, k, l),
             UNCHANGED target, l \in Teardown => target[s][k] \in Session
      PROVE  ThreadTypes'
  BY <1>0, GotoMoves DEF ThreadTypes
<1>1. ASSUME NEW cb \in Callback, SetOnClose(cb) \/ SetControlCallback(cb)
      PROVE  ThreadTypes'
  BY <1>1 DEF SetOnClose, SetControlCallback, ThreadTypes
<1>2. CASE ParentCancel
  BY <1>2 DEF ParentCancel, ThreadTypes
<1>3. ASSUME NEW s \in Session, RegisterSession(s) \/ PeerClose(s) PROVE ThreadTypes'
  <2>1. CASE RegisterSession(s)
    <3>1. /\ UNCHANGED target
          /\ pc' = [pc EXCEPT ![s] = [@ EXCEPT !["read"] = "check", !["write"] = "select"]]
      BY <2>1 DEF RegisterSession, Track
    <3>2. pc' \in [Session -> [Kind -> Label]]
      BY <3>1 DEF ThreadTypes
    <3>3. \A t \in Session, k \in Kind : pc'[t][k] \in {pc[t][k], "check", "select"}
      BY <3>1 DEF ThreadTypes
    <3> QED
      BY <3>1, <3>2, <3>3 DEF ThreadTypes
  <2>2. CASE PeerClose(s)
    BY <2>2 DEF PeerClose, ThreadTypes
  <2> QED
    BY <1>3, <2>1, <2>2
<1>4. ASSUME NEW s \in Dropped, UnregisterCall(s) PROVE ThreadTypes'
  BY <1>4, <1>0, ConstantsAssumption DEF UnregisterCall
<1>5. ASSUME NEW s \in Session, ReadLoop(s) PROVE ThreadTypes'
  BY <1>5, <1>0 DEF ReadLoop, ReadCheck, ReadPacket, ReadError, CallbackReturn, readFrame
<1>6. ASSUME NEW s \in Session, WriteLoop(s) PROVE ThreadTypes'
  BY <1>6, <1>0, Zenon DEF WriteLoop, WriteStop, WriteDequeue, WriteHeader, WritePayload,
                    WriteError, WriteFails, writeFrame
<1>7. ASSUME NEW s \in Session, NEW k \in Kind, Unregister(s, k) PROVE ThreadTypes'
  <2>1. CASE UnregisterNotFound(s, k)
    BY <2>1, <1>0 DEF UnregisterNotFound
  <2>2. CASE UnregisterDelete(s, k)
    <3>1. /\ sessions[did[s]] \in Session
          /\ Goto(s, k, "queue")
          /\ target' = [target EXCEPT ![s][k] = sessions[did[s]]]
      BY <2>2 DEF UnregisterDelete, TakeOut, DataTypes
    <3> QED
      BY <3>1, GotoMoves DEF ThreadTypes
  <2>3. CASE UnregisterCloseQueue(s, k)
    <3>1. \/ Goto(s, k, "done") /\ target' = [target EXCEPT ![s][k] = NoSession]
          \/ Goto(s, k, "conn") /\ UNCHANGED target /\ pc[s][k] = "queue"
      BY <2>3 DEF UnregisterCloseQueue, CloseQueue
    <3>2. CASE Goto(s, k, "done") /\ target' = [target EXCEPT ![s][k] = NoSession]
      BY <3>2, GotoMoves DEF ThreadTypes
    <3>3. CASE Goto(s, k, "conn") /\ UNCHANGED target /\ pc[s][k] = "queue"
      BY <3>3, <1>0 DEF ThreadTypes
    <3> QED
      BY <3>1, <3>2, <3>3
  <2>4. CASE UnregisterCloseConn(s, k)
    BY <2>4, <1>0 DEF UnregisterCloseConn, ThreadTypes
  <2>5. CASE UnregisterNotify(s, k)
    <3>1. Goto(s, k, "done") /\ target' = [target EXCEPT ![s][k] = NoSession]
      BY <2>5 DEF UnregisterNotify
    <3> QED
      BY <3>1, GotoMoves DEF ThreadTypes
  <2> QED
    BY <1>7, <2>1, <2>2, <2>3, <2>4, <2>5 DEF Unregister
<1>8. ASSUME NEW p \in Packet, SendToLocal(p) PROVE ThreadTypes'
  <2>1. CASE SendBlocked(p)
    BY <2>1, <1>0, Zenon DEF SendBlocked, CutOff, sendFrame, DataTypes
  <2>2. CASE UNCHANGED <<pc, target>>
    BY <2>2 DEF ThreadTypes
  <2> QED
    BY <1>8, <2>1, <2>2 DEF SendToLocal, SendNotFound, SendFound, SendToClosed,
                            SendAccept, Enqueue, sendFrame
<1>9. CASE Close
  BY <1>9 DEF Close, CloseCancel, Cancel, CloseSweep, Snapshot, CloseConn, CloseWait, CloseReturn,
              closeFrame, ThreadTypes
<1>10. CASE UNCHANGED vars
  BY <1>10 DEF vars, ThreadTypes
<1> QED
  BY <1>1, <1>2, <1>3, <1>4, <1>5, <1>6, <1>7, <1>8, <1>9, <1>10 DEF Next

\* A step leaves what the write loop holds and has written well typed.
LEMMA WriterStep == ASSUME TypeOK, [Next]_vars PROVE WriterTypes'
<1> USE Labels DEF TypeOK
<1>0. ASSUME UNCHANGED <<wire, cur>>, ThreadTypes',
             \A t \in Session : \/ pc'[t]["write"] = pc[t]["write"]
                                \/ pc'[t]["write"] \notin {"header", "payload"}
      PROVE  WriterTypes'
  BY <1>0 DEF WriterTypes
<1>1. ASSUME NEW s \in Session, NEW k \in Kind, NEW l \in Label \ {"header", "payload"},
             Goto(s, k, l), UNCHANGED <<wire, cur>>
      PROVE  WriterTypes'
  BY <1>0, <1>1, GotoMoves, ThreadStep
<1>2. ASSUME UNCHANGED <<pc, wire, cur>> PROVE WriterTypes'
  BY <1>2 DEF WriterTypes
<1>3. ASSUME NEW cb \in Callback, SetOnClose(cb) \/ SetControlCallback(cb)
      PROVE  WriterTypes'
  BY <1>3, <1>2 DEF SetOnClose, SetControlCallback, link
<1>4. CASE ParentCancel
  BY <1>4, <1>2 DEF ParentCancel, link
<1>5. ASSUME NEW s \in Session, RegisterSession(s) PROVE WriterTypes'
  <2>1. /\ UNCHANGED <<wire, cur>>
        /\ pc' = [pc EXCEPT ![s] = [@ EXCEPT !["read"] = "check", !["write"] = "select"]]
    BY <1>5 DEF RegisterSession, Track
  <2>2. \A t \in Session : pc'[t]["write"] \in {pc[t]["write"], "select"}
    BY <2>1 DEF ThreadTypes
  <2> QED
    BY <2>1, <2>2, <1>0, ThreadStep
<1>6. ASSUME NEW s \in Session, PeerClose(s) PROVE WriterTypes'
  BY <1>6, <1>2 DEF PeerClose
<1>7. ASSUME NEW s \in Dropped, UnregisterCall(s) PROVE WriterTypes'
  BY <1>7, <1>1, ConstantsAssumption DEF UnregisterCall, link, unregLocals
<1>8. ASSUME NEW s \in Session, ReadLoop(s) PROVE WriterTypes'
  BY <1>8, <1>1 DEF ReadLoop, ReadCheck, ReadPacket, ReadError, CallbackReturn,
                    readFrame, link
<1>9. ASSUME NEW s \in Session, WriteLoop(s) PROVE WriterTypes'
  <2> DEFINE Wire == Seq(Packet \X {"header", "payload", "torn"})
  <2>0. ASSUME NEW l \in Label, Goto(s, "write", l), NEW c \in Packet \cup {NoPacket},
               cur' = [cur EXCEPT ![s] = c], l \in {"header", "payload"} => c \in Packet,
               wire' \in [Session -> Wire]
        PROVE  WriterTypes'
    <3>1. /\ cur' \in [Session -> Packet \cup {NoPacket}]
          /\ cur'[s] = c
          /\ \A t \in Session \ {s} : cur'[t] = cur[t]
      BY <2>0 DEF WriterTypes
    <3>2. /\ pc'[s]["write"] = l
          /\ \A t \in Session \ {s} : pc'[t]["write"] = pc[t]["write"]
      BY <2>0, GotoMoves
    <3> QED
      BY <2>0, <3>1, <3>2, Zenon DEF WriterTypes
  <2>1. CASE WriteStop(s)
    BY <2>1, <1>1, Zenon DEF WriteStop
  <2>2. CASE WriteDequeue(s)
    <3>1. Head(out[s]) \in Packet
      BY <2>2 DEF WriteDequeue, DataTypes
    <3> QED
      BY <2>2, <3>1, <2>0, Zenon DEF WriteDequeue, WriterTypes
  <2>3. CASE WriteHeader(s)
    <3>1. cur[s] \in Packet
      BY <2>3 DEF WriteHeader, WriterTypes
    <3>2. wire' \in [Session -> Wire]
      BY <2>3, <3>1 DEF WriteHeader, WriterTypes
    <3>3. CASE cur[s] \in Empty
      BY <2>3, <3>2, <3>3, <2>0, Zenon DEF WriteHeader
    <3>4. CASE cur[s] \notin Empty
      <4>1. cur' = [cur EXCEPT ![s] = cur[s]]
        BY <2>3, <3>4 DEF WriteHeader, WriterTypes
      <4> QED
        BY <2>3, <3>1, <3>2, <3>4, <4>1, <2>0, Zenon DEF WriteHeader
    <3> QED
      BY <3>3, <3>4
  <2>4. CASE WritePayload(s)
    <3>1. wire' \in [Session -> Wire]
      BY <2>4 DEF WritePayload, WriterTypes
    <3> QED
      BY <2>4, <3>1, <2>0, Zenon DEF WritePayload
  <2>5. CASE WriteError(s)
    <3>1. wire' \in [Session -> Wire]
      BY <2>5 DEF WriteError, WriteFails, WriterTypes
    <3> QED
      BY <2>5, <3>1, <2>0, Zenon DEF WriteError, WriteFails
  <2> QED
    BY <1>9, <2>1, <2>2, <2>3, <2>4, <2>5 DEF WriteLoop
<1>10. ASSUME NEW s \in Session, NEW k \in Kind, Unregister(s, k) PROVE WriterTypes'
  BY <1>10, <1>1, Zenon DEF Unregister, UnregisterNotFound, UnregisterDelete, TakeOut,
                     UnregisterCloseQueue, CloseQueue, UnregisterCloseConn,
                     UnregisterNotify, unregLocals, link
<1>11. ASSUME NEW p \in Packet, SendToLocal(p) PROVE WriterTypes'
  BY <1>11, <1>1, <1>2, Zenon DEF SendToLocal, SendNotFound, SendFound, SendToClosed, SendAccept,
                     Enqueue, SendBlocked, CutOff, sendFrame, link, DataTypes
<1>12. CASE Close
  BY <1>12, <1>2 DEF Close, CloseCancel, Cancel, CloseSweep, Snapshot, CloseConn,
                     CloseWait, CloseReturn, closeFrame
<1>13. CASE UNCHANGED vars
  BY <1>13, <1>2 DEF vars, link
<1> QED
  BY <1>3, <1>4, <1>5, <1>6, <1>7, <1>8, <1>9, <1>10, <1>11, <1>12, <1>13 DEF Next

\* A step leaves the table, the queues, the calls and the histories well typed.
LEMMA DataStep == ASSUME TypeOK, [Next]_vars PROVE DataTypes'
<1> USE ConstantsAssumption
    DEF table, hooks, link, queue, calls, closing, unregLocals, sendFrame, readFrame,
        writeFrame, closeFrame, TypeOK, DataTypes
<1>1. ASSUME NEW cb \in Callback, SetOnClose(cb) PROVE DataTypes'
  BY <1>1, Zenon DEF SetOnClose
<1>2. ASSUME NEW cb \in Callback, SetControlCallback(cb) PROVE DataTypes'
  BY <1>2 DEF SetControlCallback
<1>3. CASE ParentCancel
  BY <1>3 DEF ParentCancel
<1>4. ASSUME NEW s \in Session, RegisterSession(s) PROVE DataTypes'
  BY <1>4, SMTT(30) DEF RegisterSession, Track, DID, FlagTypes
<1>5. ASSUME NEW s \in Session, PeerClose(s) PROVE DataTypes'
  BY <1>5 DEF PeerClose
<1>6. ASSUME NEW s \in Dropped, UnregisterCall(s) PROVE DataTypes'
  BY <1>6, Zenon DEF UnregisterCall
<1>7. ASSUME NEW s \in Session, ReadLoop(s) PROVE DataTypes'
  <2>1. UNCHANGED readFrame
    BY <1>7, Zenon DEF ReadLoop, ReadCheck, ReadPacket, ReadError, CallbackReturn
  <2> QED
    BY <2>1, Zenon
<1>8. ASSUME NEW s \in Session, WriteLoop(s) PROVE DataTypes'
  <2>1. CASE WriteDequeue(s)
    <3>1. /\ out[s] \in Seq(Packet) /\ out[s] # <<>> /\ Len(out[s]) <= QueueSize
          /\ out' = [out EXCEPT ![s] = Tail(out[s])]
          /\ UNCHANGED writeFrame
      BY <2>1, Zenon DEF WriteDequeue
    <3>2. Tail(out[s]) \in Seq(Packet) /\ Len(Tail(out[s])) <= QueueSize
      BY <3>1
    <3>3. out' \in [Session -> Seq(Packet)] /\ \A t \in Session : Len(out'[t]) <= QueueSize
      BY <3>1, <3>2
    <3> QED
      BY <3>1, <3>3, Zenon
  <2>2. CASE UNCHANGED <<out, writeFrame>>
    BY <2>2, Zenon
  <2> QED
    BY <1>8, <2>1, <2>2, Zenon DEF WriteLoop, WriteStop, WriteHeader, WritePayload, WriteError,
                            WriteFails
<1>9. ASSUME NEW s \in Session, NEW k \in Kind, Unregister(s, k) PROVE DataTypes'
  <2>1. CASE UnregisterNotFound(s, k)
    BY <2>1, Zenon DEF UnregisterNotFound
  <2>2. CASE UnregisterDelete(s, k)
    BY <2>2, Zenon DEF UnregisterDelete, TakeOut, FlagTypes
  <2>3. CASE UnregisterCloseQueue(s, k)
    <3>1. target[s][k] \in Session
      BY <2>3, Zenon DEF UnregisterCloseQueue, CloseQueue, ThreadTypes, Teardown
    <3>2. closeOnce' \in [Session -> BOOLEAN] /\ isClosed' \in [Session -> BOOLEAN]
      BY <2>3, <3>1, ZenonT(40) DEF UnregisterCloseQueue, CloseQueue
    <3>3. outClosed' \in [Session -> BOOLEAN]
      BY <2>3, <3>1, ZenonT(40) DEF UnregisterCloseQueue, CloseQueue
    <3>4. UNCHANGED <<table, link, out, captured, notified, unregLocals>>
      BY <2>3, Zenon DEF UnregisterCloseQueue, CloseQueue
    <3> QED
      BY <3>2, <3>3, <3>4, Zenon
  <2>4. CASE UnregisterCloseConn(s, k)
    BY <2>4, Zenon DEF UnregisterCloseConn
  <2>5. CASE UnregisterNotify(s, k)
    <3>1. target[s][k] \in Session
      BY <2>5, Zenon DEF UnregisterNotify, ThreadTypes, Teardown
    <3> QED
      BY <2>5, <3>1, SMTT(30) DEF UnregisterNotify
  <2> QED
    BY <1>9, <2>1, <2>2, <2>3, <2>4, <2>5, Zenon DEF Unregister
<1>10. ASSUME NEW p \in Packet, SendToLocal(p) PROVE DataTypes'
  <2>1. ASSUME NEW d \in DID, SendNotFound(p, d) PROVE DataTypes'
    BY <2>1, Zenon DEF SendNotFound
  <2>2. ASSUME NEW d \in DID, SendFound(p, d) PROVE DataTypes'
    BY <2>2, SMTT(30) DEF SendFound
  <2>3. CASE SendToClosed(p)
    BY <2>3 DEF SendToClosed
  <2>4. CASE SendAccept(p)
    BY <2>4, SMTT(30) DEF SendAccept, Enqueue
  <2>5. CASE SendBlocked(p)
    BY <2>5, Zenon DEF SendBlocked, CutOff
  <2> QED
    BY <1>10, <2>1, <2>2, <2>3, <2>4, <2>5, Zenon DEF SendToLocal
<1>11. CASE CloseCancel
  BY <1>11, Zenon DEF CloseCancel, Cancel
<1>12. CASE CloseSweep
  BY <1>12, Zenon DEF CloseSweep, Snapshot
<1>13. ASSUME NEW s \in Session, CloseConn(s) PROVE DataTypes'
  BY <1>13, Zenon DEF CloseConn
<1>14. CASE CloseWait \/ CloseReturn
  BY <1>14, SMTT(30) DEF CloseWait, CloseReturn
<1>15. CASE UNCHANGED vars
  BY <1>15, Zenon DEF vars
<1> QED
  BY <1>1, <1>2, <1>3, <1>4, <1>5, <1>6, <1>7, <1>8, <1>9, <1>10, <1>11, <1>12, <1>13,
     <1>14, <1>15, Zenon DEF Next, Close

\* The initial state is well typed.
LEMMA TypeInit == Init => TypeOK
<1>1. Init => FlagTypes
  BY Zenon DEF Init, FlagTypes
<1>2. Init => ThreadTypes
  BY ConstantsAssumption, Labels DEF Init, ThreadTypes
<1>3. Init => WriterTypes
  BY Labels DEF Init, WriterTypes
<1>4. Init => DataTypes
  BY ConstantsAssumption DEF Init, DataTypes, DID
<1> QED
  BY <1>1, <1>2, <1>3, <1>4 DEF TypeOK

\* A step keeps the types.
LEMMA TypeStep == TypeOK /\ [Next]_vars => TypeOK'
  BY FlagStep, ThreadStep, WriterStep, DataStep DEF TypeOK

\* Every variable keeps its type and no queue outgrows its capacity.
THEOREM Typing == Spec => []TypeOK
  BY TypeInit, TypeStep, PTL DEF Spec

-----------------------------------------------------------------------------
(* The outbound channel. *)

QueueInv == ~panic /\ \A s \in Session : outClosed[s] <=> isClosed[s]

\* The flag isClosed, which is only written under writeMu, is an exact copy of
\* the state of the channel, so no goroutine closes it twice or sends on it
\* after it was closed.
THEOREM ChannelSafety == Spec => []NoPanic
<1> USE DEF table, hooks, link, queue, calls, closing, unregLocals, sendFrame, readFrame,
            writeFrame, closeFrame
<1>1. Init => QueueInv
  BY DEF Init, QueueInv
<1>2. TypeOK /\ QueueInv /\ [Next]_vars => QueueInv'
  <2> SUFFICES ASSUME TypeOK, QueueInv, [Next]_vars PROVE QueueInv'
    OBVIOUS
  <2>0. ASSUME UNCHANGED <<outClosed, isClosed, panic>> PROVE QueueInv'
    BY <2>0, Zenon DEF QueueInv
  <2>1. ASSUME NEW s \in Session, NEW k \in Kind, UnregisterCloseQueue(s, k)
        PROVE  QueueInv'
    <3>1. target[s][k] \in Session
      BY <2>1 DEF UnregisterCloseQueue, CloseQueue, TypeOK, ThreadTypes, Teardown
    <3>2. CASE closeOnce[target[s][k]]
      BY <2>1, <2>0, <3>2 DEF UnregisterCloseQueue, CloseQueue
    <3>3. CASE ~closeOnce[target[s][k]]
      <4> DEFINE x == target[s][k]
      <4>1. /\ isClosed' = [isClosed EXCEPT ![x] = TRUE]
            /\ outClosed' = [outClosed EXCEPT ![x] = @ \/ ~isClosed[x]]
            /\ panic' = (panic \/ (~isClosed[x] /\ outClosed[x]))
        BY <2>1, <3>3, Zenon DEF UnregisterCloseQueue, CloseQueue
      <4>2. ~panic'
        BY <3>1, <4>1, Zenon DEF QueueInv
      <4>3. \A t \in Session : outClosed'[t] <=> isClosed'[t]
        BY <3>1, <4>1, Zenon DEF QueueInv, TypeOK, DataTypes
      <4> QED
        BY <4>2, <4>3 DEF QueueInv
    <3> QED
      BY <3>2, <3>3
  <2>2. ASSUME NEW p \in Packet, SendAccept(p) PROVE QueueInv'
    BY <2>2, Zenon DEF SendAccept, Enqueue, QueueInv, TypeOK, DataTypes
  <2>3. ASSUME NEW p \in Packet, SendBlocked(p) PROVE QueueInv'
    BY <2>3, Zenon DEF SendBlocked, CutOff, QueueInv, TypeOK, DataTypes
  <2>4. ASSUME NEW cb \in Callback, SetOnClose(cb) \/ SetControlCallback(cb)
        PROVE  QueueInv'
    BY <2>4, <2>0 DEF SetOnClose, SetControlCallback
  <2>5. ASSUME NEW s \in Session, \/ RegisterSession(s) \/ PeerClose(s) \/ ReadLoop(s)
                                  \/ WriteLoop(s) \/ UnregisterCall(s) \/ CloseConn(s)
        PROVE  QueueInv'
    BY <2>5, <2>0, Zenon DEF RegisterSession, Track, PeerClose, ReadLoop, ReadCheck, ReadPacket,
         ReadError, CallbackReturn, WriteLoop, WriteStop, WriteDequeue, WriteHeader,
         WritePayload, WriteError, WriteFails, UnregisterCall, CloseConn
  <2>6. ASSUME NEW s \in Session, NEW k \in Kind,
               \/ UnregisterNotFound(s, k) \/ UnregisterDelete(s, k)
               \/ UnregisterCloseConn(s, k) \/ UnregisterNotify(s, k)
        PROVE  QueueInv'
    BY <2>6, <2>0, Zenon DEF UnregisterNotFound, UnregisterDelete, TakeOut, UnregisterCloseConn,
                      UnregisterNotify
  <2>7. ASSUME NEW p \in Packet, NEW d \in DID,
               SendNotFound(p, d) \/ SendFound(p, d) \/ SendToClosed(p)
        PROVE  QueueInv'
    BY <2>7, <2>0, Zenon DEF SendNotFound, SendFound, SendToClosed
  <2>8. CASE ParentCancel \/ CloseCancel \/ CloseSweep \/ CloseWait \/ CloseReturn \/ UNCHANGED vars
    BY <2>8, <2>0, Zenon DEF ParentCancel, CloseCancel, Cancel, CloseSweep, Snapshot, CloseWait, CloseReturn,
                      vars
  <2>9. 0 \in DID
    BY ConstantsAssumption DEF DID
  <2> QED
    BY <2>1, <2>2, <2>3, <2>4, <2>5, <2>6, <2>7, <2>8, <2>9, ConstantsAssumption
       DEF Next, Unregister, SendToLocal, Close
<1>3. QueueInv => NoPanic
  BY DEF QueueInv, NoPanic
<1> QED
  BY <1>1, <1>2, <1>3, Typing, PTL DEF Spec

-----------------------------------------------------------------------------
(* The stream a client reads. *)

Write == Packet \X {"header", "payload", "torn"}

\* Where writePacket is about to write.
WritePoint == {"header", "payload"}

\* The stream ends at the end of a frame; the frames it has begun.
Whole(w) == w # <<>> => Ends(w[Len(w)])
Frames(w) == Cardinality(Begun(w, Len(w)))

\* The queue holds the packets accepted last; the others the write loop took.
Waiting(q, acc) ==
    /\ Len(q) <= Len(acc)
    /\ \A i \in 1 .. Len(q) : q[i] = acc[Len(acc) - Len(q) + i]
Taken(q, acc) == Len(acc) - Len(q)

\* Where the write loop is tells how far the stream has come: the packet in hand
\* is the last one taken from the queue, and the stream ends where the loop's next
\* write goes on.
Progress(w, acc, q, at, c) ==
    /\ Framed(w, acc)
    /\ Waiting(q, acc)
    /\ at \in {"unborn", "select"} => Whole(w) /\ Frames(w) = Taken(q, acc)
    /\ at = "header" => /\ Whole(w) /\ Frames(w) + 1 = Taken(q, acc)
                        /\ c = acc[Taken(q, acc)]
    /\ at = "payload" => /\ w # <<>> /\ w[Len(w)] = <<c, "header">> /\ c \notin Empty
                         /\ Frames(w) = Taken(q, acc) /\ Taken(q, acc) > 0
                         /\ c = acc[Taken(q, acc)]

StreamInv(s) ==
    /\ Progress(wire[s], accepted[s], out[s], pc[s]["write"], cur[s])
    /\ conn[s] = "none" => pc[s]["write"] = "unborn"

\* v is w and one write more, as far as its frames are concerned.
Longer(w, v) ==
  /\ Len(w) \in Nat /\ Len(v) = Len(w) + 1
  /\ DOMAIN w = 1 .. Len(w) /\ DOMAIN v = 1 .. Len(w) + 1
  /\ \A i \in 1 .. Len(w) : v[i] = w[i] /\ Begun(v, i) = Begun(w, i)
                            /\ (Begins(v, i) <=> Begins(w, i))
  /\ Begins(v, Len(w) + 1) <=> Whole(w)
  /\ Begun(v, Len(w) + 1) = IF Whole(w) THEN Begun(w, Len(w)) \cup {Len(w) + 1}
                                        ELSE Begun(w, Len(w))

\* A write on the connection begins a frame exactly if the stream was whole.
LEMMA BegunAppend ==
  ASSUME NEW w \in Seq(Write), NEW x \in Write, NEW v, v = Append(w, x)
  PROVE  v \in Seq(Write) /\ v[Len(w) + 1] = x /\ Longer(w, v)
<1> DEFINE n == Len(w)
<1>1. /\ v \in Seq(Write) /\ n \in Nat /\ Len(v) = n + 1 /\ v[n + 1] = x
      /\ DOMAIN w = 1 .. n /\ DOMAIN v = 1 .. n + 1
      /\ \A i \in 1 .. n : v[i] = w[i]
  OBVIOUS
<1>2. \A i \in 1 .. n : Begins(v, i) <=> Begins(w, i)
  <2> SUFFICES ASSUME NEW i \in 1 .. n PROVE Begins(v, i) <=> Begins(w, i)
    OBVIOUS
  <2>1. i # 1 => i - 1 \in 1 .. n
    BY <1>1
  <2> QED
    BY <1>1, <2>1 DEF Begins
<1>3. Begins(v, n + 1) <=> Whole(w)
  <2>1. n + 1 = 1 <=> w = <<>>
    OBVIOUS
  <2>2. w # <<>> => (n + 1) - 1 \in 1 .. n /\ (n + 1) - 1 = n
    OBVIOUS
  <2>3. w # <<>> => v[(n + 1) - 1] = w[n]
    BY <2>2, <1>1
  <2> QED
    BY <2>1, <2>3 DEF Begins, Whole
<1>4. \A i \in 1 .. n : Begun(v, i) = Begun(w, i)
  <2> SUFFICES ASSUME NEW i \in 1 .. n PROVE Begun(v, i) = Begun(w, i)
    OBVIOUS
  <2>1. \A j \in 1 .. i : j \in 1 .. n
    BY <1>1
  <2> QED
    BY <2>1, <1>2 DEF Begun
<1>5. Begun(v, n + 1) = IF Whole(w) THEN Begun(w, n) \cup {n + 1} ELSE Begun(w, n)
  <2>1. \A j : j \in 1 .. n + 1 <=> j \in 1 .. n \/ j = n + 1
    BY <1>1
  <2> QED
    BY <2>1, <1>2, <1>3 DEF Begun
<1> QED
  BY <1>1, <1>2, <1>3, <1>4, <1>5 DEF Longer

\* The number of frames begun, and how a write changes it.
LEMMA FramesNat ==
  ASSUME NEW w \in Seq(Write)
  PROVE  IsFiniteSet(Begun(w, Len(w))) /\ Frames(w) \in Nat
<1>1. IsFiniteSet(1 .. Len(w)) /\ Begun(w, Len(w)) \subseteq 1 .. Len(w)
  BY FS_Interval DEF Begun
<1>2. IsFiniteSet(Begun(w, Len(w)))
  BY <1>1, FS_Subset
<1> QED
  BY <1>2, FS_CardinalityType DEF Frames

LEMMA FramesAppend ==
  ASSUME NEW w \in Seq(Write), NEW x \in Write, NEW v, v = Append(w, x)
  PROVE  Frames(v) = IF Whole(w) THEN Frames(w) + 1 ELSE Frames(w)
<1> DEFINE n == Len(w)
           B == Begun(w, n)
<1>1. n \in Nat /\ Len(v) = n + 1 /\ Begun(v, n + 1) = IF Whole(w) THEN B \cup {n + 1} ELSE B
  <2>1. Longer(w, v)
    BY BegunAppend, Zenon
  <2> QED
    BY <2>1, Zenon DEF Longer
<1>2. n + 1 \notin B
  BY <1>1 DEF Begun
<1>3. Cardinality(B \cup {n + 1}) = Cardinality(B) + 1
  BY <1>2, FramesNat, FS_AddElement
<1> QED
  BY <1>1, <1>3 DEF Frames

\* A write that goes on where the stream ends keeps it framed.
LEMMA FramedAppend ==
  ASSUME NEW w \in Seq(Write), NEW ps \in Seq(Packet), Framed(w, ps),
         NEW p \in Packet, NEW part \in {"header", "payload", "torn"},
         NEW v, v = Append(w, <<p, part>>),
         w # <<>> => w[Len(w)][2] # "torn",
         Frames(v) \in DOMAIN ps, p = ps[Frames(v)],
         part = "torn" \/ part = IF Whole(w) THEN "header" ELSE "payload"
  PROVE  Framed(v, ps)
<1> DEFINE n == Len(w)
           x == <<p, part>>
<1>1. x \in Write /\ x[1] = p /\ x[2] = part
  BY DEF Write
<1> HIDE DEF x
<1>2. Longer(w, v) /\ v[n + 1] = x
  <2>1. v = Append(w, x)
    BY DEF x
  <2> QED
    BY <1>1, <2>1, BegunAppend, Zenon
<1>3. SUFFICES ASSUME NEW i \in 1 .. n + 1
      PROVE  /\ Cardinality(Begun(v, i)) \in DOMAIN ps
             /\ v[i][1] = ps[Cardinality(Begun(v, i))]
             /\ v[i][2] = "torn" \/ v[i][2] = IF Begins(v, i) THEN "header" ELSE "payload"
             /\ v[i][2] = "torn" => i = Len(v)
  BY <1>2 DEF Framed, Longer
<1>4. CASE i = n + 1
  <2>1. Cardinality(Begun(v, i)) = Frames(v) /\ i = Len(v) /\ (Begins(v, i) <=> Whole(w))
    BY <1>2, <1>4, Zenon DEF Frames, Longer
  <2> QED
    BY <1>1, <1>2, <1>4, <2>1
<1>5. CASE i # n + 1
  <2>1. i \in 1 .. n
    BY <1>5
  <2>2. i \in DOMAIN w /\ v[i] = w[i] /\ Begun(v, i) = Begun(w, i) /\ (Begins(v, i) <=> Begins(w, i))
    BY <1>2, <2>1, Zenon DEF Longer
  <2>3. w[i][2] # "torn"
    BY <2>1, <2>2 DEF Framed
  <2> QED
    BY <2>2, <2>3, Zenon DEF Framed
<1> QED
  BY <1>4, <1>5

\* Accepting one packet more leaves a framed stream framed.
LEMMA FramedAccept ==
  ASSUME NEW w, NEW ps \in Seq(Packet), NEW p \in Packet, Framed(w, ps)
  PROVE  Framed(w, Append(ps, p))
<1>1. \A k \in DOMAIN ps : k \in DOMAIN Append(ps, p) /\ Append(ps, p)[k] = ps[k]
  OBVIOUS
<1> QED
  BY <1>1 DEF Framed

\* What SendToLocal accepts goes to the end of the queue.
LEMMA WaitingAccept ==
  ASSUME NEW q \in Seq(Packet), NEW acc \in Seq(Packet), NEW p \in Packet, Waiting(q, acc)
  PROVE  /\ Waiting(Append(q, p), Append(acc, p))
         /\ Taken(Append(q, p), Append(acc, p)) = Taken(q, acc)
         /\ \A k \in 1 .. Taken(q, acc) : Append(acc, p)[k] = acc[k]
<1> DEFINE m == Len(q)
           n == Len(acc)
           q1 == Append(q, p)
           a1 == Append(acc, p)
<1>1. /\ m \in Nat /\ n \in Nat /\ Len(q1) = m + 1 /\ Len(a1) = n + 1
      /\ q1[m + 1] = p /\ a1[n + 1] = p
      /\ \A i \in 1 .. m : q1[i] = q[i]
      /\ \A i \in 1 .. n : a1[i] = acc[i]
  OBVIOUS
<1>2. m <= n /\ \A i \in 1 .. m : q[i] = acc[n - m + i]
  BY DEF Waiting
<1> HIDE DEF m, n, q1, a1
<1>3. ASSUME NEW i \in 1 .. m + 1 PROVE q1[i] = a1[(n + 1) - (m + 1) + i]
  <2>1. CASE i = m + 1
    BY <1>1, <1>2, <2>1
  <2>2. CASE i # m + 1
    <3>1. i \in 1 .. m /\ n - m + i \in 1 .. n /\ (n + 1) - (m + 1) + i = n - m + i
      BY <1>1, <1>2, <2>2
    <3> QED
      BY <1>1, <1>2, <3>1
  <2> QED
    BY <2>1, <2>2
<1>4. Waiting(q1, a1)
  BY <1>1, <1>2, <1>3 DEF Waiting
<1>5. (n + 1) - (m + 1) = n - m
  BY <1>1
<1>6. ASSUME NEW k \in 1 .. n - m PROVE k \in 1 .. n
  BY <1>1, <1>2
<1> QED
  BY <1>1, <1>4, <1>5, <1>6 DEF Taken, m, n, q1, a1

\* What the write loop takes from the queue is the next packet accepted.
LEMMA WaitingTake ==
  ASSUME NEW q \in Seq(Packet), NEW acc \in Seq(Packet), q # <<>>, Waiting(q, acc)
  PROVE  /\ Waiting(Tail(q), acc)
         /\ Taken(Tail(q), acc) = Taken(q, acc) + 1
         /\ Head(q) = acc[Taken(Tail(q), acc)]
<1> DEFINE m == Len(q)
           n == Len(acc)
           q1 == Tail(q)
<1>1. /\ m \in Nat /\ n \in Nat /\ m > 0 /\ Len(q1) = m - 1 /\ Head(q) = q[1]
      /\ \A i \in 1 .. m - 1 : q1[i] = q[i + 1]
  OBVIOUS
<1>2. m <= n /\ \A i \in 1 .. m : q[i] = acc[n - m + i]
  BY DEF Waiting
<1> HIDE DEF m, n, q1
<1>3. ASSUME NEW i \in 1 .. m - 1 PROVE q1[i] = acc[n - (m - 1) + i]
  <2>1. i + 1 \in 1 .. m /\ n - m + (i + 1) = n - (m - 1) + i
    BY <1>1
  <2> QED
    BY <1>1, <1>2, <2>1
<1>4. Waiting(q1, acc)
  BY <1>1, <1>2, <1>3 DEF Waiting, n
<1>5. n - (m - 1) = n - m + 1 /\ 1 \in 1 .. m
  BY <1>1
<1> QED
  BY <1>1, <1>2, <1>4, <1>5 DEF Taken, m, n, q1

\* How many packets were taken is the place of the packet in hand.
LEMMA TakenRange ==
  ASSUME NEW q \in Seq(Packet), NEW acc \in Seq(Packet), Waiting(q, acc)
  PROVE  /\ Taken(q, acc) \in Nat
         /\ Taken(q, acc) # 0 => Taken(q, acc) \in 1 .. Taken(q, acc) /\ Taken(q, acc) \in DOMAIN acc
<1>1. Len(q) \in Nat /\ Len(acc) \in Nat /\ DOMAIN acc = 1 .. Len(acc) /\ Len(q) <= Len(acc)
  BY DEF Waiting
<1> QED
  BY <1>1 DEF Taken

\* The stream v ends with the given part of the frame of the packet taken last.
Fits(v, acc, q, c, part) ==
  /\ Framed(v, acc) /\ Waiting(q, acc)
  /\ Frames(v) = Taken(q, acc) /\ Taken(q, acc) > 0 /\ c = acc[Taken(q, acc)]
  /\ v # <<>> /\ v[Len(v)] = <<c, part>>

\* The write that writePacket makes next, whole or torn, goes on with the frame
\* of the packet in hand.
LEMMA NextWriteFits ==
  ASSUME NEW w \in Seq(Write), NEW acc \in Seq(Packet), NEW q \in Seq(Packet),
         NEW c \in Packet, NEW at \in WritePoint, Progress(w, acc, q, at, c),
         NEW part, part = at \/ part = "torn", NEW v, v = Append(w, <<c, part>>)
  PROVE  Fits(v, acc, q, c, part)
<1> DEFINE x == <<c, part>>
<1>1. x \in Write /\ part \in {"header", "payload", "torn"}
  BY DEF Write, WritePoint
<1>2. v \in Seq(Write) /\ v # <<>> /\ v[Len(v)] = x
  BY <1>1
<1>3. Framed(w, acc) /\ Waiting(q, acc) /\ c = acc[Taken(q, acc)]
  BY DEF Progress, WritePoint
<1>4. Whole(w) <=> at = "header"
  <2>1. CASE at = "header"
    BY <2>1, Zenon DEF Progress
  <2>2. CASE at = "payload"
    <3>1. w # <<>> /\ w[Len(w)] = <<c, "header">> /\ c \notin Empty
      BY <2>2, Zenon DEF Progress
    <3>2. ~Ends(<<c, "header">>)
      BY <3>1 DEF Ends
    <3> QED
      BY <2>2, <3>1, <3>2 DEF Whole
  <2> QED
    BY <2>1, <2>2 DEF WritePoint
<1>5. Frames(w) \in Nat /\ Frames(v) = IF Whole(w) THEN Frames(w) + 1 ELSE Frames(w)
  BY <1>1, FramesAppend, FramesNat, Zenon
<1>6. Taken(q, acc) \in Nat /\ (Taken(q, acc) # 0 => Taken(q, acc) \in DOMAIN acc)
  BY <1>3, TakenRange, Zenon
<1>7. Frames(v) = Taken(q, acc) /\ Taken(q, acc) > 0
  <2>1. CASE at = "header"
    <3>1. Frames(w) + 1 = Taken(q, acc)
      BY <2>1, Zenon DEF Progress
    <3> QED
      BY <1>4, <1>5, <2>1, <3>1
  <2>2. CASE at = "payload"
    BY <1>4, <1>5, <2>2 DEF Progress
  <2> QED
    BY <2>1, <2>2 DEF WritePoint
<1>8. w # <<>> => w[Len(w)][2] # "torn"
  BY <1>4 DEF Progress, Whole, Ends, WritePoint
<1>9. part = "torn" \/ part = IF Whole(w) THEN "header" ELSE "payload"
  BY <1>4 DEF WritePoint
<1>10. Frames(v) \in DOMAIN acc /\ c = acc[Frames(v)]
  BY <1>3, <1>6, <1>7
<1>11. Framed(v, acc)
  BY <1>1, <1>3, <1>8, <1>9, <1>10, FramedAppend, Zenon
<1> QED
  BY <1>2, <1>3, <1>7, <1>11 DEF Fits

\* The cases of the write loop and of SendToLocal, for one session.
LEMMA ProgressWrite ==
  ASSUME NEW w \in Seq(Write), NEW acc \in Seq(Packet), NEW q \in Seq(Packet),
         NEW c \in Packet, NEW at \in WritePoint, Progress(w, acc, q, at, c),
         NEW v, v = Append(w, <<c, at>>), NEW d
  PROVE  IF at = "header" /\ c \notin Empty THEN Progress(v, acc, q, "payload", c)
                                             ELSE Progress(v, acc, q, "select", d)
<1>1. /\ Framed(v, acc) /\ Waiting(q, acc)
      /\ Frames(v) = Taken(q, acc) /\ Taken(q, acc) > 0 /\ c = acc[Taken(q, acc)]
      /\ v # <<>> /\ v[Len(v)] = <<c, at>>
  <2>1. Fits(v, acc, q, c, at)
    BY NextWriteFits, Zenon
  <2> QED
    BY <2>1 DEF Fits
<1>2. CASE at = "header" /\ c \notin Empty
  BY <1>1, <1>2, Zenon DEF Progress
<1>3. CASE ~(at = "header" /\ c \notin Empty)
  <2>1. Ends(<<c, at>>)
    BY <1>3 DEF Ends, WritePoint
  <2>2. Whole(v)
    BY <1>1, <2>1, Zenon DEF Whole
  <2> QED
    BY <1>1, <1>3, <2>2, Zenon DEF Progress
<1> QED
  BY <1>2, <1>3

LEMMA ProgressFail ==
  ASSUME NEW w \in Seq(Write), NEW acc \in Seq(Packet), NEW q \in Seq(Packet),
         NEW c \in Packet, NEW at \in WritePoint, Progress(w, acc, q, at, c),
         NEW v, v = w \/ v = Append(w, <<c, "torn">>), NEW d
  PROVE  Progress(v, acc, q, "lookup", d)
<1>1. Framed(v, acc) /\ Waiting(q, acc)
  <2>1. CASE v = w
    BY <2>1, Zenon DEF Progress
  <2>2. CASE v = Append(w, <<c, "torn">>)
    <3>1. Fits(v, acc, q, c, "torn")
      BY <2>2, NextWriteFits, Zenon
    <3> QED
      BY <3>1, Zenon DEF Fits
  <2> QED
    BY <2>1, <2>2 DEF WritePoint
<1> QED
  BY <1>1, Zenon DEF Progress

LEMMA ProgressTake ==
  ASSUME NEW w \in Seq(Write), NEW acc \in Seq(Packet), NEW q \in Seq(Packet), q # <<>>,
         NEW c, Progress(w, acc, q, "select", c)
  PROVE  Progress(w, acc, Tail(q), "header", Head(q))
<1>1. Framed(w, acc) /\ Waiting(q, acc) /\ Whole(w) /\ Frames(w) = Taken(q, acc)
  BY Zenon DEF Progress
<1>2. /\ Waiting(Tail(q), acc)
      /\ Taken(Tail(q), acc) = Taken(q, acc) + 1
      /\ Head(q) = acc[Taken(Tail(q), acc)]
  BY <1>1, WaitingTake, Zenon
<1> QED
  BY <1>1, <1>2, Zenon DEF Progress

LEMMA ProgressAccept ==
  ASSUME NEW w \in Seq(Write), NEW acc \in Seq(Packet), NEW q \in Seq(Packet),
         NEW p \in Packet, NEW at, NEW c, Progress(w, acc, q, at, c)
  PROVE  Progress(w, Append(acc, p), Append(q, p), at, c)
<1>1. Framed(w, acc) /\ Waiting(q, acc)
  BY Zenon DEF Progress
<1>2. Framed(w, Append(acc, p))
  BY <1>1, FramedAccept, Zenon
<1>3. /\ Waiting(Append(q, p), Append(acc, p))
      /\ Taken(Append(q, p), Append(acc, p)) = Taken(q, acc)
      /\ \A k \in 1 .. Taken(q, acc) : Append(acc, p)[k] = acc[k]
  BY <1>1, WaitingAccept, Zenon
<1>4. Frames(w) \in Nat
  BY FramesNat, Zenon
<1>5. at \in {"header", "payload"} => Taken(q, acc) # 0
  BY <1>4 DEF Progress
<1>6. at \in {"header", "payload"} => Append(acc, p)[Taken(q, acc)] = acc[Taken(q, acc)]
  BY <1>1, <1>3, <1>5, TakenRange, Zenon
<1> QED
  BY <1>1, <1>2, <1>3, <1>6, Zenon DEF Progress

Ending == {"lookup", "queue", "conn", "notify", "done"}

\* A goroutine that leaves its loop, and every step outside the write loop, leaves
\* the stream as it is.
LEMMA ProgressEnding ==
  ASSUME NEW w, NEW acc, NEW q, NEW at, NEW c, NEW l \in Ending, NEW d, Progress(w, acc, q, at, c)
  PROVE  Progress(w, acc, q, l, d)
  BY DEF Progress, Ending

LEMMA StreamKept ==
  ASSUME NEW t \in Session, StreamInv(t), UNCHANGED <<wire, accepted, out, cur>>,
         conn'[t] = "none" => conn[t] = "none",
         \/ pc'[t]["write"] = pc[t]["write"]
         \/ pc[t]["write"] # "unborn" /\ pc'[t]["write"] \in Ending
  PROVE  StreamInv(t)'
<1>1. Progress(wire[t], accepted[t], out[t], pc'[t]["write"], cur[t])
  BY ProgressEnding, Zenon DEF StreamInv
<1>2. conn'[t] = "none" => pc'[t]["write"] = "unborn"
  BY Zenon DEF StreamInv
<1> QED
  BY <1>1, <1>2, Zenon DEF StreamInv

\* A step of the write loop.
LEMMA StreamWrite ==
  ASSUME TypeOK, NEW t \in Session, StreamInv(t), NEW s \in Session, WriteLoop(s)
  PROVE  StreamInv(t)'
<1> DEFINE w == wire[t]
           acc == accepted[t]
           q == out[t]
           c == cur[t]
<1>1. /\ w \in Seq(Write) /\ acc \in Seq(Packet) /\ q \in Seq(Packet)
      /\ pc[t]["write"] \in WritePoint => c \in Packet
  BY DEF TypeOK, WriterTypes, DataTypes, Write, WritePoint
<1>2. /\ UNCHANGED <<conn, accepted>>
      /\ \A x \in Session \ {s} : wire'[x] = wire[x] /\ out'[x] = out[x] /\ cur'[x] = cur[x]
  BY DEF WriteLoop, WriteStop, WriteDequeue, WriteHeader, WritePayload, WriteError, WriteFails,
         writeFrame, TypeOK, WriterTypes, DataTypes
<1>3. CASE t # s
  <2>1. pc'[t]["write"] = pc[t]["write"]
    BY <1>3 DEF WriteLoop, WriteStop, WriteDequeue, WriteHeader, WritePayload, WriteError,
                WriteFails, Goto, TypeOK, ThreadTypes
  <2> QED
    BY <1>2, <1>3, <2>1, Zenon DEF StreamInv
<1>4. ASSUME t = s, NEW l \in Label, Goto(s, "write", l), l # "unborn",
             pc[s]["write"] # "unborn",
             Progress(wire'[t], acc, out'[t], l, cur'[t])
      PROVE  StreamInv(t)'
  <2>1. pc'[t]["write"] = l
    <3>1. ThreadTypes /\ "write" \in Kind
      BY Zenon DEF TypeOK, Kind
    <3> QED
      BY <1>4, <3>1, GotoMoves, Zenon
  <2>2. conn'[t] # "none"
    BY <1>2, <1>4, Zenon DEF StreamInv
  <2> QED
    BY <1>2, <1>4, <2>1, <2>2, Zenon DEF StreamInv
<1>5. Progress(w, acc, q, pc[t]["write"], c)
  BY DEF StreamInv
<1>6. CASE t = s /\ WriteStop(s)
  <2>1. /\ pc[s]["write"] = "select" /\ Goto(s, "write", "lookup")
        /\ UNCHANGED <<wire, out, cur>>
    BY <1>6, Zenon DEF WriteStop
  <2>2. Progress(w, acc, q, "lookup", c)
    BY <1>5, ProgressEnding DEF Ending
  <2> QED
    BY <1>4, <1>6, <2>1, <2>2, Labels
<1>7. CASE t = s /\ WriteDequeue(s)
  <2>1. /\ pc[t]["write"] = "select" /\ Goto(s, "write", "header") /\ q # <<>>
        /\ wire'[t] = w /\ out'[t] = Tail(q) /\ cur'[t] = Head(q)
    BY <1>7 DEF WriteDequeue, TypeOK, WriterTypes, DataTypes
  <2>2. Progress(w, acc, Tail(q), "header", Head(q))
    BY <1>1, <1>5, <2>1, ProgressTake, Zenon
  <2> QED
    BY <1>4, <1>7, <2>1, <2>2, Labels
<1>8. CASE t = s /\ WriteHeader(s)
  <2>1. /\ pc[t]["write"] = "header" /\ out'[t] = q
        /\ wire'[t] = Append(w, <<c, "header">>)
        /\ IF c \in Empty THEN Goto(s, "write", "select")
                           ELSE Goto(s, "write", "payload") /\ cur'[t] = c
    BY <1>8 DEF WriteHeader, TypeOK, WriterTypes
  <2>2. "header" \in WritePoint /\ c \in Packet
    BY <1>1, <2>1 DEF WritePoint
  <2>3. IF c \notin Empty THEN Progress(wire'[t], acc, q, "payload", c)
                          ELSE Progress(wire'[t], acc, q, "select", cur'[t])
    BY <1>1, <1>5, <2>1, <2>2, ProgressWrite, Zenon
  <2>4. CASE c \in Empty
    BY <1>4, <1>8, <2>1, <2>3, <2>4, Labels
  <2>5. CASE c \notin Empty
    BY <1>4, <1>8, <2>1, <2>3, <2>5, Labels
  <2> QED
    BY <2>4, <2>5
<1>9. CASE t = s /\ WritePayload(s)
  <2>1. /\ pc[t]["write"] = "payload" /\ out'[t] = q
        /\ wire'[t] = Append(w, <<c, "payload">>)
        /\ Goto(s, "write", "select")
    BY <1>9 DEF WritePayload, TypeOK, WriterTypes
  <2>2. "payload" \in WritePoint /\ c \in Packet /\ "payload" # "header"
    BY <1>1, <2>1 DEF WritePoint
  <2>3. Progress(wire'[t], acc, q, "select", cur'[t])
    BY <1>1, <1>5, <2>1, <2>2, ProgressWrite, Zenon
  <2> QED
    BY <1>4, <1>9, <2>1, <2>3, Labels
<1>10. CASE t = s /\ WriteError(s)
  <2>1. /\ pc[t]["write"] \in WritePoint /\ out'[t] = q
        /\ wire'[t] = w \/ wire'[t] = Append(w, <<c, "torn">>)
        /\ Goto(s, "write", "lookup")
    BY <1>10 DEF WriteError, WriteFails, TypeOK, WriterTypes, WritePoint
  <2>2. pc[s]["write"] # "unborn"
    BY <1>10, <2>1 DEF WritePoint
  <2>3. Progress(wire'[t], acc, q, "lookup", cur'[t])
    BY <1>1, <1>5, <2>1, ProgressFail, Zenon
  <2> QED
    BY <1>4, <1>10, <2>1, <2>2, <2>3, Labels
<1> QED
  BY <1>3, <1>6, <1>7, <1>8, <1>9, <1>10 DEF WriteLoop

\* A step keeps what the stream of a session holds.
LEMMA StreamStep ==
  ASSUME TypeOK, [Next]_vars, NEW t \in Session, StreamInv(t)
  PROVE  StreamInv(t)'
<1> USE DEF table, hooks, link, queue, calls, closing, unregLocals, sendFrame, readFrame, closeFrame
<1>0. ASSUME UNCHANGED <<wire, accepted, out, cur, pc>>, conn'[t] = "none" => conn[t] = "none"
      PROVE  StreamInv(t)'
  BY <1>0, StreamKept, Zenon
<1>1. ASSUME NEW s \in Session, NEW k \in Kind, NEW l \in Label, Goto(s, k, l),
             k # "write" \/ (pc[s][k] # "unborn" /\ l \in Ending),
             UNCHANGED <<wire, accepted, out, cur>>, conn'[t] = "none" => conn[t] = "none"
      PROVE  StreamInv(t)'
  <2>1. \/ pc'[t]["write"] = pc[t]["write"]
        \/ pc[t]["write"] # "unborn" /\ pc'[t]["write"] \in Ending
    <3>1. ThreadTypes /\ "write" \in Kind
      BY Zenon DEF TypeOK, Kind
    <3>2. /\ pc'[s][k] = l
          /\ \A x \in Session, j \in Kind : x # s \/ j # k => pc'[x][j] = pc[x][j]
      BY <1>1, <3>1, GotoMoves, Zenon
    <3> QED
      BY <1>1, <3>1, <3>2, Zenon
  <2> QED
    BY <1>1, <2>1, StreamKept, Zenon
<1>2. ASSUME NEW cb \in Callback, SetOnClose(cb) \/ SetControlCallback(cb) PROVE StreamInv(t)'
  BY <1>2, <1>0, Zenon DEF SetOnClose, SetControlCallback
<1>3. CASE ParentCancel
  BY <1>3, <1>0, Zenon DEF ParentCancel
<1>4. ASSUME NEW s \in Session, RegisterSession(s) PROVE StreamInv(t)'
  <2>1. /\ conn[s] = "none" /\ conn' = [conn EXCEPT ![s] = "open"]
        /\ UNCHANGED <<wire, accepted, out, cur>>
        /\ pc' = [pc EXCEPT ![s] = [@ EXCEPT !["read"] = "check", !["write"] = "select"]]
    BY <1>4, Zenon DEF RegisterSession, Track
  <2>2. CASE t = s
    <3>1. conn'[t] = "open" /\ pc'[t]["write"] = "select"
      BY <2>1, <2>2, Labels DEF TypeOK, DataTypes, ThreadTypes
    <3>2. pc[t]["write"] = "unborn" /\ Progress(wire[t], accepted[t], out[t], "unborn", cur[t])
      BY <2>1, <2>2, Zenon DEF StreamInv
    <3>3. Progress(wire[t], accepted[t], out[t], "select", cur[t])
      BY <3>2 DEF Progress
    <3> QED
      BY <2>1, <3>1, <3>3 DEF StreamInv
  <2>3. CASE t # s
    <3>1. conn'[t] = conn[t] /\ pc'[t]["write"] = pc[t]["write"]
      BY <2>1, <2>3 DEF TypeOK, DataTypes, ThreadTypes
    <3> QED
      BY <2>1, <3>1, StreamKept, Zenon
  <2> QED
    BY <2>2, <2>3
<1>5. ASSUME NEW s \in Session, PeerClose(s) PROVE StreamInv(t)'
  BY <1>5, <1>0, Zenon DEF PeerClose
<1>6. ASSUME NEW s \in Dropped, UnregisterCall(s) PROVE StreamInv(t)'
  BY <1>6, <1>1, Labels, ConstantsAssumption DEF UnregisterCall
<1>7. ASSUME NEW s \in Session, ReadLoop(s) PROVE StreamInv(t)'
  BY <1>7, <1>1, Labels DEF ReadLoop, ReadCheck, ReadPacket, ReadError, CallbackReturn
<1>8. ASSUME NEW s \in Session, NEW k \in Kind, Unregister(s, k) PROVE StreamInv(t)'
  <2>1. UNCHANGED <<wire, accepted, out, cur>>
    BY <1>8, Zenon DEF Unregister, UnregisterNotFound, UnregisterDelete, TakeOut,
         UnregisterCloseQueue, CloseQueue, UnregisterCloseConn, UnregisterNotify
  <2>2. conn'[t] = "none" => conn[t] = "none"
    <3>1. CASE UnregisterCloseConn(s, k)
      BY <3>1 DEF UnregisterCloseConn, TypeOK, DataTypes
    <3>2. CASE UNCHANGED conn
      BY <3>2
    <3> QED
      BY <1>8, <3>1, <3>2, Zenon DEF Unregister, UnregisterNotFound, UnregisterDelete, TakeOut,
           UnregisterCloseQueue, CloseQueue, UnregisterNotify
  <2>3. /\ pc[s][k] # "unborn"
        /\ \E l \in Ending : Goto(s, k, l)
    BY <1>8 DEF Unregister, UnregisterNotFound, UnregisterDelete, TakeOut,
         UnregisterCloseQueue, CloseQueue, UnregisterCloseConn, UnregisterNotify, Ending
  <2>4. PICK l \in Ending : Goto(s, k, l)
    BY <2>3
  <2>5. l \in Label
    BY <2>4, Labels DEF Ending
  <2> QED
    BY <1>1, <2>1, <2>2, <2>3, <2>4, <2>5, Zenon
<1>9. ASSUME NEW p \in Packet, SendAccept(p) PROVE StreamInv(t)'
  <2> DEFINE x == sendTo[p]
  <2>1. /\ x \in Session /\ UNCHANGED <<wire, conn, pc, cur>>
        /\ out' = [out EXCEPT ![x] = Append(@, p)]
        /\ accepted' = [accepted EXCEPT ![x] = Append(@, p)]
    BY <1>9, Zenon DEF SendAccept, Enqueue, TypeOK, DataTypes
  <2>2. CASE t = x
    <3>1. /\ wire[t] \in Seq(Write) /\ accepted[t] \in Seq(Packet) /\ out[t] \in Seq(Packet)
          /\ out'[t] = Append(out[t], p) /\ accepted'[t] = Append(accepted[t], p)
      BY <2>1, <2>2 DEF TypeOK, DataTypes, WriterTypes, Write
    <3>2. Progress(wire[t], accepted'[t], out'[t], pc[t]["write"], cur[t])
      BY <3>1, ProgressAccept, Zenon DEF StreamInv
    <3> QED
      BY <2>1, <3>2, Zenon DEF StreamInv
  <2>3. CASE t # x
    <3>1. out'[t] = out[t] /\ accepted'[t] = accepted[t]
      BY <2>1, <2>3 DEF TypeOK, DataTypes
    <3> QED
      BY <2>1, <3>1, Zenon DEF StreamInv
  <2> QED
    BY <2>2, <2>3
<1>10. ASSUME NEW p \in Packet, SendBlocked(p) PROVE StreamInv(t)'
  <2>1. /\ sendTo[p] \in Session /\ Goto(sendTo[p], "slow", "lookup")
        /\ UNCHANGED <<wire, accepted, out, cur, conn>>
    BY <1>10, Zenon DEF SendBlocked, CutOff, TypeOK, DataTypes
  <2> QED
    BY <2>1, <1>1, Labels
<1>11. ASSUME NEW p \in Packet, NEW d \in DID,
              SendNotFound(p, d) \/ SendFound(p, d) \/ SendToClosed(p)
       PROVE  StreamInv(t)'
  BY <1>11, <1>0, Zenon DEF SendNotFound, SendFound, SendToClosed
<1>12. ASSUME NEW s \in Session, CloseConn(s) PROVE StreamInv(t)'
  <2>1. conn'[t] = "none" => conn[t] = "none"
    BY <1>12 DEF CloseConn, TypeOK, DataTypes
  <2> QED
    BY <1>12, <1>0, <2>1, Zenon DEF CloseConn
<1>13. CASE CloseCancel \/ CloseSweep \/ CloseWait \/ CloseReturn \/ UNCHANGED vars
  BY <1>13, <1>0, Zenon DEF CloseCancel, Cancel, CloseSweep, Snapshot, CloseWait, CloseReturn, vars
<1>14. 0 \in DID
  BY ConstantsAssumption DEF DID
<1> HIDE DEF table, hooks, link, queue, calls, closing, unregLocals, sendFrame, readFrame, closeFrame
<1> QED
  BY <1>2, <1>3, <1>4, <1>5, <1>6, <1>7, <1>8, <1>9, <1>10, <1>11, <1>12, <1>13, <1>14,
     StreamWrite, Zenon DEF Next, SendToLocal, Close

\* Before a session is registered nothing was accepted and nothing written.
LEMMA StreamInit == ASSUME Init, NEW s \in Session PROVE StreamInv(s)
<1>1. /\ wire[s] = <<>> /\ accepted[s] = <<>> /\ out[s] = <<>>
      /\ pc[s]["write"] = "unborn" /\ conn[s] = "none"
  BY Labels DEF Init
<1>2. Framed(<<>>, <<>>) /\ Waiting(<<>>, <<>>) /\ Whole(<<>>) /\ Taken(<<>>, <<>>) = 0
  BY DEF Framed, Waiting, Whole, Taken
<1>3. Frames(<<>>) = 0
  <2>1. Begun(<<>>, Len(<<>>)) = {}
    BY DEF Begun
  <2> QED
    BY <2>1, FS_EmptySet DEF Frames
<1> QED
  BY <1>1, <1>2, <1>3 DEF StreamInv, Progress

\* For every session, whatever the goroutines of the daemon do and whichever write
\* fails: the client reads the accepted packets in order, each under its own
\* header, and only the last write on the connection can be torn.
THEOREM StreamIsFramed == Spec => []StreamFramed
<1> DEFINE Inv == \A s \in Session : StreamInv(s)
<1>1. Init => Inv
  BY StreamInit
<1>2. TypeOK /\ Inv /\ [Next]_vars => Inv'
  BY StreamStep
<1>3. Inv => StreamFramed
  BY Zenon DEF StreamInv, Progress, StreamFramed
<1> QED
  BY <1>1, <1>2, <1>3, Typing, PTL DEF Spec
=============================================================================
