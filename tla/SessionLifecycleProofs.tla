----------------------- MODULE SessionLifecycleProofs -----------------------
(***************************************************************************)
(* The life of a session, for any number of sessions below the number of   *)
(* DIDs: LifeInv is inductive, and the properties about the table, about   *)
(* teardown and about onClose follow from it.  CloseInv adds what Close    *)
(* leaves to the readers it has to wake.                                   *)
(***************************************************************************)
EXTENDS SessionManagerProofs, FiniteSetTheorems

\* A step that changes nothing a session's stage depends on keeps the stage.
LEMMA StageFrame ==
  ASSUME TypeOK, NEW t \in Session, Stage(t),
         UNCHANGED <<conn[t], did[t], pc[t], target[t], closeOnce[t], isClosed[t],
                     notified[t], captured[t]>>,
         Registered(t) => (sessions'[did[t]] = t <=> sessions[did[t]] = t),
         watched'[t] => watched[t],
         t \in swept' <=> t \in swept
  PROVE  Stage(t)'
<1>1. CASE Fresh(t)
  BY <1>1 DEF Stage, Fresh
<1>2. CASE Listed(t)
  BY <1>2 DEF Stage, Listed, Quiet, Registered
<1>3. ASSUME NEW k \in Kind, Leaving(t, k) PROVE Stage(t)'
  BY <1>3 DEF Stage, Leaving, Registered
<1>4. CASE Swept(t)
  BY <1>4 DEF Stage, Swept, Quiet, Registered
<1>5. CASE Gone(t)
  BY <1>5 DEF Stage, Gone, Quiet, Registered
<1> QED
  BY <1>1, <1>2, <1>3, <1>4, <1>5 DEF Stage

\* A goroutine that moves inside its own code, outside UnregisterSession's
\* teardown, keeps the stage of its session, and of every other one.
LEMMA StageMove ==
  ASSUME TypeOK, NEW s \in Session, NEW k \in Kind, NEW l \in Label,
         Registered(s), Goto(s, k, l), k # "slow" \/ sessions[did[s]] # s,
         pc[s][k] \notin Teardown,
         l \notin Teardown,
         l \in {"unborn", "done"} => sessions[did[s]] # s,
         UNCHANGED <<conn, did, sessions, target, closeOnce, isClosed, notified, captured,
                     watched, swept>>,
         \A t \in Session : Stage(t)
  PROVE  \A t \in Session : Stage(t)'
<1>0. /\ pc'[s][k] = l
      /\ \A t \in Session, j \in Kind : t # s \/ j # k => pc'[t][j] = pc[t][j]
      /\ pc \in [Session -> [Kind -> Label]]
      /\ pc' \in [Session -> [Kind -> Label]]
  BY GotoMoves DEF TypeOK, ThreadTypes
<1>1. ASSUME NEW t \in Session, t # s PROVE Stage(t)'
  <2>1. pc'[t] = pc[t]
    BY <1>0, <1>1
  <2> QED
    BY <2>1, StageFrame
<1>2. ~Fresh(s)
  BY DEF Fresh, Registered
<1>3. ASSUME Listed(s) PROVE Stage(s)'
  <2>1. \A j \in Kind : pc'[s][j] \notin Teardown
    BY <1>0, <1>3 DEF Listed, Quiet
  <2>2. \A j \in {"read", "write"} : pc'[s][j] \notin {"unborn", "done"}
    BY <1>0, <1>3, Labels DEF Listed
  <2>3. isClosed[s] => pc'[s]["slow"] = "lookup"
    BY <1>0, <1>3, Labels DEF Listed
  <2>4. Listed(s)'
    BY <1>3, <2>1, <2>2, <2>3 DEF Listed, Quiet
  <2> QED
    BY <2>4 DEF Stage
<1>4. ASSUME NEW j \in Kind, Leaving(s, j) PROVE Stage(s)'
  <2>1. j # k
    BY <1>4 DEF Leaving
  <2>2. pc'[s][j] = pc[s][j] /\ \A i \in Kind \ {j} : pc'[s][i] \notin Teardown
    BY <1>0, <1>4, <2>1 DEF Leaving
  <2> QED
    BY <1>4, <2>2 DEF Stage, Leaving
<1>5. ASSUME Swept(s) PROVE Stage(s)'
  <2>1. \A j \in Kind : pc'[s][j] \notin Teardown
    BY <1>0, <1>5 DEF Swept, Quiet
  <2>2. Swept(s)'
    BY <1>5, <2>1 DEF Swept, Quiet
  <2> QED
    BY <2>2 DEF Stage
<1>6. ASSUME Gone(s) PROVE Stage(s)'
  <2>1. \A j \in Kind : pc'[s][j] \notin Teardown
    BY <1>0, <1>6 DEF Gone, Quiet
  <2>2. Gone(s)'
    BY <1>6, <2>1 DEF Gone, Quiet
  <2> QED
    BY <2>2 DEF Stage
<1> QED
  BY <1>1, <1>2, <1>3, <1>4, <1>5, <1>6 DEF Stage

\* A session with a goroutine is registered.
LEMMA BornRegistered ==
  ASSUME LifeInv, NEW s \in Session, NEW k \in Kind, pc[s][k] # "unborn"
  PROVE  Registered(s)
  BY DEF LifeInv, Stage, Fresh, Listed, Leaving, Swept, Gone, Registered

\* The entry under the DID of a registered session is that session, or nothing.
LEMMA OwnEntry ==
  ASSUME TypeOK, LifeInv, NEW s \in Session, Registered(s), sessions[did[s]] # NoSession
  PROVE  sessions[did[s]] = s
  BY DEF TypeOK, DataTypes, LifeInv, DIDInv

\* A goroutine that is tearing a session down is the only one, and the session
\* is its own.
LEMMA TeardownIsOwn ==
  ASSUME LifeInv, NEW s \in Session, NEW k \in Kind, pc[s][k] \in Teardown
  PROVE  Leaving(s, k)
<1>1. PICK j \in Kind : Leaving(s, j)
  BY Labels DEF LifeInv, Stage, Fresh, Listed, Swept, Gone, Quiet
<1>2. j = k
  BY <1>1 DEF Leaving
<1> QED
  BY <1>1, <1>2

\* Only the sessions that Close swept are in the stage Swept.
LEMMA SweptStage ==
  ASSUME LifeInv, NEW s \in swept, s \in Session PROVE Swept(s)
  BY DEF LifeInv, Stage, Fresh, Listed, Leaving, Gone

\* The table, looked up by name or by DID.
LEMMA InTableListed ==
  ASSUME TypeOK, LifeInv, NEW s \in Session PROVE InTable(s) <=> Listed(s)
<1>1. ASSUME InTable(s) PROVE Listed(s)
  <2>1. sessions[did[s]] = s /\ Registered(s)
    BY <1>1, ConstantsAssumption DEF InTable, LifeInv, DIDInv
  <2> QED
    BY <2>1 DEF LifeInv, Stage, Fresh, Leaving, Swept, Gone, Registered
<1>2. ASSUME Listed(s) PROVE InTable(s)
  BY <1>2 DEF Listed, InTable, TypeOK, DataTypes
<1> QED
  BY <1>1, <1>2

-----------------------------------------------------------------------------
(* DIDs. *)

\* As long as there are fewer sessions than DIDs, the counter does not wrap.
LEMMA DIDStep == ASSUME NoWrap, TypeOK, LifeInv, [Next]_vars PROVE DIDInv'
<1> USE DEF table, hooks, link, queue, calls, closing, unregLocals, sendFrame, readFrame,
            writeFrame, closeFrame
<1>0. ASSUME UNCHANGED <<nextDID, did>>,
             \A s \in Session : Registered(s)' <=> Registered(s),
             \A d \in DID : sessions'[d] \in {sessions[d], NoSession}
      PROVE  DIDInv'
  <2>1. {s \in Session : Registered(s)}' = {s \in Session : Registered(s)}
    BY <1>0
  <2>2. (nextDID = Cardinality({s \in Session : Registered(s)}))'
    BY <1>0, <2>1 DEF LifeInv, DIDInv
  <2>3. \A d \in DID : sessions'[d] # NoSession => sessions'[d] = sessions[d] /\ sessions[d] \in Session
    BY <1>0 DEF TypeOK, DataTypes
  <2> QED
    BY <1>0, <2>2, <2>3, Zenon DEF LifeInv, DIDInv
<1>1. ASSUME NEW s \in Session, RegisterSession(s) PROVE DIDInv'
  <2> DEFINE R == {x \in Session : Registered(x)}
  <2>1. s \notin R /\ R' = R \cup {s}
    BY <1>1 DEF RegisterSession, Track, Registered, TypeOK, DataTypes
  <2>2. IsFiniteSet(R) /\ Cardinality(R \cup {s}) = Cardinality(R) + 1
    BY <2>1, FS_Subset, FS_AddElement DEF NoWrap
  <2>3. Cardinality(R \cup {s}) <= Cardinality(Session)
    BY FS_Subset DEF NoWrap
  <2>4. /\ Cardinality(Session) \in Nat
        /\ Cardinality(Session) < DIDModulus
        /\ Cardinality(R) \in Nat
    BY <2>2, FS_CardinalityType DEF NoWrap
  <2>5. nextDID = Cardinality(R)
    BY DEF LifeInv, DIDInv
  <2>6. nextDID + 1 < DIDModulus /\ nextDID \in Nat
    BY <2>2, <2>3, <2>4, <2>5, ConstantsAssumption
  <2>7. (nextDID + 1) % DIDModulus = nextDID + 1
    BY <2>6, ConstantsAssumption
  <2>8. /\ nextDID' = nextDID + 1
        /\ did' = [did EXCEPT ![s] = nextDID + 1]
        /\ sessions' = [sessions EXCEPT ![nextDID + 1] = s]
        /\ conn' = [conn EXCEPT ![s] = "open"]
    BY <1>1, <2>7, Zenon DEF RegisterSession, Track
  <2>9. (nextDID = Cardinality({x \in Session : Registered(x)}))'
    BY <2>1, <2>2, <2>5, <2>8
  <2>10. /\ did'[s] = nextDID + 1 /\ conn'[s] # "none"
         /\ \A x \in Session \ {s} : did'[x] = did[x] /\ conn'[x] = conn[x]
         /\ \A x \in Session : did[x] \in Nat
    BY <2>8 DEF TypeOK, DataTypes, DID
  <2>11. \A x \in Session \ {s} : Registered(x)' => Registered(x) /\ did[x] \in 1 .. nextDID
    BY <2>10 DEF Registered, LifeInv, DIDInv
  <2>12. \A x \in Session : Registered(x)' => did'[x] \in 1 .. nextDID'
    BY <2>6, <2>8, <2>10, <2>11
  <2>13. ASSUME NEW x \in Session, NEW t \in Session, Registered(x)', Registered(t)',
                did'[x] = did'[t]
         PROVE  x = t
    BY <2>6, <2>10, <2>11, <2>13 DEF LifeInv, DIDInv
  <2>14. ASSUME NEW d \in DID, sessions'[d] # NoSession
         PROVE  conn'[sessions'[d]] # "none" /\ did'[sessions'[d]] = d
    <3>1. CASE d = nextDID + 1
      BY <2>8, <2>10, <3>1 DEF TypeOK, DataTypes
    <3>2. CASE d # nextDID + 1
      <4>1. sessions'[d] = sessions[d] /\ sessions[d] \in Session
        BY <2>8, <2>14, <3>2 DEF TypeOK, DataTypes
      <4>2. conn[sessions[d]] # "none" /\ did[sessions[d]] = d /\ sessions[d] # s
        BY <2>1, <2>14, <4>1 DEF LifeInv, DIDInv, Registered
      <4> QED
        BY <2>10, <4>1, <4>2
    <3> QED
      BY <3>1, <3>2
  <2> QED
    BY <2>9, <2>12, <2>13, <2>14 DEF DIDInv, Registered
<1>2. ASSUME UNCHANGED <<table, conn>> PROVE DIDInv'
  BY <1>0, <1>2 DEF Registered, TypeOK, DataTypes
<1>3. ASSUME NEW s \in Session, NEW k \in Kind, UnregisterCloseConn(s, k) PROVE DIDInv'
  <2>1. target[s][k] = s /\ conn[s] # "none"
    <3>1. pc[s][k] \in Teardown
      BY <1>3, Labels, Zenon DEF UnregisterCloseConn
    <3>2. Leaving(s, k)
      BY <3>1, TeardownIsOwn
    <3> QED
      BY <3>2, Zenon DEF Leaving
  <2> QED
    BY <1>0, <1>3, <2>1, Zenon DEF UnregisterCloseConn, Registered, TypeOK, DataTypes
<1>4. ASSUME NEW s \in Session, CloseConn(s) PROVE DIDInv'
  <2>1. conn[s] # "none"
    BY <1>4, SweptStage DEF CloseConn, LifeInv, RelyInv, Swept
  <2> QED
    BY <1>0, <1>4, <2>1 DEF CloseConn, Registered, TypeOK, DataTypes
<1>5. ASSUME NEW s \in Session, NEW k \in Kind, UnregisterDelete(s, k) PROVE DIDInv'
  BY <1>0, <1>5 DEF UnregisterDelete, TakeOut, Registered, TypeOK, DataTypes
<1>6. CASE CloseSweep
  BY <1>0, <1>6 DEF CloseSweep, Snapshot, Registered, TypeOK, DataTypes
<1>7. ASSUME NEW s \in Session, NEW k \in Kind, \/ UnregisterNotFound(s, k)
             \/ UnregisterCloseQueue(s, k) \/ UnregisterNotify(s, k)
      PROVE  DIDInv'
  BY <1>7, <1>2 DEF UnregisterNotFound, UnregisterCloseQueue, CloseQueue, UnregisterNotify
<1>8. ASSUME NEW s \in Session,
             PeerClose(s) \/ ReadLoop(s) \/ WriteLoop(s) \/ UnregisterCall(s)
      PROVE  DIDInv'
  BY <1>8, <1>2, Zenon DEF PeerClose, ReadLoop, ReadCheck, ReadPacket,
       ReadError, CallbackReturn, WriteLoop, WriteStop, WriteDequeue, WriteHeader,
       WritePayload, WriteError, WriteFails, UnregisterCall
<1>9. ASSUME NEW p \in Packet, SendToLocal(p) PROVE DIDInv'
  BY <1>9, <1>2, Zenon DEF SendToLocal, SendNotFound, SendFound, SendToClosed, SendAccept,
                    Enqueue, SendBlocked, CutOff
<1>10. ASSUME NEW cb \in Callback, SetOnClose(cb) \/ SetControlCallback(cb)
       PROVE  DIDInv'
  BY <1>10, <1>2 DEF SetOnClose, SetControlCallback
<1>11. CASE ParentCancel \/ CloseCancel \/ CloseWait \/ CloseReturn \/ UNCHANGED vars
  BY <1>11, <1>2 DEF ParentCancel, CloseCancel, Cancel, CloseWait, CloseReturn, vars
<1> QED
  BY <1>1, <1>3, <1>4, <1>5, <1>6, <1>7, <1>8, <1>9, <1>10, <1>11, ConstantsAssumption
     DEF Next, Unregister, Close

-----------------------------------------------------------------------------
(* What the goroutines rely on. *)

\* A step keeps what the other goroutines rely on: the slow-client goroutine
\* exists only for a closed queue, a call found a registered session, Close
\* closes only what it swept.
LEMMA RelyStep == ASSUME TypeOK, LifeInv, [Next]_vars PROVE RelyInv'
<1> USE DEF table, hooks, link, queue, calls, closing, unregLocals, sendFrame, readFrame,
            writeFrame, closeFrame
<1>0. ASSUME \A s \in Session : pc'[s]["slow"] = pc[s]["slow"],
             \A s \in Session : isClosed[s] => isClosed'[s],
             UNCHANGED <<watched, onClose, send, sendTo, closing>>,
             \A s \in Session : Registered(s) => Registered(s)'
      PROVE  RelyInv'
  BY <1>0, Zenon DEF LifeInv, RelyInv, TypeOK, DataTypes
<1>1. ASSUME NEW s \in Session, NEW k \in Kind \ {"slow"}, NEW l \in Label, Goto(s, k, l),
             \A t \in Session : isClosed[t] => isClosed'[t],
             UNCHANGED <<watched, onClose, send, sendTo, closing>>,
             \A t \in Session : Registered(t) => Registered(t)'
      PROVE  RelyInv'
  <2>1. "slow" \in Kind /\ k \in Kind /\ k # "slow"
    BY <1>1, Labels, Zenon
  <2>2. \A t \in Session, j \in Kind : t # s \/ j # k => pc'[t][j] = pc[t][j]
    <3>1. ThreadTypes /\ Goto(s, k, l)
      BY <1>1 DEF TypeOK
    <3> QED
      BY <2>1, <3>1, GotoMoves, SMTT(30)
  <2>3. \A t \in Session : pc'[t]["slow"] = pc[t]["slow"]
    BY <2>1, <2>2
  <2> QED
    BY <1>0, <1>1, <2>3, Zenon
<1>2. ASSUME NEW s \in Session, NEW l \in Label, Goto(s, "slow", l), pc[s]["slow"] # "unborn",
             \A t \in Session : isClosed[t] => isClosed'[t],
             UNCHANGED <<watched, onClose, send, sendTo, closing>>,
             \A t \in Session : Registered(t) => Registered(t)'
      PROVE  RelyInv'
  <2>0. "slow" \in Kind
    BY Labels
  <2>1. \A t \in Session : pc'[t]["slow"] # "unborn" => pc[t]["slow"] # "unborn"
    <3>1. \A t \in Session, j \in Kind : t # s \/ j # "slow" => pc'[t][j] = pc[t][j]
      <4>1. ThreadTypes /\ Goto(s, "slow", l)
        BY <1>2 DEF TypeOK
      <4> QED
        BY <2>0, <4>1, GotoMoves, SMTT(30)
    <3> QED
      BY <1>2, <2>0, <3>1, Zenon
  <2> QED
    BY <1>2, <2>1, Zenon DEF LifeInv, RelyInv, TypeOK, DataTypes
<1>3. ASSUME NEW cb \in Callback, SetOnClose(cb) PROVE RelyInv'
  BY <1>3, Zenon DEF SetOnClose, LifeInv, RelyInv, Registered, TypeOK, DataTypes
<1>4. ASSUME NEW cb \in Callback, SetControlCallback(cb) PROVE RelyInv'
  BY <1>4, <1>0, Zenon DEF SetControlCallback, Registered
<1>5. ASSUME NEW s \in Session, RegisterSession(s) PROVE RelyInv'
  <2>1. /\ \A t \in Session : pc'[t]["slow"] = pc[t]["slow"]
        /\ \A t \in Session : Registered(t) => Registered(t)'
    <3>1. /\ conn' = [conn EXCEPT ![s] = "open"]
          /\ pc' = [pc EXCEPT ![s] = [@ EXCEPT !["read"] = "check", !["write"] = "select"]]
      BY <1>5, Zenon DEF RegisterSession, Track
    <3>2. ASSUME NEW t \in Session PROVE pc'[t]["slow"] = pc[t]["slow"]
      <4>1. "slow" \in DOMAIN pc[s] /\ s \in DOMAIN pc /\ t \in DOMAIN pc
        BY Labels DEF TypeOK, ThreadTypes
      <4>2. CASE t = s
        BY <3>1, <4>1, <4>2
      <4>3. CASE t # s
        BY <3>1, <4>1, <4>3
      <4> QED
        BY <4>2, <4>3
    <3>3. ASSUME NEW t \in Session, Registered(t) PROVE Registered(t)'
      BY <3>1, <3>3 DEF TypeOK, DataTypes, Registered
    <3> QED
      BY <3>2, <3>3
  <2>2. \A t \in Session : watched'[t] => onClose'
    BY <1>5 DEF RegisterSession, Track, LifeInv, RelyInv, TypeOK, DataTypes
  <2> QED
    BY <1>5, <2>1, <2>2, Zenon DEF RegisterSession, Track, LifeInv, RelyInv, TypeOK, DataTypes
<1>6. ASSUME NEW s \in Session, PeerClose(s) PROVE RelyInv'
  BY <1>6, <1>0, Zenon DEF PeerClose, Registered
<1>7. ASSUME NEW s \in Session, ReadLoop(s) \/ UnregisterCall(s) PROVE RelyInv'
  BY <1>7, <1>1, Labels, Zenon DEF ReadLoop, ReadCheck, ReadPacket, ReadError, CallbackReturn,
                            UnregisterCall, Registered
<1>8. ASSUME NEW s \in Session, WriteLoop(s) PROVE RelyInv'
  BY <1>8, <1>1, Labels, Zenon DEF WriteLoop, WriteStop, WriteDequeue, WriteHeader, WritePayload,
                            WriteError, WriteFails, Registered
<1>9. ASSUME NEW s \in Session, NEW k \in Kind, Unregister(s, k) PROVE RelyInv'
  <2>1. PICK l \in Label : Goto(s, k, l)
    BY <1>9, Labels, Zenon DEF Unregister, UnregisterNotFound, UnregisterDelete, TakeOut,
                UnregisterCloseQueue, CloseQueue, UnregisterCloseConn, UnregisterNotify
  <2>2. UNCHANGED <<watched, onClose, send, sendTo, closing>>
    BY <1>9, Zenon DEF Unregister, UnregisterNotFound, UnregisterDelete, TakeOut,
                UnregisterCloseQueue, CloseQueue, UnregisterCloseConn, UnregisterNotify
  <2>3. \A t \in Session : isClosed[t] => isClosed'[t]
    BY <1>9, ZenonT(40) DEF Unregister, UnregisterNotFound, UnregisterDelete, TakeOut,
                UnregisterCloseQueue, CloseQueue, UnregisterCloseConn, UnregisterNotify,
                TypeOK, DataTypes
  <2>4. \A t \in Session : Registered(t) => Registered(t)'
    BY <1>9, Zenon DEF Unregister, UnregisterNotFound, UnregisterDelete, TakeOut,
                UnregisterCloseQueue, CloseQueue, UnregisterCloseConn, UnregisterNotify,
                TypeOK, DataTypes, Registered
  <2>5. pc[s][k] # "unborn"
    BY <1>9, Zenon DEF Unregister, UnregisterNotFound, UnregisterDelete, TakeOut,
                UnregisterCloseQueue, CloseQueue, UnregisterCloseConn, UnregisterNotify
  <2> QED
    BY <2>1, <2>2, <2>3, <2>4, <2>5, <1>1, <1>2, Zenon
<1>10. ASSUME NEW p \in Packet, SendBlocked(p) PROVE RelyInv'
  <2> DEFINE x == sendTo[p]
  <2>1. x \in Session /\ Goto(x, "slow", "lookup") /\ isClosed' = [isClosed EXCEPT ![x] = TRUE]
    BY <1>10, Zenon DEF SendBlocked, CutOff, TypeOK, DataTypes
  <2>2. \A t \in Session \ {x} : pc'[t]["slow"] = pc[t]["slow"]
    <3>1. ThreadTypes /\ "slow" \in Kind /\ "lookup" \in Label
      BY Labels DEF TypeOK
    <3>2. \A t \in Session, j \in Kind : t # x \/ j # "slow" => pc'[t][j] = pc[t][j]
      BY <2>1, <3>1, GotoMoves, Zenon
    <3> QED
      BY <3>1, <3>2
  <2>3. \A t \in Session : pc'[t]["slow"] # "unborn" => isClosed'[t]
    BY <2>1, <2>2, Zenon DEF LifeInv, RelyInv, TypeOK, DataTypes
  <2> QED
    BY <1>10, <2>3, Zenon DEF SendBlocked, CutOff, LifeInv, RelyInv, TypeOK, DataTypes, Registered
<1>11. ASSUME NEW p \in Packet, NEW d \in DID, SendFound(p, d) PROVE RelyInv'
  <2>1. Registered(sessions[d])
    BY <1>11, Zenon DEF SendFound, LifeInv, DIDInv
  <2> QED
    BY <1>11, <2>1, Zenon DEF SendFound, LifeInv, RelyInv, TypeOK, DataTypes, Registered
<1>12. ASSUME NEW p \in Packet, NEW d \in DID,
              SendNotFound(p, d) \/ SendToClosed(p) \/ SendAccept(p)
       PROVE RelyInv'
  <2>1. /\ UNCHANGED <<pc, isClosed, watched, onClose, sendTo, conn, closePc, swept, toClose>>
        /\ \E w \in {"notfound", "closed", "ok"} : send' = [send EXCEPT ![p] = w]
    BY <1>12, Zenon DEF SendNotFound, SendToClosed, SendAccept, Enqueue
  <2>2. \A q \in Packet : send'[q] = "found" => send[q] = "found"
    BY <2>1 DEF TypeOK, DataTypes
  <2> QED
    BY <2>1, <2>2 DEF LifeInv, RelyInv, Registered
<1>13. CASE ParentCancel
  BY <1>13, <1>0, Zenon DEF ParentCancel, Registered
<1>14. CASE Close
  <2>1. UNCHANGED <<pc, isClosed, watched, onClose, send, sendTo>>
    BY <1>14, Zenon DEF Close, CloseCancel, Cancel, CloseSweep, Snapshot, CloseConn, CloseWait,
                 CloseReturn
  <2>2. \A s \in Session : Registered(s) => Registered(s)'
    BY <1>14, Zenon DEF Close, CloseCancel, Cancel, CloseSweep, Snapshot, CloseConn, CloseWait,
                 CloseReturn, Registered, TypeOK, DataTypes
  <2>3. /\ closePc' \in {"idle", "cancelled"} => swept' = {}
        /\ toClose' \subseteq swept'
    BY <1>14, Zenon DEF Close, CloseCancel, Cancel, CloseSweep, Snapshot, CloseConn, CloseWait,
                 CloseReturn, LifeInv, RelyInv
  <2>4. \A p \in Packet : send[p] = "found" => sendTo[p] \in Session
    BY DEF TypeOK, DataTypes
  <2> QED
    BY <2>1, <2>2, <2>3, <2>4, Zenon DEF LifeInv, RelyInv
<1>15. CASE UNCHANGED vars
  BY <1>15, <1>0, Zenon DEF vars, Registered
<1>16. 0 \in DID
  BY ConstantsAssumption DEF DID
<1> QED
  BY <1>3, <1>4, <1>5, <1>6, <1>7, <1>8, <1>9, <1>10, <1>11, <1>12, <1>13, <1>14, <1>15,
     <1>16, ConstantsAssumption DEF Next, SendToLocal

-----------------------------------------------------------------------------
(* Stages. *)

\* A step moves every session from a stage of its life to a stage.
LEMMA StageStep ==
  ASSUME TypeOK, LifeInv, DIDInv', [Next]_vars PROVE \A t \in Session : Stage(t)'
<1> DEFINE Stages == \A t \in Session : Stage(t)'
           Kept == <<conn, did, sessions, target, closeOnce, isClosed, notified, captured,
                     watched, swept>>
<1> USE DEF table, hooks, link, queue, calls, closing, unregLocals, sendFrame, readFrame,
            writeFrame, closeFrame
<1>0. \A t \in Session : Stage(t)
  BY Zenon DEF LifeInv
<1>1. ASSUME UNCHANGED <<conn, did, sessions, target, closeOnce, isClosed, notified,
                         captured, swept, pc>>,
             \A t \in Session : watched'[t] => watched[t]
      PROVE  Stages
  BY <1>0, <1>1, StageFrame, Zenon
<1>2. ASSUME NEW s \in Session, NEW k \in Kind \ {"slow"},
             NEW l \in Label \ (Teardown \cup {"unborn", "done"}), Goto(s, k, l),
             Registered(s), pc[s][k] \notin Teardown, UNCHANGED Kept
      PROVE  Stages
  BY <1>0, <1>2, StageMove, Zenon
<1>3. ASSUME NEW cb \in Callback, SetOnClose(cb) \/ SetControlCallback(cb)
      PROVE  Stages
  BY <1>3, <1>1, Zenon DEF SetOnClose, SetControlCallback, TypeOK, DataTypes
<1>4. CASE ParentCancel \/ CloseCancel \/ CloseWait \/ CloseReturn \/ UNCHANGED vars
  BY <1>4, <1>1, Zenon DEF ParentCancel, CloseCancel, Cancel, CloseWait, CloseReturn, vars
<1>5. ASSUME NEW s \in Session, PeerClose(s) PROVE Stages
  BY <1>5, <1>1 DEF PeerClose
<1>6. ASSUME NEW p \in Packet, NEW d \in DID,
             SendNotFound(p, d) \/ SendFound(p, d) \/ SendToClosed(p) \/ SendAccept(p)
      PROVE  Stages
  BY <1>6, <1>1, Zenon DEF SendNotFound, SendFound, SendToClosed, SendAccept, Enqueue
<1>7. ASSUME NEW s \in Session, UnregisterCall(s) PROVE Stages
  BY <1>7, <1>2, Labels, Zenon DEF UnregisterCall
<1>8. ASSUME NEW s \in Session, ReadLoop(s) PROVE Stages
  <2>1. PICK l \in Label \ (Teardown \cup {"unborn", "done"}) : Goto(s, "read", l)
    BY <1>8, Labels, Zenon DEF ReadLoop, ReadCheck, ReadPacket, ReadError, CallbackReturn
  <2>2. pc[s]["read"] \notin Teardown /\ pc[s]["read"] # "unborn" /\ UNCHANGED Kept
    BY <1>8, Labels, Zenon DEF ReadLoop, ReadCheck, ReadPacket, ReadError, CallbackReturn
  <2> QED
    BY <1>2, <2>1, <2>2, Labels, BornRegistered, Zenon
<1>9. ASSUME NEW s \in Session, WriteLoop(s) PROVE Stages
  <2>1. PICK l \in Label \ (Teardown \cup {"unborn", "done"}) : Goto(s, "write", l)
    BY <1>9, Labels, Zenon DEF WriteLoop, WriteStop, WriteDequeue, WriteHeader, WritePayload,
                        WriteError, WriteFails
  <2>2. pc[s]["write"] \notin Teardown /\ pc[s]["write"] # "unborn" /\ UNCHANGED Kept
    BY <1>9, Labels, Zenon DEF WriteLoop, WriteStop, WriteDequeue, WriteHeader, WritePayload,
                        WriteError, WriteFails
  <2> QED
    BY <1>2, <2>1, <2>2, Labels, BornRegistered, Zenon
<1>10. ASSUME NEW s \in Session, NEW k \in Kind, UnregisterNotFound(s, k) PROVE Stages
  <2>1. Registered(s) /\ sessions[did[s]] # s
    BY <1>10, BornRegistered, ConstantsAssumption, Zenon DEF UnregisterNotFound
  <2> QED
    BY <1>0, <1>10, <2>1, StageMove, Labels, Zenon DEF UnregisterNotFound
<1>11. ASSUME NEW s \in Session, NEW k \in Kind, UnregisterDelete(s, k) PROVE Stages
  <2>1. /\ pc[s][k] = "lookup"
        /\ sessions' = [sessions EXCEPT ![did[s]] = NoSession]
        /\ target' = [target EXCEPT ![s][k] = sessions[did[s]]]
        /\ captured' = [captured EXCEPT ![sessions[did[s]]] = onClose]
        /\ Goto(s, k, "queue")
        /\ sessions[did[s]] # NoSession
        /\ UNCHANGED <<conn, did, closeOnce, isClosed, notified, watched, swept>>
    BY <1>11 DEF UnregisterDelete, TakeOut
  <2>2. Registered(s) /\ sessions[did[s]] = s
    BY <2>1, BornRegistered, OwnEntry
  <2>3. Listed(s)
    BY <1>0, <2>2, Zenon DEF Stage, Fresh, Leaving, Swept, Gone, Registered
  <2>4. /\ pc'[s][k] = "queue"
        /\ \A t \in Session, j \in Kind : t # s \/ j # k => pc'[t][j] = pc[t][j]
        /\ pc \in [Session -> [Kind -> Label]] /\ pc' \in [Session -> [Kind -> Label]]
    <3>1. ThreadTypes /\ "queue" \in Label /\ Goto(s, k, "queue")
      BY <2>1, Labels DEF TypeOK
    <3>2. /\ pc'[s][k] = "queue" /\ pc' \in [Session -> [Kind -> Label]]
          /\ \A t \in Session, j \in Kind : t # s \/ j # k => pc'[t][j] = pc[t][j]
      BY <3>1, GotoMoves, Zenon
    <3> QED
      BY <3>1, <3>2, Zenon DEF ThreadTypes
  <2>5. Leaving(s, k)'
    <3>1. target'[s][k] = s /\ captured'[s] = onClose /\ sessions'[did[s]] # s
      BY <2>1, <2>2, ConstantsAssumption, SMTT(30) DEF TypeOK, ThreadTypes, DataTypes
    <3>2. watched[s] => onClose
      BY Zenon DEF LifeInv, RelyInv
    <3>3. \A j \in Kind \ {k} : pc'[s][j] \notin Teardown
      BY <2>3, <2>4 DEF Listed, Quiet
    <3> QED
      BY <2>1, <2>3, <2>4, <3>1, <3>2, <3>3, Labels, Zenon DEF Listed, Leaving
  <2>6. ASSUME NEW t \in Session, t # s PROVE Stage(t)'
    <3>1. pc'[t] = pc[t]
      BY <2>4, <2>6
    <3>2. target'[t] = target[t] /\ captured'[t] = captured[t]
      BY <2>1, <2>2, <2>6, Zenon DEF TypeOK, ThreadTypes, DataTypes
    <3>3. Registered(t) => (sessions'[did[t]] = t <=> sessions[did[t]] = t)
      BY <2>1, <2>2, <2>6, ConstantsAssumption, Zenon DEF LifeInv, DIDInv, TypeOK, DataTypes
    <3> QED
      BY <1>0, <2>1, <3>1, <3>2, <3>3, StageFrame, Zenon
  <2> QED
    BY <2>5, <2>6 DEF Stage
<1>12. ASSUME NEW s \in Session, NEW k \in Kind, pc[s][k] \in Teardown,
              Leaving(s, k) => Stage(s)',
              \A t \in Session \ {s} :
                 UNCHANGED <<conn[t], did[t], target[t], closeOnce[t], isClosed[t],
                             notified[t], captured[t]>>,
              NEW l \in Label, Goto(s, k, l), UNCHANGED <<sessions, did, watched, swept>>
       PROVE  Stages
  <2>1. Stage(s)'
    BY <1>12, TeardownIsOwn, Zenon
  <2>2. ASSUME NEW t \in Session \ {s} PROVE Stage(t)'
    <3>1. pc'[t] = pc[t]
      BY <1>12, <2>2, Zenon DEF Goto, TypeOK, ThreadTypes
    <3> QED
      BY <1>0, <1>12, <2>2, <3>1, StageFrame, Zenon
  <2> QED
    BY <2>1, <2>2
<1>13. ASSUME NEW s \in Session, NEW k \in Kind, UnregisterCloseQueue(s, k) PROVE Stages
  <2>1. Leaving(s, k)
    BY <1>13, TeardownIsOwn, Labels, Zenon DEF UnregisterCloseQueue, CloseQueue
  <2>2. target[s][k] = s /\ ~closeOnce[s] /\ pc[s][k] = "queue"
    BY <1>13, <2>1, Zenon DEF Leaving, UnregisterCloseQueue, CloseQueue
  <2>3. /\ closeOnce' = [closeOnce EXCEPT ![s] = TRUE]
        /\ isClosed' = [isClosed EXCEPT ![s] = TRUE]
        /\ Goto(s, k, "conn")
        /\ UNCHANGED <<conn, did, sessions, target, notified, captured, watched, swept>>
    BY <1>13, <2>2, Zenon DEF UnregisterCloseQueue, CloseQueue
  <2>4. closeOnce'[s] /\ isClosed'[s]
    BY <2>3 DEF TypeOK, DataTypes
  <2>5. pc'[s][k] = "conn" /\ \A j \in Kind \ {k} : pc'[s][j] = pc[s][j]
    BY <2>3, GotoMoves, Labels DEF TypeOK
  <2>6. Leaving(s, k)'
    BY <2>1, <2>3, <2>4, <2>5, Labels, Zenon DEF Leaving
  <2> QED
    BY <2>2, <2>3, <2>6, <1>12, Labels, Zenon DEF Stage, TypeOK, DataTypes
<1>14. ASSUME NEW s \in Session, NEW k \in Kind, UnregisterCloseConn(s, k) PROVE Stages
  <2>1. Leaving(s, k) /\ pc[s][k] = "conn"
    BY <1>14, TeardownIsOwn, Labels, Zenon DEF UnregisterCloseConn
  <2>2. /\ conn' = [conn EXCEPT ![s] = "closed"]
        /\ Goto(s, k, "notify")
        /\ UNCHANGED <<did, sessions, target, closeOnce, isClosed, notified, captured,
                       watched, swept>>
    BY <1>14, <2>1, Zenon DEF UnregisterCloseConn, Leaving
  <2>3. conn'[s] = "closed"
    BY <2>2 DEF TypeOK, DataTypes
  <2>4. pc'[s][k] = "notify" /\ \A j \in Kind \ {k} : pc'[s][j] = pc[s][j]
    BY <2>2, GotoMoves, Labels DEF TypeOK
  <2>5. Leaving(s, k)'
    BY <2>1, <2>2, <2>3, <2>4, Labels, Zenon DEF Leaving
  <2> QED
    BY <2>1, <2>2, <2>5, <1>12, Labels, Zenon DEF Stage, TypeOK, DataTypes
<1>15. ASSUME NEW s \in Session, NEW k \in Kind, UnregisterNotify(s, k) PROVE Stages
  <2>1. Leaving(s, k) /\ pc[s][k] = "notify"
    BY <1>15, TeardownIsOwn, Labels, Zenon DEF UnregisterNotify
  <2>2. /\ notified' = [notified EXCEPT ![s] = IF captured[s] THEN @ + 1 ELSE @]
        /\ target' = [target EXCEPT ![s][k] = NoSession]
        /\ Goto(s, k, "done")
        /\ UNCHANGED <<conn, did, sessions, closeOnce, isClosed, captured, watched, swept>>
    BY <1>15, <2>1, Zenon DEF UnregisterNotify, Leaving
  <2>3. notified'[s] = IF captured[s] THEN 1 ELSE 0
    <3>1. notified[s] = 0 /\ notified \in [Session -> Nat]
      BY <2>1 DEF TypeOK, DataTypes, Leaving
    <3> QED
      BY <2>2, <3>1
  <2>4. \A j \in Kind : pc'[s][j] \notin Teardown
    <3>1. /\ ThreadTypes /\ Goto(s, k, "done")
          /\ "done" \in Label /\ "done" \notin Teardown
      BY <2>2, Labels DEF TypeOK
    <3>2. pc'[s][k] = "done" /\ \A j \in Kind : j # k => pc'[s][j] = pc[s][j]
      BY <3>1, GotoMoves, SMTT(30)
    <3>3. \A j \in Kind \ {k} : pc[s][j] \notin Teardown
      BY <2>1, Zenon DEF Leaving
    <3> QED
      BY <3>1, <3>2, <3>3
  <2>5. Gone(s)'
    BY <2>1, <2>2, <2>3, <2>4, Labels, SMTT(30) DEF Leaving, Gone, Quiet
  <2> QED
    BY <2>1, <2>2, <2>5, <1>12, Labels, Zenon DEF Stage, TypeOK, DataTypes, ThreadTypes
<1>16. ASSUME NEW p \in Packet, SendBlocked(p) PROVE Stages
  <2>0. PICK x \in Session : x = sendTo[p]
    BY <1>16, Zenon DEF SendBlocked, CutOff, TypeOK, DataTypes
  <2>1. /\ ~isClosed[x]
        /\ isClosed' = [isClosed EXCEPT ![x] = TRUE]
        /\ Goto(x, "slow", "lookup")
        /\ UNCHANGED <<conn, did, sessions, target, closeOnce, notified, captured,
                       watched, swept>>
    BY <1>16, <2>0, Zenon DEF SendBlocked, CutOff
  <2>2. pc[x]["slow"] = "unborn" /\ Registered(x)
    BY <1>16, <2>0, <2>1, Zenon DEF SendBlocked, CutOff, LifeInv, RelyInv
  <2>3. /\ pc'[x]["slow"] = "lookup"
        /\ \A t \in Session, j \in Kind : t # x \/ j # "slow" => pc'[t][j] = pc[t][j]
        /\ pc \in [Session -> [Kind -> Label]] /\ pc' \in [Session -> [Kind -> Label]]
    <3>1. "slow" \in Kind /\ "lookup" \in Label
      BY Labels
    <3>2. ThreadTypes /\ pc \in [Session -> [Kind -> Label]]
      BY DEF TypeOK, ThreadTypes
    <3> QED
      BY <2>1, <3>1, <3>2, GotoMoves, Zenon
  <2>4. isClosed'[x] /\ \A t \in Session \ {x} : isClosed'[t] = isClosed[t]
    BY <2>1, Zenon DEF TypeOK, DataTypes
  <2>5. \A j \in Kind : pc[x][j] \notin Teardown => pc'[x][j] \notin Teardown
    BY <2>3, Labels
  <2>6. ASSUME Listed(x) PROVE Stage(x)'
    <3>1. \A j \in {"read", "write"} : pc'[x][j] \notin {"unborn", "done"}
      BY <2>3, <2>6, Labels, Zenon DEF Listed
    <3>2. Listed(x)'
      BY <2>1, <2>3, <2>5, <2>6, <3>1, Zenon DEF Listed, Quiet
    <3> QED
      BY <3>2 DEF Stage
  <2>7. ASSUME NEW j \in Kind, Leaving(x, j) PROVE Stage(x)'
    <3>1. j # "slow"
      BY <2>2, <2>7, Labels, Zenon DEF Leaving
    <3>2. pc'[x][j] = pc[x][j] /\ \A i \in Kind \ {j} : pc'[x][i] \notin Teardown
      BY <2>3, <2>5, <2>7, <3>1, Zenon DEF Leaving
    <3>3. Leaving(x, j)'
      BY <2>1, <2>4, <2>7, <3>2, Zenon DEF Leaving
    <3> QED
      BY <3>3, Zenon DEF Stage
  <2>8. ASSUME Swept(x) PROVE Stage(x)'
    <3>1. Swept(x)'
      BY <2>1, <2>5, <2>8, Zenon DEF Swept, Quiet
    <3> QED
      BY <3>1 DEF Stage
  <2>9. Stage(x)'
    BY <1>0, <2>1, <2>2, <2>6, <2>7, <2>8, Zenon DEF Stage, Fresh, Gone, Registered
  <2>10. ASSUME NEW t \in Session, t # x PROVE Stage(t)'
    <3>1. pc'[t] = pc[t]
      BY <2>3, <2>10, SMTT(30)
    <3> QED
      BY <1>0, <2>1, <2>4, <2>10, <3>1, StageFrame, Zenon
  <2> QED
    BY <2>9, <2>10
<1>17. CASE CloseSweep
  <2>1. swept = {}
    BY <1>17, Zenon DEF CloseSweep, Snapshot, LifeInv, RelyInv
  <2>2. /\ \A d \in DID : sessions'[d] = NoSession
        /\ swept' = {s \in Session : Listed(s)}
        /\ UNCHANGED <<conn, did, pc, target, closeOnce, isClosed, notified, captured, watched>>
    BY <1>17, InTableListed, Zenon DEF CloseSweep, Snapshot
  <2>3. \A t \in Session : did[t] \in DID /\ sessions'[did[t]] # t
    BY <2>2, ConstantsAssumption, Zenon DEF TypeOK, DataTypes
  <2>4. ASSUME NEW t \in Session, Listed(t) PROVE Swept(t)'
    BY <2>2, <2>3, <2>4, Zenon DEF Listed, Swept, Quiet
  <2>5. ASSUME NEW t \in Session, ~Listed(t) PROVE Stage(t)'
    <3>1. Registered(t) => sessions[did[t]] # t
      BY <1>0, <2>5, Zenon DEF Stage, Fresh, Leaving, Swept, Gone, Registered
    <3> QED
      BY <1>0, <2>1, <2>2, <2>3, <2>5, <3>1, StageFrame, Zenon
  <2> QED
    BY <2>4, <2>5 DEF Stage
<1>18. ASSUME NEW s \in Session, CloseConn(s) PROVE Stages
  <2>1. Swept(s)
    BY <1>18, SweptStage, Zenon DEF CloseConn, LifeInv, RelyInv
  <2>2. /\ conn' = [conn EXCEPT ![s] = "closed"]
        /\ UNCHANGED <<did, sessions, target, closeOnce, isClosed, notified, captured,
                       watched, swept, pc>>
    BY <1>18, Zenon DEF CloseConn
  <2>3. conn'[s] = "closed" /\ \A t \in Session \ {s} : conn'[t] = conn[t]
    BY <2>2, Zenon DEF TypeOK, DataTypes
  <2>4. Swept(s)'
    BY <2>1, <2>2, <2>3, Zenon DEF Swept, Quiet
  <2>5. ASSUME NEW t \in Session, t # s PROVE Stage(t)'
    BY <1>0, <2>2, <2>3, <2>5, StageFrame, Zenon
  <2> QED
    BY <2>4, <2>5 DEF Stage
<1>19. ASSUME NEW s \in Session, RegisterSession(s) PROVE Stages
  <2>1. /\ conn[s] = "none" /\ conn' = [conn EXCEPT ![s] = "open"]
        /\ did' = [did EXCEPT ![s] = nextDID'] /\ nextDID' = (nextDID + 1) % DIDModulus
        /\ sessions' = [sessions EXCEPT ![nextDID'] = s]
        /\ pc' = [pc EXCEPT ![s] = [@ EXCEPT !["read"] = "check", !["write"] = "select"]]
        /\ watched' = [watched EXCEPT ![s] = onClose]
        /\ UNCHANGED <<target, closeOnce, isClosed, notified, captured, swept>>
    BY <1>19, Zenon DEF RegisterSession, Track
  <2>2. Fresh(s)
    BY <1>0, <2>1, Zenon DEF Stage, Listed, Leaving, Swept, Gone
  <2>3. /\ nextDID' \in DID
        /\ conn'[s] = "open" /\ did'[s] = nextDID' /\ sessions'[nextDID'] = s
        /\ \A t \in Session \ {s} : /\ conn'[t] = conn[t] /\ did'[t] = did[t]
                                    /\ watched'[t] = watched[t] /\ pc'[t] = pc[t]
        /\ pc'[s] = [pc[s] EXCEPT !["read"] = "check", !["write"] = "select"]
    BY <2>1, ConstantsAssumption, SMTT(30) DEF TypeOK, DataTypes, ThreadTypes, DID
  <2>4. /\ pc'[s]["read"] = "check" /\ pc'[s]["write"] = "select"
        /\ \A k \in Kind : pc'[s][k] \notin Teardown
    <3>1. pc[s] \in [Kind -> Label] /\ "read" \in Kind /\ "write" \in Kind
      BY Labels DEF TypeOK, ThreadTypes
    <3>2. /\ pc'[s]["read"] = "check" /\ pc'[s]["write"] = "select"
          /\ \A k \in Kind \ {"read", "write"} : pc'[s][k] = pc[s][k]
      BY <2>3, <3>1, Zenon
    <3>3. \A k \in Kind : pc'[s][k] \in {"check", "select", "unborn"}
      BY <2>2, <3>2, Zenon DEF Fresh
    <3> QED
      BY <3>2, <3>3, Labels, Zenon
  <2>5. Listed(s)'
    BY <2>1, <2>2, <2>3, <2>4, Zenon DEF Fresh, Listed, Quiet
  <2>6. ASSUME NEW t \in Session, t # s PROVE Stage(t)'
    <3>1. Registered(t) => did[t] # nextDID'
      <4>1. Registered(s)' /\ (Registered(t) => Registered(t)')
        BY <2>3, <2>6, Zenon DEF Registered
      <4>2. Registered(t)' => did'[t] # did'[s]
        BY <2>6, <4>1, Zenon DEF DIDInv
      <4> QED
        BY <2>3, <2>6, <4>1, <4>2, Zenon
    <3>2. Registered(t) => sessions'[did[t]] = sessions[did[t]]
      BY <2>1, <3>1, Zenon DEF TypeOK, DataTypes
    <3> QED
      BY <1>0, <2>1, <2>3, <2>6, <3>2, StageFrame, Zenon
  <2> QED
    BY <2>5, <2>6, Zenon DEF Stage
<1>20. 0 \in DID
  BY ConstantsAssumption DEF DID
<1> QED
  BY <1>3, <1>4, <1>5, <1>6, <1>7, <1>8, <1>9, <1>10, <1>11, <1>13, <1>14, <1>15, <1>16,
     <1>17, <1>18, <1>19, <1>20, ConstantsAssumption
     DEF Next, Unregister, SendToLocal, Close

-----------------------------------------------------------------------------
(* The theorems. *)

\* No session is registered in the initial state: all are fresh.
LEMMA LifeInit ==
  ASSUME Init PROVE LifeInv
<1>1. {s \in Session : Registered(s)} = {}
  BY DEF Init, Registered
<1>2. DIDInv
  BY <1>1, FS_EmptySet, Zenon DEF Init, DIDInv, Registered
<1>3. RelyInv
  BY Labels, Zenon DEF Init, RelyInv
<1>4. \A s \in Session : Fresh(s)
  BY DEF Init, Fresh
<1> QED
  BY <1>2, <1>3, <1>4 DEF LifeInv, Stage

\* A step keeps the invariant.
LEMMA LifeStep == ASSUME NoWrap, TypeOK, LifeInv, [Next]_vars PROVE LifeInv'
<1>1. DIDInv'
  BY DIDStep
<1>2. RelyInv'
  BY RelyStep
<1>3. \A t \in Session : Stage(t)'
  BY <1>1, StageStep
<1> QED
  BY <1>1, <1>2, <1>3 DEF LifeInv

\* RegisterSession, UnregisterSession, SendToLocal, Close and the two loops,
\* however they interleave, take every session through its stages in order:
\* the table, then one tear-down by one goroutine, or the sweep of Close.
THEOREM Lifecycle ==
  ASSUME NoWrap PROVE Spec => []LifeInv
<1>1. Init => LifeInv
  BY LifeInit
<1>2. TypeOK /\ LifeInv /\ [Next]_vars => LifeInv'
  BY LifeStep
<1> QED
  BY <1>1, <1>2, Typing, PTL DEF Spec

\* onClose is called once for a session that leaves through UnregisterSession,
\* and never twice, with any number of sessions, packets and callers.
THEOREM OnCloseOnce ==
  ASSUME NoWrap PROVE Spec => []OnCloseExactlyOnce
<1>1. TypeOK /\ LifeInv => OnCloseExactlyOnce
  <2> SUFFICES ASSUME TypeOK, LifeInv, NEW s \in Session
               PROVE  /\ notified[s] <= 1
                      /\ Registered(s) /\ watched[s] /\ ~InTable(s) /\ ~BeingTornDown(s)
                            /\ s \notin swept => notified[s] = 1
    BY Zenon DEF OnCloseExactlyOnce
  <2>0. notified[s] = 0 => notified[s] <= 1
    OBVIOUS
  <2>1. CASE Fresh(s)
    <3>1. notified[s] = 0 /\ ~Registered(s)
      BY <2>1 DEF Fresh, Registered
    <3> QED
      BY <2>0, <3>1, ZenonT(30)
  <2>2. CASE Listed(s)
    <3>1. notified[s] = 0 /\ InTable(s)
      BY <2>2, InTableListed, Zenon DEF Listed
    <3> QED
      BY <2>0, <3>1, ZenonT(30)
  <2>3. ASSUME NEW k \in Kind, Leaving(s, k)
        PROVE  notified[s] <= 1 /\ BeingTornDown(s)
    <3>1. notified[s] = 0 /\ pc[s][k] \in Teardown /\ target[s][k] = s
      BY <2>3, Zenon DEF Leaving
    <3> QED
      BY <2>0, <3>1, Zenon DEF BeingTornDown
  <2>4. CASE Swept(s)
    <3>1. notified[s] = 0 /\ s \in swept
      BY <2>4, Zenon DEF Swept
    <3> QED
      BY <2>0, <3>1, ZenonT(30)
  <2>5. CASE Gone(s)
    BY <2>5, Zenon DEF Gone
  <2>6. Fresh(s) \/ Listed(s) \/ (\E k \in Kind : Leaving(s, k)) \/ Swept(s) \/ Gone(s)
    BY DEF LifeInv, Stage
  <2> QED
    BY <2>1, <2>2, <2>3, <2>4, <2>5, <2>6, ZenonT(30)
<1> QED
  BY <1>1, Lifecycle, Typing, PTL

\* A late UnregisterSession never tears down somebody else's session.
THEOREM TeardownOwn ==
  ASSUME NoWrap PROVE Spec => []OwnTeardown
<1>1. TypeOK /\ LifeInv => OwnTeardown
  BY TeardownIsOwn, Zenon DEF OwnTeardown, Leaving
<1> QED
  BY <1>1, Lifecycle, Typing, PTL

\* The labels each loop has of its own.
LoopLabels ==
    /\ \A s \in Session : pc[s]["read"] \notin {"select", "header", "payload"}
    /\ \A s \in Session : pc[s]["write"] \notin {"check", "reading", "callback"}

\* A step of one loop leaves the other where it is.
LEMMA LoopStep ==
  ASSUME TypeOK, LoopLabels, [Next]_vars PROVE LoopLabels'
<1> USE DEF table, hooks, link, queue, calls, closing, unregLocals, sendFrame, readFrame,
            writeFrame, closeFrame
<1>0. ThreadTypes
  BY Zenon DEF TypeOK
<1>1. ASSUME UNCHANGED pc PROVE LoopLabels'
  BY <1>1 DEF LoopLabels
<1>2. ASSUME NEW s \in Session, NEW k \in Kind, NEW l \in Label, Goto(s, k, l),
             k = "read" => l \notin {"select", "header", "payload"},
             k = "write" => l \notin {"check", "reading", "callback"}
      PROVE  LoopLabels'
  <2>1. "read" \in Kind /\ "write" \in Kind
    BY Labels
  <2>2. pc'[s][k] = l /\ \A t \in Session, j \in Kind : t # s \/ j # k => pc'[t][j] = pc[t][j]
    BY <1>0, <1>2, GotoMoves
  <2>3. ASSUME NEW t \in Session PROVE pc'[t]["read"] \notin {"select", "header", "payload"}
    BY <1>2, <2>1, <2>2, <2>3, Zenon DEF LoopLabels
  <2>4. ASSUME NEW t \in Session PROVE pc'[t]["write"] \notin {"check", "reading", "callback"}
    BY <1>2, <2>1, <2>2, <2>4, Zenon DEF LoopLabels
  <2> QED
    BY <2>3, <2>4, Zenon DEF LoopLabels
<1>3. ASSUME NEW cb \in Callback, SetOnClose(cb) \/ SetControlCallback(cb)
      PROVE  LoopLabels'
  BY <1>1, <1>3, Zenon DEF SetOnClose, SetControlCallback
<1>4. CASE ParentCancel \/ Close \/ UNCHANGED vars
  BY <1>1, <1>4, Zenon DEF ParentCancel, Close, CloseCancel, Cancel, CloseSweep, Snapshot,
                    CloseConn, CloseWait, CloseReturn, vars
<1>5. ASSUME NEW s \in Session, RegisterSession(s) PROVE LoopLabels'
  <2>1. pc' = [pc EXCEPT ![s] = [@ EXCEPT !["read"] = "check", !["write"] = "select"]]
    BY <1>5, Zenon DEF RegisterSession, Track
  <2> QED
    BY <1>0, <2>1, Labels, SMTT(30) DEF ThreadTypes, LoopLabels
<1>6. ASSUME NEW s \in Session, PeerClose(s) PROVE LoopLabels'
  BY <1>1, <1>6 DEF PeerClose
<1>7. ASSUME NEW s \in Session, UnregisterCall(s) PROVE LoopLabels'
  BY <1>2, <1>7, Labels, Zenon DEF UnregisterCall
<1>8. ASSUME NEW s \in Session, ReadLoop(s) PROVE LoopLabels'
  BY <1>2, <1>8, Labels, Zenon DEF ReadLoop, ReadCheck, ReadPacket, ReadError, CallbackReturn
<1>9. ASSUME NEW s \in Session, WriteLoop(s) PROVE LoopLabels'
  BY <1>2, <1>9, Labels, Zenon DEF WriteLoop, WriteStop, WriteDequeue, WriteHeader, WritePayload,
                            WriteError, WriteFails
<1>10. ASSUME NEW s \in Session, NEW k \in Kind, Unregister(s, k) PROVE LoopLabels'
  <2>1. \E l \in Teardown \cup {"done"} : Goto(s, k, l)
    BY <1>10, Labels, Zenon DEF Unregister, UnregisterNotFound, UnregisterDelete, TakeOut,
       UnregisterCloseQueue, CloseQueue, UnregisterCloseConn, UnregisterNotify
  <2> QED
    BY <1>2, <2>1, Labels, Zenon
<1>11. ASSUME NEW p \in Packet, SendToLocal(p) PROVE LoopLabels'
  <2>1. CASE SendBlocked(p)
    BY <1>2, <2>1, Labels, Zenon DEF SendBlocked, CutOff, TypeOK, DataTypes
  <2>2. CASE ~SendBlocked(p)
    BY <1>1, <1>11, <2>2, Zenon DEF SendToLocal, SendNotFound, SendFound, SendToClosed, SendAccept,
                             Enqueue
  <2> QED
    BY <2>1, <2>2
<1> QED
  BY <1>3, <1>4, <1>5, <1>6, <1>7, <1>8, <1>9, <1>10, <1>11, ConstantsAssumption, Zenon DEF Next

\* A session that is still in the table has an open connection and both loops,
\* or somebody on the way to unregister it.
THEOREM TableLive ==
  ASSUME NoWrap PROVE Spec => []TableIsLive
<1>1. Init => LoopLabels
  BY Labels, SMTT(30) DEF Init, LoopLabels
<1>2. TypeOK /\ LoopLabels /\ [Next]_vars => LoopLabels'
  BY LoopStep
<1>3. TypeOK /\ LifeInv /\ LoopLabels => TableIsLive
  <2> SUFFICES ASSUME TypeOK, LifeInv, LoopLabels, NEW s \in Session, InTable(s)
               PROVE  /\ conn[s] = "open"
                      /\ pc[s]["read"] \in {"check", "reading", "callback", "lookup"}
                      /\ pc[s]["write"] \in {"select", "header", "payload", "lookup"}
                      /\ isClosed[s] => pc[s]["slow"] = "lookup"
    BY Zenon DEF TableIsLive
  <2>1. Listed(s)
    BY InTableListed
  <2>2. pc[s]["read"] \in Label /\ pc[s]["write"] \in Label
    BY Labels DEF TypeOK, ThreadTypes
  <2>3. pc[s]["read"] \notin Teardown /\ pc[s]["write"] \notin Teardown
    BY <2>1, Labels, Zenon DEF Listed, Quiet
  <2> QED
    BY <2>1, <2>2, <2>3, Zenon DEF Label, LoopLabels, Listed
<1> QED
  BY <1>1, <1>2, <1>3, Lifecycle, Typing, PTL DEF Spec

\* Whoever is told by onClose that a session is closed can rely on it.
THEOREM NotifiedGone ==
  ASSUME NoWrap PROVE Spec => []NotifiedIsGone
<1>1. TypeOK /\ LifeInv => NotifiedIsGone
  <2> SUFFICES ASSUME TypeOK, LifeInv, NEW s \in Session, notified[s] > 0
               PROVE  conn[s] = "closed" /\ isClosed[s] /\ ~InTable(s)
    BY Zenon DEF NotifiedIsGone
  <2>1. Gone(s)
    <3>1. notified[s] # 0
      OBVIOUS
    <3>2. ~Fresh(s) /\ ~Listed(s) /\ ~Swept(s)
      BY <3>1, Zenon DEF Fresh, Listed, Swept
    <3>3. \A k \in Kind : ~Leaving(s, k)
      BY <3>1, Zenon DEF Leaving
    <3> QED
      BY <3>2, <3>3 DEF LifeInv, Stage
  <2>2. ~Listed(s)
    BY <2>1, Zenon DEF Gone, Listed
  <2> QED
    BY <2>1, <2>2, InTableListed, Zenon DEF Gone
<1> QED
  BY <1>1, Lifecycle, Typing, PTL

\* As long as fewer sessions than DIDs are registered, the comment of
\* RegisterSession is right: DIDs are unique and not zero.
THEOREM DIDsUnique ==
  ASSUME NoWrap PROVE Spec => []UniqueNonZeroDID
<1>1. TypeOK /\ LifeInv => UniqueNonZeroDID
  <2> SUFFICES ASSUME TypeOK, DIDInv PROVE UniqueNonZeroDID
    BY DEF LifeInv
  <2>1. nextDID \in Nat
    BY ConstantsAssumption DEF TypeOK, DataTypes, DID
  <2>2. \A s \in Session : Registered(s) => did[s] # 0
    BY <2>1, SMTT(30) DEF DIDInv
  <2> QED
    BY <2>2, Zenon DEF DIDInv, UniqueNonZeroDID
<1> QED
  BY <1>1, Lifecycle, Typing, PTL

-----------------------------------------------------------------------------
(* The session manager implements SessionLife. *)

\* A session is being torn down by a goroutine of its own, or not at all.
LEMMA TornDownOwn ==
  LifeInv => \A s \in Session : BeingTornDown(s) <=> \E k \in Kind : pc[s][k] \in Teardown
<1> SUFFICES ASSUME LifeInv, NEW s \in Session
             PROVE  BeingTornDown(s) <=> \E k \in Kind : pc[s][k] \in Teardown
  OBVIOUS
<1>1. ASSUME BeingTornDown(s) PROVE \E k \in Kind : pc[s][k] \in Teardown
  <2>1. PICK t \in Session, k \in Kind : pc[t][k] \in Teardown /\ target[t][k] = s
    BY <1>1, Zenon DEF BeingTornDown
  <2>2. target[t][k] = t
    BY <2>1, TeardownIsOwn, Zenon DEF Leaving
  <2> QED
    BY <2>1, <2>2, Zenon
<1>2. ASSUME NEW k \in Kind, pc[s][k] \in Teardown PROVE BeingTornDown(s)
  <2>1. target[s][k] = s
    BY <1>2, TeardownIsOwn, Zenon DEF Leaving
  <2> QED
    BY <1>2, <2>1, Zenon DEF BeingTornDown
<1> QED
  BY <1>1, <1>2, Zenon

\* The user sees no change when the session keeps its entry, and its goroutines
\* stay inside or outside the tear-down.
LEMMA StageKept ==
  ASSUME LifeInv, LifeInv', NEW t \in Session,
         Registered(t)' <=> Registered(t),
         Registered(t) => did'[t] = did[t] /\ (sessions'[did[t]] = t <=> sessions[did[t]] = t),
         t \in swept' <=> t \in swept,
         \A k \in Kind : pc'[t][k] \in Teardown <=> pc[t][k] \in Teardown
  PROVE  StageOf(t)' = StageOf(t)
<1>1. BeingTornDown(t) <=> \E k \in Kind : pc[t][k] \in Teardown
  BY TornDownOwn, Zenon
<1>2. BeingTornDown(t)' <=> \E k \in Kind : pc'[t][k] \in Teardown
  <2>1. (\A s \in Session : BeingTornDown(s) <=> \E k \in Kind : pc[s][k] \in Teardown)'
    BY TornDownOwn, PTL
  <2> QED
    BY <2>1, Zenon
<1> QED
  BY <1>1, <1>2, Zenon DEF StageOf

\* A goroutine that moves outside the tear-down, or inside it, is not seen.
LEMMA GotoKept ==
  ASSUME TypeOK, LifeInv, LifeInv', NEW s \in Session, NEW k \in Kind, NEW l \in Label,
         Goto(s, k, l), l \in Teardown <=> pc[s][k] \in Teardown,
         UNCHANGED <<did, sessions, swept>>, \A t \in Session : Registered(t)' <=> Registered(t)
  PROVE  \A t \in Session : StageOf(t)' = StageOf(t)
<1>1. ThreadTypes /\ Goto(s, k, l)
  BY Zenon DEF TypeOK
<1>2. /\ pc'[s][k] = l
      /\ \A t \in Session, j \in Kind : t # s \/ j # k => pc'[t][j] = pc[t][j]
  BY <1>1, GotoMoves, Zenon
<1>3. \A t \in Session, j \in Kind : pc'[t][j] \in Teardown <=> pc[t][j] \in Teardown
  BY <1>2, Zenon
<1> QED
  BY <1>3, StageKept, Zenon

\* The steps a user cannot see.
LEMMA HiddenStep ==
  ASSUME TypeOK, LifeInv, LifeInv',
         \/ \E cb \in Callback : SetOnClose(cb) \/ SetControlCallback(cb)
         \/ ParentCancel
         \/ \E s \in Session : PeerClose(s) \/ UnregisterCall(s) \/ ReadLoop(s) \/ WriteLoop(s)
         \/ \E s \in Session, k \in Kind :
               UnregisterNotFound(s, k) \/ UnregisterCloseQueue(s, k) \/ UnregisterCloseConn(s, k)
         \/ \E p \in Packet, d \in DID : SendNotFound(p, d) \/ SendFound(p, d)
         \/ \E p \in Packet : SendToClosed(p) \/ SendBlocked(p)
         \/ CloseCancel \/ CloseWait \/ CloseReturn \/ (\E s \in Session : CloseConn(s))
         \/ UNCHANGED vars
  PROVE  UNCHANGED <<notified, accepted>> /\ \A t \in Session : StageOf(t)' = StageOf(t)
<1> USE DEF table, hooks, link, queue, calls, closing, unregLocals, sendFrame, readFrame,
            writeFrame, closeFrame
<1> DEFINE Goal == UNCHANGED <<notified, accepted>> /\ \A t \in Session : StageOf(t)' = StageOf(t)
<1>1. ASSUME UNCHANGED <<notified, accepted, conn, did, sessions, swept, pc>> PROVE Goal
  BY <1>1, StageKept, Zenon DEF Registered
<1>2. ASSUME NEW s \in Session, NEW k \in Kind, NEW l \in Label \ Teardown, Goto(s, k, l),
             pc[s][k] \notin Teardown,
             UNCHANGED <<notified, accepted, conn, did, sessions, swept>>
      PROVE  Goal
  BY <1>2, GotoKept, Zenon DEF Registered
<1>3. ASSUME NEW cb \in Callback, SetOnClose(cb) \/ SetControlCallback(cb) PROVE Goal
  BY <1>1, <1>3, Zenon DEF SetOnClose, SetControlCallback
<1>4. CASE ParentCancel \/ CloseCancel \/ CloseWait \/ CloseReturn \/ UNCHANGED vars
  BY <1>1, <1>4, Zenon DEF ParentCancel, CloseCancel, Cancel, CloseWait, CloseReturn, vars
<1>5. ASSUME NEW s \in Session, PeerClose(s) PROVE Goal
  BY <1>1, <1>5, Zenon DEF PeerClose
<1>6. ASSUME NEW s \in Session, UnregisterCall(s) PROVE Goal
  BY <1>2, <1>6, Labels, Zenon DEF UnregisterCall
<1>7. ASSUME NEW s \in Session, ReadLoop(s) PROVE Goal
  <2>1. PICK l \in Label \ Teardown : Goto(s, "read", l)
    BY <1>7, Labels, Zenon DEF ReadLoop, ReadCheck, ReadPacket, ReadError, CallbackReturn
  <2>2. /\ pc[s]["read"] \notin Teardown
        /\ UNCHANGED <<notified, accepted, conn, did, sessions, swept>>
    BY <1>7, Labels, Zenon DEF ReadLoop, ReadCheck, ReadPacket, ReadError, CallbackReturn
  <2> QED
    BY <1>2, <2>1, <2>2, Labels, Zenon
<1>8. ASSUME NEW s \in Session, WriteLoop(s) PROVE Goal
  <2>1. PICK l \in Label \ Teardown : Goto(s, "write", l)
    BY <1>8, Labels, Zenon DEF WriteLoop, WriteStop, WriteDequeue, WriteHeader, WritePayload,
                        WriteError, WriteFails
  <2>2. /\ pc[s]["write"] \notin Teardown
        /\ UNCHANGED <<notified, accepted, conn, did, sessions, swept>>
    BY <1>8, Labels, Zenon DEF WriteLoop, WriteStop, WriteDequeue, WriteHeader, WritePayload,
                        WriteError, WriteFails
  <2> QED
    BY <1>2, <2>1, <2>2, Labels, Zenon
<1>9. ASSUME NEW s \in Session, NEW k \in Kind, UnregisterNotFound(s, k) PROVE Goal
  BY <1>2, <1>9, Labels, Zenon DEF UnregisterNotFound
<1>10. ASSUME NEW s \in Session, NEW k \in Kind, UnregisterCloseQueue(s, k) PROVE Goal
  <2>1. pc[s][k] = "queue" /\ pc[s][k] \in Teardown /\ {"conn"} \subseteq Teardown \cap Label
    BY <1>10, Labels, Zenon DEF UnregisterCloseQueue, CloseQueue
  <2>2. target[s][k] = s /\ ~closeOnce[s]
    BY <2>1, TeardownIsOwn, Zenon DEF Leaving
  <2>3. Goto(s, k, "conn") /\ UNCHANGED <<notified, accepted, conn, did, sessions, swept>>
    BY <1>10, <2>2, Zenon DEF UnregisterCloseQueue, CloseQueue
  <2> QED
    BY <2>1, <2>3, GotoKept, Zenon DEF Registered
<1>11. ASSUME NEW s \in Session, NEW k \in Kind, UnregisterCloseConn(s, k) PROVE Goal
  <2>1. /\ pc[s][k] = "conn" /\ Goto(s, k, "notify")
        /\ UNCHANGED <<notified, accepted, did, sessions, swept>>
        /\ conn' = [conn EXCEPT ![target[s][k]] = "closed"]
    BY <1>11, Zenon DEF UnregisterCloseConn
  <2>2. pc[s][k] \in Teardown /\ {"notify"} \subseteq Teardown \cap Label
    BY <2>1, Labels, Zenon
  <2>3. target[s][k] = s /\ Registered(s)
    BY <2>2, TeardownIsOwn, Zenon DEF Leaving, Registered
  <2>4. \A t \in Session : Registered(t)' <=> Registered(t)
    <3>1. DOMAIN conn = Session
      BY Zenon DEF TypeOK, DataTypes
    <3>2. conn'[s] = "closed" /\ \A t \in Session \ {s} : conn'[t] = conn[t]
      BY <2>1, <2>3, <3>1, Zenon
    <3> QED
      BY <2>3, <3>2, Zenon DEF Registered
  <2> QED
    BY <2>1, <2>2, <2>4, GotoKept, Zenon
<1>12. ASSUME NEW p \in Packet, NEW d \in DID, SendNotFound(p, d) \/ SendFound(p, d) PROVE Goal
  BY <1>1, <1>12, Zenon DEF SendNotFound, SendFound
<1>13. ASSUME NEW p \in Packet, SendToClosed(p) PROVE Goal
  BY <1>1, <1>13, Zenon DEF SendToClosed
<1>14. ASSUME NEW p \in Packet, SendBlocked(p) PROVE Goal
  <2>1. /\ send[p] = "found" /\ ~isClosed[sendTo[p]] /\ Goto(sendTo[p], "slow", "lookup")
        /\ UNCHANGED <<notified, accepted, conn, did, sessions, swept>>
    BY <1>14, Zenon DEF SendBlocked, CutOff
  <2>2. sendTo[p] \in Session
    BY <2>1, Zenon DEF TypeOK, DataTypes
  <2>3. pc[sendTo[p]]["slow"] = "unborn"
    BY <2>1, <2>2, Zenon DEF LifeInv, RelyInv
  <2>4. pc[sendTo[p]]["slow"] \notin Teardown
    BY <2>3, Labels, Zenon
  <2> QED
    BY <1>2, <2>1, <2>2, <2>4, Labels, Zenon
<1>15. ASSUME NEW s \in Session, CloseConn(s) PROVE Goal
  <2>1. /\ s \in toClose /\ conn' = [conn EXCEPT ![s] = "closed"]
        /\ UNCHANGED <<notified, accepted, did, sessions, swept, pc>>
    BY <1>15, Zenon DEF CloseConn
  <2>2. Registered(s)
    <3>1. s \in swept
      BY <2>1, Zenon DEF LifeInv, RelyInv
    <3> QED
      BY <3>1, SweptStage, Zenon DEF Swept, Registered
  <2>3. \A t \in Session : Registered(t)' <=> Registered(t)
    <3>1. DOMAIN conn = Session
      BY Zenon DEF TypeOK, DataTypes
    <3>2. conn'[s] = "closed" /\ \A t \in Session \ {s} : conn'[t] = conn[t]
      BY <2>1, <3>1, Zenon
    <3> QED
      BY <2>2, <3>2, Zenon DEF Registered
  <2> QED
    BY <2>1, <2>3, StageKept, Zenon
<1> QED
  BY <1>3, <1>4, <1>5, <1>6, <1>7, <1>8, <1>9, <1>10, <1>11, <1>12, <1>13, <1>14, <1>15, Zenon

\* The stages under the names SessionLife has for them.
LEMMA StageNames ==
  LifeInv => \A s \in Session :
     /\ Fresh(s) => StageOf(s) = "fresh"
     /\ Listed(s) => StageOf(s) = "listed"
     /\ (\E k \in Kind : Leaving(s, k)) => StageOf(s) = "leaving"
     /\ Swept(s) => StageOf(s) = "swept"
     /\ Gone(s) => StageOf(s) = "gone"
<1> SUFFICES ASSUME LifeInv, NEW s \in Session
             PROVE
               /\ Fresh(s) => StageOf(s) = "fresh"
               /\ Listed(s) => StageOf(s) = "listed"
               /\ (\E k \in Kind : Leaving(s, k)) => StageOf(s) = "leaving"
               /\ Swept(s) => StageOf(s) = "swept"
               /\ Gone(s) => StageOf(s) = "gone"
  BY Zenon
<1>1. BeingTornDown(s) <=> \E k \in Kind : pc[s][k] \in Teardown
  BY TornDownOwn, Zenon
<1>2. Fresh(s) => StageOf(s) = "fresh"
  BY Zenon DEF Fresh, StageOf, Registered
<1>3. Listed(s) => StageOf(s) = "listed"
  <2>1. Listed(s) => Registered(s) /\ sessions[did[s]] = s
    BY Zenon DEF Listed, Registered
  <2> QED
    BY <2>1, Zenon DEF StageOf
<1>4. (\E k \in Kind : Leaving(s, k)) => StageOf(s) = "leaving"
  BY <1>1, Zenon DEF Leaving, StageOf, Registered
<1>5. Swept(s) => StageOf(s) = "swept"
  BY Zenon DEF Swept, StageOf, Registered
<1>6. Gone(s) => StageOf(s) = "gone"
  <2>1. Gone(s) => Registered(s) /\ ~BeingTornDown(s)
    BY <1>1, Zenon DEF Gone, Quiet, Registered
  <2> QED
    BY <2>1, Zenon DEF Gone, StageOf
<1> QED
  BY <1>2, <1>3, <1>4, <1>5, <1>6, Zenon

\* The same at the end of a step.
LEMMA StageNamesNext ==
  ASSUME LifeInv'
  PROVE  (\A s \in Session :
            /\ Fresh(s) => StageOf(s) = "fresh"
            /\ Listed(s) => StageOf(s) = "listed"
            /\ (\E k \in Kind : Leaving(s, k)) => StageOf(s) = "leaving"
            /\ Swept(s) => StageOf(s) = "swept"
            /\ Gone(s) => StageOf(s) = "gone")'
  BY StageNames, PTL

\* Not to be told leaves the number of calls as it is.
LEMMA PlusZero == ASSUME NEW n \in Nat PROVE n + 0 = n
  OBVIOUS

\* What the counter gives out is a DID.
LEMMA NextIsDID == TypeOK => (nextDID + 1) % DIDModulus \in DID
  BY ConstantsAssumption, SMTT(30) DEF DID, TypeOK, DataTypes

\* The steps a user can see are the steps of SessionLife.
LEMMA SeenStep ==
  ASSUME TypeOK, LifeInv, LifeInv',
         \/ \E s \in Session : RegisterSession(s)
         \/ \E s \in Session, k \in Kind : UnregisterDelete(s, k) \/ UnregisterNotify(s, k)
         \/ \E p \in Packet : SendAccept(p)
         \/ CloseSweep
  PROVE  Life!Next
<1> USE DEF table, hooks, link, queue, calls, closing, unregLocals, sendFrame, closeFrame
<1> DEFINE stg == [s \in Session |-> StageOf(s)]
<1>0. \A s \in Session : Stage(s) /\ Stage(s)'
  BY Zenon DEF LifeInv
<1>s. ASSUME NEW s \in Session, \A t \in Session \ {s} : StageOf(t)' = StageOf(t)
      PROVE  stg' = [stg EXCEPT ![s] = StageOf(s)']
  BY <1>s, Zenon
<1>1. ASSUME NEW s \in Session, RegisterSession(s) PROVE Life!Next
  <2>1. /\ conn[s] = "none" /\ UNCHANGED <<notified, accepted, swept>>
        /\ \E d \in DID : did' = [did EXCEPT ![s] = d] /\ sessions' = [sessions EXCEPT ![d] = s]
        /\ conn' = [conn EXCEPT ![s] = "open"]
        /\ pc' = [pc EXCEPT ![s] = [@ EXCEPT !["read"] = "check", !["write"] = "select"]]
    BY <1>1, NextIsDID, Zenon DEF RegisterSession, Track
  <2>2. StageOf(s) = "fresh" /\ StageOf(s)' = "listed"
    <3>1. conn'[s] # "none" /\ sessions'[did'[s]] = s
      <4>1. DOMAIN conn = Session /\ DOMAIN did = Session /\ DOMAIN sessions = DID
        BY Zenon DEF TypeOK, DataTypes
      <4> QED
        BY <2>1, <4>1, Zenon
    <3> QED
      BY <2>1, <3>1, Zenon DEF StageOf, Registered
  <2>3. ASSUME NEW t \in Session \ {s} PROVE StageOf(t)' = StageOf(t)
    <3>1. pc'[t] = pc[t] /\ conn'[t] = conn[t] /\ did'[t] = did[t] /\ conn'[s] # "none"
      <4>1. DOMAIN conn = Session /\ DOMAIN did = Session /\ DOMAIN pc = Session
        BY Zenon DEF TypeOK, ThreadTypes, DataTypes
      <4> QED
        BY <2>1, <4>1, Zenon
    <3>2. Registered(t) => did'[s] # did[t]
      <4>1. conn'[s] # "none" /\ conn'[t] # "none" /\ did'[s] = did'[t] => s = t
        BY Zenon DEF LifeInv, DIDInv, Registered
      <4> QED
        BY <3>1, <4>1, Zenon DEF Registered
    <3>3. Registered(t) => sessions'[did[t]] = sessions[did[t]]
      <4>1. DOMAIN did = Session /\ DOMAIN sessions = DID /\ did[t] \in DID
        BY Zenon DEF TypeOK, DataTypes
      <4> QED
        BY <2>1, <3>2, <4>1, Zenon
    <3> QED
      BY <2>1, <3>1, <3>3, StageKept, Zenon DEF Registered
  <2> QED
    BY <1>s, <2>1, <2>2, <2>3, Zenon DEF Life!Next, Life!Register
<1>2. ASSUME NEW s \in Session, NEW k \in Kind, UnregisterDelete(s, k) PROVE Life!Next
  <2>1. /\ pc[s][k] = "lookup" /\ Goto(s, k, "queue")
        /\ sessions[did[s]] # NoSession
        /\ sessions' = [sessions EXCEPT ![did[s]] = NoSession]
        /\ UNCHANGED <<notified, accepted, conn, did, swept>>
    BY <1>2, Zenon DEF UnregisterDelete, TakeOut
  <2>2. Registered(s) /\ sessions[did[s]] = s /\ StageOf(s) = "listed"
    <3>1. Registered(s) /\ sessions[did[s]] = s
      BY <2>1, Labels, BornRegistered, OwnEntry, Zenon
    <3> QED
      BY <3>1, Zenon DEF StageOf
  <2>3. ThreadTypes /\ Goto(s, k, "queue") /\ "queue" \in Label \cap Teardown
    BY <2>1, Labels, Zenon DEF TypeOK
  <2>4. /\ pc'[s][k] = "queue"
        /\ \A t \in Session, j \in Kind : t # s \/ j # k => pc'[t][j] = pc[t][j]
    BY <2>3, GotoMoves, Zenon
  <2>5. StageOf(s)' = "leaving"
    <3>1. pc'[s][k] \in Teardown /\ conn'[s] # "none"
      BY <2>1, <2>2, <2>3, <2>4, Zenon DEF Registered
    <3>2. \E j \in Kind : Leaving(s, j)'
      BY <1>0, <3>1, Zenon DEF Stage, Fresh, Listed, Swept, Gone, Quiet
    <3> QED
      BY <3>2, StageNamesNext, Zenon
  <2>6. ASSUME NEW t \in Session \ {s} PROVE StageOf(t)' = StageOf(t)
    <3>1. Registered(t) => sessions'[did[t]] = t <=> sessions[did[t]] = t
      <4>1. DOMAIN sessions = DID /\ did[t] \in DID
        BY Zenon DEF TypeOK, DataTypes
      <4>2. Registered(t) => did[t] # did[s]
        BY <2>2, Zenon DEF LifeInv, DIDInv
      <4> QED
        BY <2>1, <4>1, <4>2, Zenon
    <3> QED
      BY <2>1, <2>4, <3>1, StageKept, Zenon DEF Registered
  <2> QED
    BY <1>s, <2>1, <2>2, <2>5, <2>6, Zenon DEF Life!Next, Life!Leave
<1>3. ASSUME NEW s \in Session, NEW k \in Kind, UnregisterNotify(s, k) PROVE Life!Next
  <2>1. /\ pc[s][k] = "notify" /\ Goto(s, k, "done")
        /\ notified' = [notified EXCEPT ![target[s][k]] =
                           IF captured[target[s][k]] THEN @ + 1 ELSE @]
        /\ UNCHANGED <<accepted, conn, did, sessions, swept>>
    BY <1>3, Zenon DEF UnregisterNotify
  <2>2. Leaving(s, k) /\ ThreadTypes /\ Goto(s, k, "done") /\ "done" \in Label \ Teardown
    <3>1. pc[s][k] \in Teardown
      BY <2>1, Labels, Zenon
    <3>2. "done" \in Label /\ "done" \notin Teardown
      BY Labels, Zenon
    <3> QED
      BY <2>1, <3>1, <3>2, TeardownIsOwn, Zenon DEF TypeOK
  <2>3. /\ pc'[s][k] = "done"
        /\ \A t \in Session, j \in Kind : t # s \/ j # k => pc'[t][j] = pc[t][j]
    BY <2>2, GotoMoves, Zenon
  <2>4. StageOf(s) = "leaving"
    BY <2>2, StageNames, Zenon
  <2>5. StageOf(s)' = "gone"
    <3>1. /\ \A j \in Kind : pc'[s][j] \notin Teardown
          /\ Registered(s)' /\ sessions'[did'[s]] # s /\ s \notin swept'
      BY <2>1, <2>2, <2>3, Zenon DEF Leaving, Registered
    <3>2. Gone(s)'
      BY <1>0, <3>1, Zenon DEF Stage, Fresh, Listed, Leaving, Swept, Registered
    <3> QED
      BY <3>2, StageNamesNext, Zenon
  <2>6. ASSUME NEW t \in Session \ {s} PROVE StageOf(t)' = StageOf(t)
    BY <2>1, <2>3, StageKept, Zenon DEF Registered
  <2>7. \E n \in {0, 1} : notified' = [notified EXCEPT ![s] = @ + n]
    <3>1. target[s][k] = s /\ notified[s] \in Nat
      BY <2>2, Zenon DEF Leaving, TypeOK, DataTypes
    <3>2. CASE captured[s]
      BY <2>1, <3>1, <3>2, Zenon
    <3>3. CASE ~captured[s]
      <4>1. notified[s] + 0 = notified[s]
        BY <3>1, PlusZero, Zenon
      <4>2. notified' = [notified EXCEPT ![s] = notified[s] + 0]
        BY <2>1, <3>1, <3>3, <4>1, Zenon
      <4> QED
        BY <4>2, Zenon
    <3> QED
      BY <3>2, <3>3, Zenon
  <2> QED
    BY <1>s, <2>1, <2>4, <2>5, <2>6, <2>7, Zenon DEF Life!Next, Life!Finish
<1>4. ASSUME NEW p \in Packet, SendAccept(p) PROVE Life!Next
  <2>1. /\ send[p] = "found" /\ ~isClosed[sendTo[p]]
        /\ accepted' = [accepted EXCEPT ![sendTo[p]] = Append(@, p)]
        /\ UNCHANGED <<notified, conn, did, sessions, swept, pc>>
    BY <1>4, Zenon DEF SendAccept, Enqueue
  <2>2. sendTo[p] \in Session /\ Registered(sendTo[p])
    BY <2>1, Zenon DEF TypeOK, DataTypes, LifeInv, RelyInv
  <2>3. StageOf(sendTo[p]) \in {"listed", "leaving", "swept"}
    <3>1. ~Fresh(sendTo[p]) /\ ~Gone(sendTo[p])
      BY <2>1, <2>2, Zenon DEF Fresh, Gone, Registered
    <3> QED
      BY <1>0, <2>2, <3>1, StageNames, Zenon DEF Stage
  <2>4. \A t \in Session : StageOf(t)' = StageOf(t)
    BY <2>1, StageKept, Zenon DEF Registered
  <2>5. stg' = stg /\ stg[sendTo[p]] = StageOf(sendTo[p])
    BY <2>2, <2>4, Zenon
  <2> QED
    BY <2>1, <2>2, <2>3, <2>5, Zenon DEF Life!Next, Life!Deliver
<1>5. ASSUME CloseSweep PROVE Life!Next
  <2>1. /\ closePc = "cancelled" /\ swept' = {s \in Session : InTable(s)}
        /\ sessions' = [d \in DID |-> NoSession]
        /\ UNCHANGED <<notified, accepted, conn, did, pc>>
    BY <1>5, Zenon DEF CloseSweep, Snapshot
  <2>2. swept = {}
    BY <2>1, Zenon DEF LifeInv, RelyInv
  <2>3. ASSUME NEW t \in Session
        PROVE  StageOf(t)' = IF StageOf(t) = "listed" THEN "swept" ELSE StageOf(t)
    <3>0. t # NoSession /\ did[t] \in DID
      BY ConstantsAssumption, Zenon DEF TypeOK, DataTypes
    <3>1. sessions'[did'[t]] # t /\ (t \in swept' <=> Listed(t))
      BY <2>1, <3>0, InTableListed, Zenon
    <3>2. CASE Listed(t)
      <4>1. StageOf(t) = "listed" /\ Registered(t)'
        <5>1. StageOf(t) = "listed"
          BY <3>2, StageNames, Zenon
        <5>2. Registered(t)
          BY <3>2, Zenon DEF Listed, Registered
        <5> QED
          BY <2>1, <5>1, <5>2, Zenon DEF Registered
      <4> QED
        BY <3>1, <3>2, <4>1, Zenon DEF StageOf
    <3>3. CASE ~Listed(t)
      <4>1. Registered(t) => sessions[did[t]] # t
        BY <1>0, <3>3, Zenon DEF Stage, Fresh, Leaving, Swept, Gone, Registered
      <4>2. StageOf(t)' = StageOf(t)
        BY <2>1, <2>2, <3>1, <3>3, <4>1, StageKept, Zenon DEF Registered
      <4>3. StageOf(t) # "listed"
        BY <4>1, Zenon DEF StageOf
      <4> QED
        BY <4>2, <4>3, Zenon
    <3> QED
      BY <3>2, <3>3, Zenon
  <2>4. stg' = [t \in Session |-> IF stg[t] = "listed" THEN "swept" ELSE stg[t]]
    BY <2>3, Zenon
  <2> QED
    BY <2>1, <2>4, Zenon DEF Life!Next, Life!Sweep
<1> QED
  BY <1>1, <1>2, <1>3, <1>4, <1>5, Zenon

\* Whatever interleaving the goroutines, the senders and Close take, a user of
\* the session manager cannot tell it from SessionLife: one life per connection,
\* onClose at its end, no packet accepted after it (fewer registrations than
\* DIDs).
THEOREM LifeImplemented == ASSUME NoWrap PROVE Spec => ImplementsLife
<1>1. Init => Life!Init
  <2> SUFFICES ASSUME Init PROVE Life!Init
    OBVIOUS
  <2>1. \A s \in Session : StageOf(s) = "fresh"
    BY Zenon DEF Init, StageOf, Registered
  <2>2. notified = [s \in Session |-> 0] /\ accepted = [s \in Session |-> <<>>]
    BY Zenon DEF Init
  <2> QED
    BY <2>1, <2>2, Zenon DEF Life!Init
<1>2. LifeInv /\ TypeOK /\ LifeInv' /\ [Next]_vars => [Life!Next]_(Life!vars)
  <2> SUFFICES ASSUME LifeInv, TypeOK, LifeInv', [Next]_vars PROVE [Life!Next]_(Life!vars)
    OBVIOUS
  <2>1. ASSUME UNCHANGED <<notified, accepted>>, \A t \in Session : StageOf(t)' = StageOf(t)
        PROVE  UNCHANGED Life!vars
    BY <2>1, Zenon DEF Life!vars
  <2>2. \A s \in Dropped : s \in Session
    BY ConstantsAssumption, Zenon
  <2>3. CASE UNCHANGED vars
    BY <2>1, <2>3, HiddenStep, Zenon
  <2>4. CASE Next
    BY <2>1, <2>2, <2>4, HiddenStep, SeenStep, Zenon DEF Next, Unregister, SendToLocal, Close
  <2> QED
    BY <2>3, <2>4, Zenon
<1> QED
  BY <1>1, <1>2, Typing, Lifecycle, PTL DEF Spec, ImplementsLife, Life!Spec

-----------------------------------------------------------------------------
(* Close and the connections: what CloseEnds and NoLeak rest on. *)

AfterSweep == closePc \notin {"idle", "cancelled"}

\* The context is done before the sweep, so that the readers that wait for a
\* frame after it belong to sessions that were registered before it.
CloseInv ==
    /\ closePc # "idle" => cancelled
    /\ \A s \in Session : s \in swept => s \in toClose \/ conn[s] = "closed"
    /\ closePc \in {"waiting", "woken", "returned", "panicked"} => toClose = {}
    /\ AfterSweep =>
          \A s \in Session : pc[s]["read"] = "reading" => \A d \in DID : sessions[d] # s

\* A step that takes nobody into the table, opens no connection and moves no
\* reader to its read.
LEMMA CloseFrame ==
  ASSUME CloseInv, cancelled => cancelled', UNCHANGED <<closePc, toClose, swept>>,
         \A s \in Session : conn[s] = "closed" => conn'[s] = "closed",
         \A s \in Session : pc'[s]["read"] = "reading" => pc[s]["read"] = "reading",
         \A s \in Session, d \in DID : sessions'[d] = s => sessions[d] = s
  PROVE  CloseInv'
<1>1. closePc' = closePc /\ toClose' = toClose /\ swept' = swept
  OBVIOUS
<1>2. closePc' # "idle" => cancelled'
  BY <1>1, Zenon DEF CloseInv
<1>3. \A s \in Session : s \in swept' => s \in toClose' \/ conn'[s] = "closed"
  BY <1>1, Zenon DEF CloseInv
<1>4. AfterSweep' =>
         \A s \in Session : pc'[s]["read"] = "reading" => \A d \in DID : sessions'[d] # s
  BY <1>1, Zenon DEF CloseInv, AfterSweep
<1> QED
  BY <1>1, <1>2, <1>3, <1>4, Zenon DEF CloseInv

\* A goroutine that moves, but not to the read, with the same table and
\* connections.
LEMMA CloseGoto ==
  ASSUME TypeOK, CloseInv, NEW s \in Session, NEW k \in Kind, NEW l \in Label, Goto(s, k, l),
         l # "reading", UNCHANGED <<cancelled, conn, closePc, toClose, swept>>,
         \A t \in Session, d \in DID : sessions'[d] = t => sessions[d] = t
  PROVE  CloseInv'
<1>1. ThreadTypes /\ "read" \in Kind
  BY Labels, Zenon DEF TypeOK
<1>2. pc'[s][k] = l /\ \A t \in Session, j \in Kind : t # s \/ j # k => pc'[t][j] = pc[t][j]
  BY <1>1, GotoMoves
<1>3. \A t \in Session : pc'[t]["read"] = "reading" => pc[t]["read"] = "reading"
  BY <1>1, <1>2, Zenon
<1> QED
  BY <1>3, CloseFrame, Zenon

\* A step keeps the readers that Close has to wake known to it.
LEMMA CloseStep == ASSUME TypeOK, CloseInv, [Next]_vars PROVE CloseInv'
<1> USE DEF table, hooks, link, queue, calls, closing, unregLocals, sendFrame, readFrame,
            writeFrame, closeFrame
<1>0. ThreadTypes /\ DataTypes
  BY Zenon DEF TypeOK
<1>1. ASSUME UNCHANGED <<sessions, conn, pc, closing>>, cancelled => cancelled' PROVE CloseInv'
  BY <1>1, CloseFrame, Zenon
<1>2. ASSUME NEW cb \in Callback, SetOnClose(cb) \/ SetControlCallback(cb) PROVE CloseInv'
  BY <1>1, <1>2, Zenon DEF SetOnClose, SetControlCallback
<1>3. CASE ParentCancel \/ UNCHANGED vars
  <2>1. UNCHANGED <<sessions, conn, pc, closing>> /\ (cancelled => cancelled')
    BY <1>3 DEF ParentCancel, vars
  <2> QED
    BY <1>1, <2>1
<1>4. ASSUME NEW s \in Session, RegisterSession(s) PROVE CloseInv'
  <2>1. PICK d \in DID : Track(s, d)
    BY <1>4, NextIsDID, Zenon DEF RegisterSession
  <2>2. /\ conn[s] = "none" /\ conn' = [conn EXCEPT ![s] = "open"]
        /\ sessions' = [sessions EXCEPT ![d] = s]
        /\ pc' = [pc EXCEPT ![s] = [@ EXCEPT !["read"] = "check", !["write"] = "select"]]
        /\ closePc' = closePc \/ (closePc = "waiting" /\ closePc' = "woken")
        /\ UNCHANGED <<cancelled, toClose, swept>>
    BY <2>1, Zenon DEF Track
  <2>3. pc'[s]["read"] = "check" /\ \A t \in Session : t # s => pc'[t] = pc[t]
    BY <1>0, <2>2, Labels, SMTT(30) DEF ThreadTypes
  <2>4. \A t \in Session, e \in DID : t # s /\ sessions'[e] = t => sessions[e] = t
    BY <1>0, <2>2 DEF DataTypes
  <2>5. \A t \in Session : conn[t] = "closed" => conn'[t] = "closed"
    BY <1>0, <2>2 DEF DataTypes
  <2>6. AfterSweep' <=> AfterSweep
    BY <2>2 DEF AfterSweep
  <2>7. AfterSweep' =>
           \A t \in Session : pc'[t]["read"] = "reading" => \A e \in DID : sessions'[e] # t
    <3> SUFFICES ASSUME AfterSweep', NEW t \in Session, pc'[t]["read"] = "reading",
                        NEW e \in DID, sessions'[e] = t
                 PROVE  FALSE
      OBVIOUS
    <3>1. t # s
      BY <2>3
    <3>2. pc[t]["read"] = "reading" /\ sessions[e] = t
      BY <2>3, <2>4, <3>1, Zenon
    <3> QED
      BY <2>6, <3>2, Zenon DEF CloseInv
  <2>8. \A t \in Session : t \in swept' => t \in toClose' \/ conn'[t] = "closed"
    BY <2>2, <2>5, Zenon DEF CloseInv
  <2>9. /\ closePc' # "idle" => cancelled'
        /\ closePc' \in {"waiting", "woken", "returned", "panicked"} => toClose' = {}
    BY <2>2 DEF CloseInv
  <2> QED
    BY <2>7, <2>8, <2>9, Zenon DEF CloseInv
<1>5. ASSUME NEW s \in Session, PeerClose(s) PROVE CloseInv'
  BY <1>1, <1>5, Zenon DEF PeerClose
<1>6. ASSUME NEW s \in Session, UnregisterCall(s) PROVE CloseInv'
  BY <1>6, CloseGoto, Labels, Zenon DEF UnregisterCall
<1>7. ASSUME NEW s \in Session, ReadLoop(s) PROVE CloseInv'
  <2>1. CASE ReadCheck(s) /\ ~cancelled
    <3>1. closePc = "idle" /\ UNCHANGED <<cancelled, conn, closing>>
      BY <2>1, Zenon DEF CloseInv, ReadCheck
    <3> QED
      BY <3>1 DEF CloseInv, AfterSweep
  <2>2. CASE ReadCheck(s) /\ cancelled
    <3>1. Goto(s, "read", "lookup") /\ UNCHANGED readFrame
      BY <2>2, Zenon DEF ReadCheck
    <3> QED
      BY <3>1, CloseGoto, Labels, Zenon
  <2>3. CASE ReadPacket(s) \/ ReadError(s) \/ CallbackReturn(s)
    <3>1. \E l \in Label : l # "reading" /\ Goto(s, "read", l)
      BY <2>3, Labels, Zenon DEF ReadPacket, ReadError, CallbackReturn
    <3>2. UNCHANGED readFrame
      BY <2>3, Zenon DEF ReadPacket, ReadError, CallbackReturn
    <3> QED
      BY <3>1, <3>2, CloseGoto, Labels, Zenon
  <2> QED
    BY <1>7, <2>1, <2>2, <2>3, Zenon DEF ReadLoop
<1>8. ASSUME NEW s \in Session, WriteLoop(s) PROVE CloseInv'
  <2>1. \E l \in Label : l # "reading" /\ Goto(s, "write", l)
    BY <1>8, Labels, Zenon DEF WriteLoop, WriteStop, WriteDequeue, WriteHeader, WritePayload,
       WriteError, WriteFails
  <2>2. UNCHANGED writeFrame
    BY <1>8, Zenon DEF WriteLoop, WriteStop, WriteDequeue, WriteHeader, WritePayload,
       WriteError, WriteFails
  <2> QED
    BY <2>1, <2>2, CloseGoto, Labels, Zenon
<1>9. ASSUME NEW s \in Session, NEW k \in Kind, Unregister(s, k) PROVE CloseInv'
  <2>1. CASE UnregisterCloseConn(s, k)
    <3>1. /\ Goto(s, k, "notify") /\ target[s][k] \in Session
          /\ conn' = [conn EXCEPT ![target[s][k]] = "closed"]
          /\ UNCHANGED <<sessions, cancelled, closing>>
      BY <1>0, <2>1, Labels, Zenon DEF UnregisterCloseConn, ThreadTypes
    <3>2. \A t \in Session : conn[t] = "closed" => conn'[t] = "closed"
      BY <1>0, <3>1 DEF DataTypes
    <3>3. \A t \in Session : pc'[t]["read"] = "reading" => pc[t]["read"] = "reading"
      <4>1. /\ pc'[s][k] = "notify"
            /\ \A t \in Session, j \in Kind : t # s \/ j # k => pc'[t][j] = pc[t][j]
        BY <1>0, <3>1, Labels, GotoMoves
      <4> QED
        BY <4>1, Labels, Zenon
    <3> QED
      BY <3>1, <3>2, <3>3, CloseFrame, Zenon
  <2>2. CASE ~UnregisterCloseConn(s, k)
    <3>1. \E l \in Label : l # "reading" /\ Goto(s, k, l)
      BY <1>9, <2>2, Labels, Zenon DEF Unregister, UnregisterNotFound, UnregisterDelete, TakeOut,
         UnregisterCloseQueue, CloseQueue, UnregisterNotify
    <3>2. UNCHANGED <<conn, cancelled, closing>>
      BY <1>9, <2>2, Zenon DEF Unregister, UnregisterNotFound, UnregisterDelete, TakeOut,
         UnregisterCloseQueue, CloseQueue, UnregisterNotify
    <3>3. sessions' = sessions \/ sessions' = [sessions EXCEPT ![did[s]] = NoSession]
      BY <1>9, <2>2, Zenon DEF Unregister, UnregisterNotFound, UnregisterDelete, TakeOut,
         UnregisterCloseQueue, CloseQueue, UnregisterNotify
    <3>4. \A t \in Session, d \in DID : sessions'[d] = t => sessions[d] = t
      BY <1>0, <3>3, ConstantsAssumption DEF DataTypes
    <3> QED
      BY <3>1, <3>2, <3>4, CloseGoto, Zenon
  <2> QED
    BY <2>1, <2>2
<1>10. ASSUME NEW p \in Packet, SendToLocal(p) PROVE CloseInv'
  <2>1. CASE SendBlocked(p)
    BY <2>1, CloseGoto, Labels, Zenon DEF SendBlocked, CutOff, TypeOK, DataTypes
  <2>2. CASE ~SendBlocked(p)
    BY <1>1, <1>10, <2>2, Zenon DEF SendToLocal, SendNotFound, SendFound, SendToClosed, SendAccept,
       Enqueue
  <2> QED
    BY <2>1, <2>2
<1>11. CASE CloseCancel \/ CloseWait \/ CloseReturn
  <2>1. /\ closePc' # closePc => closePc' # "idle"
        /\ closePc = "idle" => closePc' = "cancelled" /\ cancelled'
        /\ closePc # "idle" => cancelled' = cancelled /\ closePc # "cancelled"
        /\ closePc' \in {"waiting", "woken", "returned", "panicked"} => toClose = {}
        /\ UNCHANGED <<sessions, conn, pc, toClose, swept>>
    BY <1>11 DEF CloseInv, CloseCancel, Cancel, CloseWait, CloseReturn
  <2>2. /\ closePc' # "idle" => cancelled'
        /\ \A s \in Session : s \in swept' => s \in toClose' \/ conn'[s] = "closed"
    BY <2>1 DEF CloseInv
  <2>3. closePc' \in {"waiting", "woken", "returned", "panicked"} => toClose' = {}
    BY <2>1
  <2>4. AfterSweep' => AfterSweep
    BY <2>1 DEF AfterSweep
  <2>5. AfterSweep' =>
           \A s \in Session : pc'[s]["read"] = "reading" => \A d \in DID : sessions'[d] # s
    BY <2>1, <2>4, Zenon DEF CloseInv
  <2> QED
    BY <2>2, <2>3, <2>5, Zenon DEF CloseInv
<1>12. CASE CloseSweep
  <2>1. /\ closePc = "cancelled" /\ closePc' = "closing" /\ cancelled' = cancelled
        /\ toClose' = swept' /\ \A d \in DID : sessions'[d] = NoSession
    BY <1>12 DEF CloseSweep, Snapshot
  <2> QED
    BY <2>1, ConstantsAssumption DEF CloseInv
<1>13. ASSUME NEW s \in Session, CloseConn(s) PROVE CloseInv'
  BY <1>0, <1>13 DEF CloseInv, CloseConn, AfterSweep, DataTypes
<1> QED
  BY <1>2, <1>3, <1>4, <1>5, <1>6, <1>7, <1>8, <1>9, <1>10, <1>11, <1>12, <1>13,
     ConstantsAssumption, Zenon DEF Next, Close

\* The inductive invariant holds in every state.
LEMMA Closing == Spec => []CloseInv
<1>1. Init => CloseInv
  BY DEF Init, CloseInv, AfterSweep
<1> QED
  BY <1>1, CloseStep, Typing, PTL DEF Spec

\* What Close counts on when it waits for the loops: after the sweep every
\* reader that is blocked in its read has had its connection closed, or Close or
\* the call that took the session out of the table is about to close it.  A
\* session registered meanwhile never gets to a read.
CloseWakes ==
    AfterSweep => \A s \in Session : pc[s]["read"] = "reading" =>
       \/ conn[s] = "closed"
       \/ s \in toClose
       \/ \E k \in Kind : pc[s][k] \in {"queue", "conn"} /\ target[s][k] = s

\* A session whose loops have ended and that nobody tears down any more has left
\* the table, and its connection is closed or next on Close's list: no path
\* through readLoop, writeLoop, SendToLocal, UnregisterSession and Close leaks it.
NoConnLeaked ==
    \A s \in Session : Registered(s) /\ LoopsDone(s) /\ ~BeingTornDown(s) =>
       ~InTable(s) /\ (conn[s] = "closed" \/ s \in toClose)

\* Close never waits for a reader that nothing will wake, for any number of
\* sessions and any order of registrations, teardowns and the steps of Close.
THEOREM ReadersWoken == ASSUME NoWrap PROVE Spec => []CloseWakes
<1>1. TypeOK /\ LifeInv /\ CloseInv => CloseWakes
  <2> SUFFICES ASSUME TypeOK, LifeInv, CloseInv, AfterSweep, NEW s \in Session,
                      pc[s]["read"] = "reading"
               PROVE  \/ conn[s] = "closed"
                      \/ s \in toClose
                      \/ \E k \in Kind : pc[s][k] \in {"queue", "conn"} /\ target[s][k] = s
    BY Zenon DEF CloseWakes
  <2>1. Stage(s) /\ ~Listed(s)
    <3>1. ~InTable(s)
      BY Zenon DEF CloseInv, InTable
    <3> QED
      BY <3>1, InTableListed, Zenon DEF LifeInv
  <2>2. CASE Fresh(s)
    BY <2>2, Labels DEF Fresh
  <2>3. ASSUME NEW k \in Kind, Leaving(s, k)
        PROVE  conn[s] = "closed" \/ (pc[s][k] \in {"queue", "conn"} /\ target[s][k] = s)
    BY <2>3 DEF Leaving, Teardown
  <2>4. CASE Swept(s)
    BY <2>4, Zenon DEF Swept, CloseInv
  <2>5. CASE Gone(s)
    BY <2>5, Zenon DEF Gone
  <2> QED
    BY <2>1, <2>2, <2>3, <2>4, <2>5, Zenon DEF Stage
<1> QED
  BY <1>1, Lifecycle, Closing, Typing, PTL

\* No descriptor is left open by a session that has ended.
THEOREM ConnsClosed == ASSUME NoWrap PROVE Spec => []NoConnLeaked
<1>1. TypeOK /\ LifeInv /\ CloseInv => NoConnLeaked
  <2> SUFFICES ASSUME TypeOK, LifeInv, CloseInv, NEW s \in Session, Registered(s), LoopsDone(s),
                      ~BeingTornDown(s)
               PROVE  ~InTable(s) /\ (conn[s] = "closed" \/ s \in toClose)
    BY Zenon DEF NoConnLeaked
  <2>1. ~Listed(s)
    BY DEF Listed, LoopsDone
  <2>2. ~InTable(s)
    BY <2>1, InTableListed
  <2>3. ASSUME NEW k \in Kind PROVE ~Leaving(s, k)
    BY <2>3, Zenon DEF Leaving, BeingTornDown
  <2>4. CASE Swept(s)
    BY <2>2, <2>4, Zenon DEF Swept, CloseInv
  <2>5. CASE Gone(s)
    BY <2>2, <2>5, Zenon DEF Gone
  <2> QED
    BY <2>1, <2>2, <2>3, <2>4, <2>5, Zenon DEF LifeInv, Stage, Fresh, Registered
<1> QED
  BY <1>1, Lifecycle, Closing, Typing, PTL
=============================================================================
