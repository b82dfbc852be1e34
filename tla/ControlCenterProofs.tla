------------------------ MODULE ControlCenterProofs ------------------------
(***************************************************************************)
(* Proofs about the control center on top of the session manager: the      *)
(* composition is an implementation of SessionManager, so that everything  *)
(* proved there holds of it, and responses come in the order of requests.  *)
(***************************************************************************)
EXTENDS ControlCenter, SessionLifecycleProofs

\* A step of the composition is a step of the session manager, or none.
LEMMA StepRefines == ASSUME TypeOK, CCInv, [CCNext]_ccVars PROVE [Next]_vars
<1>1. ASSUME Alive, Others PROVE Next
  BY <1>1, Zenon DEF Others, Next, ReadLoop
<1>2. ASSUME RegisterDefaultHandlers PROVE UNCHANGED vars
  BY <1>2, Zenon DEF RegisterDefaultHandlers, RegisterEgress, RegisterKeys
<1>3. ASSUME Alive, NEW s \in Session, ReadRequest(s) PROVE Next
  BY <1>3, Zenon DEF ReadRequest, Next, ReadLoop
<1>4. ASSUME NEW s \in Session, DispatchLookup(s) \/ DispatchSysCall(s) PROVE UNCHANGED vars
  BY <1>4, Zenon DEF DispatchLookup, DispatchSysCall, Respond
<1>5. ASSUME Alive, NEW s \in Session, ReturnToLoop(s) PROVE Next
  BY <1>5, Zenon DEF ReturnToLoop, Return, Next, ReadLoop
<1>6. ASSUME Alive, NEW p \in Packet, Reply(p) PROVE Next
  <2>1. owner[p] \in Session /\ reply[p].did = did[owner[p]]
    BY <1>6, SMTT(30) DEF Reply, CCInv, CallbackTypes, ReplyInv, Addressed
  <2>2. reply[p].did \in DID
    BY <2>1, Zenon DEF TypeOK, DataTypes
  <2>3. SendToLocal(p)
    BY <1>6, <2>2, Zenon DEF Reply, SendToLocal
  <2> QED
    BY <1>6, <2>3, Zenon DEF Next
<1>7. ASSUME UNCHANGED ccVars PROVE UNCHANGED vars
  BY <1>7, Zenon DEF ccVars
<1> QED
  BY <1>1, <1>2, <1>3, <1>4, <1>5, <1>6, <1>7, Zenon DEF CCNext

-----------------------------------------------------------------------------
(* The steps of the session manager that are not the callback's. *)

\* They neither queue packets nor move a callback, they never bring a session
\* back, and they never open a queue again.
LEMMA OthersKeep ==
  ASSUME TypeOK, LifeInv, Others
  PROVE  /\ UNCHANGED <<send, sendTo, accepted, center, callback>>
         /\ \A s \in Session : Registered(s) => Registered(s)' /\ did'[s] = did[s]
         /\ \A s \in Session : isClosed[s] => isClosed'[s]
         /\ \A s \in Session : Registered(s) /\ sessions'[did[s]] = s => sessions[did[s]] = s
         /\ \A s \in Session : pc[s]["read"] = "callback" => pc'[s]["read"] = "callback"
<1> USE DEF table, hooks, link, queue, calls, closing, unregLocals, sendFrame, readFrame,
            writeFrame, closeFrame
<1> DEFINE Kept ==
             /\ UNCHANGED <<send, sendTo, accepted>>
             /\ \A s \in Session : Registered(s) => Registered(s)' /\ did'[s] = did[s]
             /\ \A s \in Session : isClosed[s] => isClosed'[s]
             /\ \A s \in Session : Registered(s) /\ sessions'[did[s]] = s => sessions[did[s]] = s
             /\ \A s \in Session : pc[s]["read"] = "callback" => pc'[s]["read"] = "callback"
<1>0. UNCHANGED <<center, callback>>
  BY Zenon DEF Others
<1>1. ASSUME UNCHANGED <<send, sendTo, accepted, conn, did, isClosed, sessions>>,
             \A s \in Session : pc[s]["read"] = "callback" => pc'[s]["read"] = "callback"
      PROVE  Kept
  BY <1>1, Zenon DEF Registered
<1>2. ASSUME NEW s \in Session, NEW k \in Kind, NEW l \in Label, Goto(s, k, l),
             pc[s][k] # "callback"
      PROVE  \A t \in Session : pc[t]["read"] = "callback" => pc'[t]["read"] = "callback"
  <2>1. ThreadTypes /\ Goto(s, k, l) /\ "read" \in Kind
    BY <1>2, Labels, Zenon DEF TypeOK
  <2>2. \A t \in Session, j \in Kind : t # s \/ j # k => pc'[t][j] = pc[t][j]
    BY <2>1, GotoMoves, Zenon
  <2> QED
    BY <1>2, <2>1, <2>2, Zenon
<1>3. ASSUME NEW cb \in Callback, SetControlCallback(cb) PROVE Kept
  BY <1>3, <1>1, Zenon DEF SetControlCallback
<1>4. ASSUME ParentCancel PROVE Kept
  BY <1>4, <1>1, Zenon DEF ParentCancel
<1>5. ASSUME NEW s \in Session, RegisterSession(s) PROVE Kept
  <2>1. /\ conn[s] = "none"
        /\ UNCHANGED <<send, sendTo, accepted, isClosed>>
        /\ \E d \in DID : sessions' = [sessions EXCEPT ![d] = s] /\ did' = [did EXCEPT ![s] = d]
        /\ conn' = [conn EXCEPT ![s] = "open"]
        /\ pc' = [pc EXCEPT ![s] = [@ EXCEPT !["read"] = "check", !["write"] = "select"]]
    <3>1. (nextDID + 1) % DIDModulus \in DID
      BY ConstantsAssumption, SMTT(30) DEF DID, TypeOK, DataTypes
    <3> QED
      BY <1>5, <3>1, Zenon DEF RegisterSession, Track
  <2>2. \A t \in Session : Registered(t) => Registered(t)' /\ did'[t] = did[t]
    BY <2>1, Zenon DEF Registered, TypeOK, DataTypes
  <2>3. \A t \in Session : Registered(t) /\ sessions'[did[t]] = t => sessions[did[t]] = t
    BY <2>1, Zenon DEF Registered, TypeOK, DataTypes
  <2>4. pc[s]["read"] # "callback"
    <3>1. Fresh(s)
      BY <2>1, Zenon DEF LifeInv, Stage, Listed, Leaving, Swept, Gone
    <3> QED
      BY <3>1, Labels, Zenon DEF Fresh
  <2>5. \A t \in Session : pc[t]["read"] = "callback" => pc'[t]["read"] = "callback"
    BY <2>1, <2>4, Zenon DEF TypeOK, ThreadTypes
  <2> QED
    BY <2>1, <2>2, <2>3, <2>5, Zenon
<1>6. ASSUME NEW s \in Session, PeerClose(s) PROVE Kept
  BY <1>6, <1>1, Zenon DEF PeerClose
<1>7. ASSUME NEW s \in Session, ReadCheck(s) \/ ReadError(s) PROVE Kept
  <2>1. PICK l \in Label : Goto(s, "read", l)
    BY <1>7, Labels, Zenon DEF ReadCheck, ReadError
  <2>2. pc[s]["read"] # "callback" /\ "read" \in Kind
    BY <1>7, Labels, Zenon DEF ReadCheck, ReadError
  <2> QED
    BY <1>1, <1>2, <1>7, <2>1, <2>2, Zenon DEF ReadCheck, ReadError
<1>8. ASSUME NEW s \in Session, WriteLoop(s) PROVE Kept
  <2>1. PICK l \in Label : Goto(s, "write", l)
    BY <1>8, Labels, Zenon DEF WriteLoop, WriteStop, WriteDequeue, WriteHeader, WritePayload,
                               WriteError
  <2>2. pc[s]["write"] # "callback" /\ "write" \in Kind
    BY <1>8, Labels, Zenon DEF WriteLoop, WriteStop, WriteDequeue, WriteHeader, WritePayload,
                               WriteError, WriteFails
  <2>3. UNCHANGED <<send, sendTo, accepted, conn, did, isClosed, sessions>>
    BY <1>8, Zenon DEF WriteLoop, WriteStop, WriteDequeue, WriteHeader, WritePayload,
                       WriteError, WriteFails
  <2> QED
    BY <1>1, <1>2, <2>1, <2>2, <2>3, Zenon
<1>9. ASSUME NEW s \in Session, NEW k \in Kind, Unregister(s, k) PROVE Kept
  <2>1. PICK l \in Label : Goto(s, k, l)
    BY <1>9, Labels, Zenon DEF Unregister, UnregisterNotFound, UnregisterDelete, TakeOut,
                UnregisterCloseQueue, CloseQueue, UnregisterCloseConn, UnregisterNotify
  <2>2. pc[s][k] # "callback"
    BY <1>9, Zenon DEF Unregister, UnregisterNotFound, UnregisterDelete, TakeOut,
                UnregisterCloseQueue, CloseQueue, UnregisterCloseConn, UnregisterNotify
  <2>3. UNCHANGED <<send, sendTo, accepted, did>>
    BY <1>9, Zenon DEF Unregister, UnregisterNotFound, UnregisterDelete, TakeOut,
                UnregisterCloseQueue, CloseQueue, UnregisterCloseConn, UnregisterNotify
  <2>4. \A t \in Session : isClosed[t] => isClosed'[t]
    BY <1>9, ZenonT(40) DEF Unregister, UnregisterNotFound, UnregisterDelete, TakeOut,
                UnregisterCloseQueue, CloseQueue, UnregisterCloseConn, UnregisterNotify,
                TypeOK, DataTypes
  <2>5. \A t \in Session : Registered(t) => Registered(t)'
    BY <1>9, Zenon DEF Unregister, UnregisterNotFound, UnregisterDelete, TakeOut,
                UnregisterCloseQueue, CloseQueue, UnregisterCloseConn, UnregisterNotify,
                TypeOK, DataTypes, Registered
  <2>6. sessions' = sessions \/ \E d \in DID : sessions' = [sessions EXCEPT ![d] = NoSession]
    BY <1>9, Zenon DEF Unregister, UnregisterNotFound, UnregisterDelete, TakeOut,
                UnregisterCloseQueue, CloseQueue, UnregisterCloseConn, UnregisterNotify,
                TypeOK, DataTypes
  <2>7. \A t \in Session : sessions'[did[t]] = t => sessions[did[t]] = t
    BY <2>6, ConstantsAssumption, SMTT(30) DEF TypeOK, DataTypes
  <2>8. \A t \in Session : pc[t]["read"] = "callback" => pc'[t]["read"] = "callback"
    BY <1>2, <2>1, <2>2, Zenon
  <2> QED
    BY <2>3, <2>4, <2>5, <2>7, <2>8, Zenon
<1>10. ASSUME Close PROVE Kept
  <2>1. UNCHANGED <<send, sendTo, accepted, did, isClosed, pc>>
    BY <1>10, Zenon DEF Close, CloseCancel, Cancel, CloseSweep, Snapshot, CloseConn, CloseWait,
                  CloseReturn
  <2>2. \A t \in Session : Registered(t) => Registered(t)'
    BY <1>10, Zenon DEF Close, CloseCancel, Cancel, CloseSweep, Snapshot, CloseConn, CloseWait,
                  CloseReturn, Registered, TypeOK, DataTypes
  <2>3. sessions' = sessions \/ sessions' = [d \in DID |-> NoSession]
    BY <1>10, Zenon DEF Close, CloseCancel, Cancel, CloseSweep, Snapshot, CloseConn, CloseWait,
                  CloseReturn
  <2>4. \A t \in Session : sessions'[did[t]] = t => sessions[did[t]] = t
    BY <2>3, ConstantsAssumption, SMTT(30) DEF TypeOK, DataTypes
  <2> QED
    BY <2>1, <2>2, <2>4, Zenon
<1> QED
  BY <1>0, <1>3, <1>4, <1>5, <1>6, <1>7, <1>8, <1>9, <1>10, Zenon DEF Others

-----------------------------------------------------------------------------
(* Responses in order. *)

\* The first request has not been made when a session is not registered yet.
LEMMA NotOutstanding ==
  ASSUME CCInv, NEW s \in Session, ~Registered(s)
  PROVE  ~Outstanding(s) /\ Handled(s) = 0 /\ Len(accepted[s]) <= 0
<1>1. asked[s] = <<>> /\ Len(accepted[s]) <= Handled(s)
  BY Zenon DEF CCInv, Counted
<1>2. phase[s] = "idle"
  BY <1>1, SMTT(30) DEF CCInv, CallbackTypes
<1>3. \A p \in Packet : ~Pending(p, s)
  BY ConstantsAssumption, Zenon DEF CCInv, ReplyInv, Addressed, Pending
<1>4. ~Outstanding(s)
  BY <1>2, <1>3, Zenon DEF Outstanding
<1>5. Handled(s) = 0
  BY <1>1, <1>4, SMTT(30) DEF Handled
<1> QED
  BY <1>1, <1>4, <1>5, Zenon

\* The opcode of a request is an opcode.
LEMMA AskedOpcode ==
  ASSUME CCInv, NEW s \in Session, NEW i \in 1 .. Len(asked[s])
  PROVE  asked[s][i].request.op \in Opcode
<1>1. asked[s] \in Seq(Asked)
  BY SMTT(30) DEF CCInv, CallbackTypes
<1>2. asked[s][i] \in Asked
  BY <1>1, SMTT(30)
<1>3. asked[s][i].request \in Request
  BY <1>2, SMTT(30) DEF Asked
<1> QED
  BY <1>3, SMTT(30) DEF Opcode

\* A step that only touches the session manager's own state, and brings no
\* session back, keeps the invariant.
LEMMA CCFrame ==
  ASSUME TypeOK, TypeOK', CCInv,
         UNCHANGED <<send, sendTo, accepted, callback>>,
         syscalls' \in [Opcode -> {"none", "egress", "invite"}],
         \A op \in Opcode : syscalls[op] # "none" => syscalls'[op] # "none",
         \A s \in Session : Registered(s) => Registered(s)' /\ did'[s] = did[s],
         \A s \in Session : isClosed[s] => isClosed'[s],
         \A s \in Session : Registered(s) /\ sessions'[did[s]] = s => sessions[did[s]] = s,
         \A s \in Session : pc[s]["read"] = "callback" => pc'[s]["read"] = "callback"
  PROVE  CCInv'
<1>0. UNCHANGED <<phase, handler, reply, owner, asked>>
  BY Zenon DEF callback
<1>1. CallbackTypes'
  BY <1>0, Zenon DEF CCInv, CallbackTypes
<1>2. /\ \A p \in Packet, s \in Session : Pending(p, s)' <=> Pending(p, s)
      /\ \A s \in Session : Outstanding(s)' <=> Outstanding(s)
      /\ \A s \in Session : Handled(s)' = Handled(s)
  BY <1>0, Zenon DEF Pending, Outstanding, Handled
<1>3. \A s \in Session : Current(s)' = Current(s)
  BY <1>0, Zenon DEF Current
<1>4. ReplyInv'
  <2>1. \A p \in Packet : owner[p] # NoSession => owner[p] \in Session
    BY SMTT(30) DEF CCInv, CallbackTypes
  <2>2. ASSUME NEW p \in Packet PROVE Addressed(p)'
    <3>1. Addressed(p)
      BY Zenon DEF CCInv, ReplyInv
    <3> QED
      BY <1>0, <2>1, <3>1, Zenon DEF Addressed
  <2>3. ASSUME NEW p \in Packet, NEW s \in Session, Pending(p, s)' PROVE Paired(p, s)'
    <3>1. Pending(p, s)
      BY <1>2, <2>3, Zenon
    <3>2. Paired(p, s)
      BY <3>1, Zenon DEF CCInv, ReplyInv
    <3> QED
      BY <1>0, <1>2, <1>3, <3>2, Zenon DEF Paired, Answers
  <2> QED
    BY <2>2, <2>3, Zenon DEF ReplyInv
<1>5. ASSUME NEW s \in Session PROVE Counted(s)'
  <2>0. Counted(s)
    BY Zenon DEF CCInv
  <2>1. CASE Registered(s)
    BY <1>0, <1>2, <2>0, <2>1, Zenon DEF Counted, Serving
  <2>2. CASE ~Registered(s)
    <3>1. Handled(s) = 0 /\ Len(accepted[s]) <= 0 /\ asked[s] = <<>>
      BY <2>0, <2>2, NotOutstanding, Zenon DEF Counted
    <3>2. Len(accepted[s]) \in Nat
      BY SMTT(30) DEF TypeOK, DataTypes
    <3>3. Len(accepted[s]) = Handled(s) /\ Len(accepted[s]) <= Handled(s)
      BY <3>1, <3>2, SMTT(30)
    <3> QED
      BY <1>0, <1>2, <3>1, <3>3, Zenon DEF Counted
  <2> QED
    BY <2>1, <2>2, Zenon
<1>6. ASSUME NEW s \in Session PROVE Known(s)'
  <2>1. \A i \in 1 .. Len(asked[s]) : asked[s][i].request.op \in Opcode
    BY AskedOpcode, Zenon
  <2>2. Known(s)
    BY Zenon DEF CCInv
  <2> QED
    BY <1>0, <1>3, <2>1, <2>2, Zenon DEF Known
<1>7. AnswersInOrder'
  <2>1. \A p, s, a : Answers(p, s, a)' <=> Answers(p, s, a)
    BY <1>0, Zenon DEF Answers
  <2>2. ASSUME NEW s \in Session PROVE InOrder(s)'
    <3>1. InOrder(s)
      BY Zenon DEF CCInv, AnswersInOrder
    <3> QED
      BY <1>0, <2>1, <3>1, Zenon DEF InOrder
  <2> QED
    BY <2>2, Zenon DEF AnswersInOrder
<1> QED
  BY <1>1, <1>4, <1>5, <1>6, <1>7, Zenon DEF CCInv

\* A step of one session's callback keeps what is claimed of the others.
LEMMA SessionFrame ==
  ASSUME TypeOK, CCInv, NEW t \in Session,
         UNCHANGED <<did, conn, sessions, syscalls, phase[t], handler[t], asked[t], accepted[t]>>,
         isClosed[t] => isClosed'[t],
         \A p \in Packet : Pending(p, t)' <=> Pending(p, t),
         \A p \in Packet : owner[p] = t => owner'[p] = t /\ reply'[p] = reply[p],
         \A p \in Packet : Pending(p, t) /\ send'[p] = "found" => send[p] = "found"
  PROVE  /\ Counted(t)' /\ Known(t)' /\ InOrder(t)'
         /\ \A p \in Packet : Pending(p, t)' => Paired(p, t)'
<1>1. Counted(t) /\ Known(t) /\ InOrder(t) /\ \A p \in Packet : Pending(p, t) => Paired(p, t)
  BY Zenon DEF CCInv, ReplyInv, AnswersInOrder
<1>2. (Outstanding(t)' <=> Outstanding(t)) /\ Handled(t)' = Handled(t) /\ Current(t)' = Current(t)
  BY Zenon DEF Outstanding, Handled, Current
<1>3. Counted(t)'
  BY <1>1, <1>2, Zenon DEF Counted, Registered, Serving
<1>4. Known(t)'
  BY <1>1, <1>2, Zenon DEF Known
<1>5. InOrder(t)'
  <2>1. \A i \in 1 .. Len(accepted[t]) : accepted[t][i] \in Packet
    BY SMTT(30) DEF TypeOK, DataTypes
  <2>2. \A p \in Packet : \A a : Answers(p, t, a) => Answers(p, t, a)'
    BY Zenon DEF Answers
  <2>3. Len(accepted[t]) <= Len(asked[t])
        /\ \A i \in 1 .. Len(accepted[t]) : Answers(accepted[t][i], t, asked[t][i])'
    BY <1>1, <2>1, <2>2, Zenon DEF InOrder
  <2> QED
    BY <2>3, Zenon DEF InOrder
<1>6. ASSUME NEW p \in Packet, Pending(p, t)' PROVE Paired(p, t)'
  <2>1. Paired(p, t) /\ owner[p] = t
    BY <1>1, <1>6, Zenon DEF Pending
  <2> QED
    BY <1>2, <2>1, Zenon DEF Paired, Answers
<1> QED
  BY <1>3, <1>4, <1>5, <1>6, Zenon

\* A callback that is not at its SendToLocal has no response under way.
LEMMA NonePending ==
  ASSUME CCInv, NEW s \in Session, phase[s] # "reply" PROVE \A p \in Packet : ~Pending(p, s)
  BY Zenon DEF CCInv, ReplyInv, Paired

\* To show that a step of one session's callback, or of its SendToLocal, keeps
\* the invariant it is enough to look at that session.
LEMMA OneCallback ==
  ASSUME TypeOK, CCInv, NEW s \in Session,
         UNCHANGED <<did, conn, sessions, syscalls>>,
         \A t \in Session \ {s} :
            /\ phase'[t] = phase[t] /\ handler'[t] = handler[t]
            /\ asked'[t] = asked[t] /\ accepted'[t] = accepted[t]
            /\ isClosed[t] => isClosed'[t],
         \A p \in Packet : owner[p] # NoSession => owner'[p] = owner[p] /\ reply'[p] = reply[p],
         \A p \in Packet : owner'[p] # s => owner'[p] = owner[p] /\ send'[p] = send[p],
         CallbackTypes', \A p \in Packet : Addressed(p)',
         Counted(s)', Known(s)', InOrder(s)', \A p \in Packet : Pending(p, s)' => Paired(p, s)'
  PROVE  CCInv'
<1>1. ASSUME NEW t \in Session, t # s
      PROVE  Counted(t)' /\ Known(t)' /\ InOrder(t)'
             /\ \A p \in Packet : Pending(p, t)' => Paired(p, t)'
  <2>1. t # NoSession
    BY ConstantsAssumption, Zenon
  <2>2. /\ UNCHANGED <<phase[t], handler[t], asked[t], accepted[t]>>
        /\ isClosed[t] => isClosed'[t]
    BY <1>1, Zenon
  <2>3. \A p \in Packet : owner[p] = t => owner'[p] = t /\ reply'[p] = reply[p]
    BY <2>1, Zenon
  <2>4. \A p \in Packet : Pending(p, t)' <=> Pending(p, t)
    BY <1>1, <2>1, <2>3, Zenon DEF Pending
  <2>5. \A p \in Packet : Pending(p, t) /\ send'[p] = "found" => send[p] = "found"
    BY <1>1, <2>1, <2>3, Zenon DEF Pending
  <2> QED
    BY <2>2, <2>3, <2>4, <2>5, SessionFrame, Zenon
<1>2. /\ \A t \in Session : Counted(t)' /\ Known(t)' /\ InOrder(t)'
      /\ \A p \in Packet, t \in Session : Pending(p, t)' => Paired(p, t)'
  BY <1>1, Zenon
<1> QED
  BY <1>2, Zenon DEF CCInv, ReplyInv, AnswersInOrder

\* The callback looks the opcode up.
LEMMA LookupStep ==
  ASSUME TypeOK, CCInv, NEW s \in Session, DispatchLookup(s) PROVE CCInv'
<1>0. /\ UNCHANGED <<vars, syscalls, reply, owner, asked>>
      /\ phase[s] = "lookup" /\ phase' = [phase EXCEPT ![s] = "handle"]
      /\ handler' = [handler EXCEPT ![s] = syscalls[Current(s).request.op]]
  BY Zenon DEF DispatchLookup, center
<1>u. UNCHANGED <<sessions, did, conn, pc, send, sendTo, accepted, isClosed>>
  BY <1>0, Zenon DEF vars, table, link, queue, calls
<1>1. CallbackTypes /\ Counted(s) /\ Known(s) /\ InOrder(s)
  BY Zenon DEF CCInv, AnswersInOrder
<1>2. \A p \in Packet : ~Pending(p, s)
  BY <1>0, NonePending, SMTT(30)
<1>3. Len(asked[s]) \in 1 .. Len(asked[s]) /\ Current(s)' = Current(s)
  <2>1. asked[s] \in Seq(Asked) /\ asked[s] # <<>>
    BY <1>0, <1>1, SMTT(30) DEF CallbackTypes
  <2>2. Len(asked[s]) \in 1 .. Len(asked[s])
    BY <2>1, SMTT(30)
  <2> QED
    BY <1>0, <2>2, Zenon DEF Current
<1>4. Current(s).request.op \in Opcode
  BY <1>3, AskedOpcode, Zenon DEF Current
<1>5. phase'[s] = "handle" /\ handler'[s] = syscalls[Current(s).request.op]
      /\ \A t \in Session \ {s} : phase'[t] = phase[t] /\ handler'[t] = handler[t]
  BY <1>0, <1>1, SMTT(30) DEF CallbackTypes
<1>6. CallbackTypes'
  <2>1. syscalls[Current(s).request.op] \in {"none", "egress", "invite"}
    BY <1>1, <1>4, SMTT(30) DEF CallbackTypes
  <2>2. /\ phase' \in [Session -> {"idle", "lookup", "handle", "reply"}]
        /\ handler' \in [Session -> {"none", "egress", "invite"}]
    BY <1>0, <1>1, <2>1, SMTT(30) DEF CallbackTypes
  <2>3. \A t \in Session : phase'[t] # "idle" => phase[t] # "idle"
    BY <1>0, <1>5, SMTT(30)
  <2> QED
    BY <1>0, <1>u, <1>1, <2>2, <2>3, Zenon DEF CallbackTypes
<1>7. \A p \in Packet : Addressed(p)'
  BY <1>0, <1>u, Zenon DEF CCInv, ReplyInv, Addressed, Registered
<1>8. \A p \in Packet : ~Pending(p, s)'
  BY <1>0, <1>u, <1>2, Zenon DEF Pending
<1>9. Counted(s)'
  <2>1. Outstanding(s) /\ Outstanding(s)'
    BY <1>0, <1>5, Zenon DEF Outstanding
  <2>2. Handled(s)' = Handled(s)
    BY <1>0, <2>1, Zenon DEF Handled
  <2> QED
    BY <1>0, <1>u, <1>1, <1>8, <2>2, Zenon DEF Counted, Registered, Serving
<1>10. Known(s)'
  BY <1>0, <1>1, <1>3, <1>5, Zenon DEF Known, Current
<1>11. InOrder(s)'
  BY <1>0, <1>u, <1>1, Zenon DEF InOrder, Answers
<1> QED
  BY <1>0, <1>u, <1>5, <1>6, <1>7, <1>8, <1>9, <1>10, <1>11, OneCallback, Zenon

\* Only an opcode without a handler is answered with ErrUnknownOpcode.
LEMMA StatusOf ==
  ASSUME NEW h, NEW q, NEW o \in Outcomes(h, q)
  PROVE  /\ o.status \in Status
         /\ o.status = ErrUnknownOpcode => h \notin {"egress", "invite"}
<1>1. ErrUnknownOpcode \notin {ErrInvalidArgs, Success, ErrInternalDaemon, ErrInvalidKey}
  BY SMTT(30) DEF ErrUnknownOpcode, ErrInvalidArgs, Success, ErrInternalDaemon, ErrInvalidKey
<1>2. CASE h = "egress"
  <2>1. o.status \in {ErrInvalidArgs, Success, ErrInternalDaemon}
    BY <1>2, SMTT(30) DEF Outcomes, EgressRoute, ReadBytesParam
  <2> QED
    BY <1>1, <2>1, Zenon DEF Status
<1>3. CASE h = "invite"
  <2>1. o.status \in {Success, ErrInvalidKey}
    BY <1>3, SMTT(30) DEF Outcomes, GetInviteKey
  <2> QED
    BY <1>1, <2>1, Zenon DEF Status
<1>4. CASE h \notin {"egress", "invite"}
  <2>1. o.status = ErrUnknownOpcode
    BY <1>4, SMTT(30) DEF Outcomes
  <2> QED
    BY <1>4, <2>1, Zenon DEF Status
<1> QED
  BY <1>2, <1>3, <1>4, Zenon

\* The last request of a callback that runs, and its opcode.
LEMMA CurrentAsked ==
  ASSUME CCInv, NEW s \in Session, phase[s] # "idle"
  PROVE  Len(asked[s]) \in 1 .. Len(asked[s]) /\ Current(s).request.op \in Opcode
<1>1. asked[s] \in Seq(Asked) /\ asked[s] # <<>>
  BY SMTT(30) DEF CCInv, CallbackTypes
<1>2. Len(asked[s]) \in 1 .. Len(asked[s])
  BY <1>1, SMTT(30)
<1> QED
  BY <1>2, AskedOpcode, Zenon DEF Current

\* The callback has its response.
LEMMA RespondStep ==
  ASSUME TypeOK, CCInv, NEW s \in Session, DispatchSysCall(s) PROVE CCInv'
<1>0. /\ UNCHANGED <<vars, syscalls, handler, asked>>
      /\ phase[s] = "handle" /\ phase' = [phase EXCEPT ![s] = "reply"]
  BY Zenon DEF DispatchSysCall, Respond, center
<1>u. UNCHANGED <<sessions, did, conn, pc, send, sendTo, accepted, isClosed>>
  BY <1>0, Zenon DEF vars, table, link, queue, calls
<1>p. PICK o \in Outcomes(handler[s], Current(s).request), p \in Packet :
         /\ owner[p] = NoSession
         /\ owner' = [owner EXCEPT ![p] = s]
         /\ reply' = [reply EXCEPT ![p] =
               [did |-> did[s], op |-> Current(s).request.op, status |-> o.status]]
  BY Zenon DEF DispatchSysCall, Respond, Free
<1>1. CallbackTypes /\ Counted(s) /\ Known(s) /\ InOrder(s) /\ Addressed(p)
  BY Zenon DEF CCInv, ReplyInv, AnswersInOrder
<1>n. s # NoSession
  BY ConstantsAssumption, Zenon
<1>2. \A q \in Packet : ~Pending(q, s)
  BY <1>0, NonePending, SMTT(30)
<1>3. /\ owner'[p] = s
      /\ \A q \in Packet \ {p} : owner'[q] = owner[q] /\ reply'[q] = reply[q]
      /\ phase'[s] = "reply"
      /\ \A t \in Session \ {s} : phase'[t] = phase[t]
  BY <1>0, <1>p, <1>1, SMTT(30) DEF CallbackTypes
<1>4. /\ reply'[p].did = did[s]
      /\ reply'[p].op = Current(s).request.op
      /\ reply'[p].status = o.status
  BY <1>p, <1>1, SMTT(30) DEF CallbackTypes
<1>5. CallbackTypes'
  <2>1. Current(s).request.op \in Opcode /\ o.status \in Status /\ did[s] \in DID
    BY <1>0, CurrentAsked, StatusOf, SMTT(30) DEF TypeOK, DataTypes
  <2>2. reply' \in [Packet -> [did : DID, op : Opcode \cup {0}, status : Status]]
    BY <1>p, <1>1, <2>1, SMTT(30) DEF CallbackTypes
  <2>3. /\ phase' \in [Session -> {"idle", "lookup", "handle", "reply"}]
        /\ owner' \in [Packet -> Session \cup {NoSession}]
    BY <1>0, <1>p, <1>1, SMTT(30) DEF CallbackTypes
  <2>4. \A t \in Session : phase'[t] # "idle" => phase[t] # "idle"
    BY <1>0, <1>3, SMTT(30)
  <2> QED
    BY <1>0, <1>u, <1>1, <2>2, <2>3, <2>4, Zenon DEF CallbackTypes
<1>6. send[p] = "idle"
  BY <1>p, <1>1, Zenon DEF Addressed
<1>7. ASSUME NEW q \in Packet PROVE Addressed(q)'
  <2>1. CASE q = p
    <3>1. Registered(s)
      BY <1>0, <1>1, CurrentAsked, SMTT(30) DEF Counted, CallbackTypes
    <3> QED
      BY <1>u, <1>n, <1>3, <1>4, <1>6, <2>1, <3>1, Zenon DEF Addressed, Registered
  <2>2. CASE q # p
    <3>1. Addressed(q)
      BY Zenon DEF CCInv, ReplyInv
    <3> QED
      BY <1>u, <1>3, <2>2, <3>1, Zenon DEF Addressed, Registered
  <2> QED
    BY <2>1, <2>2, Zenon
<1>8. Pending(p, s)' /\ \A q \in Packet : Pending(q, s)' => q = p
  BY <1>u, <1>2, <1>3, <1>6, Zenon DEF Pending
<1>9. Counted(s)'
  <2>1. Outstanding(s) /\ Outstanding(s)'
    BY <1>0, <1>8, Zenon DEF Outstanding
  <2>2. Handled(s)' = Handled(s)
    BY <1>0, <2>1, Zenon DEF Handled
  <2>3. \A q \in Packet : Pending(q, s)' => send'[q] # "found"
    BY <1>u, <1>6, <1>8, SMTT(30)
  <2> QED
    BY <1>0, <1>u, <1>1, <2>2, <2>3, Zenon DEF Counted, Registered, Serving
<1>10. Known(s)'
  <2>1. phase'[s] # "handle"
    BY <1>3, SMTT(30)
  <2> QED
    BY <1>0, <1>1, <2>1, Zenon DEF Known
<1>11. InOrder(s)'
  <2>1. \A i \in 1 .. Len(accepted[s]) : accepted[s][i] \in Packet
    BY SMTT(30) DEF TypeOK, DataTypes
  <2>2. \A q \in Packet : \A a : Answers(q, s, a) => q # p
    BY <1>n, <1>p, Zenon DEF Answers
  <2>3. \A q \in Packet : \A a : Answers(q, s, a) => Answers(q, s, a)'
    BY <1>3, <2>2, Zenon DEF Answers
  <2> QED
    BY <1>0, <1>u, <1>1, <2>1, <2>3, Zenon DEF InOrder
<1>12. Paired(p, s)'
  <2>1. o.status = ErrUnknownOpcode => handler[s] = "none"
    BY <1>1, StatusOf, SMTT(30) DEF CallbackTypes
  <2>2. o.status = ErrUnknownOpcode => ~Current(s).known
    BY <1>0, <1>1, <2>1, Zenon DEF Known
  <2>3. Current(s)' = Current(s)
    BY <1>0, Zenon DEF Current
  <2> QED
    BY <1>3, <1>4, <1>8, <2>2, <2>3, Zenon DEF Paired, Answers
<1>13. \A q \in Packet : owner[q] # NoSession => owner'[q] = owner[q] /\ reply'[q] = reply[q]
  BY <1>p, <1>3, Zenon
<1>14. \A q \in Packet : owner'[q] # s => owner'[q] = owner[q] /\ send'[q] = send[q]
  BY <1>u, <1>3, Zenon
<1> QED
  BY <1>0, <1>u, <1>3, <1>5, <1>7, <1>8, <1>9, <1>10, <1>11, <1>12, <1>13, <1>14, OneCallback,
     Zenon

\* A move of one read loop.
LEMMA ReadGoto ==
  ASSUME TypeOK, NEW s \in Session, NEW l \in Label, Goto(s, "read", l)
  PROVE  pc'[s]["read"] = l /\ \A t \in Session \ {s} : pc'[t]["read"] = pc[t]["read"]
<1>1. ThreadTypes /\ Goto(s, "read", l) /\ "read" \in Kind
  BY Labels, Zenon DEF TypeOK
<1>2. /\ pc'[s]["read"] = l
      /\ \A t \in Session, j \in Kind : t # s \/ j # "read" => pc'[t][j] = pc[t][j]
  BY <1>1, GotoMoves, Zenon
<1> QED
  BY <1>1, <1>2, Zenon

\* The callback returns.
LEMMA ReturnStep ==
  ASSUME TypeOK, CCInv, NEW s \in Session, ReturnToLoop(s) PROVE CCInv'
<1>0. /\ UNCHANGED <<readFrame, syscalls, reply, owner, asked>>
      /\ phase[s] = "reply" /\ phase' = [phase EXCEPT ![s] = "idle"]
      /\ handler' = [handler EXCEPT ![s] = "none"]
      /\ Goto(s, "read", "check")
      /\ \A p \in Packet : ~Pending(p, s)
  BY Zenon DEF ReturnToLoop, Return, CallbackReturn, center, Pending
<1>u. UNCHANGED <<sessions, did, conn, send, sendTo, accepted, isClosed>>
  BY <1>0, Zenon DEF readFrame, table, link, queue, calls
<1>1. CallbackTypes /\ Counted(s) /\ Known(s) /\ InOrder(s)
  BY Zenon DEF CCInv, AnswersInOrder
<1>2. phase'[s] = "idle" /\ \A t \in Session \ {s} : phase'[t] = phase[t] /\ handler'[t] = handler[t]
  BY <1>0, <1>1, SMTT(30) DEF CallbackTypes
<1>3. CallbackTypes'
  <2>1. /\ phase' \in [Session -> {"idle", "lookup", "handle", "reply"}]
        /\ handler' \in [Session -> {"none", "egress", "invite"}]
    BY <1>0, <1>1, SMTT(30) DEF CallbackTypes
  <2>3. \A t \in Session \ {s} : pc'[t]["read"] = pc[t]["read"]
    BY <1>0, ReadGoto, Labels, Zenon
  <2>4. \A t \in Session : phase'[t] # "idle" => pc'[t]["read"] = "callback" /\ asked[t] # <<>>
    BY <1>1, <1>2, <2>3, Zenon DEF CallbackTypes
  <2> QED
    BY <1>0, <1>1, <2>1, <2>4, Zenon DEF CallbackTypes
<1>4. \A p \in Packet : Addressed(p)'
  BY <1>0, <1>u, Zenon DEF CCInv, ReplyInv, Addressed, Registered
<1>5. \A p \in Packet : ~Pending(p, s)'
  BY <1>0, <1>u, Zenon DEF Pending
<1>6. Counted(s)'
  <2>1. ~Outstanding(s) /\ ~Outstanding(s)'
    BY <1>0, <1>2, <1>5, SMTT(30) DEF Outstanding
  <2>2. Handled(s)' = Handled(s)
    BY <1>0, <2>1, Zenon DEF Handled
  <2> QED
    BY <1>0, <1>u, <1>1, <1>5, <2>2, Zenon DEF Counted, Registered, Serving
<1>7. Known(s)'
  <2>1. phase'[s] # "handle"
    BY <1>2, SMTT(30)
  <2> QED
    BY <1>0, <1>1, <2>1, Zenon DEF Known
<1>8. InOrder(s)'
  BY <1>0, <1>u, <1>1, Zenon DEF InOrder, Answers
<1> QED
  BY <1>0, <1>u, <1>2, <1>3, <1>4, <1>5, <1>6, <1>7, <1>8, OneCallback, Zenon

\* The read loop hands a request to the callback, or drops it.
LEMMA ReadStep ==
  ASSUME TypeOK, TypeOK', LifeInv, CCInv, NEW s \in Session, ReadRequest(s) PROVE CCInv'
<1>0. /\ UNCHANGED <<readFrame, syscalls, handler, reply, owner>>
      /\ pc[s]["read"] = "reading"
  BY Zenon DEF ReadRequest, ReadPacket, center
<1>u. UNCHANGED <<sessions, did, conn, send, sendTo, accepted, isClosed>>
  BY <1>0, Zenon DEF readFrame, table, link, queue, calls
<1>1. CallbackTypes /\ Counted(s) /\ Known(s) /\ InOrder(s)
  BY Zenon DEF CCInv, AnswersInOrder
<1>2. phase[s] = "idle"
  BY <1>0, <1>1, SMTT(30) DEF CallbackTypes
<1>3. CASE ~onControl
  <2>1. UNCHANGED callback /\ Goto(s, "read", "check")
    BY <1>0, <1>3, Zenon DEF ReadRequest, ReadPacket, callback
  <2>2. \A t \in Session : pc[t]["read"] = "callback" => pc'[t]["read"] = "callback"
    BY <1>0, <2>1, ReadGoto, Labels, SMTT(30)
  <2>3. syscalls \in [Opcode -> {"none", "egress", "invite"}]
    BY <1>1, Zenon DEF CallbackTypes
  <2> QED
    BY <1>0, <1>u, <2>1, <2>2, <2>3, CCFrame, Zenon DEF Registered
<1>4. CASE onControl
  <2>q. PICK q \in Request :
           /\ asked' = [asked EXCEPT ![s] =
                 Append(@, [request |-> q, known |-> syscalls[q.op] # "none"])]
           /\ phase' = [phase EXCEPT ![s] = "lookup"]
    BY <1>4, Zenon DEF ReadRequest
  <2> DEFINE a == [request |-> q, known |-> syscalls[q.op] # "none"]
  <2>1. a \in Asked /\ asked[s] \in Seq(Asked)
    <3>1. (syscalls[q.op] # "none") \in BOOLEAN
      BY Zenon
    <3>2. a \in Asked
      BY <3>1, Zenon DEF Asked
    <3>3. asked \in [Session -> Seq(Asked)]
      BY <1>1, Zenon DEF CallbackTypes
    <3>4. asked[s] \in Seq(Asked)
      BY <3>3, Zenon
    <3> QED
      BY <3>2, <3>4, Zenon
  <2>a. a.request = q /\ (a.known => syscalls[q.op] # "none")
    BY Zenon
  <2>2. /\ asked'[s] = Append(asked[s], a)
        /\ asked' \in [Session -> Seq(Asked)]
        /\ \A t \in Session \ {s} : asked'[t] = asked[t]
    <3> HIDE DEF a
    <3>1. asked' = [asked EXCEPT ![s] = Append(@, a)]
      BY <2>q DEF a
    <3>2. asked \in [Session -> Seq(Asked)]
      BY <1>1, Zenon DEF CallbackTypes
    <3>3. Append(asked[s], a) \in Seq(Asked)
      BY <2>1
    <3> QED
      BY <3>1, <3>2, <3>3, Zenon
  <2> HIDE DEF a
  <2>3. /\ Len(asked'[s]) = Len(asked[s]) + 1 /\ asked'[s] # <<>> /\ Len(asked[s]) \in Nat
        /\ asked'[s][Len(asked[s]) + 1] = a
        /\ \A i \in 1 .. Len(asked[s]) : asked'[s][i] = asked[s][i]
    BY <2>1, <2>2, SMTT(30)
  <2>4. /\ phase'[s] = "lookup"
        /\ phase' \in [Session -> {"idle", "lookup", "handle", "reply"}]
        /\ \A t \in Session \ {s} : phase'[t] = phase[t]
    BY <1>1, <2>q, SMTT(30) DEF CallbackTypes
  <2>5. CallbackTypes'
    <3>1. Goto(s, "read", "callback")
      BY <1>4, Zenon DEF ReadRequest, ReadPacket
    <3>2. pc'[s]["read"] = "callback" /\ \A t \in Session \ {s} : pc'[t]["read"] = pc[t]["read"]
      BY <3>1, ReadGoto, Labels, Zenon
    <3>3. \A t \in Session : phase'[t] # "idle" => pc'[t]["read"] = "callback" /\ asked'[t] # <<>>
      <4>1. ASSUME NEW t \in Session \ {s}, phase'[t] # "idle"
            PROVE  pc'[t]["read"] = "callback" /\ asked'[t] # <<>>
        <5>1. phase[t] # "idle" /\ asked'[t] = asked[t] /\ pc'[t]["read"] = pc[t]["read"]
          BY <2>2, <2>4, <3>2, <4>1, Zenon
        <5>2. pc[t]["read"] = "callback" /\ asked[t] # <<>>
          BY <1>1, <5>1, Zenon DEF CallbackTypes
        <5> QED
          BY <5>1, <5>2, Zenon
      <4>2. pc'[s]["read"] = "callback" /\ asked'[s] # <<>>
        BY <2>3, <3>2, Zenon
      <4> QED
        BY <4>1, <4>2, Zenon
    <3> QED
      BY <1>0, <1>1, <2>2, <2>4, <3>3, Zenon DEF CallbackTypes
  <2>6. \A p \in Packet : Addressed(p)'
    BY <1>0, <1>u, Zenon DEF CCInv, ReplyInv, Addressed, Registered
  <2>7. (\A p \in Packet : ~Pending(p, s)) /\ \A p \in Packet : ~Pending(p, s)'
    <3>1. \A p \in Packet : ~Pending(p, s)
      BY <1>2, NonePending, SMTT(30)
    <3> QED
      BY <1>0, <1>u, <3>1, Zenon DEF Pending
  <2>8. Counted(s)'
    <3>1. ~Outstanding(s) /\ Outstanding(s)'
      BY <1>2, <2>4, <2>7, SMTT(30) DEF Outstanding
    <3>2. Handled(s)' = Handled(s)
      BY <2>3, <3>1, SMTT(30) DEF Handled
    <3>3. Registered(s)
      <4>1. pc[s]["read"] # "unborn" /\ "read" \in Kind
        BY <1>0, Labels, Zenon
      <4> QED
        BY <4>1, BornRegistered, Zenon
    <3> QED
      BY <1>0, <1>u, <1>1, <2>7, <3>2, <3>3, Zenon DEF Counted, Registered, Serving
  <2>9. Known(s)'
    <3>1. ASSUME NEW i \in 1 .. Len(asked'[s])
          PROVE  asked'[s][i].known => syscalls[asked'[s][i].request.op] # "none"
      <4>1. CASE i = Len(asked[s]) + 1
        BY <2>3, <2>a, <4>1, Zenon
      <4>2. CASE i # Len(asked[s]) + 1
        <5>1. i \in 1 .. Len(asked[s])
          BY <2>3, <4>2, SMTT(30)
        <5> QED
          BY <1>1, <2>3, <5>1, Zenon DEF Known
      <4> QED
        BY <4>1, <4>2, Zenon
    <3>2. phase'[s] # "handle"
      BY <2>4, SMTT(30)
    <3> QED
      BY <1>0, <3>1, <3>2, Zenon DEF Known
  <2>10. InOrder(s)'
    <3>1. Len(accepted[s]) \in Nat /\ Len(accepted[s]) <= Len(asked[s])
      <4>1. accepted \in [Session -> Seq(Packet)]
        BY Zenon DEF TypeOK, DataTypes
      <4>2. Len(accepted[s]) <= Len(asked[s])
        BY <1>1, Zenon DEF InOrder
      <4> QED
        BY <4>1, <4>2, SMTT(30)
    <3>2. /\ Len(accepted[s]) <= Len(asked'[s])
          /\ \A i \in 1 .. Len(accepted[s]) : i \in 1 .. Len(asked[s])
      BY <2>3, <3>1, SMTT(30)
    <3>3. \A i \in 1 .. Len(accepted[s]) : Answers(accepted[s][i], s, asked'[s][i])
      BY <1>1, <2>3, <3>2, Zenon DEF InOrder
    <3>4. \A p, x : Answers(p, s, x) <=> Answers(p, s, x)'
      BY <1>0, Zenon DEF Answers
    <3> QED
      BY <1>u, <3>2, <3>3, <3>4, Zenon DEF InOrder
  <2> QED
    BY <1>0, <1>u, <2>2, <2>4, <2>5, <2>6, <2>7, <2>8, <2>9, <2>10, OneCallback, Zenon
<1> QED
  BY <1>3, <1>4, Zenon

\* SendToLocal is done with a response that was not queued: the session does not
\* accept packets any more, and no later response will be queued either.
LEMMA LostStep ==
  ASSUME TypeOK, CCInv, NEW s \in Session, NEW p \in Packet, Pending(p, s),
         UNCHANGED <<did, conn, sessions, syscalls, accepted, sendTo, callback>>,
         \A t \in Session : isClosed[t] => isClosed'[t],
         \A t \in Session : pc'[t]["read"] = pc[t]["read"],
         \E r \in {"notfound", "closed", "blocked"} : send' = [send EXCEPT ![p] = r],
         ~Serving(s)'
  PROVE  CCInv'
<1>0. UNCHANGED <<phase, handler, reply, owner, asked>>
  BY Zenon DEF callback
<1>1. CallbackTypes /\ Counted(s) /\ Known(s) /\ InOrder(s) /\ Paired(p, s)
  BY Zenon DEF CCInv, ReplyInv, AnswersInOrder
<1>2. send'[p] \notin {"idle", "found"} /\ \A q \in Packet \ {p} : send'[q] = send[q]
  <2>1. PICK r \in {"notfound", "closed", "blocked"} : send' = [send EXCEPT ![p] = r]
    BY Zenon
  <2>2. DOMAIN send = Packet
    BY Zenon DEF TypeOK, DataTypes
  <2> QED
    BY <2>1, <2>2, SMTT(30)
<1>3. CallbackTypes'
  BY <1>0, <1>1, Zenon DEF CallbackTypes
<1>4. ASSUME NEW q \in Packet PROVE Addressed(q)'
  <2>1. Addressed(q) /\ owner[p] = s /\ s # NoSession
    BY ConstantsAssumption, Zenon DEF CCInv, ReplyInv, Pending
  <2> QED
    BY <1>0, <1>2, <2>1, Zenon DEF Addressed, Registered
<1>5. \A q \in Packet : ~Pending(q, s)'
  BY <1>0, <1>1, <1>2, Zenon DEF Pending, Paired
<1>6. Counted(s)'
  <2>1. Outstanding(s) /\ ~Outstanding(s)'
    BY <1>0, <1>1, <1>5, SMTT(30) DEF Outstanding, Paired
  <2>2. Len(asked[s]) \in Nat /\ Len(accepted[s]) \in Nat
    <3>1. asked[s] \in Seq(Asked) /\ accepted[s] \in Seq(Packet)
      BY <1>1, Zenon DEF CallbackTypes, TypeOK, DataTypes
    <3> QED
      BY <3>1, SMTT(30)
  <2>3. Len(accepted[s]) <= Handled(s)'
    BY <1>0, <1>1, <2>1, <2>2, SMTT(30) DEF Handled, Counted
  <2> QED
    BY <1>0, <1>1, <1>5, <2>3, Zenon DEF Counted, Registered
<1>7. Known(s)'
  BY <1>0, <1>1, Zenon DEF Known, Current
<1>8. InOrder(s)'
  BY <1>0, <1>1, Zenon DEF InOrder, Answers
<1>9. \A q \in Packet : owner'[q] # s => owner'[q] = owner[q] /\ send'[q] = send[q]
  BY <1>0, <1>2, Zenon DEF Pending
<1> QED
  BY <1>0, <1>3, <1>4, <1>5, <1>6, <1>7, <1>8, <1>9, OneCallback, Zenon

\* SendToLocal finds the session.
LEMMA FoundStep ==
  ASSUME TypeOK, LifeInv, CCInv, NEW s \in Session, NEW p \in Packet, owner[p] = s,
         SendFound(p, reply[p].did), UNCHANGED <<center, callback>>
  PROVE  CCInv'
<1>0. UNCHANGED <<phase, handler, reply, owner, asked, syscalls>>
  BY Zenon DEF callback, center
<1>u. /\ UNCHANGED <<sessions, did, conn, pc, accepted, isClosed>>
      /\ send[p] = "idle" /\ send' = [send EXCEPT ![p] = "found"]
      /\ sessions[reply[p].did] # NoSession
      /\ sendTo' = [sendTo EXCEPT ![p] = sessions[reply[p].did]]
  BY Zenon DEF SendFound, table, link, queue, sendFrame
<1>n. s # NoSession
  BY ConstantsAssumption, Zenon
<1>1. CallbackTypes /\ Counted(s) /\ Known(s) /\ InOrder(s) /\ Addressed(p) /\ Pending(p, s)
      /\ Paired(p, s)
  BY <1>u, Zenon DEF CCInv, ReplyInv, AnswersInOrder, Pending
<1>2. /\ send'[p] = "found" /\ sendTo'[p] = sessions[reply[p].did]
      /\ \A q \in Packet \ {p} : send'[q] = send[q] /\ sendTo'[q] = sendTo[q]
  <2>1. DOMAIN send = Packet /\ DOMAIN sendTo = Packet
    BY Zenon DEF TypeOK, DataTypes
  <2> QED
    BY <1>u, <2>1, Zenon
<1>3. sessions[did[s]] = s /\ reply[p].did = did[s]
  <2>1. Registered(s) /\ reply[p].did = did[s]
    BY <1>n, <1>1, Zenon DEF Addressed
  <2> QED
    BY <1>u, <2>1, OwnEntry, Zenon
<1>4. CallbackTypes'
  BY <1>0, <1>u, <1>1, Zenon DEF CallbackTypes
<1>5. ASSUME NEW q \in Packet PROVE Addressed(q)'
  <2>1. Addressed(q)
    BY Zenon DEF CCInv, ReplyInv
  <2>2. CASE q = p
    BY <1>0, <1>u, <1>n, <1>2, <1>3, <2>1, <2>2, Zenon DEF Addressed, Registered
  <2>3. CASE q # p
    BY <1>0, <1>u, <1>2, <2>1, <2>3, Zenon DEF Addressed, Registered
  <2> QED
    BY <2>2, <2>3, Zenon
<1>6. \A q \in Packet : Pending(q, s)' <=> Pending(q, s)
  BY <1>0, <1>1, <1>2, Zenon DEF Pending
<1>7. Counted(s)'
  <2>1. Outstanding(s)' <=> Outstanding(s)
    BY <1>0, <1>6, Zenon DEF Outstanding
  <2>2. Handled(s)' = Handled(s)
    BY <1>0, <2>1, Zenon DEF Handled
  <2>3. ~isClosed[s] => Len(accepted[s]) = Handled(s)
    BY <1>1, <1>3, Zenon DEF Counted, Serving
  <2> QED
    BY <1>0, <1>u, <1>1, <2>2, <2>3, Zenon DEF Counted, Registered, Serving
<1>8. Known(s)' /\ Current(s)' = Current(s)
  BY <1>0, <1>1, Zenon DEF Known, Current
<1>9. InOrder(s)'
  BY <1>0, <1>u, <1>1, Zenon DEF InOrder, Answers
<1>10. ASSUME NEW q \in Packet, Pending(q, s)' PROVE Paired(q, s)'
  <2>1. Paired(q, s)
    BY <1>6, <1>10, Zenon DEF CCInv, ReplyInv
  <2> QED
    BY <1>0, <1>6, <1>8, <2>1, Zenon DEF Paired, Answers
<1>11. \A q \in Packet : owner'[q] # s => owner'[q] = owner[q] /\ send'[q] = send[q]
  BY <1>0, <1>2, Zenon
<1> QED
  BY <1>0, <1>u, <1>4, <1>5, <1>7, <1>8, <1>9, <1>10, <1>11, OneCallback, Zenon

\* SendToLocal queues the response.
LEMMA AcceptStep ==
  ASSUME TypeOK, CCInv, NEW s \in Session, NEW p \in Packet, owner[p] = s,
         SendAccept(p), UNCHANGED <<center, callback>>
  PROVE  CCInv'
<1>0. UNCHANGED <<phase, handler, reply, owner, asked, syscalls>>
  BY Zenon DEF callback, center
<1>n. s # NoSession
  BY ConstantsAssumption, Zenon
<1>1. /\ send[p] = "found" /\ sendTo[p] = s /\ Pending(p, s) /\ Paired(p, s)
      /\ CallbackTypes /\ Counted(s) /\ Known(s) /\ InOrder(s)
  BY <1>n, Zenon DEF SendAccept, CCInv, ReplyInv, AnswersInOrder, Addressed, Pending
<1>u. /\ UNCHANGED <<sessions, did, conn, pc, sendTo, isClosed>>
      /\ ~isClosed[s]
      /\ send' = [send EXCEPT ![p] = "ok"]
      /\ accepted' = [accepted EXCEPT ![s] = Append(@, p)]
  BY <1>1, Zenon DEF SendAccept, Enqueue, table, link, sendFrame
<1>2. send'[p] = "ok" /\ \A q \in Packet \ {p} : send'[q] = send[q]
  BY <1>u, SMTT(30) DEF TypeOK, DataTypes
<1>3. /\ accepted[s] \in Seq(Packet)
      /\ accepted'[s] = Append(accepted[s], p)
      /\ \A t \in Session \ {s} : accepted'[t] = accepted[t]
  BY <1>u, SMTT(30) DEF TypeOK, DataTypes
<1>4. /\ Len(accepted[s]) \in Nat /\ Len(accepted'[s]) = Len(accepted[s]) + 1
      /\ accepted'[s][Len(accepted[s]) + 1] = p
      /\ \A i \in 1 .. Len(accepted[s]) : accepted'[s][i] = accepted[s][i]
  BY <1>3, SMTT(30)
<1>5. CallbackTypes'
  BY <1>0, <1>u, <1>1, Zenon DEF CallbackTypes
<1>6. ASSUME NEW q \in Packet PROVE Addressed(q)'
  <2>1. Addressed(q)
    BY Zenon DEF CCInv, ReplyInv
  <2>2. CASE q = p
    <3>1. send'[p] # "found"
      BY <1>2, SMTT(30)
    <3> QED
      BY <1>0, <1>u, <1>n, <2>1, <2>2, <3>1, Zenon DEF Addressed, Registered
  <2>3. CASE q # p
    BY <1>0, <1>u, <1>2, <2>1, <2>3, Zenon DEF Addressed, Registered
  <2> QED
    BY <2>2, <2>3, Zenon
<1>7. \A q \in Packet : ~Pending(q, s)'
  <2>1. send'[p] \notin {"idle", "found"}
    BY <1>2, SMTT(30)
  <2> QED
    BY <1>0, <1>1, <1>2, <2>1, Zenon DEF Pending, Paired
<1>8. Len(accepted'[s]) = Len(asked[s]) /\ Handled(s)' = Len(asked[s]) /\ Len(asked[s]) \in Nat
  <2>1. Outstanding(s) /\ ~Outstanding(s)'
    BY <1>0, <1>1, <1>7, SMTT(30) DEF Outstanding, Paired
  <2>2. Len(asked[s]) \in Nat
    BY <1>1, SMTT(30) DEF CallbackTypes
  <2>3. Len(accepted[s]) = Handled(s)
    BY <1>u, <1>1, Zenon DEF Counted
  <2> QED
    BY <1>0, <1>4, <2>1, <2>2, <2>3, SMTT(30) DEF Handled
<1>9. Counted(s)'
  <2>1. Registered(s)
    BY <1>n, <1>1, Zenon DEF CCInv, ReplyInv, Addressed
  <2>2. Len(accepted'[s]) <= Handled(s)' /\ Len(accepted'[s]) = Handled(s)'
    BY <1>8, SMTT(30)
  <2> QED
    BY <1>u, <1>7, <2>1, <2>2, Zenon DEF Counted, Registered
<1>10. Known(s)'
  BY <1>0, <1>1, Zenon DEF Known, Current
<1>11. InOrder(s)'
  <2>1. ASSUME NEW i \in 1 .. Len(accepted'[s]) PROVE Answers(accepted'[s][i], s, asked[s][i])
    <3>1. CASE i = Len(accepted[s]) + 1
      <4>1. asked[s][i] = Current(s) /\ accepted'[s][i] = p
        BY <1>4, <1>8, <3>1, Zenon DEF Current
      <4> QED
        BY <1>1, <4>1, Zenon DEF Paired
    <3>2. CASE i # Len(accepted[s]) + 1
      <4>1. i \in 1 .. Len(accepted[s])
        BY <1>4, <3>2, SMTT(30)
      <4> QED
        BY <1>1, <1>4, <4>1, Zenon DEF InOrder
    <3> QED
      BY <3>1, <3>2, Zenon
  <2>2. \A q, x : Answers(q, s, x) <=> Answers(q, s, x)'
    BY <1>0, Zenon DEF Answers
  <2>3. Len(accepted'[s]) <= Len(asked[s])
    BY <1>8, SMTT(30)
  <2> QED
    BY <1>0, <2>1, <2>2, <2>3, Zenon DEF InOrder
<1>12. \A q \in Packet : owner'[q] # s => owner'[q] = owner[q] /\ send'[q] = send[q]
  BY <1>0, <1>2, Zenon
<1> QED
  BY <1>0, <1>u, <1>3, <1>5, <1>6, <1>7, <1>9, <1>10, <1>11, <1>12, OneCallback, Zenon

\* Every way SendToLocal goes on with a response.
LEMMA ReplyStep ==
  ASSUME TypeOK, LifeInv, CCInv, NEW p \in Packet, Reply(p) PROVE CCInv'
<1>s. PICK s \in Session : owner[p] = s
  <2>1. owner[p] # NoSession
    BY Zenon DEF Reply
  <2> QED
    BY <2>1, SMTT(30) DEF CCInv, CallbackTypes
<1>0. UNCHANGED <<center, callback, syscalls>> /\ Addressed(p)
  BY Zenon DEF Reply, CCInv, ReplyInv, center
<1>n. s # NoSession /\ reply[p].did = did[s]
  BY <1>0, <1>s, ConstantsAssumption, Zenon DEF Addressed
<1>1. CASE SendNotFound(p, reply[p].did)
  <2>1. /\ UNCHANGED <<did, conn, sessions, accepted, sendTo, isClosed, pc>>
        /\ send' = [send EXCEPT ![p] = "notfound"]
        /\ sessions[did[s]] = NoSession /\ Pending(p, s)
    BY <1>1, <1>n, <1>s, Zenon DEF SendNotFound, table, link, queue, sendFrame, Pending
  <2>2. ~Serving(s)'
    BY <1>n, <2>1, Zenon DEF Serving
  <2> QED
    BY <1>0, <2>1, <2>2, LostStep, Zenon
<1>2. CASE SendFound(p, reply[p].did)
  BY <1>0, <1>2, <1>s, FoundStep, Zenon
<1>3. CASE SendToClosed(p)
  <2>1. /\ UNCHANGED <<did, conn, sessions, accepted, sendTo, isClosed, pc>>
        /\ send' = [send EXCEPT ![p] = "closed"]
        /\ isClosed[s] /\ Pending(p, s)
    BY <1>0, <1>3, <1>s, Zenon DEF SendToClosed, table, link, queue, sendFrame, Pending, Addressed
  <2>2. ~Serving(s)'
    BY <2>1, Zenon DEF Serving
  <2> QED
    BY <1>0, <2>1, <2>2, LostStep, Zenon
<1>4. CASE SendAccept(p)
  BY <1>0, <1>4, <1>s, AcceptStep, Zenon
<1>5. CASE SendBlocked(p)
  <2>1. /\ UNCHANGED <<did, conn, sessions, accepted, sendTo>>
        /\ send' = [send EXCEPT ![p] = "blocked"]
        /\ isClosed' = [isClosed EXCEPT ![s] = TRUE]
        /\ Goto(s, "slow", "lookup") /\ Pending(p, s)
    BY <1>0, <1>5, <1>s, Zenon DEF SendBlocked, CutOff, table, link, sendFrame, Pending, Addressed
  <2>2. isClosed'[s] /\ \A t \in Session : isClosed[t] => isClosed'[t]
    BY <1>0, <2>1, Zenon DEF TypeOK, DataTypes
  <2>3. \A t \in Session : pc'[t]["read"] = pc[t]["read"]
    <3>1. ThreadTypes /\ Goto(s, "slow", "lookup") /\ {"read", "slow"} \subseteq Kind
      BY <2>1, Labels, Zenon DEF TypeOK
    <3>2. "lookup" \in Label /\ "read" # "slow"
      BY Labels, Zenon
    <3>3. \A t \in Session, j \in Kind : t # s \/ j # "slow" => pc'[t][j] = pc[t][j]
      BY <1>0, <3>1, <3>2, GotoMoves, Zenon
    <3> QED
      BY <3>1, <3>2, <3>3, Zenon
  <2>4. ~Serving(s)'
    BY <2>2, Zenon DEF Serving
  <2> QED
    BY <1>0, <2>1, <2>2, <2>3, <2>4, LostStep, Zenon
<1> QED
  BY <1>1, <1>2, <1>3, <1>4, <1>5, Zenon DEF Reply

\* Initially nothing was asked.
LEMMA CenterInit == CCInit => CCInv
<1> SUFFICES ASSUME CCInit PROVE CCInv
  OBVIOUS
<1> USE DEF CCInit
<1>1. /\ send = [p \in Packet |-> "idle"] /\ accepted = [s \in Session |-> <<>>]
      /\ did \in [Session -> DID]
  <2>1. TypeOK /\ send = [p \in Packet |-> "idle"] /\ accepted = [s \in Session |-> <<>>]
    BY TypeInit, Zenon DEF Init
  <2> QED
    BY <2>1, Zenon DEF TypeOK, DataTypes
<1>2. CallbackTypes
  <2>1. [did |-> 0, op |-> 0, status |-> Success]
           \in [did : DID, op : Opcode \cup {0}, status : Status]
    BY ConstantsAssumption, SMTT(30) DEF DID, Status
  <2>2. reply \in [Packet -> [did : DID, op : Opcode \cup {0}, status : Status]]
    BY <2>1, Zenon
  <2>3. syscalls \in [Opcode -> {"none", "egress", "invite"}]
    BY Zenon
  <2>4. /\ phase \in [Session -> {"idle", "lookup", "handle", "reply"}]
        /\ handler \in [Session -> {"none", "egress", "invite"}]
        /\ owner \in [Packet -> Session \cup {NoSession}]
        /\ asked \in [Session -> Seq(Asked)]
    BY SMTT(30)
  <2>5. \A s \in Session : phase[s] = "idle"
    BY Zenon
  <2> QED
    BY <2>2, <2>3, <2>4, <2>5, Zenon DEF CallbackTypes
<1>3. ASSUME NEW p \in Packet
      PROVE  Addressed(p) /\ \A s \in Session : ~Pending(p, s)
  <2>1. owner[p] = NoSession /\ send[p] = "idle"
    BY <1>1, Zenon
  <2> QED
    BY <2>1, ConstantsAssumption, SMTT(30) DEF Addressed, Pending
<1>4. ASSUME NEW s \in Session PROVE Counted(s) /\ Known(s) /\ InOrder(s)
  <2>1. asked[s] = <<>> /\ accepted[s] = <<>> /\ phase[s] = "idle"
    BY <1>1, Zenon
  <2>2. ~Outstanding(s)
    BY <1>3, <2>1, SMTT(30) DEF Outstanding
  <2>3. Handled(s) = 0 /\ Len(accepted[s]) = 0
    BY <2>1, <2>2, SMTT(30) DEF Handled
  <2>4. Counted(s)
    BY <1>3, <2>1, <2>3, SMTT(30) DEF Counted
  <2>5. Known(s) /\ InOrder(s)
    BY <2>1, SMTT(30) DEF Known, InOrder
  <2> QED
    BY <2>4, <2>5, Zenon
<1> QED
  BY <1>2, <1>3, <1>4, Zenon DEF CCInv, ReplyInv, AnswersInOrder

\* Every step of the composition keeps the invariant.
LEMMA CenterStep ==
  ASSUME TypeOK, TypeOK', LifeInv, CCInv, [CCNext]_ccVars PROVE CCInv'
<1>0. syscalls \in [Opcode -> {"none", "egress", "invite"}]
  BY Zenon DEF CCInv, CallbackTypes
<1>1. ASSUME Others PROVE CCInv'
  <2>1. UNCHANGED <<send, sendTo, accepted, callback, syscalls>>
    BY <1>1, OthersKeep, Zenon DEF center
  <2> QED
    BY <1>0, <1>1, <2>1, OthersKeep, CCFrame, Zenon
<1>2. ASSUME UNCHANGED <<vars, callback>>,
             syscalls' \in [Opcode -> {"none", "egress", "invite"}],
             \A op \in Opcode : syscalls[op] # "none" => syscalls'[op] # "none"
      PROVE  CCInv'
  <2>1. UNCHANGED <<send, sendTo, accepted, conn, did, isClosed, sessions, pc>>
    BY <1>2, Zenon DEF vars, table, link, queue, calls
  <2> QED
    BY <1>2, <2>1, CCFrame, Zenon DEF Registered
<1>3. ASSUME RegisterDefaultHandlers PROVE CCInv'
  <2>1. UNCHANGED <<vars, callback>>
    BY <1>3, Zenon DEF RegisterDefaultHandlers, RegisterEgress, RegisterKeys
  <2>2. \/ syscalls' = syscalls
        \/ \E op \in Opcode, h \in {"egress", "invite"} :
              syscalls[op] = "none" /\ syscalls' = [syscalls EXCEPT ![op] = h]
    BY <1>3, Zenon DEF RegisterDefaultHandlers, RegisterEgress, RegisterKeys, RegisterSysCall,
                       Opcode
  <2>3. /\ syscalls' \in [Opcode -> {"none", "egress", "invite"}]
        /\ \A op \in Opcode : syscalls[op] # "none" => syscalls'[op] # "none"
    BY <1>0, <2>2, SMTT(30)
  <2> QED
    BY <1>2, <2>1, <2>3, Zenon
<1>4. ASSUME UNCHANGED ccVars PROVE CCInv'
  <2>1. UNCHANGED <<vars, callback, syscalls>>
    BY <1>4, Zenon DEF ccVars, center
  <2> QED
    BY <1>0, <1>2, <2>1, Zenon
<1> QED
  BY <1>1, <1>3, <1>4, ReadStep, LookupStep, RespondStep, ReturnStep, ReplyStep, Zenon DEF CCNext

-----------------------------------------------------------------------------
(* The results. *)

\* The invariants of the session manager and of the control center, together.
LEMMA Invariance == ASSUME NoWrap PROVE CCSpec => [](TypeOK /\ LifeInv /\ CCInv)
<1>1. CCInit => TypeOK /\ LifeInv /\ CCInv
  BY TypeInit, LifeInit, CenterInit, Zenon DEF CCInit
<1>2. TypeOK /\ LifeInv /\ CCInv /\ [CCNext]_ccVars => (TypeOK /\ LifeInv /\ CCInv)'
  <2> SUFFICES ASSUME TypeOK, LifeInv, CCInv, [CCNext]_ccVars PROVE (TypeOK /\ LifeInv /\ CCInv)'
    OBVIOUS
  <2>1. [Next]_vars
    BY StepRefines
  <2>2. TypeOK' /\ LifeInv'
    BY <2>1, TypeStep, LifeStep
  <2>3. CCInv'
    BY <2>2, CenterStep
  <2> QED
    BY <2>2, <2>3
<1> QED
  BY <1>1, <1>2, PTL DEF CCSpec

\* Fewer registrations than DIDs: the responses queued for a session answer its
\* first requests, in order, with none left out in between, whatever the
\* dispatcher, the session manager and the clients do (handlers of
\* controlcenter/handlers.go behind DispatchSysCall and SendToLocal).
THEOREM ResponsesInOrder == ASSUME NoWrap PROVE CCSpec => []AnswersInOrder
<1>1. CCInv => AnswersInOrder
  BY DEF CCInv
<1> QED
  BY <1>1, Invariance, PTL

\* The control center is a well-behaved user of the session manager: every step
\* of the composition is a step of SessionManager or leaves it alone, so that
\* whatever holds of every behaviour of SessionManager holds of the daemon.
THEOREM Implements == ASSUME NoWrap PROVE CCSpec => Spec
<1>1. CCInit => Init
  BY DEF CCInit
<1>2. TypeOK /\ LifeInv /\ CCInv /\ [CCNext]_ccVars => [Next]_vars
  BY StepRefines
<1> QED
  BY <1>1, <1>2, Invariance, PTL DEF CCSpec, Spec

\* What a client finds on its connection: cut into frames, the k-th frame, whole
\* or torn, is a response to the k-th request the daemon read from it.
FramesAnswer ==
    \A s \in Session : \A i \in DOMAIN wire[s] :
       LET k == Cardinality(Begun(wire[s], i)) IN
       k \in 1 .. Len(asked[s]) /\ Answers(wire[s][i][1], s, asked[s][k])

\* The positions of a sequence are the numbers up to its length.
LEMMA SeqLen ==
  ASSUME NEW S, NEW q \in Seq(S) PROVE Len(q) \in Nat /\ DOMAIN q = 1 .. Len(q)
  OBVIOUS

\* From end to end, for any number of clients, requests and handlers: the order
\* of the queue (AnswersInOrder) and the framing of the stream (StreamFramed)
\* give a client that counts frames the response to each of its requests.
THEOREM ClientReadsAnswers == ASSUME NoWrap PROVE CCSpec => []FramesAnswer
<1>1. TypeOK /\ StreamFramed /\ AnswersInOrder /\ CCInv => FramesAnswer
  <2> SUFFICES ASSUME TypeOK, StreamFramed, AnswersInOrder, CCInv, NEW s \in Session,
                      NEW i \in DOMAIN wire[s], NEW k, k = Cardinality(Begun(wire[s], i))
               PROVE  k \in 1 .. Len(asked[s]) /\ Answers(wire[s][i][1], s, asked[s][k])
    BY Zenon DEF FramesAnswer
  <2>1. k \in DOMAIN accepted[s] /\ wire[s][i][1] = accepted[s][k]
    BY Zenon DEF StreamFramed, Framed
  <2>2. InOrder(s)
    BY Zenon DEF AnswersInOrder
  <2>3. accepted[s] \in Seq(Packet) /\ Len(asked[s]) \in Nat
    <3>1. accepted \in [Session -> Seq(Packet)] /\ asked \in [Session -> Seq(Asked)]
      BY Zenon DEF TypeOK, DataTypes, CCInv, CallbackTypes
    <3>2. accepted[s] \in Seq(Packet) /\ asked[s] \in Seq(Asked)
      BY <3>1, Zenon
    <3> QED
      BY <3>2, SeqLen, Zenon
  <2>4. DOMAIN accepted[s] = 1 .. Len(accepted[s])
    BY <2>3, SeqLen, Zenon
  <2>5. k \in 1 .. Len(asked[s])
    BY <2>1, <2>2, <2>3, <2>4 DEF InOrder
  <2>6. Answers(accepted[s][k], s, asked[s][k])
    BY <2>1, <2>2, <2>4, Zenon DEF InOrder
  <2> QED
    BY <2>1, <2>5, <2>6
<1> QED
  BY <1>1, Invariance, Implements, ResponsesInOrder, StreamIsFramed, PTL
=============================================================================
