-------------------------- MODULE IpcListenerProofs --------------------------
(***************************************************************************)
(* Proofs about the IPC listeners, for any number of instances, runs and   *)
(* calls of Accept, on either platform.                                    *)
(***************************************************************************)
EXTENDS IpcListener, TLAPS

\* Whoever calls it, the body of Stop keeps the types of what it writes.
LEMMA StopTypes ==
  ASSUME TypeOK, NEW i \in Inst, NEW who \in Run \cup {"caller"}, StopBody(i, who)
  PROVE  /\ listener' \in [Inst -> Run \cup {NoRun}]
         /\ closed' \in [Inst -> BOOLEAN]
         /\ ln' \in [Run -> {"none", "open", "closed"}]
         /\ address' \in Run \cup {NoRun, Stale}
         /\ stoppedBy' \in [Run -> Run \cup {NoRun, "caller", "crash"}]
<1>1. CASE listener[i] = NoRun
  BY <1>1 DEF TypeOK, StopBody, Stop, StopPipe
<1>2. CASE listener[i] # NoRun
  <2>1. listener[i] \in Run
    BY <1>2 DEF TypeOK
  <2> QED
    BY <1>2, <2>1 DEF TypeOK, StopBody, Stop, StopPipe
<1> QED
  BY <1>1, <1>2

\* A step keeps the types.
LEMMA TypeStep == ASSUME TypeOK, [Next]_vars PROVE TypeOK'
<1> USE DEF TypeOK
<1>1. ASSUME NEW i \in Inst, NEW r \in Run, Start(i, r) \/ StartPipe(i, r) PROVE TypeOK'
  <2>1. Listen(i, r) /\ watcher' = [watcher EXCEPT ![r] = "waiting"]
    BY <1>1, Zenon DEF Start, StartPipe
  <2> QED
    BY <2>1, Zenon DEF Listen
<1>2. ASSUME NEW i \in Inst, StopCall(i) PROVE TypeOK'
  <2>1. StopBody(i, "caller") /\ UNCHANGED <<platform, by, ctxDone, watcher, accept>>
    BY <1>2 DEF StopCall
  <2> QED
    BY <2>1, StopTypes
<1>3. ASSUME NEW i \in Inst, Crash(i) PROVE TypeOK'
  <2>1. listener[i] \in Run
    BY <1>3 DEF Crash
  <2>2. /\ watcher' \in [Run -> {"unborn", "waiting", "done"}]
        /\ accept' \in [Accepter -> Run \cup {"idle", "conn", "refused"}]
    BY <1>3 DEF Crash
  <2> QED
    BY <1>3, <2>1, <2>2 DEF Crash
<1>4. ASSUME NEW r \in Run, CancelContext(r) PROVE TypeOK'
  BY <1>4 DEF CancelContext
<1>5. ASSUME NEW r \in Run, Watcher(r) PROVE TypeOK'
  <2>1. StopBody(by[r], r) /\ UNCHANGED <<platform, by, ctxDone, accept>> /\ by[r] \in Inst
    BY <1>5 DEF Watcher
  <2>2. watcher' \in [Run -> {"unborn", "waiting", "done"}]
    BY <1>5 DEF Watcher
  <2> QED
    BY <2>1, <2>2, StopTypes
<1>6. ASSUME NEW a \in Accepter, NEW i \in Inst, Accept(a, i) PROVE TypeOK'
  BY <1>6 DEF Accept
<1>7. ASSUME NEW a \in Accepter, AcceptConn(a) \/ AcceptFails(a) PROVE TypeOK'
  BY <1>7 DEF AcceptConn, AcceptFails
<1>8. CASE UNCHANGED vars
  BY <1>8 DEF vars
<1> QED
  BY <1>1, <1>2, <1>3, <1>4, <1>5, <1>6, <1>7, <1>8 DEF Next

\* Every state is well typed: an Accept that goes on has a listener, and the
\* address is a run's, empty, or a dead daemon's.
THEOREM Typing == Spec => []TypeOK
<1>1. Init => TypeOK
  BY ConstantsAssumption DEF Init, TypeOK
<1> QED
  BY <1>1, TypeStep, PTL DEF Spec

-----------------------------------------------------------------------------
(* Whose listener is open, and what is at the address. *)

\* The run in the field of an instance is its own and open, and no other is
\* open; a client reaches it unless another instance used the socket path.
AddressInv ==
    /\ \A i \in Inst : listener[i] # NoRun => by[listener[i]] = i /\ ln[listener[i]] = "open"
    /\ OneListener
    /\ Reachable

\* A step that leaves the listeners and the address alone.
LEMMA AddressFrame ==
  ASSUME AddressInv, UNCHANGED <<platform, listener, by, ln, address>> PROVE AddressInv'
BY Zenon DEF AddressInv, OneListener, Reachable, Undisturbed

\* The body of Stop takes out one run, and its address.
LEMMA StopAddress ==
  ASSUME TypeOK, AddressInv, NEW i \in Inst, NEW who, StopBody(i, who), UNCHANGED <<platform, by>>
  PROVE  AddressInv'
<1>1. CASE listener[i] = NoRun
  BY <1>1, AddressFrame DEF StopBody, Stop, StopPipe
<1>2. CASE listener[i] # NoRun
  <2>1. /\ listener[i] \in Run /\ by[listener[i]] = i
        /\ listener' = [listener EXCEPT ![i] = NoRun]
        /\ ln' = [ln EXCEPT ![listener[i]] = "closed"]
        /\ address' = NoRun \/ (platform # "unix" /\ address' = address /\ address # listener[i])
    BY <1>2 DEF TypeOK, AddressInv, StopBody, Stop, StopPipe
  <2>2. \A j \in Inst : listener'[j] # NoRun =>
           j # i /\ listener'[j] = listener[j] /\ listener[j] # listener[i]
    BY <2>1 DEF TypeOK, AddressInv
  <2>3. \A j \in Inst : listener'[j] # NoRun => by'[listener'[j]] = j /\ ln'[listener'[j]] = "open"
    BY <2>1, <2>2 DEF TypeOK, AddressInv
  <2>4. OneListener'
    BY <2>1, ConstantsAssumption DEF TypeOK, AddressInv, OneListener
  <2>5. ASSUME NEW j \in Inst, listener'[j] # NoRun, Undisturbed(j)' PROVE address' = listener'[j]
    <3>1. CASE platform = "unix"
      <4>1. by'[listener[i]] = j
        BY <2>1, <2>5, <3>1 DEF Undisturbed, TypeOK
      <4> QED
        BY <4>1, <2>1, <2>2, <2>5
    <3>2. CASE platform # "unix"
      <4>1. address = listener[j] /\ address = listener[i]
        BY <1>2, <2>2, <2>5, <3>2 DEF AddressInv, Reachable, Undisturbed
      <4> QED
        BY <4>1, <2>2, <2>5
    <3> QED
      BY <3>1, <3>2
  <2> QED
    BY <2>3, <2>4, <2>5 DEF AddressInv, Reachable
<1> QED
  BY <1>1, <1>2

\* A step keeps the listeners and the address in agreement.
LEMMA AddressStep == ASSUME TypeOK, AddressInv, [Next]_vars PROVE AddressInv'
<1>1. ASSUME NEW i \in Inst, NEW r \in Run, Start(i, r) \/ StartPipe(i, r) PROVE AddressInv'
  <2>1. /\ listener[i] = NoRun /\ ln[r] = "none" /\ address' = r /\ platform' = platform
        /\ listener' = [listener EXCEPT ![i] = r]
        /\ by' = [by EXCEPT ![r] = i]
        /\ ln' = [ln EXCEPT ![r] = "open"]
        /\ platform = "unix" \/ address = NoRun
    BY <1>1 DEF Start, StartPipe, Listen
  <2>2. \A j \in Inst : listener[j] # r
    BY <2>1, ConstantsAssumption DEF AddressInv
  <2>3. \A j \in Inst : listener'[j] # NoRun => by'[listener'[j]] = j /\ ln'[listener'[j]] = "open"
    BY <2>1, <2>2 DEF TypeOK, AddressInv
  <2>4. OneListener'
    <3>1. ASSUME NEW q \in Run, q # r
          PROVE  ln'[q] = "open" <=> listener'[by'[q]] = q
      <4>1. ln'[q] = ln[q] /\ by'[q] = by[q] /\ by[q] \in Inst
        BY <2>1, <3>1 DEF TypeOK
      <4>2. listener'[by[q]] = q <=> listener[by[q]] = q
        BY <2>1, <3>1, <4>1, ConstantsAssumption DEF TypeOK
      <4> QED
        BY <4>1, <4>2 DEF AddressInv, OneListener
    <3>2. ln'[r] = "open" /\ listener'[by'[r]] = r
      BY <2>1 DEF TypeOK
    <3> QED
      BY <3>1, <3>2 DEF OneListener
  <2>5. ASSUME NEW j \in Inst, listener'[j] # NoRun, Undisturbed(j)' PROVE address' = listener'[j]
    <3>1. CASE j = i
      BY <2>1, <3>1 DEF TypeOK
    <3>2. CASE j # i /\ platform = "unix"
      <4>1. by'[r] = i /\ ln'[r] # "none"
        BY <2>1 DEF TypeOK
      <4> QED
        BY <4>1, <2>1, <2>5, <3>2 DEF Undisturbed
    <3>3. CASE j # i /\ platform # "unix"
      <4>1. address = listener[j] /\ listener[j] # NoRun
        BY <2>1, <2>5, <3>3 DEF AddressInv, Reachable, Undisturbed, TypeOK
      <4> QED
        BY <4>1, <2>1, <3>3
    <3> QED
      BY <3>1, <3>2, <3>3
  <2> QED
    BY <2>3, <2>4, <2>5 DEF AddressInv, Reachable
<1>2. ASSUME NEW i \in Inst, StopCall(i) PROVE AddressInv'
  BY <1>2, StopAddress DEF StopCall
<1>3. ASSUME NEW i \in Inst, Crash(i) PROVE AddressInv'
  <2>1. /\ listener[i] \in Run /\ listener[i] # NoRun /\ by[listener[i]] = i
        /\ listener' = [listener EXCEPT ![i] = NoRun]
        /\ ln' = [ln EXCEPT ![listener[i]] = "closed"]
        /\ UNCHANGED <<platform, by>>
    BY <1>3 DEF Crash, TypeOK, AddressInv
  <2>2. address # listener[i] => address' = address
    BY <1>3 DEF Crash
  <2>3. \A j \in Inst : listener'[j] # NoRun =>
           j # i /\ listener'[j] = listener[j] /\ listener[j] # listener[i]
    BY <2>1 DEF TypeOK, AddressInv
  <2>4. \A j \in Inst : listener'[j] # NoRun => by'[listener'[j]] = j /\ ln'[listener'[j]] = "open"
    BY <2>1, <2>3 DEF TypeOK, AddressInv
  <2>5. OneListener'
    BY <2>1, ConstantsAssumption DEF TypeOK, AddressInv, OneListener
  <2>6. ASSUME NEW j \in Inst, listener'[j] # NoRun, Undisturbed(j)' PROVE address' = listener'[j]
    <3>1. \A r \in Run : ln[r] # "none" => ln'[r] # "none"
      BY <2>1 DEF TypeOK
    <3>2. Undisturbed(j)
      BY <2>1, <2>6, <3>1 DEF Undisturbed
    <3> QED
      BY <2>2, <2>3, <2>6, <3>2 DEF AddressInv, Reachable
  <2> QED
    BY <2>4, <2>5, <2>6 DEF AddressInv, Reachable
<1>4. ASSUME NEW r \in Run, Watcher(r) PROVE AddressInv'
  <2>1. StopBody(by[r], r) /\ UNCHANGED <<platform, by>> /\ by[r] \in Inst
    BY <1>4 DEF Watcher, TypeOK
  <2> QED
    BY <2>1, StopAddress
<1>5. ASSUME NEW r \in Run, CancelContext(r) PROVE AddressInv'
  BY <1>5, AddressFrame DEF CancelContext
<1>6. ASSUME NEW a \in Accepter, NEW i \in Inst, Accept(a, i) PROVE AddressInv'
  BY <1>6, AddressFrame DEF Accept
<1>7. ASSUME NEW a \in Accepter, AcceptConn(a) \/ AcceptFails(a) PROVE AddressInv'
  BY <1>7, AddressFrame DEF AcceptConn, AcceptFails
<1>8. CASE UNCHANGED vars
  BY <1>8, AddressFrame DEF vars
<1> QED
  BY <1>1, <1>2, <1>3, <1>4, <1>5, <1>6, <1>7, <1>8, Zenon DEF Next

\* The inductive invariant holds in every state.
LEMMA Addresses == Spec => []AddressInv
<1>1. Init => AddressInv
  BY ConstantsAssumption DEF Init, AddressInv, OneListener, Reachable, Undisturbed
<1> QED
  BY <1>1, AddressStep, Typing, PTL DEF Spec

\* Through any restarts, crashes and late watchers of any number of instances,
\* the net.Listener that is open is the one in the field of its instance.
THEOREM ListenerOwned == Spec => []OneListener
<1>1. AddressInv => OneListener
  BY DEF AddressInv
<1> QED
  BY <1>1, Addresses, PTL

\* A started listener is what clients reach, unless another instance used the
\* same socket path; on Windows always.
THEOREM ListenerReached == Spec => []Reachable
<1>1. AddressInv => Reachable
  BY DEF AddressInv
<1> QED
  BY <1>1, Addresses, PTL

-----------------------------------------------------------------------------
(* Watchers: what CancelUnblocksAccept rests on. *)

\* Whoever waits in Accept can be woken by a cancelled context: a run that is
\* open has its watcher, which ends only when the net.Listener of its own run is
\* closed, and an Accept waits on a run that was started.
CancelHeard ==
    /\ \A r \in Run : ln[r] = "open" => watcher[r] = "waiting"
    /\ \A r \in Run : watcher[r] = "done" => ln[r] = "closed"
    /\ \A a \in Accepter : accept[a] \in Run => ln[accept[a]] # "none"

\* CancelHeard, and that a run and its watcher start together.
WatchInv == CancelHeard /\ \A r \in Run : ln[r] = "none" <=> watcher[r] = "unborn"

\* The body of Stop closes the run of the instance, and no other.
LEMMA StopCloses ==
  ASSUME TypeOK, AddressInv, NEW i \in Inst, NEW who, StopBody(i, who)
  PROVE  /\ ln' \in [Run -> {"none", "open", "closed"}]
         /\ \A r \in Run : ln'[r] = "none" <=> ln[r] = "none"
         /\ \A r \in Run : ln[r] = "closed" => ln'[r] = "closed"
         /\ \A r \in Run : ln'[r] = "open" => ln[r] = "open" /\ by[r] # i
<1>1. CASE listener[i] = NoRun
  <2>1. ln' = ln
    BY <1>1 DEF StopBody, Stop, StopPipe
  <2> QED
    BY <1>1, <2>1, ConstantsAssumption DEF TypeOK, AddressInv, OneListener
<1>2. CASE listener[i] # NoRun
  <2>1. /\ ln' = [ln EXCEPT ![listener[i]] = "closed"]
        /\ listener[i] \in Run /\ ln[listener[i]] = "open"
    BY <1>2 DEF StopBody, Stop, StopPipe, TypeOK, AddressInv
  <2> QED
    BY <2>1 DEF TypeOK, AddressInv, OneListener
<1> QED
  BY <1>1, <1>2

\* A step keeps every open run watched.
LEMMA WatchStep == ASSUME TypeOK, AddressInv, WatchInv, [Next]_vars PROVE WatchInv'
<1>1. ASSUME NEW i \in Inst, NEW r \in Run, Start(i, r) \/ StartPipe(i, r) PROVE WatchInv'
  <2>1. /\ ln[r] = "none" /\ ln' = [ln EXCEPT ![r] = "open"]
        /\ watcher' = [watcher EXCEPT ![r] = "waiting"] /\ accept' = accept
    BY <1>1 DEF Start, StartPipe, Listen
  <2> QED
    BY <2>1 DEF TypeOK, WatchInv, CancelHeard
<1>2. ASSUME NEW i \in Inst, StopCall(i) PROVE WatchInv'
  <2>1. StopBody(i, "caller") /\ UNCHANGED <<watcher, accept>>
    BY <1>2 DEF StopCall
  <2> QED
    BY <2>1, StopCloses DEF WatchInv, CancelHeard
<1>3. ASSUME NEW i \in Inst, Crash(i) PROVE WatchInv'
  <2>1. /\ listener[i] \in Run /\ ln[listener[i]] = "open"
        /\ ln' = [ln EXCEPT ![listener[i]] = "closed"]
        /\ watcher' = [q \in Run |-> IF by[q] = i /\ ln[q] # "none" THEN "done" ELSE watcher[q]]
    BY <1>3 DEF Crash, TypeOK, AddressInv
  <2>2. \A r \in Run : by[r] = i /\ ln[r] # "none" => ln'[r] = "closed"
    BY <2>1 DEF TypeOK, AddressInv, OneListener
  <2>3. by[listener[i]] = i
    BY <1>3 DEF Crash, AddressInv
  <2>4. /\ \A r \in Run : ln'[r] = "open" => watcher'[r] = "waiting"
        /\ \A r \in Run : watcher'[r] = "done" => ln'[r] = "closed"
        /\ \A r \in Run : ln'[r] = "none" <=> watcher'[r] = "unborn"
    BY <2>1, <2>2, <2>3 DEF TypeOK, WatchInv, CancelHeard
  <2>5. ASSUME NEW a \in Accepter, accept'[a] \in Run PROVE ln'[accept'[a]] # "none"
    <3>1. accept'[a] = accept[a] \/ accept'[a] = "refused"
      BY <1>3 DEF Crash
    <3>2. accept[a] \in Run /\ accept'[a] = accept[a]
      BY <2>5, <3>1, ConstantsAssumption
    <3> QED
      BY <2>1, <3>2 DEF WatchInv, CancelHeard, TypeOK
  <2> QED
    BY <2>4, <2>5 DEF WatchInv, CancelHeard
<1>4. ASSUME NEW r \in Run, Watcher(r) PROVE WatchInv'
  <2>1. /\ StopBody(by[r], r) /\ by[r] \in Inst /\ accept' = accept
        /\ watcher[r] = "waiting" /\ watcher' = [watcher EXCEPT ![r] = "done"]
    BY <1>4 DEF Watcher, TypeOK
  <2>2. /\ ln' \in [Run -> {"none", "open", "closed"}]
        /\ \A q \in Run : ln'[q] = "none" <=> ln[q] = "none"
        /\ \A q \in Run : ln[q] = "closed" => ln'[q] = "closed"
        /\ \A q \in Run : ln'[q] = "open" => ln[q] = "open" /\ by[q] # by[r]
    BY <2>1, StopCloses
  <2>3. ln'[r] = "closed"
    BY <2>1, <2>2 DEF WatchInv
  <2>4. ASSUME NEW q \in Run
        PROVE  /\ ln'[q] = "open" => watcher'[q] = "waiting"
               /\ watcher'[q] = "done" => ln'[q] = "closed"
               /\ ln'[q] = "none" <=> watcher'[q] = "unborn"
    <3>1. CASE q = r
      BY <2>1, <2>3, <3>1 DEF TypeOK
    <3>2. CASE q # r
      <4>1. watcher'[q] = watcher[q]
        BY <2>1, <3>2 DEF TypeOK
      <4> QED
        BY <2>2, <4>1, Zenon DEF WatchInv, CancelHeard
    <3> QED
      BY <3>1, <3>2
  <2>5. \A a \in Accepter : accept'[a] \in Run => ln'[accept'[a]] # "none"
    BY <2>1, <2>2, Zenon DEF WatchInv, CancelHeard
  <2> QED
    BY <2>4, <2>5, Zenon DEF WatchInv, CancelHeard
<1>5. ASSUME NEW a \in Accepter, NEW i \in Inst, Accept(a, i) PROVE WatchInv'
  <2>1. /\ UNCHANGED <<ln, watcher>>
        /\ accept' = [accept EXCEPT ![a] =
                        IF closed[i] \/ listener[i] = NoRun THEN "refused" ELSE listener[i]]
    BY <1>5 DEF Accept
  <2>2. listener[i] # NoRun => ln[listener[i]] = "open"
    BY DEF AddressInv
  <2> QED
    BY <2>1, <2>2, ConstantsAssumption DEF WatchInv, CancelHeard, TypeOK
<1>6. ASSUME NEW a \in Accepter, AcceptConn(a) \/ AcceptFails(a) PROVE WatchInv'
  <2>1. /\ UNCHANGED <<ln, watcher>>
        /\ \E x \in {"conn", "refused"} : accept' = [accept EXCEPT ![a] = x]
    BY <1>6 DEF AcceptConn, AcceptFails
  <2> QED
    BY <2>1, ConstantsAssumption DEF WatchInv, CancelHeard, TypeOK
<1>7. ASSUME (\E r \in Run : CancelContext(r)) \/ UNCHANGED vars PROVE WatchInv'
  <2>1. UNCHANGED <<ln, watcher, accept>>
    BY <1>7 DEF CancelContext, vars
  <2> QED
    BY <2>1 DEF WatchInv, CancelHeard
<1> QED
  BY <1>1, <1>2, <1>3, <1>4, <1>5, <1>6, <1>7, Zenon DEF Next

\* Through restarts, crashes and late watchers of any number of instances, no
\* open net.Listener is without the watcher that a cancelled context wakes.
THEOREM CancelReaches == Spec => []CancelHeard
<1>1. Init => WatchInv
  BY ConstantsAssumption DEF Init, WatchInv, CancelHeard
<1>2. WatchInv => CancelHeard
  BY DEF WatchInv
<1> QED
  BY <1>1, <1>2, WatchStep, Typing, Addresses, PTL DEF Spec
=============================================================================
