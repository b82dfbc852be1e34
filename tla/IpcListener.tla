----------------------------- MODULE IpcListener -----------------------------
(***************************************************************************)
(* The IPC listeners (ipc/listener_unix.go, ipc/listener_windows.go).      *)
(*                                                                         *)
(* An instance is one listener object, of this daemon or of another one    *)
(* with the same address.  A run is one successful Start of an instance:   *)
(* it has its own net.Listener, its own context and its own watcher, the   *)
(* goroutine that waits for the context and then calls Stop.  Start and    *)
(* Stop hold l.mu from beginning to end, so each of them is one step.      *)
(***************************************************************************)
EXTENDS FiniteSets

CONSTANTS
    Inst,      \* the listener objects with this address
    Run,       \* the calls of Start that get as far as listening
    Accepter,  \* the calls of Accept
    NoRun,     \* a nil l.listener; no run of these instances is at the address
    Stale,     \* the socket file of a daemon that died
    Platform   \* the platforms considered, of "unix" and "windows"

ASSUME ConstantsAssumption ==
    /\ NoRun \notin Run
    /\ Stale \notin Run
    /\ Stale # NoRun
    /\ Run \cap {"idle", "conn", "refused"} = {}
    /\ Inst # {}
    /\ Platform \subseteq {"unix", "windows"}

VARIABLES
    platform,   \* the one the program was built for
    listener,   \* l.listener of an instance
    closed,     \* l.closed of an instance
    by,         \* the instance a run belongs to
    ln,         \* the net.Listener of a run
    ctxDone,    \* the context given to Start is done
    watcher,    \* the watcher of a run
    address,    \* what a client that dials the address reaches
    accept,     \* a call of Accept: the net.Listener it uses, then its result
    stoppedBy   \* history: who stopped a run, a caller or the watcher of a run

vars == <<platform, listener, closed, by, ln, ctxDone, watcher, address, accept, stoppedBy>>

Init ==
    /\ platform \in Platform
    /\ listener = [i \in Inst |-> NoRun]
    /\ closed = [i \in Inst |-> FALSE]
    /\ by = [r \in Run |-> CHOOSE i \in Inst : TRUE]
    /\ ln = [r \in Run |-> "none"]
    /\ ctxDone = [r \in Run |-> FALSE]
    /\ watcher = [r \in Run |-> "unborn"]
    /\ address \in IF platform = "unix" THEN {NoRun, Stale} ELSE {NoRun}
    /\ accept = [a \in Accepter |-> "idle"]
    /\ stoppedBy = [r \in Run |-> NoRun]

-----------------------------------------------------------------------------
Listen(i, r) ==
    /\ listener[i] = NoRun
    /\ ln[r] = "none"
    /\ listener' = [listener EXCEPT ![i] = r]
    /\ closed' = [closed EXCEPT ![i] = FALSE]
    /\ by' = [by EXCEPT ![r] = i]
    /\ ln' = [ln EXCEPT ![r] = "open"]
    /\ address' = r
    /\ UNCHANGED <<platform, ctxDone, accept, stoppedBy>>

\* Mutant: a listener that was stopped before is started without a watcher.
StartNoWatcher(i, r) ==
    /\ platform = "unix"
    /\ Listen(i, r)
    /\ watcher' = [watcher EXCEPT ![r] = IF closed[i] THEN "done" ELSE "waiting"]

\* The file at the path is removed, whoever it belongs to, and made anew.
Start(i, r) ==
    /\ platform = "unix"
    /\ Listen(i, r)
    /\ watcher' = [watcher EXCEPT ![r] = "waiting"]

\* Mutant: the pipe need not be the first of its name.
StartPipeShared(i, r) ==
    /\ platform = "windows"
    /\ Listen(i, r)
    /\ watcher' = [watcher EXCEPT ![r] = "waiting"]

\* The first instance of a named pipe: ListenPipe fails if there is one.
StartPipe(i, r) ==
    /\ platform = "windows"
    /\ address = NoRun
    /\ Listen(i, r)
    /\ watcher' = [watcher EXCEPT ![r] = "waiting"]

\* Mutant: Stop does not reset l.listener.
StopKeepsListener(i, who) ==
    IF listener[i] = NoRun
    THEN UNCHANGED <<listener, closed, ln, address, stoppedBy>>
    ELSE /\ closed' = [closed EXCEPT ![i] = TRUE]
         /\ ln' = [ln EXCEPT ![listener[i]] = "closed"]
         /\ address' = NoRun
         /\ stoppedBy' = [stoppedBy EXCEPT ![listener[i]] = who]
         /\ UNCHANGED listener

\* The body of Stop, for whoever calls it.  A net.Listener of Go removes its
\* socket file when it is closed; the code removes what is at the path then.
Stop(i, who) ==
    IF listener[i] = NoRun
    THEN UNCHANGED <<listener, closed, ln, address, stoppedBy>>
    ELSE /\ closed' = [closed EXCEPT ![i] = TRUE]
         /\ ln' = [ln EXCEPT ![listener[i]] = "closed"]
         /\ listener' = [listener EXCEPT ![i] = NoRun]
         /\ address' = NoRun
         /\ stoppedBy' = [stoppedBy EXCEPT ![listener[i]] = who]

\* The body of Stop on Windows: the pipe ends with its listener.
StopPipe(i, who) ==
    IF listener[i] = NoRun
    THEN UNCHANGED <<listener, closed, ln, address, stoppedBy>>
    ELSE /\ closed' = [closed EXCEPT ![i] = TRUE]
         /\ ln' = [ln EXCEPT ![listener[i]] = "closed"]
         /\ listener' = [listener EXCEPT ![i] = NoRun]
         /\ address' = IF address = listener[i] THEN NoRun ELSE address
         /\ stoppedBy' = [stoppedBy EXCEPT ![listener[i]] = who]

StopBody(i, who) == IF platform = "unix" THEN Stop(i, who) ELSE StopPipe(i, who)

StopCall(i) ==
    /\ listener[i] # NoRun
    /\ StopBody(i, "caller")
    /\ UNCHANGED <<platform, by, ctxDone, watcher, accept>>

\* The caller cancels the context it gave to Start.
CancelContext(r) ==
    /\ ln[r] # "none"
    /\ ctxDone' = [ctxDone EXCEPT ![r] = TRUE]
    /\ UNCHANGED <<platform, listener, closed, by, ln, watcher, address, accept, stoppedBy>>

Watcher(r) ==
    /\ watcher[r] = "waiting"
    /\ ctxDone[r]
    /\ watcher' = [watcher EXCEPT ![r] = "done"]
    /\ StopBody(by[r], r)
    /\ UNCHANGED <<platform, by, ctxDone, accept>>

\* The daemon that owns the instance dies and another one takes its place.  A
\* socket file stays behind; a pipe does not.
Crash(i) ==
    LET r == listener[i] IN
    /\ r # NoRun
    /\ listener' = [listener EXCEPT ![i] = NoRun]
    /\ closed' = [closed EXCEPT ![i] = FALSE]
    /\ ln' = [ln EXCEPT ![r] = "closed"]
    /\ address' = IF address # r THEN address
                  ELSE IF platform = "unix" THEN Stale ELSE NoRun
    /\ watcher' = [q \in Run |-> IF by[q] = i /\ ln[q] # "none" THEN "done" ELSE watcher[q]]
    /\ accept' = [a \in Accepter |->
                    IF accept[a] \in Run /\ by[accept[a]] = i THEN "refused" ELSE accept[a]]
    /\ stoppedBy' = [stoppedBy EXCEPT ![r] = "crash"]
    /\ UNCHANGED <<platform, by, ctxDone>>

-----------------------------------------------------------------------------
(* Accept: the net.Listener is picked under the lock and used after it. *)

\* Mutant: Accept does not look whether there is a listener.
AcceptUnchecked(a, i) ==
    /\ accept[a] = "idle"
    /\ accept' = [accept EXCEPT ![a] = listener[i]]
    /\ UNCHANGED <<platform, listener, closed, by, ln, ctxDone, watcher, address, stoppedBy>>

Accept(a, i) ==
    /\ accept[a] = "idle"
    /\ accept' = [accept EXCEPT ![a] =
                    IF closed[i] \/ listener[i] = NoRun THEN "refused" ELSE listener[i]]
    /\ UNCHANGED <<platform, listener, closed, by, ln, ctxDone, watcher, address, stoppedBy>>

\* A client has dialled the address and the call returns its connection.
AcceptConn(a) ==
    /\ accept[a] \in Run
    /\ ln[accept[a]] = "open"
    /\ accept' = [accept EXCEPT ![a] = "conn"]
    /\ UNCHANGED <<platform, listener, closed, by, ln, ctxDone, watcher, address, stoppedBy>>

AcceptFails(a) ==
    /\ accept[a] \in Run
    /\ ln[accept[a]] = "closed"
    /\ accept' = [accept EXCEPT ![a] = "refused"]
    /\ UNCHANGED <<platform, listener, closed, by, ln, ctxDone, watcher, address, stoppedBy>>

Next ==
    \/ \E i \in Inst, r \in Run : Start(i, r) \/ StartPipe(i, r)
    \/ \E i \in Inst : StopCall(i) \/ Crash(i)
    \/ \E r \in Run : CancelContext(r) \/ Watcher(r)
    \/ \E a \in Accepter :
          (\E i \in Inst : Accept(a, i)) \/ AcceptConn(a) \/ AcceptFails(a)

Spec == Init /\ [][Next]_vars

\* Watchers run once their context is done, and a closed net.Listener fails
\* the calls that wait on it.  Clients need not come.
Fairness ==
    /\ \A r \in Run : WF_vars(Watcher(r))
    /\ \A a \in Accepter : WF_vars(AcceptFails(a))

FairSpec == Spec /\ Fairness

-----------------------------------------------------------------------------
(* Properties. *)

\* The types of the variables; an Accept that goes on has a listener.
TypeOK ==
    /\ platform \in Platform
    /\ listener \in [Inst -> Run \cup {NoRun}]
    /\ closed \in [Inst -> BOOLEAN]
    /\ by \in [Run -> Inst]
    /\ ln \in [Run -> {"none", "open", "closed"}]
    /\ ctxDone \in [Run -> BOOLEAN]
    /\ watcher \in [Run -> {"unborn", "waiting", "done"}]
    /\ address \in Run \cup {NoRun, Stale}
    /\ accept \in [Accepter -> Run \cup {"idle", "conn", "refused"}]
    /\ stoppedBy \in [Run -> Run \cup {NoRun, "caller", "crash"}]

\* The net.Listener that is open is the one in the field, through restarts,
\* crashes and watchers that come late: none is leaked, none is closed twice.
OneListener == \A r \in Run : ln[r] = "open" <=> listener[by[r]] = r

\* No other instance has used the socket path of instance i.  The name of a
\* pipe may be used by others: they are refused while i has it.
Undisturbed(i) == platform = "unix" => \A r \in Run : ln[r] # "none" => by[r] = i

\* A client that dials the address reaches a listener whenever one is started:
\* no Stop, late watcher, crash or leftover socket file cuts it off.  On Unix
\* only another instance at the same path can, which Start lets take it over.
Reachable ==
    \A i \in Inst : listener[i] # NoRun /\ Undisturbed(i) => address = listener[i]

\* Cancelling the context that was given to Start ends that run, and with it
\* the Accept that waits on it, also for a listener that was started again.
CancelUnblocksAccept ==
    \A r \in Run, a \in Accepter :
       ctxDone[r] /\ accept[a] = r ~> ln[r] = "closed" /\ accept[a] # r

\* What the comment in Start says of the context it is given: "Handle context
\* cancellation to stop the listener."  A run is stopped by its own context.
OwnCancelOnly == \A r \in Run : stoppedBy[r] \in Run => stoppedBy[r] = r
=============================================================================
