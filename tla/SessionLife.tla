---------------------------- MODULE SessionLife ----------------------------
(***************************************************************************)
(* What IIpcSessionManager (interfaces/ipc.go) promises its users about a  *)
(* connection, without goroutines, locks, tables and channels: it is       *)
(* registered once, leaves once, either alone or when the manager closes,  *)
(* its user is told at most once, at the very end, and it is given packets *)
(* only between its registration and that end.                             *)
(***************************************************************************)
EXTENDS Naturals, Sequences

CONSTANTS Session, Packet

VARIABLES
    stage,  \* where a connection is in its life
    told,   \* number of onClose calls
    inbox   \* the packets accepted for the connection, in order

vars == <<stage, told, inbox>>

Init ==
    /\ stage = [s \in Session |-> "fresh"]
    /\ told = [s \in Session |-> 0]
    /\ inbox = [s \in Session |-> <<>>]

\* RegisterSession tracks a new connection.
Register(s) ==
    /\ stage[s] = "fresh"
    /\ stage' = [stage EXCEPT ![s] = "listed"]
    /\ UNCHANGED <<told, inbox>>

\* SendToLocal accepts a packet: one caller may still hold a session that left.
Deliver(s, p) ==
    /\ stage[s] \in {"listed", "leaving", "swept"}
    /\ inbox' = [inbox EXCEPT ![s] = Append(@, p)]
    /\ UNCHANGED <<stage, told>>

\* UnregisterSession removes the session.
Leave(s) ==
    /\ stage[s] = "listed"
    /\ stage' = [stage EXCEPT ![s] = "leaving"]
    /\ UNCHANGED <<told, inbox>>

\* Its connection is closed, and its user may be told.
Finish(s) ==
    /\ stage[s] = "leaving"
    /\ stage' = [stage EXCEPT ![s] = "gone"]
    /\ \E n \in {0, 1} : told' = [told EXCEPT ![s] = @ + n]
    /\ UNCHANGED inbox

\* Close takes all sessions out at once and tells nobody.
Sweep ==
    /\ stage' = [s \in Session |-> IF stage[s] = "listed" THEN "swept" ELSE stage[s]]
    /\ UNCHANGED <<told, inbox>>

Next ==
    \/ \E s \in Session : Register(s) \/ Leave(s) \/ Finish(s)
    \/ \E s \in Session, p \in Packet : Deliver(s, p)
    \/ Sweep

Spec == Init /\ [][Next]_vars
=============================================================================
