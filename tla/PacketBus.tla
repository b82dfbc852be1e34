------------------------------ MODULE PacketBus ------------------------------
(***************************************************************************)
(* What the subscription methods of IUdpPortListener promise               *)
(* (interfaces/udp_port_listener.go): a datagram is offered once, to       *)
(* exactly those who are subscribed at that moment, and every offer ends   *)
(* in one delivery to the subscriber's channel or is dropped.  Nothing is  *)
(* said of sockets, of loops and of when the listener runs.                *)
(***************************************************************************)
EXTENDS Sequences

CONSTANTS Subscriber, Packet

VARIABLES
    member,  \* "no", "yes" or, once unsubscribed, "left"
    fresh,   \* the datagrams not offered yet
    offers,  \* who is still to decide on which datagram
    got      \* what went into the channels

vars == <<member, fresh, offers, got>>

Init ==
    /\ member = [s \in Subscriber |-> "no"]
    /\ fresh = Packet
    /\ offers = {}
    /\ got = [s \in Subscriber |-> <<>>]

Subscribe(s) ==
    /\ member[s] = "no"
    /\ member' = [member EXCEPT ![s] = "yes"]
    /\ UNCHANGED <<fresh, offers, got>>

Unsubscribe(s) ==
    /\ member[s] = "yes"
    /\ member' = [member EXCEPT ![s] = "left"]
    /\ UNCHANGED <<fresh, offers, got>>

Offer(p) ==
    /\ p \in fresh
    /\ fresh' = fresh \ {p}
    /\ offers' = offers \cup {<<s, p>> : s \in {x \in Subscriber : member[x] = "yes"}}
    /\ UNCHANGED <<member, got>>

\* The callback returned true and the channel had room.
Deliver(s, p) ==
    /\ <<s, p>> \in offers
    /\ offers' = offers \ {<<s, p>>}
    /\ got' = [got EXCEPT ![s] = Append(@, p)]
    /\ UNCHANGED <<member, fresh>>

\* The callback returned false, or the channel was full.
Drop(s, p) ==
    /\ <<s, p>> \in offers
    /\ offers' = offers \ {<<s, p>>}
    /\ UNCHANGED <<member, fresh, got>>

Next ==
    \/ \E s \in Subscriber : Subscribe(s) \/ Unsubscribe(s)
    \/ \E p \in Packet : Offer(p)
    \/ \E s \in Subscriber, p \in Packet : Deliver(s, p) \/ Drop(s, p)

Spec == Init /\ [][Next]_vars
=============================================================================
