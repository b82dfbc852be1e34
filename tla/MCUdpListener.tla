---------------------------- MODULE MCUdpListener ----------------------------
(* TLC instances of UdpListener. *)
EXTENDS UdpListener, TLC

Symmetry == Permutations(Run) \cup Permutations(Stopper) \cup Permutations(Subscriber)
               \cup Permutations(Packet)
=============================================================================
