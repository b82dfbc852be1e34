---------------------------- MODULE MCDiscoverer ----------------------------
(* TLC instances of Discoverer. *)
EXTENDS Discoverer, TLC
=============================================================================
