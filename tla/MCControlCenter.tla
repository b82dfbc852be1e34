--------------------------- MODULE MCControlCenter ---------------------------
(* TLC instance of ControlCenter. *)
EXTENDS ControlCenter, MCSessionManager

\* A call of each handler, answered without and with a payload, and an opcode
\* nobody registered.  Calls that succeed have the same two forms of answer.
RouteShort == [op |-> OpcodeEgressRoute, len |-> 5, first |-> 4, second |-> 0]
InviteV1 == [op |-> OpcodeGetInviteKey, len |-> 4, first |-> 0, second |-> 1]
NoSuch == [op |-> 34952, len |-> 0, first |-> 0, second |-> 0]

Requests == {RouteShort, InviteV1, NoSuch}
=============================================================================
