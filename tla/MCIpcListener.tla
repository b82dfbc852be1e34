---------------------------- MODULE MCIpcListener ----------------------------
(* TLC instances of IpcListener. *)
EXTENDS IpcListener, TLC
=============================================================================
