------------------------- MODULE MCVClientSession -------------------------
(***************************************************************************)
(* VClientSession on one session, synchronous or asynchronous, with limits *)
(* of one message so that every queue fills.  The configurations differ in *)
(* how many messages there are and in whether the listener is stopped.     *)
(***************************************************************************)
EXTENDS VClientSession, TLC

CONSTANT s1
=============================================================================
