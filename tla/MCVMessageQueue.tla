-------------------------- MODULE MCVMessageQueue --------------------------
(***************************************************************************)
(* VMessageQueue on two callers, two consumers and two messages of         *)
(* different length: enough for a signal lost between getNextMessage() and *)
(* the wait, for a release that races a consumer, and for a byte total     *)
(* that can go wrong in either direction.                                  *)
(***************************************************************************)
EXTENDS VMessageQueue, TLC

CONSTANTS m1, m2

MCDataLength == (m1 :> 1 @@ m2 :> 2)
=============================================================================
