---------------- MODULE MCVSocketConnectionStrategyThreaded ----------------
(***************************************************************************)
(* Three addresses tried two at a time: a race between two workers, and an *)
(* address left over for a worker that takes the place of another.         *)
(***************************************************************************)
EXTENDS VSocketConnectionStrategyThreaded, TLC
=============================================================================
