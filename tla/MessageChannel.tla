-------------------------- MODULE MessageChannel --------------------------
(***************************************************************************)
(* What vmessagequeue.h promises of a VMessageQueue ("a thread-safe FIFO   *)
(* queue of messages"), with no threads, locks or semaphores: messages     *)
(* enter at the back, leave at the front, each at most once, and a message *)
(* that leaves is either taken by a caller or released unread.             *)
(***************************************************************************)
EXTENDS Naturals, Sequences

CONSTANT Messages       \* the message objects that can be posted

VARIABLES
    chan,               \* the messages in the queue, front first
    entered,            \* the messages that have been posted so far
    taken               \* the messages handed to a caller, in that order

cvars == <<chan, entered, taken>>

Init ==
    /\ chan = <<>>
    /\ entered = {}
    /\ taken = <<>>

\* A message the queue has not yet seen goes to the back.
Post(m) ==
    /\ m \notin entered
    /\ chan' = Append(chan, m)
    /\ entered' = entered \cup {m}
    /\ UNCHANGED taken

\* The front message is handed to a caller.
Take ==
    /\ chan # <<>>
    /\ chan' = Tail(chan)
    /\ taken' = Append(taken, Head(chan))
    /\ UNCHANGED entered

\* The front message is released without being handed to anybody.
Discard ==
    /\ chan # <<>>
    /\ chan' = Tail(chan)
    /\ UNCHANGED <<entered, taken>>

Next == (\E m \in Messages : Post(m)) \/ Take \/ Discard

Spec == Init /\ [][Next]_cvars
===========================================================================
