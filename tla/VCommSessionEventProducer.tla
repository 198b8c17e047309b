-------------------- MODULE VCommSessionEventProducer --------------------
(***************************************************************************)
(* The subscribers of an event producer                                    *)
(* (source/sockets/vcommsessioneventproducer.cpp).  A map by handler id    *)
(* holds weak pointers; raising an event copies those still alive with the *)
(* map's mutex held, and calls them without it, so that a handler may      *)
(* unsubscribe from inside its call.  The read and the closed events have  *)
(* a map each and the same code: the module models one map.                *)
(*                                                                         *)
(* The owners of the handlers subscribe them, unsubscribe them and drop    *)
(* them; the polling thread raises.  A handler that is being called is     *)
(* kept alive by the pointer that was locked for the call.                 *)
(***************************************************************************)
EXTENDS Naturals

CONSTANT HandlerIds         \* the ids, in the map's order

ASSUME HandlerConstants == HandlerIds \subseteq Nat \ {0}

VARIABLES
    eventHandlers,      \* the ids in the map
    alive,              \* the handlers some shared pointer owns
    handlersMutex,      \* TRUE while a thread holds it
    raising,            \* where the raising thread is: "idle", "calling", "inside" or "unsubscribing"
    toCall,             \* the copied weak pointers not yet called
    current,            \* the handler inside HandleEvent(), 0 for none
    called,             \* history: the handlers this raise has called
    faithful            \* history: those subscribed and alive since it began

raiseVars == <<handlersMutex, raising, toCall, current, called>>
handlerVars == <<eventHandlers, alive, raiseVars, faithful>>

HandlersInit ==
    /\ eventHandlers = {} /\ alive = HandlerIds
    /\ handlersMutex = FALSE
    /\ raising = "idle" /\ toCall = {} /\ current = 0
    /\ called = {} /\ faithful = {}

Subscribe(h) ==
    /\ h \in alive /\ ~ handlersMutex
    /\ eventHandlers' = eventHandlers \cup {h}
    /\ UNCHANGED <<alive, raiseVars, faithful>>

Unsubscribe(h) ==
    /\ h \in alive /\ ~ handlersMutex
    /\ eventHandlers' = eventHandlers \ {h}
    /\ faithful' = faithful \ {h}
    /\ UNCHANGED <<alive, raiseVars>>

\* Its last owner drops a handler, that may still be subscribed.
Expire(h) ==
    /\ h \in alive /\ h # current
    /\ alive' = alive \ {h}
    /\ faithful' = faithful \ {h}
    /\ UNCHANGED <<eventHandlers, raiseVars>>

\* variant: erase() is followed by the loop's own increment
SkipsAfterErase ==
    {h \in eventHandlers \cap alive :
        \A g \in eventHandlers \ alive :
            g < h => \E k \in eventHandlers : g < k /\ k < h}

\* What the copying loop collects: the expired entries are erased on the way.
StillAlive == eventHandlers \cap alive

RaiseBegins ==
    /\ raising = "idle" /\ ~ handlersMutex
    /\ toCall' = StillAlive
    /\ eventHandlers' = eventHandlers \cap alive
    /\ raising' = "calling"
    /\ called' = {}
    /\ faithful' = eventHandlers \cap alive
    /\ UNCHANGED <<alive, handlersMutex, current>>

\* variant: the handler is called with the mutex held
CallsLocked(h) == handlersMutex' = TRUE

\* The mutex was left with the copying loop's block.
CallsUnlocked(h) == UNCHANGED handlersMutex

\* The next of the copies: called if it can still be locked.
Calls(h) ==
    /\ raising = "calling" /\ h \in toCall
    /\ \A g \in toCall : h <= g
    /\ toCall' = toCall \ {h}
    /\ IF h \in alive
       THEN /\ raising' = "inside" /\ current' = h
            /\ called' = called \cup {h}
            /\ CallsUnlocked(h)
       ELSE UNCHANGED <<raising, current, called, handlersMutex>>
    /\ UNCHANGED <<eventHandlers, alive, faithful>>

\* HandleEvent() wants to unsubscribe its handler, and gets the mutex.
WantsToUnsubscribe ==
    /\ raising = "inside"
    /\ raising' = "unsubscribing"
    /\ UNCHANGED <<eventHandlers, alive, handlersMutex, toCall, current, called, faithful>>

UnsubscribesItself ==
    /\ raising = "unsubscribing" /\ ~ handlersMutex
    /\ eventHandlers' = eventHandlers \ {current}
    /\ faithful' = faithful \ {current}
    /\ raising' = "inside"
    /\ UNCHANGED <<alive, handlersMutex, toCall, current, called>>

Returns ==
    /\ raising = "inside"
    /\ raising' = "calling" /\ current' = 0 /\ handlersMutex' = FALSE
    /\ UNCHANGED <<eventHandlers, alive, toCall, called, faithful>>

RaiseEnds ==
    /\ raising = "calling" /\ toCall = {}
    /\ raising' = "idle"
    /\ UNCHANGED <<eventHandlers, alive, handlersMutex, toCall, current, called, faithful>>

Raise == RaiseEnds \/ (\E h \in HandlerIds : Calls(h)) \/ UnsubscribesItself \/ Returns

HandlersNext ==
    \/ \E h \in HandlerIds : Subscribe(h) \/ Unsubscribe(h) \/ Expire(h)
    \/ RaiseBegins \/ Raise \/ WantsToUnsubscribe

\* The raising thread runs, and a handler that may return does.
HandlersFairness == WF_handlerVars(Raise) /\ SF_handlerVars(Returns)

HandlersSpec == HandlersInit /\ [][HandlersNext]_handlerVars /\ HandlersFairness

-----------------------------------------------------------------------------
(* Properties *)

\* The subscribers' state has its types.
HandlersTypeOK ==
    /\ eventHandlers \subseteq HandlerIds /\ alive \subseteq HandlerIds
    /\ handlersMutex \in BOOLEAN
    /\ raising \in {"idle", "calling", "inside", "unsubscribing"}
    /\ toCall \subseteq HandlerIds /\ current \in HandlerIds \cup {0}
    /\ called \subseteq HandlerIds /\ faithful \subseteq HandlerIds

\* Whoever is subscribed when an event is raised, and stays so until the raise
\* has ended, is called, whoever expired or left in between (77-107, 109-139).
SubscribersHearEvents == raising = "idle" => faithful \subseteq called

\* Raising an event ends, also when handlers unsubscribe from inside their
\* calls (98: the mutex is released before the first call).
RaiseReturns == []<>(raising = "idle")
=============================================================================
