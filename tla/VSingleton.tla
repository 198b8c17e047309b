---------------------------- MODULE VSingleton ----------------------------
(***************************************************************************)
(* Singleton holders and the shutdown registry                             *)
(* (source/toolbox/vsingleton.h, vshutdownregistry.cpp).  instance() makes *)
(* a class's object under the class's mutex, and then registers the holder *)
(* under the registry's; shutdown() holds the registry's mutex and calls   *)
(* each registered holder, which takes the class's: the two orders cross.  *)
(*                                                                         *)
(* All holders are thread-safe and registered for shutdown.  Nobody calls  *)
(* a holder that the registry has deleted.                                 *)
(***************************************************************************)
EXTENDS Naturals, Sequences

CONSTANTS
    Holders,                    \* one for each singleton class
    DeletedAtShutdown,          \* the holders with kDeleteHolderAtShutdown
    Resurrectable,              \* the holders with kAllowResurrection
    Users,                      \* the threads
    NobodyHolds,                \* not a thread
    MaxCreated                  \* bound: how often a class is instantiated

ASSUME SingletonConstants ==
    /\ Holders # {} /\ DeletedAtShutdown \subseteq Holders /\ Resurrectable \subseteq Holders
    /\ NobodyHolds \notin Users

VARIABLES
    registryMutex,      \* the thread that holds it, or NobodyHolds
    registry,           \* "none" or "live"
    handlers,           \* the registered holders, in order
    classMutex,         \* VSingleton<T>::gMutex of each class
    hasInstance,        \* gInstance is not NULL
    instances,          \* how many objects of the class exist
    created,            \* how many have been made
    instanceDeleted,    \* gInstanceDeleted
    holderAlive,
    doing,              \* where each thread is
    holder,             \* the holder it has called
    remaining,          \* the handlers that shutdown() has yet to call
    dangling,           \* history: a deleted registry or holder was used
    deletedTwice        \* history: shutdown() has called a deleted holder

classVars == <<hasInstance, instances, created, instanceDeleted>>
registryVars == <<registry, handlers, remaining>>
singletonVars == <<registryMutex, registryVars, classMutex, classVars, holderAlive, doing, holder,
                   dangling, deletedTwice>>
history == <<dangling, deletedTwice>>

SingletonInit ==
    /\ registryMutex = NobodyHolds /\ registry = "none"
    /\ handlers = <<>> /\ remaining = <<>>
    /\ classMutex = [h \in Holders |-> NobodyHolds]
    /\ hasInstance = [h \in Holders |-> FALSE]
    /\ instances = [h \in Holders |-> 0] /\ created = [h \in Holders |-> 0]
    /\ instanceDeleted = [h \in Holders |-> FALSE]
    /\ holderAlive = [h \in Holders |-> TRUE]
    /\ doing = [t \in Users |-> "nothing"]
    /\ holder = [t \in Users |-> CHOOSE h \in Holders : TRUE]
    /\ dangling = FALSE /\ deletedTwice = FALSE

Does(t, from, to) == doing[t] = from /\ doing' = [doing EXCEPT ![t] = to]

CallsInstance(t, h) ==
    /\ holderAlive[h] /\ created[h] < MaxCreated
    /\ Does(t, "nothing", "locking")
    /\ holder' = [holder EXCEPT ![t] = h]
    /\ UNCHANGED <<registryMutex, registryVars, classMutex, classVars, holderAlive, history>>

\* variant: the second test is left out
CreatesUntested(h) == TRUE
MayCreate(h) == ~ hasInstance[h]

Creates(h) ==
    /\ hasInstance' = [hasInstance EXCEPT ![h] = TRUE]
    /\ instances' = [instances EXCEPT ![h] = @ + 1]
    /\ created' = [created EXCEPT ![h] = @ + 1]
    /\ UNCHANGED instanceDeleted

\* instance(): the mutex; an object is made if there is none, and none was
\* deleted or the policy allows another.
LocksClass(t) ==
    LET h == holder[t]
        creates == MayCreate(h) /\ (h \in Resurrectable \/ ~ instanceDeleted[h])
    IN
    /\ classMutex[h] = NobodyHolds /\ created[h] < MaxCreated
    /\ classMutex' = [classMutex EXCEPT ![h] = t]
    /\ Does(t, "locking", IF creates THEN "getting registry" ELSE "unlocking")
    /\ IF creates THEN Creates(h) ELSE UNCHANGED classVars
    /\ dangling' = ~ holderAlive[h]
    /\ UNCHANGED <<registryMutex, registryVars, holderAlive, holder, deletedTwice>>

\* VShutdownRegistry::instance(), and then registerHandler(): two locks.
GetsRegistry(t) ==
    /\ registryMutex = NobodyHolds
    /\ Does(t, "getting registry", "registering")
    /\ registry' = "live"
    /\ UNCHANGED <<registryMutex, handlers, remaining, classMutex, classVars, holderAlive, holder,
                   history>>

Registers(t) ==
    /\ registryMutex = NobodyHolds
    /\ Does(t, "registering", "unlocking")
    /\ IF registry = "live"
       THEN handlers' = Append(handlers, holder[t]) /\ UNCHANGED dangling
       ELSE dangling' = TRUE /\ UNCHANGED handlers
    /\ UNCHANGED <<registryMutex, registry, remaining, classMutex, classVars, holderAlive, holder,
                   deletedTwice>>

UnlocksClass(t) ==
    /\ Does(t, "unlocking", "nothing")
    /\ classMutex' = [classMutex EXCEPT ![holder[t]] = NobodyHolds]
    /\ UNCHANGED <<registryMutex, registryVars, classVars, holderAlive, holder, history>>

\* deleteInstance(), by the application or by the registry.
deleteInstance(h) ==
    /\ classMutex[h] = NobodyHolds
    /\ instances' = [instances EXCEPT ![h] = IF hasInstance[h] THEN @ - 1 ELSE @]
    /\ hasInstance' = [hasInstance EXCEPT ![h] = FALSE]
    /\ instanceDeleted' = [instanceDeleted EXCEPT ![h] = TRUE]
    /\ UNCHANGED created

DeletesInstance(t, h) ==
    /\ doing[t] = "nothing" /\ holderAlive[h]
    /\ deleteInstance(h)
    /\ UNCHANGED <<registryMutex, registryVars, classMutex, holderAlive, doing, holder, history>>

-----------------------------------------------------------------------------
(* VShutdownRegistry::shutdown() *)

\* variant: the destructor takes the mutex that shutdown() holds
DestructorLocks == registryMutex = NobodyHolds
DestructorMayRun == TRUE

ShutdownLocks(t) ==
    /\ registryMutex = NobodyHolds
    /\ Does(t, "nothing", "shutting down")
    /\ registryMutex' = t
    /\ remaining' = IF registry = "live" THEN handlers ELSE <<>>
    /\ UNCHANGED <<registry, handlers, classMutex, classVars, holderAlive, holder, history>>

\* The next handler: _shutdown(), and then the holder itself if it says so.
ShutsDownHandler(t) ==
    /\ doing[t] = "shutting down" /\ remaining # <<>>
    /\ DestructorMayRun
    /\ LET h == Head(remaining) IN
        /\ deleteInstance(h)
        /\ holderAlive' = [holderAlive EXCEPT ![h] = @ /\ h \notin DeletedAtShutdown]
        /\ deletedTwice' = (deletedTwice \/ ~ holderAlive[h])
    /\ remaining' = Tail(remaining)
    /\ UNCHANGED <<registryMutex, registry, handlers, classMutex, doing, holder, dangling>>

ShutdownReturns(t) ==
    /\ Does(t, "shutting down", "nothing")
    /\ remaining = <<>>
    /\ registry' = "none" /\ handlers' = <<>>
    /\ registryMutex' = NobodyHolds
    /\ UNCHANGED <<remaining, classMutex, classVars, holderAlive, holder, history>>

\* Undefined behaviour is not followed any further.
Defined == ~ dangling /\ ~ deletedTwice

Runs(t) ==
    /\ Defined
    /\ \/ LocksClass(t) \/ GetsRegistry(t) \/ Registers(t) \/ UnlocksClass(t)
       \/ ShutsDownHandler(t) \/ ShutdownReturns(t)

SingletonNext ==
    \/ Defined /\ \E t \in Users, h \in Holders : CallsInstance(t, h) \/ DeletesInstance(t, h)
    \/ Defined /\ \E t \in Users : ShutdownLocks(t)
    \/ \E t \in Users : Runs(t)

\* The threads run, and a mutex is not kept from a waiting thread for ever.
SingletonFairness == \A t \in Users : SF_singletonVars(Runs(t))

SingletonSpec == SingletonInit /\ [][SingletonNext]_singletonVars /\ SingletonFairness

-----------------------------------------------------------------------------
(* Properties *)

\* The singletons' state has its types.
SingletonTypeOK ==
    /\ registryMutex \in Users \cup {NobodyHolds} /\ registry \in {"none", "live"}
    /\ handlers \in Seq(Holders) /\ remaining \in Seq(Holders)
    /\ classMutex \in [Holders -> Users \cup {NobodyHolds}]
    /\ hasInstance \in [Holders -> BOOLEAN] /\ instanceDeleted \in [Holders -> BOOLEAN]
    /\ instances \in [Holders -> Nat] /\ created \in [Holders -> Nat]
    /\ holderAlive \in [Holders -> BOOLEAN]
    /\ doing \in [Users -> {"nothing", "locking", "getting registry", "registering", "unlocking",
                            "shutting down"}]
    /\ holder \in [Users -> Holders]
    /\ dangling \in BOOLEAN /\ deletedTwice \in BOOLEAN

\* A class never has two objects, and one that nobody is busy making is known to
\* a registry that will delete it (123-139), as long as no registry was deleted
\* between GetsRegistry and Registers and no deleted holder was called.
InstancesAreRegistered ==
    \A h \in Holders :
        /\ instances[h] = (IF hasInstance[h] THEN 1 ELSE 0)
        /\ hasInstance[h] /\ classMutex[h] = NobodyHolds /\ Defined =>
              registry = "live" /\ \E i \in DOMAIN handlers : handlers[i] = h

\* Only a thread that is making an instance can keep shutdown() from its end
\* (33 with vsingleton.h 124-135: the mutexes are taken in crossing orders).
ShutdownCompletes ==
    []<>(\/ \A t \in Users : doing[t] # "shutting down"
         \/ \E u \in Users : doing[u] \in {"getting registry", "registering"}
         \/ ~ Defined)
=============================================================================
