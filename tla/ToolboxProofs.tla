---------------------------- MODULE ToolboxProofs ----------------------------
(***************************************************************************)
(* Proofs about the toolbox (source/toolbox).  Singletons and the shutdown *)
(* registry, for any classes, policies and threads; the loggers: the       *)
(* repetition filter with the limits on stack traces, and the maximum      *)
(* level of the registry, for any loggers, names, levels, messages and     *)
(* threads; and the settings, for any paths, values and texts.             *)
(***************************************************************************)
EXTENDS VSingleton, VLogger, VLoggerRepetitionFilter, VSettings, SequenceTheorems,
        FiniteSetTheorems, WellFoundedInduction, TLAPS

-----------------------------------------------------------------------------
(* Singletons and the shutdown registry *)

Places == {"nothing", "locking", "getting registry", "registering", "unlocking", "shutting down"}

\* The places of a thread inside instance(), where it holds the class's mutex.
Inside == {"getting registry", "registering", "unlocking"}

\* The types, by what they are needed for.
PlaceTypes == doing \in [Users -> Places] /\ holder \in [Users -> Holders]
OwnerTypes ==
    registryMutex \in Users \cup {NobodyHolds} /\ classMutex \in [Holders -> Users \cup {NobodyHolds}]
SequenceTypes == handlers \in Seq(Holders) /\ remaining \in Seq(Holders)
InstanceTypes == hasInstance \in [Holders -> BOOLEAN] /\ instanceDeleted \in [Holders -> BOOLEAN]
CountTypes == instances \in [Holders -> Nat] /\ created \in [Holders -> Nat]
OtherTypes ==
    /\ registry \in {"none", "live"} /\ holderAlive \in [Holders -> BOOLEAN]
    /\ dangling \in BOOLEAN /\ deletedTwice \in BOOLEAN

Types == PlaceTypes /\ OwnerTypes /\ SequenceTypes /\ InstanceTypes /\ CountTypes /\ OtherTypes

\* Each mutex is held by the one thread that is at a place where it holds it.
ClassOwner(t, h) == classMutex[h] = t <=> doing[t] \in Inside /\ holder[t] = h
RegistryOwner(t) == doing[t] = "shutting down" <=> registryMutex = t
MutexesOK == \A t \in Users : RegistryOwner(t) /\ \A h \in Holders : ClassOwner(t, h)

\* A class has one object or none.
OneInstance == \A h \in Holders : instances[h] = (IF hasInstance[h] THEN 1 ELSE 0)

\* There is an instance, and the thread that made it has done with the registry.
Settled(h) ==
    hasInstance[h] /\ \A t \in Users : classMutex[h] = t => doing[t] = "unlocking"

\* The registry knows of it, and a shutdown that is going on will still come to it.
WillBeDeleted(h) ==
    /\ registry = "live" /\ \E i \in DOMAIN handlers : handlers[i] = h
    /\ registryMutex # NobodyHolds => \E i \in DOMAIN remaining : remaining[i] = h

SettledRegistered == Defined => \A h \in Holders : Settled(h) => WillBeDeleted(h)

SingletonInv == Types /\ MutexesOK /\ OneInstance /\ SettledRegistered

LEMMA TypesSplit == SingletonTypeOK <=> Types
  BY DEF SingletonTypeOK, Types, PlaceTypes, OwnerTypes, SequenceTypes, InstanceTypes, CountTypes,
     OtherTypes, Places

LEMMA SingletonInvInit == SingletonInit => SingletonInv
<1> SUFFICES ASSUME SingletonInit PROVE SingletonInv
  OBVIOUS
<1> USE SingletonConstants DEF SingletonInit
<1>1. (CHOOSE h \in Holders : TRUE) \in Holders
  OBVIOUS
<1>2. PlaceTypes /\ OwnerTypes
  BY <1>1 DEF PlaceTypes, OwnerTypes, Places
<1>3. SequenceTypes /\ InstanceTypes /\ CountTypes /\ OtherTypes
  BY EmptySeq DEF SequenceTypes, InstanceTypes, CountTypes, OtherTypes
<1>4. MutexesOK
  BY DEF MutexesOK, ClassOwner, RegistryOwner, Inside
<1>5. OneInstance
  BY DEF OneInstance
<1>6. SettledRegistered
  BY DEF SettledRegistered, Settled
<1> QED
  BY <1>2, <1>3, <1>4, <1>5, <1>6 DEF SingletonInv, Types

-----------------------------------------------------------------------------
\* Does(t, from, to): the thread moves on, and no other.
LEMMA DoesFacts ==
    ASSUME PlaceTypes, NEW t \in Users, NEW from, NEW to, Does(t, from, to)
    PROVE  doing[t] = from /\ doing'[t] = to /\ \A u \in Users \ {t} : doing'[u] = doing[u]
  BY DEF Does, PlaceTypes

LEMMA DoesTypes ==
    ASSUME PlaceTypes, NEW t \in Users, NEW from, NEW to \in Places, Does(t, from, to),
           holder' = holder
    PROVE  PlaceTypes'
  BY DEF Does, PlaceTypes

\* The thread moves between places where it holds the same mutexes.
LEMMA MutexesStay ==
    ASSUME MutexesOK, PlaceTypes, NEW t \in Users, NEW from, NEW to, Does(t, from, to),
           from # "shutting down", to # "shutting down",
           \A u \in Users \ {t} : holder'[u] = holder[u],
           \/ from \in Inside /\ to \in Inside /\ holder' = holder
           \/ from \notin Inside /\ to \notin Inside,
           registryMutex' = registryMutex, classMutex' = classMutex
    PROVE  MutexesOK'
<1>1. doing[t] = from /\ doing'[t] = to /\ \A u \in Users \ {t} : doing'[u] = doing[u]
  BY DoesFacts
<1>2. ASSUME NEW u \in Users PROVE RegistryOwner(u)'
  BY <1>1, <1>2 DEF MutexesOK, RegistryOwner
<1>3. ASSUME NEW u \in Users, NEW g \in Holders PROVE ClassOwner(u, g)'
  <2>1. ClassOwner(u, g)
    BY <1>3 DEF MutexesOK
  <2>2. CASE u = t
    BY <1>1, <2>1, <2>2 DEF ClassOwner
  <2>3. CASE u # t
    BY <1>1, <2>1, <2>3 DEF ClassOwner
  <2> QED
    BY <2>2, <2>3
<1> QED
  BY <1>2, <1>3 DEF MutexesOK

\* The thread takes or gives back a class's mutex: before or after, nobody holds it.
LEMMA ClassMutexMoves ==
    ASSUME MutexesOK, PlaceTypes, OwnerTypes, NEW t \in Users, NEW from, NEW to, Does(t, from, to),
           from # "shutting down", to # "shutting down", NEW owner,
           classMutex' = [classMutex EXCEPT ![holder[t]] = owner],
           \/ classMutex[holder[t]] = NobodyHolds /\ owner = t /\ from \notin Inside /\ to \in Inside
           \/ owner = NobodyHolds /\ from \in Inside /\ to \notin Inside,
           holder' = holder, registryMutex' = registryMutex
    PROVE  MutexesOK'
<1>1. doing[t] = from /\ doing'[t] = to /\ \A u \in Users \ {t} : doing'[u] = doing[u]
  BY DoesFacts
<1>2. holder[t] \in Holders
  BY DEF PlaceTypes
<1>3. /\ classMutex'[holder[t]] = owner
      /\ \A g \in Holders : g # holder[t] => classMutex'[g] = classMutex[g]
  BY <1>2 DEF OwnerTypes
<1>4. ASSUME NEW u \in Users PROVE RegistryOwner(u)'
  BY <1>1, <1>4 DEF MutexesOK, RegistryOwner
<1>5. ASSUME NEW u \in Users, NEW g \in Holders PROVE ClassOwner(u, g)'
  <2>1. ClassOwner(u, g) /\ ClassOwner(t, g) /\ u # NobodyHolds
    BY <1>5, SingletonConstants DEF MutexesOK
  <2>2. CASE u = t
    BY <1>1, <1>3, <2>1, <2>2 DEF ClassOwner
  <2>3. CASE u # t /\ g = holder[t]
    BY <1>1, <1>3, <2>1, <2>3 DEF ClassOwner
  <2>4. CASE u # t /\ g # holder[t]
    BY <1>1, <1>3, <2>1, <2>4 DEF ClassOwner
  <2> QED
    BY <2>2, <2>3, <2>4
<1> QED
  BY <1>4, <1>5 DEF MutexesOK

\* The thread takes or gives back the registry's mutex.
LEMMA RegistryMutexMoves ==
    ASSUME MutexesOK, PlaceTypes, NEW t \in Users, NEW from, NEW to, Does(t, from, to),
           from \notin Inside, to \notin Inside,
           \/ /\ registryMutex = NobodyHolds /\ registryMutex' = t
              /\ from # "shutting down" /\ to = "shutting down"
           \/ /\ registryMutex' = NobodyHolds /\ from = "shutting down" /\ to # "shutting down",
           holder' = holder, classMutex' = classMutex
    PROVE  MutexesOK'
<1>1. doing[t] = from /\ doing'[t] = to /\ \A u \in Users \ {t} : doing'[u] = doing[u]
  BY DoesFacts
<1>2. ASSUME NEW u \in Users PROVE RegistryOwner(u)'
  <2>1. RegistryOwner(u) /\ RegistryOwner(t) /\ u # NobodyHolds
    BY <1>2, SingletonConstants DEF MutexesOK
  <2>2. CASE u = t
    BY <1>1, <2>1, <2>2 DEF RegistryOwner
  <2>3. CASE u # t
    BY <1>1, <2>1, <2>3 DEF RegistryOwner
  <2> QED
    BY <2>2, <2>3
<1>3. ASSUME NEW u \in Users, NEW g \in Holders PROVE ClassOwner(u, g)'
  <2>1. ClassOwner(u, g)
    BY <1>3 DEF MutexesOK
  <2>2. CASE u = t
    BY <1>1, <2>1, <2>2 DEF ClassOwner
  <2>3. CASE u # t
    BY <1>1, <2>1, <2>3 DEF ClassOwner
  <2> QED
    BY <2>2, <2>3
<1> QED
  BY <1>2, <1>3 DEF MutexesOK

\* What was settled before the step is all that is settled after it, if a thread
\* that holds a class's mutex does not move to "unlocking".
LEMMA SettledStays ==
    ASSUME NEW t \in Users, \A u \in Users \ {t} : doing'[u] = doing[u], NEW g \in Holders,
           classMutex'[g] = classMutex[g], hasInstance'[g] = hasInstance[g],
           classMutex[g] = t => doing[t] = "unlocking" \/ doing'[t] # "unlocking",
           Settled(g)'
    PROVE  Settled(g)
<1>1. hasInstance[g]
  BY DEF Settled
<1>2. ASSUME NEW u \in Users, classMutex[g] = u PROVE doing[u] = "unlocking"
  <2>1. doing'[u] = "unlocking"
    BY <1>2 DEF Settled
  <2> QED
    BY <1>2, <2>1
<1> QED
  BY <1>1, <1>2 DEF Settled


-----------------------------------------------------------------------------
\* instance(), until the class's mutex is held.
LEMMA CallsInstanceStep ==
    ASSUME SingletonInv, Defined, NEW t \in Users, NEW h \in Holders, CallsInstance(t, h)
    PROVE  SingletonInv'
<1> USE DEF SingletonInv, Types
<1>1. /\ Does(t, "nothing", "locking") /\ holder' = [holder EXCEPT ![t] = h]
      /\ UNCHANGED <<registryMutex, registry, handlers, remaining, classMutex, hasInstance, instances,
                     created, instanceDeleted, holderAlive, dangling, deletedTwice>>
  BY DEF CallsInstance, registryVars, classVars, history
<1>2. PlaceTypes' /\ \A u \in Users : holder'[u] = holder[u] \/ u = t
  BY <1>1 DEF PlaceTypes, Places, Does
<1>3. OwnerTypes' /\ SequenceTypes' /\ InstanceTypes' /\ CountTypes' /\ OtherTypes'
  BY <1>1 DEF OwnerTypes, SequenceTypes, InstanceTypes, CountTypes, OtherTypes
<1>4. MutexesOK'
  <2>1. "nothing" \notin Inside /\ "locking" \notin Inside
    BY DEF Inside
  <2>2. \A u \in Users \ {t} : holder'[u] = holder[u]
    BY <1>2
  <2> QED
    BY <1>1, <2>1, <2>2, MutexesStay
<1>5. OneInstance'
  BY <1>1 DEF OneInstance
<1>6. ASSUME NEW g \in Holders, Settled(g)' PROVE Settled(g)
  <2>1. doing'[t] = "locking" /\ \A u \in Users \ {t} : doing'[u] = doing[u]
    BY <1>1, DoesFacts
  <2> QED
    BY <1>1, <1>6, <2>1, SettledStays
<1>7. SettledRegistered'
  BY <1>1, <1>6 DEF SettledRegistered, WillBeDeleted, Defined
<1> QED
  BY <1>2, <1>3, <1>4, <1>5, <1>7

LEMMA LocksClassStep ==
    ASSUME SingletonInv, Defined, NEW t \in Users, LocksClass(t)
    PROVE  SingletonInv'
<1> USE DEF SingletonInv, Types
<1> DEFINE h == holder[t]
           creates == MayCreate(h) /\ (h \in Resurrectable \/ ~ instanceDeleted[h])
           next == IF creates THEN "getting registry" ELSE "unlocking"
<1>1. /\ Does(t, "locking", next)
      /\ classMutex[h] = NobodyHolds /\ classMutex' = [classMutex EXCEPT ![h] = t]
      /\ IF creates THEN Creates(h) ELSE UNCHANGED <<hasInstance, instances, created, instanceDeleted>>
      /\ dangling' = ~ holderAlive[h]
      /\ UNCHANGED <<registryMutex, registry, handlers, remaining, holderAlive, holder, deletedTwice>>
  BY DEF LocksClass, registryVars, classVars
<1>2. h \in Holders
  BY DEF PlaceTypes
<1>3. next \in Places /\ next \in Inside /\ "locking" \notin Inside /\ next # "shutting down"
  BY DEF Places, Inside
<1>4. PlaceTypes'
  BY <1>1, <1>3, DoesTypes
<1>5. OwnerTypes' /\ SequenceTypes' /\ OtherTypes'
  <2>1. OwnerTypes'
    BY <1>1, <1>2 DEF OwnerTypes
  <2>2. SequenceTypes' /\ OtherTypes'
    BY <1>1, <1>2 DEF SequenceTypes, OtherTypes
  <2> QED
    BY <2>1, <2>2
<1>6. InstanceTypes' /\ CountTypes' /\ OneInstance'
  <2>1. CASE creates
    <3>1. /\ hasInstance' = [hasInstance EXCEPT ![h] = TRUE]
          /\ instances' = [instances EXCEPT ![h] = instances[h] + 1]
          /\ created' = [created EXCEPT ![h] = created[h] + 1]
          /\ instanceDeleted' = instanceDeleted /\ ~ hasInstance[h]
      BY <1>1, <2>1 DEF Creates, MayCreate
    <3>2. InstanceTypes' /\ CountTypes'
      BY <1>2, <3>1 DEF InstanceTypes, CountTypes
    <3>3. ASSUME NEW g \in Holders PROVE (instances[g] = IF hasInstance[g] THEN 1 ELSE 0)'
      <4>1. instances[g] = IF hasInstance[g] THEN 1 ELSE 0
        BY <3>3 DEF OneInstance
      <4>2. CASE g = h
        <5>1. hasInstance'[g] /\ instances'[g] = instances[g] + 1
          BY <1>2, <3>1, <4>2 DEF InstanceTypes, CountTypes
        <5>2. instances[g] = 0
          BY <3>1, <4>1, <4>2
        <5> QED
          BY <5>1, <5>2
      <4>3. CASE g # h
        <5>1. hasInstance'[g] = hasInstance[g] /\ instances'[g] = instances[g]
          BY <3>1, <3>3, <4>3 DEF InstanceTypes, CountTypes
        <5> QED
          BY <4>1, <5>1
      <4> QED
        BY <4>2, <4>3
    <3> QED
      BY <3>2, <3>3 DEF OneInstance
  <2>2. CASE ~ creates
    BY <1>1, <2>2 DEF InstanceTypes, CountTypes, OneInstance
  <2> QED
    BY <2>1, <2>2
<1>7. MutexesOK'
  BY <1>1, <1>3, ClassMutexMoves
<1>8. ASSUME NEW g \in Holders, Settled(g)' PROVE Settled(g)
  <2>1. CASE g = h /\ creates
    <3>1. classMutex'[g] = t
      BY <1>1, <1>2, <2>1 DEF OwnerTypes
    <3>2. doing'[t] = "getting registry"
      BY <1>1, <2>1, DoesFacts
    <3> QED
      BY <1>8, <3>1, <3>2 DEF Settled
  <2>2. CASE g = h /\ ~ creates
    <3>1. hasInstance[g]
      BY <1>1, <1>8, <2>2 DEF Settled
    <3>2. classMutex[g] = NobodyHolds
      BY <1>1, <2>2
    <3> QED
      BY <3>1, <3>2, SingletonConstants DEF Settled
  <2>3. CASE g # h
    <3>1. hasInstance'[g] = hasInstance[g]
      BY <1>1, <2>3 DEF Creates, InstanceTypes
    <3>2. classMutex'[g] = classMutex[g]
      BY <1>1, <2>3 DEF OwnerTypes
    <3>3. classMutex[g] # t
      BY <2>3 DEF MutexesOK, ClassOwner
    <3>4. \A u \in Users \ {t} : doing'[u] = doing[u]
      BY <1>1, DoesFacts
    <3> QED
      BY <1>8, <3>1, <3>2, <3>3, <3>4, SettledStays
  <2> QED
    BY <2>1, <2>2, <2>3
<1>9. SettledRegistered'
  BY <1>1, <1>8 DEF SettledRegistered, WillBeDeleted
<1> QED
  BY <1>4, <1>5, <1>6, <1>7, <1>9

\* instance(), while the class's mutex is held.
LEMMA GetsRegistryStep ==
    ASSUME SingletonInv, Defined, NEW t \in Users, GetsRegistry(t)
    PROVE  SingletonInv'
<1> USE DEF SingletonInv, Types
<1>1. /\ Does(t, "getting registry", "registering") /\ registry' = "live"
      /\ UNCHANGED <<registryMutex, handlers, remaining, classMutex, hasInstance, instances, created,
                     instanceDeleted, holderAlive, holder, dangling, deletedTwice>>
  BY DEF GetsRegistry, classVars, history
<1>2. /\ "registering" \in Places /\ "registering" \in Inside /\ "getting registry" \in Inside
      /\ "registering" # "unlocking" /\ "registering" # "shutting down"
      /\ "getting registry" # "shutting down"
  BY DEF Places, Inside
<1>3. PlaceTypes'
  BY <1>1, <1>2, DoesTypes
<1>4. OwnerTypes' /\ SequenceTypes' /\ InstanceTypes' /\ CountTypes' /\ OtherTypes'
  BY <1>1 DEF OwnerTypes, SequenceTypes, InstanceTypes, CountTypes, OtherTypes
<1>5. MutexesOK'
  <2>1. \A u \in Users \ {t} : holder'[u] = holder[u]
    BY <1>1
  <2>2. registryMutex' = registryMutex /\ classMutex' = classMutex
    BY <1>1
  <2> QED
    BY <1>1, <1>2, <2>1, <2>2, MutexesStay
<1>6. OneInstance'
  BY <1>1 DEF OneInstance
<1>7. ASSUME NEW g \in Holders, Settled(g)' PROVE Settled(g)
  <2>1. classMutex'[g] = classMutex[g] /\ hasInstance'[g] = hasInstance[g]
    BY <1>1
  <2>2. doing'[t] = "registering" /\ \A u \in Users \ {t} : doing'[u] = doing[u]
    BY <1>1, DoesFacts
  <2> QED
    BY <1>7, <2>1, <2>2, SettledStays
<1>8. SettledRegistered'
  BY <1>1, <1>7 DEF SettledRegistered, WillBeDeleted, Defined
<1> QED
  BY <1>3, <1>4, <1>5, <1>6, <1>8

LEMMA RegistersStep ==
    ASSUME SingletonInv, Defined, NEW t \in Users, Registers(t)
    PROVE  SingletonInv'
<1> USE DEF SingletonInv, Types
<1>1. /\ Does(t, "registering", "unlocking") /\ registryMutex = NobodyHolds
      /\ IF registry = "live"
         THEN handlers' = Append(handlers, holder[t]) /\ dangling' = dangling
         ELSE dangling' = TRUE /\ handlers' = handlers
      /\ UNCHANGED <<registryMutex, registry, remaining, classMutex, hasInstance, instances,
                     created, instanceDeleted, holderAlive, holder, deletedTwice>>
  BY DEF Registers, classVars
<1>2. /\ "unlocking" \in Places /\ "unlocking" \in Inside /\ "registering" \in Inside
      /\ "unlocking" # "shutting down" /\ "registering" # "shutting down"
  BY DEF Places, Inside
<1>3. PlaceTypes' /\ holder[t] \in Holders
  BY <1>1, <1>2, DoesTypes DEF PlaceTypes
<1>4. SequenceTypes'
  <2>1. Append(handlers, holder[t]) \in Seq(Holders)
    BY <1>3, AppendProperties DEF SequenceTypes
  <2>2. handlers' \in Seq(Holders)
    BY <1>1, <2>1 DEF SequenceTypes
  <2> QED
    BY <1>1, <2>2 DEF SequenceTypes
<1>5. OwnerTypes' /\ InstanceTypes' /\ CountTypes'
  BY <1>1 DEF OwnerTypes, InstanceTypes, CountTypes
<1>6. OtherTypes'
  BY <1>1 DEF OtherTypes
<1>7. MutexesOK'
  <2>1. \A u \in Users \ {t} : holder'[u] = holder[u]
    BY <1>1
  <2>2. registryMutex' = registryMutex /\ classMutex' = classMutex
    BY <1>1
  <2> QED
    BY <1>1, <1>2, <2>1, <2>2, MutexesStay
<1>8. OneInstance'
  BY <1>1 DEF OneInstance
<1>9. ASSUME Defined', NEW g \in Holders, Settled(g)' PROVE WillBeDeleted(g)'
  <2>1. registry = "live" /\ handlers' = Append(handlers, holder[t])
    BY <1>1, <1>9 DEF Defined
  <2>2. CASE classMutex[g] = t
    <3>1. g = holder[t]
      BY <2>2 DEF MutexesOK, ClassOwner
    <3>2. Len(handlers) + 1 \in DOMAIN handlers' /\ handlers'[Len(handlers) + 1] = g
      BY <1>3, <2>1, <3>1, AppendProperties DEF SequenceTypes
    <3> QED
      BY <1>1, <2>1, <3>2 DEF WillBeDeleted
  <2>3. CASE classMutex[g] # t
    <3>1. Settled(g)
      <4>1. \A u \in Users \ {t} : doing'[u] = doing[u]
        BY <1>1, DoesFacts
      <4> QED
        BY <1>1, <1>9, <2>3, <4>1, SettledStays
    <3>2. PICK i \in DOMAIN handlers : handlers[i] = g
      BY <3>1 DEF SettledRegistered, WillBeDeleted
    <3>3. i \in DOMAIN handlers' /\ handlers'[i] = g
      BY <1>3, <2>1, <3>2, AppendProperties DEF SequenceTypes
    <3> QED
      BY <1>1, <2>1, <3>3 DEF WillBeDeleted
  <2> QED
    BY <2>2, <2>3
<1> QED
  BY <1>3, <1>4, <1>5, <1>6, <1>7, <1>8, <1>9 DEF SettledRegistered

LEMMA UnlocksClassStep ==
    ASSUME SingletonInv, Defined, NEW t \in Users, UnlocksClass(t)
    PROVE  SingletonInv'
<1> USE DEF SingletonInv, Types
<1> DEFINE h == holder[t]
<1>1. /\ Does(t, "unlocking", "nothing") /\ classMutex' = [classMutex EXCEPT ![h] = NobodyHolds]
      /\ UNCHANGED <<registryMutex, registry, handlers, remaining, hasInstance, instances, created,
                     instanceDeleted, holderAlive, holder, dangling, deletedTwice>>
  BY DEF UnlocksClass, registryVars, classVars, history
<1>2. "nothing" \in Places /\ "nothing" \notin Inside /\ "unlocking" \in Inside
  BY DEF Places, Inside
<1>3. PlaceTypes' /\ h \in Holders
  BY <1>1, <1>2, DoesTypes DEF PlaceTypes
<1>4. OwnerTypes'
  BY <1>1 DEF OwnerTypes
<1>5. SequenceTypes' /\ InstanceTypes' /\ CountTypes' /\ OtherTypes'
  BY <1>1 DEF SequenceTypes, InstanceTypes, CountTypes, OtherTypes
<1>6. MutexesOK'
  BY <1>1, <1>2, ClassMutexMoves
<1>7. OneInstance'
  BY <1>1 DEF OneInstance
<1>8. ASSUME NEW g \in Holders, Settled(g)' PROVE Settled(g)
  <2>1. CASE g = h
    <3>1. doing[t] = "unlocking" /\ classMutex[g] = t
      BY <1>1, <1>2, <1>3, <2>1, DoesFacts DEF MutexesOK, ClassOwner
    <3>2. hasInstance[g]
      BY <1>1, <1>8 DEF Settled
    <3> QED
      BY <3>1, <3>2 DEF Settled
  <2>2. CASE g # h
    <3>1. classMutex'[g] = classMutex[g] /\ hasInstance'[g] = hasInstance[g]
      BY <1>1, <2>2 DEF OwnerTypes
    <3>2. doing[t] = "unlocking" /\ \A u \in Users \ {t} : doing'[u] = doing[u]
      BY <1>1, DoesFacts
    <3> QED
      BY <1>8, <3>1, <3>2, SettledStays
  <2> QED
    BY <2>1, <2>2
<1>9. SettledRegistered'
  BY <1>1, <1>8 DEF SettledRegistered, WillBeDeleted, Defined
<1> QED
  BY <1>3, <1>4, <1>5, <1>6, <1>7, <1>9

-----------------------------------------------------------------------------
\* What deleteInstance(), alone or called by shutdown(), does to the instances.
LEMMA DeleteInstanceFacts ==
    ASSUME SingletonInv, NEW h \in Holders, deleteInstance(h)
    PROVE  /\ InstanceTypes' /\ CountTypes' /\ OneInstance'
           /\ ~ hasInstance'[h] /\ \A g \in Holders \ {h} : hasInstance'[g] = hasInstance[g]
<1> USE DEF SingletonInv, Types
<1>1. /\ hasInstance' = [hasInstance EXCEPT ![h] = FALSE]
      /\ instances' = [instances EXCEPT ![h] = IF hasInstance[h] THEN instances[h] - 1 ELSE instances[h]]
      /\ instanceDeleted' = [instanceDeleted EXCEPT ![h] = TRUE]
      /\ created' = created
  BY DEF deleteInstance
<1>2. InstanceTypes'
  BY <1>1 DEF InstanceTypes
<1>3. ~ hasInstance'[h] /\ \A g \in Holders \ {h} : hasInstance'[g] = hasInstance[g]
  BY <1>1 DEF InstanceTypes
<1>4. (IF hasInstance[h] THEN instances[h] - 1 ELSE instances[h]) = 0
  <2>1. instances[h] = IF hasInstance[h] THEN 1 ELSE 0
    BY DEF OneInstance
  <2>2. CASE hasInstance[h]
    BY <2>1, <2>2
  <2>3. CASE ~ hasInstance[h]
    BY <2>1, <2>3
  <2> QED
    BY <2>2, <2>3
<1>5. instances' = [instances EXCEPT ![h] = 0]
  BY <1>1, <1>4
<1>6. CountTypes'
  BY <1>1, <1>5 DEF CountTypes
<1>7. ASSUME NEW g \in Holders PROVE (instances[g] = IF hasInstance[g] THEN 1 ELSE 0)'
  <2>1. CASE g = h
    <3>1. instances'[g] = 0
      BY <1>5, <2>1 DEF CountTypes
    <3> QED
      BY <1>3, <2>1, <3>1
  <2>2. CASE g # h
    <3>1. instances'[g] = instances[g]
      BY <1>5, <2>2 DEF CountTypes
    <3>2. hasInstance'[g] = hasInstance[g]
      BY <1>3, <2>2
    <3>3. instances[g] = IF hasInstance[g] THEN 1 ELSE 0
      BY <1>7 DEF OneInstance
    <3> QED
      BY <3>1, <3>2, <3>3
  <2> QED
    BY <2>1, <2>2
<1> QED
  BY <1>2, <1>3, <1>6, <1>7 DEF OneInstance

\* No thread has moved, and h has no instance any more.
LEMMA SettledAfterDelete ==
    ASSUME SingletonInv, NEW h \in Holders, deleteInstance(h), classMutex' = classMutex,
           doing' = doing, NEW g \in Holders, Settled(g)'
    PROVE  Settled(g) /\ g # h
<1>1. hasInstance'[g]
  BY DEF Settled
<1>2. ~ hasInstance'[h] /\ \A f \in Holders \ {h} : hasInstance'[f] = hasInstance[f]
  BY DeleteInstanceFacts
<1>3. g # h /\ hasInstance[g]
  BY <1>1, <1>2
<1> QED
  BY <1>3 DEF Settled

LEMMA DeletesInstanceStep ==
    ASSUME SingletonInv, Defined, NEW t \in Users, NEW h \in Holders, DeletesInstance(t, h)
    PROVE  SingletonInv'
<1> USE DEF SingletonInv, Types
<1>1. /\ deleteInstance(h)
      /\ UNCHANGED <<registryMutex, registry, handlers, remaining, classMutex, holderAlive, doing,
                     holder, dangling, deletedTwice>>
  BY DEF DeletesInstance, registryVars, history
<1>2. PlaceTypes' /\ OwnerTypes' /\ SequenceTypes' /\ OtherTypes'
  BY <1>1 DEF PlaceTypes, OwnerTypes, SequenceTypes, OtherTypes
<1>3. InstanceTypes' /\ CountTypes' /\ OneInstance'
  BY <1>1, DeleteInstanceFacts
<1>4. MutexesOK'
  BY <1>1 DEF MutexesOK, ClassOwner, RegistryOwner
<1>5. ASSUME NEW g \in Holders, Settled(g)' PROVE Settled(g)
  BY <1>1, <1>5, SettledAfterDelete
<1>6. SettledRegistered'
  BY <1>1, <1>5 DEF SettledRegistered, WillBeDeleted, Defined
<1> QED
  BY <1>2, <1>3, <1>4, <1>6

LEMMA ShutdownLocksStep ==
    ASSUME SingletonInv, Defined, NEW t \in Users, ShutdownLocks(t)
    PROVE  SingletonInv'
<1> USE DEF SingletonInv, Types
<1>1. /\ Does(t, "nothing", "shutting down")
      /\ registryMutex = NobodyHolds /\ registryMutex' = t
      /\ remaining' = IF registry = "live" THEN handlers ELSE <<>>
      /\ UNCHANGED <<registry, handlers, classMutex, hasInstance, instances, created,
                     instanceDeleted, holderAlive, holder, dangling, deletedTwice>>
  BY DEF ShutdownLocks, classVars, history
<1>2. /\ "nothing" \notin Inside /\ "shutting down" \notin Inside
      /\ "shutting down" \in Places /\ "nothing" # "shutting down"
  BY DEF Places, Inside
<1>3. PlaceTypes'
  BY <1>1, <1>2, DoesTypes
<1>4. OwnerTypes'
  BY <1>1 DEF OwnerTypes
<1>5. SequenceTypes'
  BY <1>1, EmptySeq DEF SequenceTypes
<1>6. InstanceTypes' /\ CountTypes' /\ OtherTypes'
  BY <1>1 DEF InstanceTypes, CountTypes, OtherTypes
<1>7. MutexesOK'
  <2>1. holder' = holder /\ classMutex' = classMutex
    BY <1>1
  <2> QED
    BY <1>1, <1>2, <2>1, RegistryMutexMoves
<1>8. OneInstance'
  BY <1>1 DEF OneInstance
<1>9. ASSUME Defined', NEW g \in Holders, Settled(g)' PROVE WillBeDeleted(g)'
  <2>1. classMutex'[g] = classMutex[g] /\ hasInstance'[g] = hasInstance[g]
    BY <1>1
  <2>2. doing'[t] = "shutting down" /\ \A u \in Users \ {t} : doing'[u] = doing[u]
    BY <1>1, DoesFacts
  <2>3. Settled(g)
    BY <1>9, <2>1, <2>2, SettledStays
  <2>4. registry = "live" /\ \E i \in DOMAIN handlers : handlers[i] = g
    BY <2>3 DEF SettledRegistered, WillBeDeleted
  <2> QED
    BY <1>1, <2>4 DEF WillBeDeleted
<1> QED
  BY <1>3, <1>4, <1>5, <1>6, <1>7, <1>8, <1>9 DEF SettledRegistered

\* shutdown() comes to the next holder, and the one it has dealt with has no
\* instance left.
LEMMA ShutsDownHandlerStep ==
    ASSUME SingletonInv, Defined, NEW t \in Users, ShutsDownHandler(t)
    PROVE  SingletonInv'
<1> USE DEF SingletonInv, Types
<1> DEFINE h == Head(remaining)
<1>1. /\ remaining # <<>> /\ remaining \in Seq(Holders) /\ h \in Holders
      /\ remaining' = Tail(remaining) /\ remaining' \in Seq(Holders)
  BY HeadTailProperties DEF ShutsDownHandler, SequenceTypes
<1>2. /\ deleteInstance(h)
      /\ holderAlive' = [holderAlive EXCEPT ![h] = @ /\ h \notin DeletedAtShutdown]
      /\ deletedTwice' = (deletedTwice \/ ~ holderAlive[h])
      /\ UNCHANGED <<registryMutex, registry, handlers, classMutex, doing, holder, dangling>>
  BY DEF ShutsDownHandler
<1>3. PlaceTypes' /\ OwnerTypes'
  BY <1>2 DEF PlaceTypes, OwnerTypes
<1>4. SequenceTypes'
  BY <1>1, <1>2 DEF SequenceTypes
<1>5. OtherTypes'
  BY <1>1, <1>2 DEF OtherTypes
<1>6. InstanceTypes' /\ CountTypes' /\ OneInstance'
  BY <1>1, <1>2, DeleteInstanceFacts
<1>7. MutexesOK'
  BY <1>2 DEF MutexesOK, ClassOwner, RegistryOwner
<1>8. ASSUME Defined', NEW g \in Holders, Settled(g)' PROVE WillBeDeleted(g)'
  <2>1. Settled(g) /\ g # h
    BY <1>1, <1>2, <1>8, SettledAfterDelete
  <2>2. WillBeDeleted(g)
    BY <2>1 DEF SettledRegistered
  <2>3. ASSUME registryMutex # NobodyHolds
        PROVE  \E i \in DOMAIN remaining' : remaining'[i] = g
    <3>1. PICK i \in DOMAIN remaining : remaining[i] = g
      BY <2>2, <2>3 DEF WillBeDeleted
    <3>2. i \in 2..Len(remaining)
      BY <1>1, <2>1, <3>1
    <3>3. i - 1 \in DOMAIN Tail(remaining) /\ Tail(remaining)[i - 1] = remaining[i]
      BY <1>1, <3>2
    <3> QED
      BY <1>1, <3>1, <3>3
  <2> QED
    BY <1>2, <2>2, <2>3 DEF WillBeDeleted
<1> QED
  BY <1>3, <1>4, <1>5, <1>6, <1>7, <1>8 DEF SettledRegistered

\* shutdown() ends when it has dealt with every holder, so that no instance is
\* left for the registry it deletes.
LEMMA ShutdownReturnsStep ==
    ASSUME SingletonInv, Defined, NEW t \in Users, ShutdownReturns(t)
    PROVE  SingletonInv'
<1> USE DEF SingletonInv, Types
<1>1. /\ Does(t, "shutting down", "nothing") /\ registryMutex' = NobodyHolds
      /\ remaining = <<>> /\ registry' = "none" /\ handlers' = <<>>
      /\ UNCHANGED <<remaining, classMutex, hasInstance, instances, created, instanceDeleted,
                     holderAlive, holder, dangling, deletedTwice>>
  BY DEF ShutdownReturns, classVars, history
<1>2. /\ "nothing" \notin Inside /\ "shutting down" \notin Inside
      /\ "nothing" \in Places /\ "nothing" # "shutting down"
  BY DEF Places, Inside
<1>3. PlaceTypes'
  BY <1>1, <1>2, DoesTypes
<1>4. OwnerTypes' /\ InstanceTypes' /\ CountTypes' /\ OtherTypes'
  BY <1>1 DEF OwnerTypes, InstanceTypes, CountTypes, OtherTypes
<1>5. SequenceTypes'
  BY <1>1, EmptySeq DEF SequenceTypes
<1>6. MutexesOK'
  <2>1. holder' = holder /\ classMutex' = classMutex
    BY <1>1
  <2> QED
    BY <1>1, <1>2, <2>1, RegistryMutexMoves
<1>7. OneInstance'
  BY <1>1 DEF OneInstance
<1>8. ASSUME NEW g \in Holders, Settled(g)' PROVE FALSE
  <2>1. classMutex'[g] = classMutex[g] /\ hasInstance'[g] = hasInstance[g]
    BY <1>1
  <2>2. doing'[t] = "nothing" /\ \A u \in Users \ {t} : doing'[u] = doing[u]
    BY <1>1, DoesFacts
  <2>3. Settled(g)
    BY <1>8, <2>1, <2>2, SettledStays
  <2>4. registryMutex = t
    BY <1>1, DoesFacts DEF MutexesOK, RegistryOwner
  <2>5. registryMutex # NobodyHolds
    BY <2>4, SingletonConstants
  <2>6. \E i \in DOMAIN remaining : remaining[i] = g
    BY <2>3, <2>5 DEF SettledRegistered, WillBeDeleted
  <2>7. remaining = <<>> /\ DOMAIN remaining = 1..0
    BY <1>1, EmptySeq, LenProperties
  <2> QED
    BY <2>6, <2>7
<1> QED
  BY <1>3, <1>4, <1>5, <1>6, <1>7, <1>8 DEF SettledRegistered

LEMMA SingletonInvStep == SingletonInv /\ [SingletonNext]_singletonVars => SingletonInv'
<1> SUFFICES ASSUME SingletonInv, [SingletonNext]_singletonVars PROVE SingletonInv'
  OBVIOUS
<1>1. CASE UNCHANGED singletonVars
  <2>1. UNCHANGED <<registryMutex, registry, handlers, remaining, classMutex, hasInstance, instances,
                    created, instanceDeleted, holderAlive, doing, holder, dangling, deletedTwice>>
    BY <1>1 DEF singletonVars, registryVars, classVars
  <2>2. Types'
    BY <2>1 DEF SingletonInv, Types, PlaceTypes, OwnerTypes, SequenceTypes, InstanceTypes, CountTypes,
       OtherTypes
  <2>3. MutexesOK' /\ OneInstance'
    BY <2>1 DEF SingletonInv, MutexesOK, ClassOwner, RegistryOwner, OneInstance
  <2>4. SettledRegistered'
    BY <2>1 DEF SingletonInv, SettledRegistered, Settled, WillBeDeleted, Defined
  <2> QED
    BY <2>2, <2>3, <2>4 DEF SingletonInv
<1>2. CASE SingletonNext
  BY <1>2, CallsInstanceStep, LocksClassStep, GetsRegistryStep, RegistersStep, UnlocksClassStep,
     DeletesInstanceStep, ShutdownLocksStep, ShutsDownHandlerStep, ShutdownReturnsStep
     DEF SingletonNext, Runs
<1> QED
  BY <1>1, <1>2

-----------------------------------------------------------------------------
\* The singletons' state keeps its types.
THEOREM SingletonTypeCorrect == SingletonSpec => []SingletonTypeOK
<1>1. SingletonInv => SingletonTypeOK
  BY TypesSplit DEF SingletonInv
<1> QED
  BY <1>1, SingletonInvInit, SingletonInvStep, PTL DEF SingletonSpec

\* Whichever threads make, delete and shut down, a class has one object at most,
\* and the registry will delete it (VSingleton<T>::instance(), deleteInstance(),
\* VShutdownRegistry::shutdown()).
THEOREM NoInstanceForgotten == SingletonSpec => []InstancesAreRegistered
<1>1. ASSUME SingletonInv PROVE InstancesAreRegistered
  <2> SUFFICES ASSUME NEW h \in Holders
               PROVE  /\ instances[h] = (IF hasInstance[h] THEN 1 ELSE 0)
                      /\ hasInstance[h] /\ classMutex[h] = NobodyHolds /\ Defined =>
                            registry = "live" /\ \E i \in DOMAIN handlers : handlers[i] = h
    BY DEF InstancesAreRegistered
  <2>1. instances[h] = (IF hasInstance[h] THEN 1 ELSE 0)
    BY <1>1 DEF SingletonInv, OneInstance
  <2>2. ASSUME hasInstance[h], classMutex[h] = NobodyHolds, Defined PROVE WillBeDeleted(h)
    <3>1. Settled(h)
      BY <2>2, SingletonConstants DEF Settled
    <3> QED
      BY <1>1, <2>2, <3>1 DEF SingletonInv, SettledRegistered
  <2> QED
    BY <2>1, <2>2 DEF WillBeDeleted
<1>2. SingletonInv => InstancesAreRegistered
  BY <1>1
<1> QED
  BY <1>2, SingletonInvInit, SingletonInvStep, PTL DEF SingletonSpec

-----------------------------------------------------------------------------
(* The repetition filter *)

\* What has come out and what is left of the countdown make up the maximum.
WithinLimit == stack.max > 0 => stacks + stack.countdown <= stack.max

\* The counts of LoggedIsCounted.
Counted ==
    \A m \in LogMessages :
        timesLogged[m] = emitted[m] + (IF m = mMessage THEN mNumSuppressedOccurrences ELSE 0)

FilterInv == FilterTypeOK /\ Counted /\ WithinLimit

LEMMA FilterInvInit == FilterInit => FilterInv
  BY FilterConstants DEF FilterInit, FilterInv, FilterTypeOK, Counted, WithinLimit, StackOff, StackConfigs

\* The countdown goes down with each trace, and is set anew only with the count.
LEMMA StackStep ==
    ASSUME NEW expired \in BOOLEAN, stack \in StackConfigs, stacks \in Nat, WithinLimit
    PROVE  /\ StackAfter(expired) \in StackConfigs
           /\ StackAfter(expired).max > 0 =>
                (IF ResetsCountdown(expired) THEN 0 ELSE stacks)
                + (IF PrintsStack(expired) /\ stack.max > 0 THEN 1 ELSE 0)
                + StackAfter(expired).countdown <= StackAfter(expired).max
<1> DEFINE reset == IF ResetsCountdown(expired) THEN stack.max ELSE stack.countdown
           left == IF PrintsStack(expired) /\ reset > 0 THEN reset - 1 ELSE reset
<1>1. CASE TurnsOff(expired)
  BY <1>1 DEF StackAfter, StackOff, StackConfigs
<1>2. CASE ~ TurnsOff(expired)
  <2>1. StackAfter(expired) = [stack EXCEPT !.countdown = left]
    BY <1>2 DEF StackAfter
  <2>2. /\ stack.on \in BOOLEAN /\ stack.max \in 0..2 /\ stack.timed \in BOOLEAN
        /\ stack.countdown \in 0..2
    BY DEF StackConfigs
  <2>3. reset \in 0..2 /\ left \in 0..2
    BY <2>2
  <2>4. StackAfter(expired) \in StackConfigs /\ StackAfter(expired).max = stack.max
        /\ StackAfter(expired).countdown = left
    BY <2>1, <2>2, <2>3 DEF StackConfigs
  <2>5. ASSUME stack.max > 0
        PROVE  (IF ResetsCountdown(expired) THEN 0 ELSE stacks)
               + (IF PrintsStack(expired) /\ stack.max > 0 THEN 1 ELSE 0) + left <= stack.max
    <3>1. stacks + stack.countdown <= stack.max
      BY <2>5 DEF WithinLimit
    <3>2. CASE ResetsCountdown(expired)
      <4>1. PrintsStack(expired)
        BY <3>2, <2>5, <2>2 DEF ResetsCountdown, PrintsStack
      <4> QED
        BY <4>1, <3>2, <2>5, <2>2
    <3>3. CASE ~ ResetsCountdown(expired) /\ PrintsStack(expired)
      <4>1. stack.countdown > 0
        BY <3>3, <2>5, <2>2 DEF ResetsCountdown, PrintsStack
      <4> QED
        BY <4>1, <3>1, <3>3, <2>5, <2>2
    <3>4. CASE ~ ResetsCountdown(expired) /\ ~ PrintsStack(expired)
      BY <3>1, <3>4, <2>2
    <3> QED
      BY <3>2, <3>3, <3>4
  <2> QED
    BY <2>4, <2>5
<1> QED
  BY <1>1, <1>2

LEMMA FilterInvStep == FilterInv /\ [FilterNext]_filterVars => FilterInv'
<1> SUFFICES ASSUME FilterInv, [FilterNext]_filterVars PROVE FilterInv'
  OBVIOUS
<1> USE DEF FilterInv
<1>1. ASSUME NEW enabled \in BOOLEAN, setEnabled(enabled) PROVE FilterInv'
  BY <1>1 DEF setEnabled, FilterTypeOK, Counted, WithinLimit
<1>2. ASSUME NEW max \in 0..2, NEW timed \in BOOLEAN, configure(max, timed) PROVE FilterInv'
  BY <1>2 DEF configure, FilterTypeOK, Counted, WithinLimit, StackConfigs
<1>3. ASSUME NEW m \in LogMessages, NEW late \in BOOLEAN, NEW expired \in BOOLEAN,
             log(m, late, expired)
      PROVE  FilterInv'
  <2>1. /\ mEnabled \in BOOLEAN /\ mNumSuppressedOccurrences \in Nat
        /\ timesLogged \in [LogMessages -> Nat] /\ emitted \in [LogMessages -> Nat]
    BY DEF FilterTypeOK
  <2>2. stack' \in StackConfigs /\ stacks' \in Nat /\ WithinLimit'
    <3>1. CASE Repeats(m, late) \/ m \notin Severe
      BY <1>3, <3>1 DEF log, FilterTypeOK, WithinLimit
    <3>2. CASE ~ (Repeats(m, late) \/ m \notin Severe)
      BY <1>3, <3>2, StackStep DEF log, FilterTypeOK, WithinLimit
    <3> QED
      BY <3>1, <3>2
  <2>3. /\ mEnabled' \in BOOLEAN /\ mMessage' \in LogMessages \cup {NoMessage}
        /\ mNumSuppressedOccurrences' \in Nat
        /\ timesLogged' \in [LogMessages -> Nat] /\ emitted' \in [LogMessages -> Nat]
    BY <1>3, <2>1 DEF log, FilterTypeOK
  <2>4. ASSUME NEW x \in LogMessages
        PROVE  timesLogged'[x] = emitted'[x]
                   + (IF x = mMessage' THEN mNumSuppressedOccurrences' ELSE 0)
    <3>1. timesLogged[x] = emitted[x] + (IF x = mMessage THEN mNumSuppressedOccurrences ELSE 0)
      BY DEF Counted
    <3>2. /\ timesLogged'[x] = timesLogged[x] + (IF x = m THEN 1 ELSE 0)
          /\ emitted'[x] = emitted[x] + (IF Flushed(m, late) /\ x = mMessage
                                         THEN mNumSuppressedOccurrences ELSE 0)
                                      + (IF x = m /\ ~ Repeats(m, late) THEN 1 ELSE 0)
      BY <1>3, <2>1 DEF log
    <3>3. CASE ~ mEnabled
      BY <1>3, <2>1, <3>1, <3>2, <3>3 DEF log, Flushed, Repeats, TimesOut
    <3>4. CASE mEnabled /\ Repeats(m, late)
      BY <1>3, <2>1, <3>1, <3>2, <3>4 DEF log, Flushed, Repeats, TimesOut
    <3>5. CASE mEnabled /\ ~ Repeats(m, late)
      BY <1>3, <2>1, <3>1, <3>2, <3>5 DEF log, Flushed, Repeats, TimesOut
    <3> QED
      BY <2>1, <3>3, <3>4, <3>5
  <2> QED
    BY <2>2, <2>3, <2>4 DEF FilterTypeOK, Counted
<1>4. CASE UNCHANGED filterVars
  BY <1>4 DEF filterVars, FilterTypeOK, Counted, WithinLimit
<1> QED
  BY <1>1, <1>2, <1>3, <1>4 DEF FilterNext

\* The filter's state keeps its types.
THEOREM FilterTypeCorrect == FilterSpec => []FilterTypeOK
<1>1. FilterInv => FilterTypeOK
  BY DEF FilterInv
<1> QED
  BY <1>1, FilterInvInit, FilterInvStep, PTL DEF FilterSpec

\* No message is lost or told twice by the filter, whatever repeats, times out or
\* is switched; and no more stack traces come out than were configured
\* (VLoggerRepetitionFilter and VNamedLogger::log()).
THEOREM NoRepetitionLost == FilterSpec => []LoggedIsCounted
<1>1. FilterInv => LoggedIsCounted
  BY DEF FilterInv, FilterTypeOK, Counted, WithinLimit, LoggedIsCounted, StackConfigs
<1> QED
  BY <1>1, FilterInvInit, FilterInvStep, PTL DEF FilterSpec

-----------------------------------------------------------------------------
(* The maximum level *)

\* A bounded set of naturals that is not empty has a greatest element.
LEMMA HighestExists ==
    ASSUME NEW S, S \subseteq Nat, S # {}, NEW all \in Nat, \A l \in S : l <= all
    PROVE  \E highest \in S : \A l \in S : l <= highest
<1> DEFINE Distances == {all - l : l \in S}
           R == OpToRel(<, Nat)
<1>2. Distances \subseteq Nat /\ Distances # {}
  <2>1. all - all \in Distances \/ Distances # {}
    OBVIOUS
  <2>2. ASSUME NEW l \in S PROVE all - l \in Nat
    BY <2>2
  <2> QED
    BY <2>1, <2>2
<1>3. \E x \in Distances : \A y \in Distances : ~ (<<y, x>> \in R)
  <2> HIDE DEF Distances, R
  <2>1. IsWellFoundedOn(R, Nat)
    BY NatLessThanWellFounded DEF R
  <2> QED
    BY <2>1, <1>2, WFMin
<1>4. PICK x \in Distances : \A y \in Distances : ~ (<<y, x>> \in R)
  BY <1>3
<1>5. PICK highest \in S : x = all - highest
  BY <1>4
<1>6. ASSUME NEW l \in S PROVE l <= highest
  <2>1. all - l \in Distances /\ ~ (<<all - l, x>> \in R)
    BY <1>4
  <2>2. ~ (all - l < x)
    BY <2>1, <1>2, <1>4 DEF OpToRel
  <2> QED
    BY <2>2, <1>5
<1> QED
  BY <1>6

\* A registered logger above the maximum is one that a setLevel() is about to
\* raise the maximum for.  This speaks of all the registered loggers, so that it
\* does not depend on which one a name leads to.
RegisteredPass ==
    \A n \in LoggerNames : loggerMap[n] # NoLogger /\ level[loggerMap[n]] > gMaxActiveLevel =>
        \E t \in LevelSetters :
            setting[t][1] = loggerMap[n] /\ setting[t][3] = level[loggerMap[n]]

LoggerInv == LoggerTypeOK /\ RegisteredPass

\* _recalculateMaxActiveLogLevel() finds a level no registered logger is above.
LEMMA HighestLevelBounds ==
    ASSUME LoggerTypeOK, NEW map \in [LoggerNames -> Loggers \cup {NoLogger}]
    PROVE  /\ HighestLevel(map) \in Levels
           /\ \A n \in LoggerNames : map[n] # NoLogger => level[map[n]] <= HighestLevel(map)
<1> DEFINE active == {level[map[n]] : n \in {m \in LoggerNames : map[m] # NoLogger}} \cup {0}
<1>1. active \subseteq Levels /\ active # {}
  BY LoggerConstants DEF LoggerTypeOK
<1>2. \E highest \in active : \A l \in active : l <= highest
  <2>1. PICK all \in Levels : \A l \in Levels : l <= all
    BY LoggerConstants
  <2> QED
    BY <1>1, <2>1, HighestExists, LoggerConstants
<1>3. HighestLevel(map) \in active /\ \A l \in active : l <= HighestLevel(map)
  BY <1>2 DEF HighestLevel
<1> QED
  BY <1>1, <1>3

LEMMA LoggerInvInit == LoggerInit => LoggerInv
  BY LoggerConstants DEF LoggerInit, LoggerInv, LoggerTypeOK, RegisteredPass, NotSetting

LEMMA LoggerInvStep == LoggerInv /\ [LoggerNext]_loggerVars => LoggerInv'
<1> SUFFICES ASSUME LoggerInv, [LoggerNext]_loggerVars PROVE LoggerInv'
  OBVIOUS
<1> USE DEF LoggerInv
<1>t. /\ loggerMap \in [LoggerNames -> Loggers \cup {NoLogger}]
      /\ level \in [Loggers -> Levels]
      /\ gMaxActiveLevel \in Levels
      /\ setting \in [LevelSetters -> (Loggers \cup {NoLogger}) \X Levels \X Levels]
  BY DEF LoggerTypeOK
<1>n. gMaxActiveLevel \in Nat /\ (\A l \in Loggers : level[l] \in Nat) /\ AutoLevel \in Nat
      /\ \A l \in Levels : l \in Nat
  BY <1>t, LoggerConstants
<1>1. ASSUME NEW l \in Loggers, NEW asDefault \in BOOLEAN, registerLogger(l, asDefault)
      PROVE  LoggerInv'
  <2>1. LoggerTypeOK'
    BY <1>1, <1>t, LoggerConstants DEF registerLogger, _registerLogger, MaxOnceAdded, LoggerTypeOK
  <2>2. level[l] <= gMaxActiveLevel' /\ gMaxActiveLevel <= gMaxActiveLevel'
    BY <1>1, <1>n DEF registerLogger, MaxOnceAdded
  <2>3. ASSUME NEW n \in LoggerNames, loggerMap'[n] # NoLogger,
               level'[loggerMap'[n]] > gMaxActiveLevel'
        PROVE  loggerMap'[n] = loggerMap[n] /\ level[loggerMap[n]] > gMaxActiveLevel
    <3>1. level' = level /\ (loggerMap'[n] = l \/ loggerMap'[n] = loggerMap[n])
      BY <1>1, <1>t DEF registerLogger, _registerLogger
    <3>2. gMaxActiveLevel' \in Nat
      BY <1>1, <1>n DEF registerLogger, MaxOnceAdded
    <3> QED
      BY <2>2, <2>3, <3>1, <3>2, <1>n, <1>t
  <2>4. RegisteredPass'
    BY <1>1, <2>3 DEF registerLogger, RegisteredPass
  <2> QED
    BY <2>1, <2>4
<1>2. CASE getDefaultLogger
  <2>1. LoggerTypeOK'
    BY <1>2, <1>t, LoggerConstants DEF getDefaultLogger, _registerLogger, MaxOnceAdded, LoggerTypeOK
  <2>2. AutoLevel <= gMaxActiveLevel' /\ gMaxActiveLevel <= gMaxActiveLevel'
    BY <1>2, <1>n, LoggerConstants DEF getDefaultLogger, MaxOnceAdded
  <2>3. ASSUME NEW n \in LoggerNames, loggerMap'[n] # NoLogger,
               level'[loggerMap'[n]] > gMaxActiveLevel'
        PROVE  /\ loggerMap'[n] = loggerMap[n] /\ level[loggerMap[n]] > gMaxActiveLevel
               /\ level'[loggerMap[n]] = level[loggerMap[n]]
    <3>1. /\ loggerMap'[n] = AutoLogger \/ loggerMap'[n] = loggerMap[n]
          /\ level'[AutoLogger] = AutoLevel
          /\ \A l \in Loggers \ {AutoLogger} : level'[l] = level[l]
      BY <1>2, <1>t, LoggerConstants DEF getDefaultLogger, _registerLogger
    <3>2. gMaxActiveLevel' \in Nat
      BY <1>2, <1>n, LoggerConstants DEF getDefaultLogger, MaxOnceAdded
    <3>3. loggerMap'[n] # AutoLogger
      BY <2>2, <2>3, <3>1, <3>2, <1>n
    <3> QED
      BY <2>2, <2>3, <3>1, <3>2, <3>3, <1>n, <1>t
  <2>4. RegisteredPass'
    BY <1>2, <2>3 DEF getDefaultLogger, RegisteredPass
  <2> QED
    BY <2>1, <2>4
<1>3. CASE shutdown
  BY <1>3, <1>t, LoggerConstants DEF shutdown, LoggerTypeOK, RegisteredPass
<1>4. ASSUME NEW l \in Loggers, setDefaultLogger(l) PROVE LoggerInv'
  BY <1>4, <1>t DEF setDefaultLogger, LoggerTypeOK, RegisteredPass
<1>5. ASSUME NEW l \in Loggers, deregisterLogger(l) PROVE LoggerInv'
  <2>1. loggerMap' \in [LoggerNames -> Loggers \cup {NoLogger}]
    BY <1>5, <1>t DEF deregisterLogger
  <2>2. /\ HighestLevel(loggerMap') \in Levels
        /\ \A n \in LoggerNames :
              loggerMap'[n] # NoLogger => level[loggerMap'[n]] <= HighestLevel(loggerMap')
    BY <2>1, HighestLevelBounds
  <2>a. HighestLevel(loggerMap') \in Nat /\ gMaxActiveLevel' \in Nat
        /\ \A n \in LoggerNames : loggerMap'[n] # NoLogger =>
              loggerMap'[n] \in Loggers /\ level'[loggerMap'[n]] = level[loggerMap'[n]]
    BY <1>5, <1>n, <2>1, <2>2 DEF deregisterLogger, MaxOnceRemoved
  <2>3. LoggerTypeOK'
    BY <1>5, <1>t, <2>1, <2>2 DEF deregisterLogger, MaxOnceRemoved, LoggerTypeOK
  <2>4. ASSUME NEW n \in LoggerNames, loggerMap'[n] # NoLogger,
               level[loggerMap'[n]] > gMaxActiveLevel'
        PROVE  loggerMap'[n] = loggerMap[n] /\ gMaxActiveLevel' = gMaxActiveLevel
    <3>1. loggerMap'[n] = loggerMap[n]
      BY <1>5, <2>4, <1>t DEF deregisterLogger
    <3>2. gMaxActiveLevel' # HighestLevel(loggerMap')
      BY <2>2, <2>4, <1>n, <2>1, <2>a
    <3> QED
      BY <1>5, <3>1, <3>2 DEF deregisterLogger, MaxOnceRemoved
  <2>5. RegisteredPass'
    <3>1. level' = level /\ setting' = setting
      BY <1>5 DEF deregisterLogger
    <3>2. ASSUME NEW n \in LoggerNames, loggerMap'[n] # NoLogger,
                 level'[loggerMap'[n]] > gMaxActiveLevel'
          PROVE  \E t \in LevelSetters :
                    setting'[t][1] = loggerMap'[n] /\ setting'[t][3] = level'[loggerMap'[n]]
      BY <3>1, <3>2, <2>4 DEF RegisteredPass
    <3> QED
      BY <3>2 DEF RegisteredPass
  <2> QED
    BY <2>3, <2>5
<1>6. ASSUME NEW t \in LevelSetters, NEW l \in Loggers, NEW new \in Levels, SetsLevel(t, l, new)
      PROVE  LoggerInv'
  <2>1. LoggerTypeOK'
    <3>1. <<l, level[l], new>> \in (Loggers \cup {NoLogger}) \X Levels \X Levels
      BY <1>t
    <3>2. level' \in [Loggers -> Levels]
      BY <1>6, <1>t DEF SetsLevel
    <3> QED
      BY <1>6, <1>t, <3>1, <3>2 DEF SetsLevel, LoggerTypeOK
  <2>2. ASSUME NEW n \in LoggerNames, loggerMap'[n] # NoLogger,
               level'[loggerMap'[n]] > gMaxActiveLevel'
        PROVE  \E u \in LevelSetters :
                  setting'[u][1] = loggerMap'[n] /\ setting'[u][3] = level'[loggerMap'[n]]
    <3>1. CASE loggerMap[n] = l
      <4>1. setting'[t] = <<l, level[l], new>> /\ level'[l] = new /\ loggerMap' = loggerMap
        BY <1>6, <1>t DEF SetsLevel
      <4> QED
        BY <3>1, <4>1
    <3>2. CASE loggerMap[n] # l
      <4>1. loggerMap'[n] = loggerMap[n] /\ level'[loggerMap[n]] = level[loggerMap[n]]
            /\ gMaxActiveLevel' = gMaxActiveLevel
        BY <1>6, <1>t, <3>2, <2>2 DEF SetsLevel
      <4>2. PICK u \in LevelSetters :
               setting[u][1] = loggerMap[n] /\ setting[u][3] = level[loggerMap[n]]
        BY <2>2, <4>1 DEF RegisteredPass
      <4>3. u # t
        BY <4>2, <4>1, <2>2, <1>6 DEF SetsLevel, NotSetting
      <4> QED
        BY <4>1, <4>2, <4>3, <1>6, <1>t DEF SetsLevel
    <3> QED
      BY <3>1, <3>2
  <2> QED
    BY <2>1, <2>2 DEF RegisteredPass
<1>7. ASSUME NEW t \in LevelSetters, AdjustsMax(t) PROVE LoggerInv'
  <2>1. /\ HighestLevel(loggerMap) \in Levels
        /\ \A n \in LoggerNames :
              loggerMap[n] # NoLogger => level[loggerMap[n]] <= HighestLevel(loggerMap)
    BY <1>t, HighestLevelBounds
  <2>2. setting[t][2] \in Levels /\ setting[t][3] \in Levels
    BY <1>t
  <2>3. gMaxActiveLevel' \in Levels
    BY <1>7, <1>t, <2>1, <2>2 DEF AdjustsMax, MaxOnceChanged
  <2>4. LoggerTypeOK'
    BY <1>7, <1>t, <2>3, LoggerConstants DEF AdjustsMax, LoggerTypeOK, NotSetting
  <2>5. ASSUME NEW n \in LoggerNames, loggerMap'[n] # NoLogger,
               level'[loggerMap'[n]] > gMaxActiveLevel'
        PROVE  \E u \in LevelSetters :
                  setting'[u][1] = loggerMap'[n] /\ setting'[u][3] = level'[loggerMap'[n]]
    <3>1. loggerMap' = loggerMap /\ level' = level
      BY <1>7 DEF AdjustsMax
    <3>2. level[loggerMap[n]] \in Levels /\ level[loggerMap[n]] > gMaxActiveLevel'
      BY <1>t, <2>5, <3>1
    <3>3. gMaxActiveLevel' # HighestLevel(loggerMap)
      BY <2>1, <2>5, <3>1, <3>2, <1>n
    <3>4. gMaxActiveLevel <= gMaxActiveLevel' /\ setting[t][3] <= gMaxActiveLevel'
      BY <1>7, <3>3, <1>n, <2>2 DEF AdjustsMax, MaxOnceChanged
    <3>5. level[loggerMap[n]] > gMaxActiveLevel
      BY <3>2, <3>4, <1>n, <2>3
    <3>6. PICK u \in LevelSetters :
             setting[u][1] = loggerMap[n] /\ setting[u][3] = level[loggerMap[n]]
      BY <2>5, <3>1, <3>5 DEF RegisteredPass
    <3>7. u # t
      BY <3>6, <3>4, <3>2, <2>2, <2>3, <1>n
    <3> QED
      BY <3>1, <3>6, <3>7, <1>7, <1>t DEF AdjustsMax
  <2> QED
    BY <2>4, <2>5 DEF RegisteredPass
<1>8. CASE UNCHANGED loggerVars
  BY <1>8 DEF loggerVars, LoggerTypeOK, RegisteredPass
<1> QED
  BY <1>1, <1>2, <1>3, <1>4, <1>5, <1>6, <1>7, <1>8 DEF LoggerNext

\* The registry of loggers keeps its types: in particular the maximum is a level.
THEOREM LoggerTypeCorrect == LoggerSpec => []LoggerTypeOK
<1>1. LoggerInv => LoggerTypeOK
  BY DEF LoggerInv
<1> QED
  BY <1>1, LoggerInvInit, LoggerInvStep, PTL DEF LoggerSpec

\* The first test of the logging macros drops no message that the logger found for
\* its name would log, but while a setLevel() is on its way to raise the maximum
\* (_recalculateMaxActiveLogLevel(), _checkMaxActiveLogLevelFor...()).
THEOREM MaximumCoversLoggers == LoggerSpec => []ActiveLevelsPass
<1>1. LoggerInv => ActiveLevelsPass
  <2> SUFFICES ASSUME LoggerInv, NEW path \in LoggerNames,
                      FoundFromPathName(path) # NoLogger,
                      level[FoundFromPathName(path)] > gMaxActiveLevel
               PROVE  \E t \in LevelSetters :
                         /\ setting[t][1] = FoundFromPathName(path)
                         /\ setting[t][3] = level[FoundFromPathName(path)]
    BY DEF ActiveLevelsPass
  <2> DEFINE found == {i \in 1..Len(path) : SubSeq(path, 1, i) \in LoggerNames
                                           /\ loggerMap[SubSeq(path, 1, i)] # NoLogger}
  <2>1. found # {}
    BY DEF FoundFromPathName
  <2>2. (CHOOSE i \in found : \A j \in found : j <= i) \in found
    <3>1. Len(path) \in Nat
      BY LoggerConstants
    <3>2. found \subseteq Nat /\ \A i \in found : i <= Len(path)
      BY <3>1
    <3> QED
      BY <2>1, <3>1, <3>2, HighestExists
  <2>3. \E n \in LoggerNames : FoundFromPathName(path) = loggerMap[n]
    BY <2>1, <2>2 DEF FoundFromPathName
  <2> QED
    BY <2>3 DEF LoggerInv, RegisteredPass
<1> QED
  BY <1>1, LoggerInvInit, LoggerInvStep, PTL DEF LoggerSpec

-----------------------------------------------------------------------------
(* Settings: the outline *)

\* The names and the values that a node can get.
PathNames == UNION {ToSet(path) : path \in SettingPaths}
IndexNames == {Indexed[name][1] : name \in DOMAIN Indexed}
Tokens == UNION {ToSet(text) : text \in SettingTexts}
Names == PathNames \cup IndexNames \cup {"x", "y", EmptyName, CDATAName} \cup Tokens
Values == SettingValues \cup {<<"v">>, <<"w">>} \cup Seq(Tokens)
Nodes == [depth : Nat, kind : AttributeKinds \cup ChildKinds, name : Names, value : Values]

\* What may come after a node, or at the beginning, after the VSettings object: one level
\* down from a tag, where it is an attribute only if no child came before it.
NodeAt(t, i) == IF i = 0 THEN [depth |-> 0, kind |-> "settings"] ELSE t[i]
MayFollow(a, b) ==
    /\ b.depth \in 1..a.depth + 1
    /\ b.depth = a.depth + 1 => a.kind \in {"tag", "settings"}
    /\ b.kind \in AttributeKinds => \/ a.kind = "tag" /\ b.depth = a.depth + 1
                                    \/ a.kind \in AttributeKinds /\ b.depth = a.depth
Outline(t) == t \in Seq(Nodes) /\ \A i \in 1..Len(t) : MayFollow(NodeAt(t, i - 1), t[i])

LEMMA LeastOfAny ==
    ASSUME NEW S, S \subseteq Nat, S # {}
    PROVE  \E least \in S : \A n \in S : least <= n
<1> DEFINE R == OpToRel(<, Nat)
<1>1. \E x \in S : \A y \in S : ~ (<<y, x>> \in R)
  <2> HIDE DEF R
  <2>1. IsWellFoundedOn(R, Nat)
    BY NatLessThanWellFounded DEF R
  <2> QED
    BY <2>1, WFMin
<1>2. PICK x \in S : \A y \in S : ~ (<<y, x>> \in R)
  BY <1>1
<1>3. ASSUME NEW y \in S PROVE x <= y
  <2>1. ~ (y < x)
    BY <1>2 DEF OpToRel
  <2> QED
    BY <2>1
<1> QED
  BY <1>3

LEMMA MinOfAny ==
    ASSUME NEW S, S \subseteq Nat, S # {}
    PROVE  Min(S) \in S /\ \A n \in S : Min(S) <= n
<1>1. PICK least \in S : \A n \in S : least <= n
  BY LeastOfAny
<1> QED
  BY <1>1 DEF Min

LEMMA MaxOfBounded ==
    ASSUME NEW n \in Nat, NEW S, S \subseteq 0..n, S # {}
    PROVE  Max(S) \in S /\ \A k \in S : Max(S) >= k
<1>1. S \subseteq Nat /\ \A k \in S : k <= n
  OBVIOUS
<1>2. PICK highest \in S : \A k \in S : k <= highest
  BY <1>1, HighestExists
<1>3. \A k \in S : highest >= k
  BY <1>1, <1>2
<1> QED
  BY <1>3 DEF Max

-----------------------------------------------------------------------------
(* Where a part of the outline ends *)

LEMMA OutlineFacts ==
    ASSUME NEW t, Outline(t)
    PROVE  /\ t \in Seq(Nodes) /\ Len(t) \in Nat /\ DOMAIN t = 1..Len(t)
           /\ \A i \in 0..Len(t) : DepthOf(t, i) \in Nat /\ DepthOf(t, i) = NodeAt(t, i).depth
           /\ \A i \in 1..Len(t) : /\ t[i] \in Nodes /\ t[i].depth \in Nat /\ t[i].depth > 0
                                   /\ t[i].depth = DepthOf(t, i)
                                   /\ MayFollow(NodeAt(t, i - 1), t[i])
           /\ \A i \in 1..Len(t) : t[i].depth <= DepthOf(t, i - 1) + 1
<1>1. t \in Seq(Nodes) /\ Len(t) \in Nat /\ DOMAIN t = 1..Len(t) /\ \A i \in 1..Len(t) : t[i] \in Nodes
  BY DEF Outline
<1>2. \A i \in 1..Len(t) : t[i].depth \in Nat
  BY <1>1 DEF Nodes
<1>3. \A i \in 0..Len(t) : DepthOf(t, i) \in Nat /\ DepthOf(t, i) = NodeAt(t, i).depth
  BY <1>1, <1>2 DEF DepthOf, NodeAt
<1>4. \A i \in 1..Len(t) : MayFollow(NodeAt(t, i - 1), t[i])
  BY DEF Outline
<1>5. \A i \in 1..Len(t) : i - 1 \in 0..Len(t) /\ t[i].depth = DepthOf(t, i)
  BY <1>1 DEF DepthOf
<1>6. ASSUME NEW i \in 1..Len(t) PROVE t[i].depth > 0 /\ t[i].depth <= DepthOf(t, i - 1) + 1
  <2>1. t[i].depth \in 1..NodeAt(t, i - 1).depth + 1
    BY <1>4 DEF MayFollow
  <2>2. NodeAt(t, i - 1).depth = DepthOf(t, i - 1) /\ DepthOf(t, i - 1) \in Nat
    BY <1>3, <1>5
  <2> QED
    BY <1>2, <2>1, <2>2
<1> QED
  BY <1>1, <1>2, <1>3, <1>4, <1>5, <1>6

LEMMA EndIs ==
    ASSUME NEW t, Outline(t), NEW i \in 0..Len(t)
    PROVE  /\ EndOf(t, i) \in i..Len(t)
           /\ \A k \in i + 1..EndOf(t, i) : k \in 1..Len(t) /\ t[k].depth > DepthOf(t, i)
           /\ EndOf(t, i) < Len(t) => t[EndOf(t, i) + 1].depth <= DepthOf(t, i)
<1> DEFINE S == {k \in i + 1..Len(t) : t[k].depth <= DepthOf(t, i)} \cup {Len(t) + 1}
           m == Min(S)
<1>1. Len(t) \in Nat /\ DepthOf(t, i) \in Nat /\ \A k \in 1..Len(t) : t[k].depth \in Nat
  BY OutlineFacts
<1>2. S \subseteq Nat /\ S # {} /\ \A k \in S : k \in i + 1..Len(t) + 1
  BY <1>1
<1>3. m \in S /\ \A k \in S : m <= k
  <2> HIDE DEF S
  <2> QED
    BY <1>2, MinOfAny
<1>4. EndOf(t, i) = m - 1
  BY DEF EndOf
<1>5. m \in i + 1..Len(t) + 1
  BY <1>2, <1>3
<1>6. ASSUME NEW k \in i + 1..m - 1 PROVE k \in 1..Len(t) /\ t[k].depth > DepthOf(t, i)
  <2>1. k \in i + 1..Len(t) /\ k \in 1..Len(t) /\ k < m
    BY <1>1, <1>5
  <2>2. k \notin S
    <3> HIDE DEF m, S
    <3> QED
      BY <1>3, <1>5, <2>1
  <2> QED
    BY <1>1, <2>1, <2>2
<1>7. m - 1 < Len(t) => t[m - 1 + 1].depth <= DepthOf(t, i)
  <2> SUFFICES ASSUME m - 1 < Len(t) PROVE t[m - 1 + 1].depth <= DepthOf(t, i)
    OBVIOUS
  <2>1. m # Len(t) + 1 /\ m - 1 + 1 = m
    BY <1>1, <1>5
  <2> QED
    BY <1>3, <2>1
<1>8. m - 1 \in i..Len(t)
  BY <1>1, <1>5
<1> HIDE DEF m
<1> QED
  BY <1>4, <1>6, <1>7, <1>8

\* The nodes below another one.
LEMMA BelowIs ==
    ASSUME NEW t, Outline(t), NEW i \in 0..Len(t), NEW kinds
    PROVE  /\ Below(t, i, kinds) \subseteq i + 1..EndOf(t, i)
           /\ Below(t, i, kinds) \subseteq 1..Len(t)
           /\ \A j \in Below(t, i, kinds) : t[j].depth = DepthOf(t, i) + 1 /\ t[j].kind \in kinds
  BY EndIs DEF Below

LEMMA FirstIs ==
    ASSUME NEW S, S \subseteq Nat
    PROVE  FirstOf(S) = NoNode \/ FirstOf(S) \in S
  BY MinOfAny DEF FirstOf

\* A part does not reach beyond one that it is in.
LEMMA PartsNest ==
    ASSUME NEW t, Outline(t), NEW i \in 0..Len(t), NEW j \in i + 1..EndOf(t, i)
    PROVE  j \in 1..Len(t) /\ EndOf(t, j) <= EndOf(t, i)
<1>1. Len(t) \in Nat /\ DepthOf(t, i) \in Nat /\ \A k \in 1..Len(t) : t[k].depth \in Nat
  BY OutlineFacts
<1>2. EndOf(t, i) \in i..Len(t) /\ j \in 1..Len(t) /\ j \in 0..Len(t) /\ t[j].depth > DepthOf(t, i)
  BY <1>1, EndIs
<1>3. EndOf(t, j) \in j..Len(t) /\ DepthOf(t, j) = t[j].depth
  BY <1>2, EndIs, OutlineFacts
<1>4. SUFFICES ASSUME EndOf(t, j) > EndOf(t, i) PROVE FALSE
  BY <1>2, <1>3
<1>5. EndOf(t, i) < Len(t) /\ EndOf(t, i) + 1 \in j + 1..EndOf(t, j)
  BY <1>2, <1>3, <1>4
<1>6. t[EndOf(t, i) + 1].depth <= DepthOf(t, i) /\ t[EndOf(t, i) + 1].depth > DepthOf(t, j)
  BY <1>2, <1>5, EndIs
<1>7. EndOf(t, i) + 1 \in 1..Len(t)
  BY <1>1, <1>2, <1>5
<1> QED
  BY <1>1, <1>2, <1>3, <1>6, <1>7

\* The attributes of a node come right after it.
LEMMA AttributesFirst ==
    ASSUME NEW t, Outline(t), NEW i \in 0..Len(t)
    PROVE  /\ LastAttribute(t, i) \in i..EndOf(t, i)
           /\ Below(t, i, AttributeKinds) = i + 1..LastAttribute(t, i)
<1> DEFINE B == Below(t, i, AttributeKinds)
           d == DepthOf(t, i)
           e == EndOf(t, i)
<1>1. /\ Len(t) \in Nat /\ d \in Nat /\ (\A k \in 1..Len(t) : t[k].depth \in Nat)
      /\ \A k \in 1..Len(t) : MayFollow(NodeAt(t, k - 1), t[k])
  BY OutlineFacts
<1>2. e \in i..Len(t) /\ \A k \in i + 1..e : k \in 1..Len(t) /\ t[k].depth > d
  BY EndIs
<1>3. B \subseteq i + 1..e /\ \A j \in B : t[j].depth = d + 1 /\ t[j].kind \in AttributeKinds
  BY BelowIs
<1>4. \A j \in i + 1..e : t[j].depth = d + 1 /\ t[j].kind \in AttributeKinds => j \in B
  BY DEF Below
<1>5. LastAttribute(t, i) = i + Cardinality(B)
  BY DEF LastAttribute
<1> HIDE DEF B, d, e
<1>6. CASE B = {}
  <2>1. Cardinality(B) = 0
    BY <1>6, FS_EmptySet
  <2> QED
    BY <1>1, <1>2, <1>5, <1>6, <2>1 DEF B, e
<1>7. CASE B # {}
  <2> DEFINE m == Max(B)
  <2>1. e \in Nat /\ B \subseteq 0..e
    BY <1>1, <1>2, <1>3
  <2>2. m \in B /\ \A k \in B : m >= k
    BY <1>7, <2>1, MaxOfBounded
  <2> HIDE DEF m
  <2>3. m \in i + 1..e
    BY <1>3, <2>2
  <2> DEFINE Gaps == {j \in i + 1..m : j \notin B}
  <2>4. Gaps = {}
    <3> SUFFICES ASSUME Gaps # {} PROVE FALSE
      OBVIOUS
    <3>1. m \in Nat /\ Gaps \subseteq 0..m
      BY <1>1, <2>3
    <3> DEFINE g == Max(Gaps)
    <3>2. g \in Gaps /\ \A k \in Gaps : g >= k
      <4> HIDE DEF Gaps
      <4> QED
        BY <3>1, MaxOfBounded
    <3> HIDE DEF g
    <3>3. g \in i + 1..m /\ g \notin B
      BY <3>2
    <3>4. g # m
      BY <2>2, <3>3
    <3>5. g + 1 \in i + 1..m /\ ~ (g >= g + 1)
      BY <3>1, <3>3, <3>4
    <3>6. g + 1 \in B
      BY <3>2, <3>5
    <3>7. g \in i + 1..e /\ g + 1 \in 1..Len(t) /\ g # 0 /\ g + 1 - 1 = g /\ g \in 1..Len(t)
      BY <1>1, <1>2, <2>3, <3>3, <3>5
    <3>8. MayFollow(t[g], t[g + 1])
      BY <1>1, <3>7 DEF NodeAt
    <3>9. t[g].depth > d /\ t[g].depth \in Nat
      BY <1>1, <1>2, <3>7
    <3>10. t[g + 1].depth = d + 1 /\ t[g + 1].kind \in AttributeKinds
      BY <1>3, <3>6
    <3>11. t[g].kind \in AttributeKinds /\ t[g + 1].depth = t[g].depth
      BY <1>1, <3>8, <3>9, <3>10 DEF MayFollow
    <3> QED
      BY <1>4, <3>3, <3>7, <3>10, <3>11
  <2>5. B = i + 1..m
    <3>1. \A j \in B : j \in i + 1..m
      BY <1>1, <1>2, <1>3, <2>2, <2>3
    <3>2. \A j \in i + 1..m : j \in B
      BY <2>4
    <3> QED
      BY <3>1, <3>2
  <2>6. Cardinality(B) = m - i
    <3>1. i + 1 \in Int /\ m \in Int /\ i + 1 <= m /\ m - (i + 1) + 1 = m - i
      BY <1>1, <1>2, <2>3
    <3> QED
      BY <2>5, <3>1, FS_Interval
  <2>7. i + (m - i) = m /\ m \in i..e
    BY <1>1, <1>2, <2>3
  <2> QED
    BY <1>5, <2>5, <2>6, <2>7 DEF B, e
<1> QED
  BY <1>6, <1>7

-----------------------------------------------------------------------------
(* Nodes that are inserted *)

IsJoined(joined, s, u) ==
    /\ Len(joined) = Len(s) + Len(u)
    /\ \A k \in 1..Len(s) : joined[k] = s[k]
    /\ \A k \in 1..Len(u) : joined[Len(s) + k] = u[k]

LEMMA JoinedIs ==
    ASSUME NEW S, NEW s \in Seq(S), NEW u \in Seq(S)
    PROVE  s \o u \in Seq(S) /\ IsJoined(s \o u, s, u)
<1>1. Len(s) \in Nat /\ Len(u) \in Nat
  OBVIOUS
<1> DEFINE joined == s \o u
<1>2. joined \in Seq(S) /\ Len(joined) = Len(s) + Len(u)
  BY ConcatProperties
<1>3. \A k \in 1..Len(s) : joined[k] = s[k]
  BY <1>1, ConcatProperties
<1>4. ASSUME NEW k \in 1..Len(u) PROVE joined[Len(s) + k] = u[k]
  <2>1. Len(s) + k \in 1..Len(s) + Len(u) /\ ~ (Len(s) + k <= Len(s)) /\ Len(s) + k - Len(s) = k
    BY <1>1
  <2> QED
    BY <2>1, ConcatProperties
<1> HIDE DEF joined
<1>5. IsJoined(joined, s, u)
  BY <1>2, <1>3, <1>4 DEF IsJoined
<1> QED
  BY <1>2, <1>5 DEF joined

InsertsNodes(u, t, i, nodes) ==
    /\ Len(u) = Len(t) + Len(nodes)
    /\ \A k \in 1..i : u[k] = t[k]
    /\ \A k \in 1..Len(nodes) : u[i + k] = nodes[k]
    /\ \A k \in i + 1..Len(t) : u[Len(nodes) + k] = t[k]

LEMMA InsertIs ==
    ASSUME NEW S, NEW t \in Seq(S), NEW i \in 0..Len(t), NEW nodes \in Seq(S)
    PROVE  InsertAfter(t, i, nodes) \in Seq(S) /\ InsertsNodes(InsertAfter(t, i, nodes), t, i, nodes)
<1> DEFINE N == Len(t)
           n == Len(nodes)
           a == SubSeq(t, 1, i)
           c == SubSeq(t, i + 1, N)
           ab == a \o nodes
           u == ab \o c
<1>1. N \in Nat /\ n \in Nat /\ i \in Nat /\ i <= N
  OBVIOUS
<1>2. a \in Seq(S) /\ Len(a) = i /\ \A k \in 1..i : a[k] = t[k]
  BY <1>1
<1>3. c \in Seq(S) /\ Len(c) = N - i /\ \A k \in 1..N - i : c[k] = t[i + k]
  BY <1>1
<1> HIDE DEF a, c
<1>4. ab \in Seq(S) /\ IsJoined(ab, a, nodes)
  BY <1>2, JoinedIs
<1> HIDE DEF ab
<1>5. u \in Seq(S) /\ IsJoined(u, ab, c)
  BY <1>3, <1>4, JoinedIs
<1>6. InsertAfter(t, i, nodes) = u
  BY DEF InsertAfter, u, ab, a, c
<1> HIDE DEF u, N, n
<1>7. Len(ab) = i + n /\ Len(u) = N + n
  BY <1>1, <1>2, <1>3, <1>4, <1>5 DEF IsJoined, n
<1>8. ASSUME NEW k \in 1..i PROVE u[k] = t[k]
  <2>1. k \in 1..Len(ab) /\ k \in 1..Len(a)
    BY <1>1, <1>2, <1>7
  <2> QED
    BY <1>2, <1>4, <1>5, <2>1 DEF IsJoined
<1>9. ASSUME NEW k \in 1..n PROVE u[i + k] = nodes[k]
  <2>1. i + k \in 1..Len(ab) /\ k \in 1..Len(nodes)
    BY <1>1, <1>2, <1>7 DEF n
  <2> QED
    BY <1>2, <1>4, <1>5, <2>1 DEF IsJoined
<1>10. ASSUME NEW k \in i + 1..N PROVE u[n + k] = t[k]
  <2>1. k - i \in 1..N - i /\ i + (k - i) = k /\ Len(ab) + (k - i) = n + k
    BY <1>1, <1>7
  <2> QED
    BY <1>3, <1>5, <2>1 DEF IsJoined
<1>11. InsertsNodes(u, t, i, nodes)
  BY <1>7, <1>8, <1>9, <1>10 DEF InsertsNodes, N, n
<1> QED
  BY <1>5, <1>6, <1>11

\* An outline stays one where what is inserted may follow what comes before it, and
\* what comes after it may follow it.
LEMMA InsertKeepsOutline ==
    ASSUME NEW t, Outline(t), NEW i \in 0..Len(t), NEW nodes, nodes \in Seq(Nodes), nodes # <<>>,
           MayFollow(NodeAt(t, i), nodes[1]),
           \A k \in 2..Len(nodes) : MayFollow(nodes[k - 1], nodes[k]),
           i < Len(t) => MayFollow(nodes[Len(nodes)], t[i + 1])
    PROVE  Outline(InsertAfter(t, i, nodes)) /\ Len(InsertAfter(t, i, nodes)) = Len(t) + Len(nodes)
<1> DEFINE u == InsertAfter(t, i, nodes)
           n == Len(nodes)
<1>1. t \in Seq(Nodes) /\ Len(t) \in Nat /\ \A k \in 1..Len(t) : MayFollow(NodeAt(t, k - 1), t[k])
  BY OutlineFacts
<1>2. n \in Nat /\ n > 0 /\ i \in Nat
  BY <1>1
<1>3. /\ u \in Seq(Nodes) /\ Len(u) = Len(t) + n
      /\ \A k \in 1..i : u[k] = t[k]
      /\ \A k \in 1..n : u[i + k] = nodes[k]
      /\ \A k \in i + 1..Len(t) : u[n + k] = t[k]
  <2>1. u \in Seq(Nodes) /\ InsertsNodes(u, t, i, nodes)
    BY <1>1, InsertIs
  <2> HIDE DEF u
  <2> QED
    BY <2>1 DEF InsertsNodes
<1> HIDE DEF u, n
<1>4. ASSUME NEW k \in 1..Len(u) PROVE MayFollow(NodeAt(u, k - 1), u[k])
  <2>1. CASE k <= i
    <3>1. k \in 1..i /\ k \in 1..Len(t) /\ (k - 1 # 0 => k - 1 \in 1..i)
      BY <1>1, <2>1
    <3>2. u[k] = t[k] /\ NodeAt(u, k - 1) = NodeAt(t, k - 1)
      BY <1>3, <3>1 DEF NodeAt
    <3> QED
      BY <1>1, <3>1, <3>2
  <2>2. CASE k = i + 1
    <3>1. 1 \in 1..n /\ k - 1 = i /\ (i # 0 => i \in 1..i)
      BY <1>1, <1>2, <2>2
    <3>2. u[k] = nodes[1] /\ NodeAt(u, k - 1) = NodeAt(t, i)
      BY <1>3, <2>2, <3>1 DEF NodeAt
    <3> QED
      BY <3>2
  <2>3. CASE k > i + 1 /\ k <= i + n
    <3>1. k - i \in 2..n /\ k - i \in 1..n /\ k - i - 1 \in 1..n /\ k - 1 # 0
          /\ i + (k - i) = k /\ i + (k - i - 1) = k - 1
      BY <1>1, <1>2, <2>3
    <3>2. u[k] = nodes[k - i] /\ u[k - 1] = nodes[k - i - 1]
      BY <1>3, <3>1
    <3>3. MayFollow(nodes[k - i - 1], nodes[k - i])
      BY <3>1 DEF n
    <3> QED
      BY <3>1, <3>2, <3>3 DEF NodeAt
  <2>4. CASE k = i + n + 1
    <3>1. /\ i + 1 \in i + 1..Len(t) /\ i < Len(t) /\ n + (i + 1) = k
          /\ n \in 1..n /\ i + n = k - 1 /\ k - 1 # 0
      <4>1. Len(t) \in Nat /\ k \in 1..Len(t) + n
        BY <1>1, <1>3
      <4> QED
        BY <1>2, <2>4, <4>1
    <3>2. u[k] = t[i + 1] /\ u[k - 1] = nodes[n]
      BY <1>3, <3>1
    <3> QED
      BY <3>1, <3>2 DEF NodeAt, n
  <2>5. CASE k > i + n + 1
    <3>1. k - n \in i + 1..Len(t) /\ k - n - 1 \in i + 1..Len(t) /\ n + (k - n) = k
          /\ n + (k - n - 1) = k - 1 /\ k - 1 # 0 /\ k - n \in 1..Len(t) /\ k - n - 1 # 0
      BY <1>1, <1>2, <1>3, <2>5
    <3>2. u[k] = t[k - n] /\ u[k - 1] = t[k - n - 1]
      BY <1>3, <3>1
    <3>3. MayFollow(NodeAt(t, k - n - 1), t[k - n])
      BY <1>1, <3>1
    <3> QED
      BY <3>1, <3>2, <3>3 DEF NodeAt
  <2> QED
    BY <1>1, <1>2, <1>3, <2>1, <2>2, <2>3, <2>4, <2>5
<1> QED
  BY <1>3, <1>4 DEF Outline, u, n

LEMMA AtTheEnd ==
    ASSUME NEW t \in Seq(Nodes), NEW nodes \in Seq(Nodes)
    PROVE  t \o nodes = InsertAfter(t, Len(t), nodes) /\ Len(t) \in 0..Len(t)
<1>1. Len(t) \in Nat
  OBVIOUS
<1>2. SubSeq(t, 1, Len(t)) = t /\ SubSeq(t, Len(t) + 1, Len(t)) = <<>>
  BY <1>1
<1>3. t \o nodes \in Seq(Nodes)
  BY ConcatProperties
<1>4. (t \o nodes) \o <<>> = t \o nodes
  BY <1>3, ConcatEmptySeq
<1> QED
  BY <1>1, <1>2, <1>4 DEF InsertAfter

LEMMA NodesMade ==
    ASSUME NEW depth \in Nat, NEW kind \in AttributeKinds \cup ChildKinds, NEW name \in Names,
           NEW value \in Values
    PROVE  Node(depth, kind, name, value) \in Nodes
  BY DEF Node, Nodes

LEMMA NamesAndValues ==
    /\ \A name \in Names : NameOnly(name) \in Names
    /\ CDATAName \in Names /\ "x" \in Names /\ "y" \in Names /\ EmptyName \in Names
    /\ <<>> \in Values /\ <<"v">> \in Values /\ <<"w">> \in Values
    /\ SettingValues \subseteq Values /\ Seq(Tokens) \subseteq Values /\ Tokens \subseteq Names
<1>1. \A name \in DOMAIN Indexed : Indexed[name][1] \in Names
  <2>1. \A name \in DOMAIN Indexed : Indexed[name][1] \in IndexNames
    BY DEF IndexNames
  <2> QED
    BY <2>1 DEF Names
<1>2. \A name \in Names : NameOnly(name) \in Names
  BY <1>1, Zenon DEF NameOnly
<1>3. CDATAName \in Names /\ "x" \in Names /\ "y" \in Names /\ EmptyName \in Names /\ Tokens \subseteq Names
  BY DEF Names
<1>4. <<>> \in Seq(Tokens)
  OBVIOUS
<1>5. <<>> \in Values /\ <<"v">> \in Values /\ <<"w">> \in Values
      /\ SettingValues \subseteq Values /\ Seq(Tokens) \subseteq Values
  BY <1>4, Zenon DEF Values
<1> QED
  BY <1>2, <1>3, <1>5

\* A node is appended.
LEMMA AppendKeepsOutline ==
    ASSUME NEW t, Outline(t), NEW node \in Nodes, MayFollow(NodeAt(t, Len(t)), node)
    PROVE  Outline(Append(t, node)) /\ Len(Append(t, node)) = Len(t) + 1
           /\ \A k \in 1..Len(t) : Append(t, node)[k] = t[k]
<1>1. t \in Seq(Nodes) /\ Len(t) \in Nat /\ \A k \in 1..Len(t) : MayFollow(NodeAt(t, k - 1), t[k])
  BY OutlineFacts
<1> DEFINE u == Append(t, node)
<1>2. u \in Seq(Nodes) /\ Len(u) = Len(t) + 1 /\ (\A k \in 1..Len(t) : u[k] = t[k]) /\ u[Len(t) + 1] = node
  BY <1>1, AppendProperties
<1> HIDE DEF u
<1>3. ASSUME NEW k \in 1..Len(u) PROVE MayFollow(NodeAt(u, k - 1), u[k])
  <2>1. k - 1 \in 0..Len(t) /\ NodeAt(u, k - 1) = NodeAt(t, k - 1)
    BY <1>1, <1>2 DEF NodeAt
  <2>2. CASE k \in 1..Len(t)
    BY <1>1, <1>2, <2>1, <2>2
  <2>3. CASE k = Len(t) + 1
    BY <1>1, <1>2, <2>1, <2>3
  <2> QED
    BY <1>1, <1>2, <2>2, <2>3
<1> QED
  BY <1>2, <1>3 DEF Outline, u

\* A tag with its text after the end of a part, one level below what the part is of.
LEMMA TagFollows ==
    ASSUME NEW t, Outline(t), NEW i \in 0..Len(t), i # 0 => t[i].kind = "tag", NEW node,
           node.kind = "tag", node.depth = DepthOf(t, i) + 1
    PROVE  /\ MayFollow(NodeAt(t, EndOf(t, i)), node)
           /\ EndOf(t, i) < Len(t) => /\ t[EndOf(t, i) + 1].depth <= DepthOf(t, i)
                                      /\ t[EndOf(t, i) + 1].depth \in Nat
                                      /\ t[EndOf(t, i) + 1].depth > 0
                                      /\ t[EndOf(t, i) + 1].kind \notin AttributeKinds
<1> DEFINE e == EndOf(t, i)
           d == DepthOf(t, i)
<1>1. /\ Len(t) \in Nat /\ (\A k \in 0..Len(t) : DepthOf(t, k) \in Nat /\ DepthOf(t, k) = NodeAt(t, k).depth)
      /\ \A k \in 1..Len(t) : t[k].depth \in Nat /\ t[k].depth > 0 /\ MayFollow(NodeAt(t, k - 1), t[k])
                              /\ t[k].depth = DepthOf(t, k)
  BY OutlineFacts
<1>2. /\ e \in i..Len(t) /\ (\A k \in i + 1..e : k \in 1..Len(t) /\ t[k].depth > d)
      /\ e < Len(t) => t[e + 1].depth <= d
  BY EndIs
<1>3. d \in Nat /\ e \in 0..Len(t) /\ DepthOf(t, e) \in Nat /\ DepthOf(t, e) = NodeAt(t, e).depth
  BY <1>1, <1>2
<1> HIDE DEF e, d
<1>4. (e = i \/ (e # 0 /\ DepthOf(t, e) > d)) /\ (e = i => DepthOf(t, e) = d)
  <2>1. CASE e = i
    BY <2>1 DEF d
  <2>2. CASE e # i
    <3>1. e \in i + 1..e /\ e # 0 /\ e \in 1..Len(t)
      BY <1>1, <1>2, <2>2
    <3> QED
      BY <1>1, <1>2, <2>2, <3>1
  <2> QED
    BY <2>1, <2>2
<1>5. MayFollow(NodeAt(t, e), node)
  <2>1. node.depth = d + 1 /\ node.kind \notin AttributeKinds
    BY DEF AttributeKinds, d
  <2>2. node.depth = NodeAt(t, e).depth + 1 => NodeAt(t, e).kind \in {"tag", "settings"}
    <3>1. SUFFICES ASSUME node.depth = NodeAt(t, e).depth + 1 PROVE NodeAt(t, e).kind \in {"tag", "settings"}
      OBVIOUS
    <3>2. e = i
      BY <1>3, <1>4, <2>1, <3>1
    <3> QED
      BY <3>2 DEF NodeAt
  <2>3. node.depth \in 1..NodeAt(t, e).depth + 1
    BY <1>3, <1>4, <2>1
  <2> QED
    BY <2>1, <2>2, <2>3 DEF MayFollow
<1>6. ASSUME e < Len(t)
      PROVE  t[e + 1].depth <= d /\ t[e + 1].depth \in Nat /\ t[e + 1].depth > 0
             /\ t[e + 1].kind \notin AttributeKinds
  <2>1. e + 1 \in 1..Len(t) /\ e + 1 - 1 = e
    BY <1>1, <1>3, <1>6
  <2>2. t[e + 1].depth <= d /\ t[e + 1].depth \in Nat /\ t[e + 1].depth > 0 /\ MayFollow(NodeAt(t, e), t[e + 1])
    BY <1>1, <1>2, <1>6, <2>1
  <2>3. ASSUME t[e + 1].kind \in AttributeKinds PROVE FALSE
    <3>1. NodeAt(t, e).kind \in AttributeKinds /\ t[e + 1].depth = NodeAt(t, e).depth
      BY <1>3, <1>4, <2>2, <2>3 DEF MayFollow
    <3>2. e = i
      BY <1>3, <1>4, <2>2, <3>1
    <3> QED
      BY <3>1, <3>2 DEF NodeAt, AttributeKinds
  <2> QED
    BY <2>2, <2>3
<1> QED
  BY <1>5, <1>6 DEF e, d

-----------------------------------------------------------------------------
(* What the calls add *)

LEMMA AddLeafKeepsOutline ==
    ASSUME NEW t, Outline(t), NEW i \in 0..Len(t), i # 0 => t[i].kind = "tag",
           NEW name \in Names, NEW kind \in AttributeKinds, NEW value \in Values
    PROVE  Outline(AddLeaf(t, i, name, kind, value))
<1>1. /\ t \in Seq(Nodes) /\ Len(t) \in Nat
      /\ (\A k \in 0..Len(t) : DepthOf(t, k) \in Nat /\ DepthOf(t, k) = NodeAt(t, k).depth)
      /\ \A k \in 1..Len(t) : t[k].depth \in Nat /\ t[k].depth > 0 /\ MayFollow(NodeAt(t, k - 1), t[k])
                              /\ t[k].depth = DepthOf(t, k)
  BY OutlineFacts
<1>2. CASE i = 0
  <2> DEFINE tag == Node(1, "tag", NameOnly(name), <<>>)
             leaf == Node(2, "cdata", CDATAName, value)
             nodes == <<tag, leaf>>
  <2>1. tag \in Nodes /\ leaf \in Nodes
    BY NodesMade, NamesAndValues DEF ChildKinds
  <2>2. tag.depth = 1 /\ tag.kind = "tag" /\ leaf.depth = 2 /\ leaf.kind = "cdata"
    BY DEF Node
  <2>3. nodes \in Seq(Nodes) /\ nodes # <<>> /\ Len(nodes) = 2 /\ nodes[1] = tag /\ nodes[2] = leaf
    BY <2>1
  <2>4. AddLeaf(t, i, name, kind, value) = t \o nodes
    BY <1>2 DEF AddLeaf
  <2> HIDE DEF tag, leaf, nodes
  <2>5. t \o nodes = InsertAfter(t, Len(t), nodes) /\ Len(t) \in 0..Len(t)
    BY <1>1, <2>3, AtTheEnd
  <2>6. MayFollow(NodeAt(t, Len(t)), nodes[1])
    <3>1. NodeAt(t, Len(t)).depth \in Nat /\ (Len(t) # 0 => NodeAt(t, Len(t)).depth > 0)
      BY <1>1, <2>5 DEF NodeAt
    <3>2. Len(t) = 0 => NodeAt(t, Len(t)) = [depth |-> 0, kind |-> "settings"]
      BY DEF NodeAt
    <3>3. tag.depth \in 1..NodeAt(t, Len(t)).depth + 1
      BY <2>2, <3>1
    <3>4. tag.depth = NodeAt(t, Len(t)).depth + 1 => NodeAt(t, Len(t)).kind \in {"tag", "settings"}
      BY <2>2, <3>1, <3>2
    <3>5. tag.kind \notin AttributeKinds
      BY <2>2 DEF AttributeKinds
    <3> QED
      BY <2>3, <3>3, <3>4, <3>5 DEF MayFollow
  <2>7. MayFollow(tag, leaf)
    BY <2>2 DEF MayFollow, AttributeKinds
  <2>8. \A k \in 2..Len(nodes) : MayFollow(nodes[k - 1], nodes[k])
    BY <2>3, <2>7
  <2>9. ~ (Len(t) < Len(t))
    BY <1>1
  <2> QED
    BY <2>3, <2>4, <2>5, <2>6, <2>8, <2>9, InsertKeepsOutline
<1>3. CASE i # 0
  <2> DEFINE leaf == Node(t[i].depth + 1, kind, name, value)
             p == LastAttribute(t, i)
             d == DepthOf(t, i)
             B == Below(t, i, AttributeKinds)
  <2>1. i \in 1..Len(t) /\ t[i].depth = d /\ d \in Nat /\ t[i].kind = "tag"
    BY <1>1, <1>3
  <2>2. p \in i..EndOf(t, i) /\ B = i + 1..p
    BY AttributesFirst
  <2>3. EndOf(t, i) \in i..Len(t) /\ (EndOf(t, i) < Len(t) => t[EndOf(t, i) + 1].depth <= d)
    BY EndIs
  <2>4. \A j \in B : t[j].depth = d + 1 /\ t[j].kind \in AttributeKinds
    BY BelowIs
  <2>5. \A j \in i + 1..EndOf(t, i) : t[j].depth = d + 1 /\ t[j].kind \in AttributeKinds => j \in B
    BY DEF Below
  <2>6. leaf \in Nodes /\ leaf.depth = d + 1 /\ leaf.kind = kind
    <3>1. t[i].depth + 1 \in Nat
      BY <2>1
    <3>2. leaf \in Nodes
      BY <3>1, NodesMade
    <3> QED
      BY <2>1, <3>2 DEF Node
  <2>7. AddLeaf(t, i, name, kind, value) = InsertAfter(t, p, <<leaf>>)
    BY <1>3 DEF AddLeaf
  <2> HIDE DEF p, d, B, leaf
  <2>8. p \in 0..Len(t) /\ p \in 1..Len(t) /\ p # 0
    BY <1>1, <2>1, <2>2, <2>3
  <2>9. \/ p = i /\ NodeAt(t, p).kind = "tag" /\ NodeAt(t, p).depth = d
        \/ NodeAt(t, p).kind \in AttributeKinds /\ NodeAt(t, p).depth = d + 1
    <3>1. CASE p = i
      BY <2>1, <2>8, <3>1 DEF NodeAt
    <3>2. CASE p # i
      <4>1. p \in B
        BY <2>1, <2>2, <3>2
      <4> QED
        BY <2>4, <2>8, <4>1 DEF NodeAt
    <3> QED
      BY <3>1, <3>2
  <2>10. MayFollow(NodeAt(t, p), leaf)
    BY <2>1, <2>6, <2>9 DEF MayFollow, AttributeKinds
  <2>11. ASSUME p < Len(t) PROVE MayFollow(leaf, t[p + 1])
    <3>1. p + 1 \in 1..Len(t) /\ p + 1 - 1 = p
      BY <1>1, <2>8, <2>11
    <3>2. t[p + 1].depth \in Nat /\ t[p + 1].depth > 0 /\ MayFollow(NodeAt(t, p), t[p + 1])
      <4> DEFINE q == p + 1
      <4>1. q \in 1..Len(t) /\ q - 1 = p
        BY <1>1, <2>8, <2>11
      <4> HIDE DEF q
      <4>2. t[q].depth \in Nat /\ t[q].depth > 0 /\ MayFollow(NodeAt(t, q - 1), t[q])
        BY <1>1, <4>1
      <4> QED
        BY <4>1, <4>2 DEF q
    <3>3. t[p + 1].depth <= d + 1
      BY <2>1, <2>9, <3>2 DEF MayFollow, AttributeKinds
    <3>4. ASSUME t[p + 1].kind \in AttributeKinds PROVE FALSE
      <4>1. t[p + 1].depth = d + 1
        BY <2>1, <2>9, <3>2, <3>4 DEF MayFollow, AttributeKinds
      <4>2. p + 1 \in i + 1..EndOf(t, i)
        <5>1. CASE p = EndOf(t, i)
          BY <2>1, <2>3, <2>11, <4>1, <5>1
        <5>2. CASE p # EndOf(t, i)
          BY <2>1, <2>2, <2>3, <5>2
        <5> QED
          BY <5>1, <5>2
      <4>3. p + 1 \in B
        BY <2>5, <3>4, <4>1, <4>2
      <4> QED
        BY <2>1, <2>2, <2>8, <4>3
    <3> QED
      BY <2>1, <2>6, <3>2, <3>3, <3>4 DEF MayFollow
  <2> DEFINE nodes == <<leaf>>
  <2>12. nodes \in Seq(Nodes) /\ nodes # <<>> /\ Len(nodes) = 1 /\ nodes[1] = leaf
    BY <2>6
  <2> HIDE DEF nodes
  <2>13. \A k \in 2..Len(nodes) : MayFollow(nodes[k - 1], nodes[k])
    BY <2>12
  <2>14. Outline(InsertAfter(t, p, nodes))
    BY <2>8, <2>10, <2>11, <2>12, <2>13, InsertKeepsOutline
  <2> QED
    BY <2>7, <2>14 DEF nodes
<1> QED
  BY <1>2, <1>3

\* A place in an outline: the VSettings object, a node, or none.
IsPlace(t, i) == i = NoNode \/ i \in 0..Len(t)

LEMMA GrownIs ==
    ASSUME NEW t, Outline(t), NEW i \in 0..Len(t), i # 0 => t[i].kind = "tag", NEW name \in Names
    PROVE  Outline(Grown(t, i, name).tree) /\ IsPlace(Grown(t, i, name).tree, Grown(t, i, name).at)
<1> DEFINE node == Node(DepthOf(t, i) + 1, "tag", NameOnly(name), <<>>)
           e == EndOf(t, i)
           nodes == <<node>>
           u == InsertAfter(t, e, nodes)
<1>1. Len(t) \in Nat /\ DepthOf(t, i) \in Nat
  BY OutlineFacts
<1>2. e \in i..Len(t)
  BY EndIs
<1>3. node \in Nodes /\ node.kind = "tag" /\ node.depth = DepthOf(t, i) + 1
  <2>1. DepthOf(t, i) + 1 \in Nat
    BY <1>1
  <2>2. node \in Nodes
    BY <2>1, NodesMade, NamesAndValues DEF ChildKinds
  <2> QED
    BY <2>2 DEF Node
<1>4. Grown(t, i, name) = [tree |-> u, at |-> e + 1]
  BY DEF Grown
<1> HIDE DEF node
<1>5. /\ MayFollow(NodeAt(t, e), node)
      /\ e < Len(t) => /\ t[e + 1].depth <= DepthOf(t, i) /\ t[e + 1].depth \in Nat
                       /\ t[e + 1].depth > 0 /\ t[e + 1].kind \notin AttributeKinds
  BY <1>3, TagFollows
<1>6. e < Len(t) => MayFollow(node, t[e + 1])
  BY <1>1, <1>3, <1>5 DEF MayFollow
<1>7. nodes \in Seq(Nodes) /\ nodes # <<>> /\ Len(nodes) = 1 /\ nodes[1] = node
  BY <1>3
<1>8. e \in 0..Len(t)
  BY <1>1, <1>2
<1> HIDE DEF nodes, e
<1>9. \A k \in 2..Len(nodes) : MayFollow(nodes[k - 1], nodes[k])
  BY <1>7
<1>10. Outline(u) /\ Len(u) = Len(t) + 1
  BY <1>5, <1>6, <1>7, <1>8, <1>9, InsertKeepsOutline
<1> HIDE DEF u
<1>11. e + 1 \in 0..Len(u)
  BY <1>1, <1>8, <1>10
<1> QED
  BY <1>4, <1>10, <1>11 DEF IsPlace

-----------------------------------------------------------------------------
(* What the calls take away *)

LEMMA CountsUp ==
    ASSUME NEW n \in Nat, NEW Good, 0 \in Good, \A k \in 1..n : k - 1 \in Good => k \in Good
    PROVE  \A k \in 0..n : k \in Good
<1> DEFINE Bad == {k \in 0..n : k \notin Good}
<1> SUFFICES ASSUME Bad # {} PROVE FALSE
  OBVIOUS
<1>1. Bad \subseteq Nat
  OBVIOUS
<1>2. PICK k \in Bad : \A m \in Bad : k <= m
  BY <1>1, LeastOfAny
<1>3. k \in 1..n /\ k - 1 \in 0..n /\ ~ (k <= k - 1)
  OBVIOUS
<1>4. k - 1 \in Good
  BY <1>2, <1>3
<1> QED
  BY <1>3, <1>4

\* A function that takes n steps from the base exists.
Walks(f, n, S, base, step) ==
    /\ f \in [0..n -> S] /\ f[0] = base
    /\ \A k \in 1..n : f[k] = step[k][f[k - 1]]

LEMMA WalkExists ==
    ASSUME NEW S, NEW n \in Nat, NEW base \in S, NEW step \in [1..n -> [S -> S]]
    PROVE  \E f : Walks(f, n, S, base, step)
<1> DEFINE Is(m, f) == /\ f \in [0..m -> S] /\ f[0] = base
                       /\ \A k \in 1..m : f[k] = step[k][f[k - 1]]
           Good == {m \in 0..n : \E f : Is(m, f)}
<1>1. 0 \in Good
  <2>1. Is(0, [k \in 0..0 |-> base])
    OBVIOUS
  <2>2. 0 \in 0..n
    OBVIOUS
  <2> HIDE DEF Is
  <2> QED
    BY <2>1, <2>2
<1>2. ASSUME NEW m \in 1..n, m - 1 \in Good PROVE m \in Good
  <2>1. PICK f : Is(m - 1, f)
    BY <1>2
  <2> DEFINE next == step[m][f[m - 1]]
             g == [k \in 0..m |-> IF k < m THEN f[k] ELSE next]
  <2>2. f[m - 1] \in S
    BY <2>1
  <2>3. next \in S
    BY <2>2
  <2> HIDE DEF next
  <2>4. g \in [0..m -> S]
    <3>1. \A k \in 0..m : k < m => k \in 0..(m - 1)
      OBVIOUS
    <3> QED
      BY <2>1, <2>3, <3>1
  <2>5. (\A k \in 0..(m - 1) : g[k] = f[k]) /\ g[m] = next
    OBVIOUS
  <2> HIDE DEF g
  <2>6. g[0] = base
    BY <2>1, <2>5
  <2>7. ASSUME NEW k \in 1..m PROVE g[k] = step[k][g[k - 1]]
    <3>1. CASE k = m
      BY <2>5, <3>1 DEF next
    <3>2. CASE k # m
      <4>1. k \in 1..(m - 1) /\ k \in 0..(m - 1) /\ k - 1 \in 0..(m - 1)
        BY <3>2
      <4>2. f[k] = step[k][f[k - 1]]
        BY <2>1, <4>1
      <4> QED
        BY <2>5, <4>1, <4>2
    <3> QED
      BY <3>1, <3>2
  <2>8. Is(m, g)
    BY <2>4, <2>6, <2>7
  <2>9. m \in 0..n
    OBVIOUS
  <2> HIDE DEF Is
  <2> QED
    BY <2>8, <2>9
<1>3. n \in Good
  <2> HIDE DEF Good
  <2>1. \A k \in 0..n : k \in Good
    BY <1>1, <1>2, CountsUp
  <2> QED
    BY <2>1
<1> QED
  BY <1>3 DEF Walks

\* The nodes that are kept, one after the other.
Gone(t, nodes) == UNION {j..EndOf(t, j) : j \in nodes}
Keeps(t, gone, kept) ==
    /\ kept[0] = <<>>
    /\ \A k \in 1..Len(t) : kept[k] = IF k \in gone THEN kept[k - 1] ELSE Append(kept[k - 1], t[k])

LEMMA WithoutIs ==
    ASSUME NEW t \in Seq(Nodes), NEW nodes
    PROVE  \E kept : /\ \A k \in 0..Len(t) : kept[k] \in Seq(Nodes)
                     /\ Keeps(t, Gone(t, nodes), kept) /\ Without(t, nodes) = kept[Len(t)]
<1> DEFINE N == Len(t)
           G == UNION {j..EndOf(t, j) : j \in nodes}
           S == Seq(Nodes)
           e(f, k) == IF k = 0 THEN <<>> ELSE IF k \in G THEN f[k - 1] ELSE Append(f[k - 1], t[k])
           step == [k \in 1..N |-> [s \in S |-> IF k \in G THEN s ELSE Append(s, t[k])]]
           w == CHOOSE f : f = [k \in 0..N |-> e(f, k)]
<1>1. N \in Nat /\ \A k \in 1..N : t[k] \in Nodes
  OBVIOUS
<1>2. Without(t, nodes) = w[N]
  BY Zenon DEF Without
<1>3. <<>> \in S
  OBVIOUS
<1>4. \A s \in S, k \in 1..N : Append(s, t[k]) \in S
  BY <1>1, AppendProperties
<1> HIDE DEF N, G, S
<1>5. step \in [1..N -> [S -> S]]
  BY <1>4
<1>6. PICK f : Walks(f, N, S, <<>>, step)
  <2> HIDE DEF step
  <2> QED
    BY <1>1, <1>3, <1>5, WalkExists
<1>7. f = [k \in 0..N |-> e(f, k)]
  <2>1. ASSUME NEW k \in 0..N PROVE f[k] = e(f, k)
    <3>1. CASE k = 0
      BY <1>6, <3>1 DEF Walks
    <3>2. CASE k # 0
      <4>1. k \in 1..N /\ k - 1 \in 0..N
        BY <1>1, <3>2
      <4>2. f[k] = step[k][f[k - 1]] /\ f[k - 1] \in S
        BY <1>6, <4>1 DEF Walks
      <4> QED
        BY <3>2, <4>1, <4>2
    <3> QED
      BY <3>1, <3>2
  <2> HIDE DEF e
  <2> QED
    BY <1>6, <2>1 DEF Walks
<1>8. w = [k \in 0..N |-> e(w, k)]
  <2> HIDE DEF e
  <2> QED
    BY <1>7
<1> HIDE DEF w
<1>9. \A k \in 0..N : w[k] = e(w, k)
  <2> HIDE DEF e
  <2> QED
    BY <1>8
<1>10. w[0] = <<>>
  BY <1>1, <1>9
<1>11. \A k \in 1..N : w[k] = IF k \in G THEN w[k - 1] ELSE Append(w[k - 1], t[k])
  BY <1>1, <1>9
<1>12. \A k \in 0..N : w[k] \in S
  <2> DEFINE Good == {k \in 0..N : w[k] \in S}
  <2>1. 0 \in Good
    BY <1>1, <1>3, <1>10
  <2>2. \A k \in 1..N : k - 1 \in Good => k \in Good
    BY <1>1, <1>4, <1>11
  <2> HIDE DEF Good
  <2>3. \A k \in 0..N : k \in Good
    BY <1>1, <2>1, <2>2, CountsUp
  <2> QED
    BY <2>3 DEF Good
<1>13. Gone(t, nodes) = G
  BY DEF Gone, G
<1> QED
  BY <1>2, <1>10, <1>11, <1>12, <1>13 DEF Keeps, N, S

\* How many are kept where only one goes.
LEMMA WithoutOne ==
    ASSUME NEW t, Outline(t), NEW a \in 1..Len(t), EndOf(t, a) = a
    PROVE  Without(t, {a}) \in Seq(Nodes) /\ Len(Without(t, {a})) = Len(t) - 1
<1>1. t \in Seq(Nodes) /\ Len(t) \in Nat /\ \A k \in 1..Len(t) : t[k] \in Nodes
  BY OutlineFacts
<1>2. PICK kept : /\ \A k \in 0..Len(t) : kept[k] \in Seq(Nodes)
                  /\ Keeps(t, Gone(t, {a}), kept) /\ Without(t, {a}) = kept[Len(t)]
  BY <1>1, WithoutIs
<1>3. Gone(t, {a}) = {a}
  <2>1. a..EndOf(t, a) = {a}
    <3>1. a \in Int
      BY <1>1
    <3> QED
      BY <3>1
  <2>2. \A k : k \in Gone(t, {a}) <=> k \in a..EndOf(t, a)
    BY Zenon DEF Gone
  <2> QED
    BY <2>1, <2>2
<1> DEFINE Good == {k \in 0..Len(t) : Len(kept[k]) = IF k < a THEN k ELSE k - 1}
<1>4. 0 \in Good
  BY <1>1, <1>2 DEF Keeps
<1>5. ASSUME NEW k \in 1..Len(t), k - 1 \in Good PROVE k \in Good
  <2>1. kept[k - 1] \in Seq(Nodes) /\ Len(kept[k - 1]) = IF k - 1 < a THEN k - 1 ELSE k - 1 - 1
    BY <1>1, <1>2, <1>5
  <2>2. kept[k] = IF k = a THEN kept[k - 1] ELSE Append(kept[k - 1], t[k])
    BY <1>2, <1>3 DEF Keeps
  <2>3. CASE k = a
    BY <1>1, <2>1, <2>2, <2>3
  <2>4. CASE k # a
    <3>1. Len(kept[k]) = Len(kept[k - 1]) + 1
      BY <1>1, <2>1, <2>2, <2>4, AppendProperties
    <3> QED
      BY <1>1, <2>1, <2>4, <3>1
  <2> QED
    BY <2>3, <2>4
<1> HIDE DEF Good
<1>6. \A k \in 0..Len(t) : k \in Good
  BY <1>1, <1>4, <1>5, CountsUp
<1>7. Len(t) \in Good /\ Len(t) \in 0..Len(t) /\ ~ (Len(t) < a)
  BY <1>1, <1>6
<1> QED
  BY <1>2, <1>7 DEF Good

\* What may follow the first node of a part may follow what comes before the part: it is no
\* deeper, and an attribute only follows attributes.
LEMMA FollowsInstead ==
    ASSUME NEW t, Outline(t), NEW j \in 1..Len(t), NEW k \in j..Len(t) - 1,
           \A m \in j + 1..k : t[m].depth > t[j].depth,
           t[k + 1].depth <= t[j].depth, NEW last, last.depth \in Nat, MayFollow(last, t[j])
    PROVE  MayFollow(last, t[k + 1])
<1> DEFINE q == k + 1
<1>1. /\ Len(t) \in Nat
      /\ \A m \in 1..Len(t) : t[m].depth \in Nat /\ t[m].depth > 0 /\ MayFollow(NodeAt(t, m - 1), t[m])
  BY OutlineFacts
<1>2. q \in 1..Len(t) /\ q - 1 = k /\ k # 0 /\ k \in 1..Len(t) /\ (k = j \/ k \in j + 1..k)
  BY <1>1
<1>3. t[q].depth <= t[j].depth /\ t[q].depth \in Nat /\ t[j].depth \in Nat /\ t[q].depth > 0
  BY <1>1, <1>2
<1> HIDE DEF q
<1>4. t[j].depth <= last.depth + 1 /\ (t[j].depth = last.depth + 1 => last.kind \in {"tag", "settings"})
  BY <1>3 DEF MayFollow
<1>5. t[q].depth \in 1..last.depth + 1 /\ (t[q].depth = last.depth + 1 => last.kind \in {"tag", "settings"})
  BY <1>3, <1>4
<1>6. ASSUME t[q].kind \in AttributeKinds
      PROVE  \/ last.kind = "tag" /\ t[q].depth = last.depth + 1
             \/ last.kind \in AttributeKinds /\ t[q].depth = last.depth
  <2>1. MayFollow(NodeAt(t, q - 1), t[q])
    BY <1>1, <1>2
  <2>2. MayFollow(t[k], t[q])
    BY <1>2, <2>1 DEF NodeAt
  <2>3. t[k].depth \in Nat /\ t[k].depth >= t[j].depth /\ (k # j => t[k].depth > t[j].depth)
    <3>1. t[k].depth \in Nat
      BY <1>1, <1>2
    <3>2. k \in j + 1..k => t[k].depth > t[j].depth
      OBVIOUS
    <3> QED
      BY <1>2, <1>3, <3>1, <3>2
  <2>4. t[k].kind \in AttributeKinds /\ t[q].depth = t[k].depth /\ k = j
    <3>1. t[q].depth = t[k].depth + 1 \/ (t[k].kind \in AttributeKinds /\ t[q].depth = t[k].depth)
      BY <1>6, <2>2 DEF MayFollow
    <3>2. t[q].depth # t[k].depth + 1
      BY <1>3, <2>3
    <3>3. t[q].depth = t[k].depth => k = j
      BY <1>3, <2>3
    <3> QED
      BY <3>1, <3>2, <3>3
  <2>5. t[j].kind \in AttributeKinds /\ t[q].depth = t[j].depth
    BY <2>4
  <2> QED
    BY <2>5 DEF MayFollow
<1> QED
  BY <1>5, <1>6 DEF MayFollow, q

LastNode(s) == NodeAt(s, Len(s))

\* So far the outline that is left is one, and what comes next may follow it: nothing is
\* missing since, or a part that begins with j, which no earlier one reaches.
IsLeft(t, nodes, kept, k) ==
    /\ Outline(kept)
    /\ \/ (k = 0 => kept = <<>>) /\ (k # 0 => kept # <<>> /\ LastNode(kept) = t[k]) /\ k \notin Gone(t, nodes)
       \/ \E j \in nodes : /\ j \in 1..k /\ k <= EndOf(t, j) /\ MayFollow(LastNode(kept), t[j])
                           /\ \A i \in nodes : i < j => EndOf(t, i) < j

LEMMA GoneIs ==
    ASSUME NEW t, NEW nodes, NEW k
    PROVE  k \in Gone(t, nodes) <=> \E j \in nodes : k \in j..EndOf(t, j)
  BY DEF Gone

LEMMA LeftStep ==
    ASSUME NEW t, Outline(t), NEW nodes, nodes \subseteq 1..Len(t), NEW k \in 1..Len(t),
           NEW before, IsLeft(t, nodes, before, k - 1)
    PROVE  IsLeft(t, nodes, IF k \in Gone(t, nodes) THEN before ELSE Append(before, t[k]), k)
<1>1. /\ Len(t) \in Nat /\ (\A m \in 1..Len(t) : t[m] \in Nodes /\ t[m].depth \in Nat /\ t[m].depth > 0
                                                 /\ MayFollow(NodeAt(t, m - 1), t[m])
                                                 /\ t[m].depth = DepthOf(t, m))
  BY OutlineFacts
<1>2. \A j \in nodes : j \in 1..Len(t) /\ j \in 0..Len(t) /\ EndOf(t, j) \in j..Len(t)
  BY <1>1, EndIs
<1>3. Outline(before) /\ LastNode(before).depth \in Nat
  <2>1. Outline(before)
    BY DEF IsLeft
  <2>2. Len(before) \in Nat /\ Len(before) \in 0..Len(before)
    BY <2>1, OutlineFacts
  <2> QED
    BY <2>1, <2>2, OutlineFacts DEF LastNode
\* No part that begins before k reaches k, unless it is gone already.
<1> DEFINE Reached(j) == /\ j \in 1..k /\ k <= EndOf(t, j) /\ MayFollow(LastNode(before), t[j])
                         /\ \A i \in nodes : i < j => EndOf(t, i) < j
           Follows == MayFollow(LastNode(before), t[k]) /\ \A i \in nodes : i < k => EndOf(t, i) < k
<1>4. Follows \/ \E j \in nodes : Reached(j)
  <2>1. CASE /\ (k - 1 = 0 => before = <<>>) /\ (k - 1 # 0 => before # <<>> /\ LastNode(before) = t[k - 1])
             /\ k - 1 \notin Gone(t, nodes)
    <3>1. LastNode(before) = NodeAt(t, k - 1)
      BY <2>1 DEF LastNode, NodeAt
    <3>2. MayFollow(LastNode(before), t[k])
      BY <1>1, <3>1
    <3>3. ASSUME NEW i \in nodes, i < k PROVE EndOf(t, i) < k
      <4>1. ~ (k - 1 \in i..EndOf(t, i))
        BY <2>1, GoneIs
      <4> QED
        BY <1>1, <1>2, <3>3, <4>1
    <3> QED
      BY <3>2, <3>3
  <2>2. ASSUME NEW j \in nodes, j \in 1..k - 1, k - 1 <= EndOf(t, j), MayFollow(LastNode(before), t[j]),
               \A i \in nodes : i < j => EndOf(t, i) < j
        PROVE  Follows \/ Reached(j)
    <3>1. EndOf(t, j) \in j..Len(t) /\ j \in 1..Len(t) /\ j \in 0..Len(t) /\ DepthOf(t, j) = t[j].depth
          /\ j \in Nat /\ k \in Nat
      BY <1>1, <1>2, <2>2
    <3>2. CASE k <= EndOf(t, j)
      BY <1>1, <2>2, <3>2
    <3>3. CASE ~ (k <= EndOf(t, j))
      <4>1. EndOf(t, j) = k - 1 /\ EndOf(t, j) < Len(t) /\ EndOf(t, j) + 1 = k
        <5>1. k \in 1..Len(t) /\ Len(t) \in Nat /\ k - 1 <= EndOf(t, j) /\ EndOf(t, j) \in Nat
          BY <1>1, <2>2, <3>1
        <5> QED
          BY <3>3, <5>1
      <4>2. /\ t[EndOf(t, j) + 1].depth <= DepthOf(t, j)
            /\ \A m \in j + 1..EndOf(t, j) : t[m].depth > DepthOf(t, j)
        BY <3>1, <4>1, EndIs
      <4> DEFINE p == k - 1
      <4>3. p \in j..Len(t) - 1 /\ p + 1 = k
        BY <1>1, <3>1, <4>1
      <4>4. t[p + 1].depth <= t[j].depth /\ \A m \in j + 1..p : t[m].depth > t[j].depth
        BY <3>1, <4>1, <4>2, <4>3
      <4> HIDE DEF p
      <4>5. MayFollow(LastNode(before), t[p + 1])
        BY <1>3, <2>2, <3>1, <4>3, <4>4, FollowsInstead
      <4>6. ASSUME NEW i \in nodes, i < k PROVE EndOf(t, i) < k
        <5>1. i \in 1..Len(t) /\ EndOf(t, i) \in i..Len(t) /\ i \in Nat
          BY <1>2
        <5>2. CASE i < j
          BY <1>1, <2>2, <3>1, <5>1, <5>2
        <5>3. CASE i = j
          BY <3>1, <4>1, <5>3
        <5>4. CASE i > j
          <6>1. i \in j + 1..EndOf(t, j)
            BY <3>1, <4>1, <4>6, <5>1, <5>4
          <6>2. EndOf(t, i) <= EndOf(t, j)
            BY <3>1, <6>1, PartsNest
          <6> QED
            BY <3>1, <4>1, <5>1, <6>2
        <5> QED
          BY <3>1, <5>1, <5>2, <5>3, <5>4
      <4> QED
        BY <4>3, <4>5, <4>6
    <3> QED
      BY <3>2, <3>3
  <2> QED
    BY <2>1, <2>2 DEF IsLeft
<1>5. CASE k \in Gone(t, nodes)
  <2>1. PICK j \in nodes : k \in j..EndOf(t, j)
    BY <1>5, GoneIs
  <2>2. j \in 1..Len(t) /\ EndOf(t, j) \in j..Len(t)
    BY <1>2
  <2>3. CASE Follows
    <3>1. j = k
      BY <1>1, <2>1, <2>2, <2>3
    <3> QED
      BY <1>1, <1>3, <1>5, <2>1, <2>2, <2>3, <3>1 DEF IsLeft
  <2>4. CASE \E i \in nodes : Reached(i)
    BY <1>3, <1>5, <2>4 DEF IsLeft
  <2> QED
    BY <1>4, <2>3, <2>4
<1>6. CASE k \notin Gone(t, nodes)
  <2> DEFINE now == Append(before, t[k])
  <2>1. MayFollow(LastNode(before), t[k])
    <3>1. ASSUME NEW j \in nodes, j \in 1..k, k <= EndOf(t, j) PROVE FALSE
      <4>1. k \in j..EndOf(t, j)
        BY <1>1, <1>2, <3>1
      <4> QED
        BY <1>6, <4>1, GoneIs
    <3> QED
      BY <1>4, <3>1
  <2>2. before \in Seq(Nodes) /\ t[k] \in Nodes
    BY <1>1, <1>3, OutlineFacts
  <2>3. Outline(now)
    BY <1>3, <2>1, <2>2, AppendKeepsOutline DEF LastNode
  <2>4. now # <<>> /\ now[Len(now)] = t[k] /\ Len(now) # 0
    <3>1. now # <<>> /\ Len(now) = Len(before) + 1 /\ now[Len(before) + 1] = t[k] /\ Len(before) \in Nat
      BY <2>2, AppendProperties
    <3> QED
      BY <3>1
  <2> HIDE DEF now
  <2>5. LastNode(now) = t[k]
    BY <2>4 DEF LastNode, NodeAt
  <2>6. IsLeft(t, nodes, now, k)
    BY <1>6, <2>3, <2>4, <2>5 DEF IsLeft
  <2> QED
    BY <1>6, <2>6 DEF now
<1> QED
  BY <1>5, <1>6

\* What is left of an outline when parts of it are taken out is one.
LEMMA WithoutKeepsOutline ==
    ASSUME NEW t, Outline(t), NEW nodes, nodes \subseteq 1..Len(t)
    PROVE  Outline(Without(t, nodes))
<1>1. t \in Seq(Nodes) /\ Len(t) \in Nat
  BY OutlineFacts
<1>2. PICK kept : /\ \A k \in 0..Len(t) : kept[k] \in Seq(Nodes)
                  /\ Keeps(t, Gone(t, nodes), kept) /\ Without(t, nodes) = kept[Len(t)]
  BY <1>1, WithoutIs
<1> DEFINE Good == {k \in 0..Len(t) : IsLeft(t, nodes, kept[k], k)}
<1>3. 0 \in Good
  <2>1. Outline(<<>>)
    BY DEF Outline
  <2>2. 0 \notin Gone(t, nodes)
    <3>1. \A j \in nodes : 0 \notin j..EndOf(t, j)
      BY <1>1
    <3> QED
      BY <3>1, GoneIs
  <2>3. kept[0] = <<>>
    BY <1>2 DEF Keeps
  <2> QED
    BY <1>1, <2>1, <2>2, <2>3 DEF IsLeft
<1>4. ASSUME NEW k \in 1..Len(t), k - 1 \in Good PROVE k \in Good
  <2>1. IsLeft(t, nodes, kept[k - 1], k - 1)
    BY <1>4
  <2>2. kept[k] = IF k \in Gone(t, nodes) THEN kept[k - 1] ELSE Append(kept[k - 1], t[k])
    BY <1>2 DEF Keeps
  <2>3. IsLeft(t, nodes, kept[k], k)
    BY <2>1, <2>2, LeftStep
  <2> QED
    BY <2>3
<1> HIDE DEF Good
<1>5. \A k \in 0..Len(t) : k \in Good
  BY <1>1, <1>3, <1>4, CountsUp
<1>6. Len(t) \in Good
  BY <1>1, <1>5
<1> QED
  BY <1>2, <1>6 DEF Good, IsLeft

-----------------------------------------------------------------------------
(* Where a path leads *)

LEMMA AttributeFound ==
    ASSUME NEW t, Outline(t), NEW i \in 0..Len(t), NEW name
    PROVE  _findAttribute(t, i, name) = NoNode
           \/ _findAttribute(t, i, name) \in Below(t, i, AttributeKinds)
<1>1. Below(t, i, AttributeKinds) \subseteq 1..Len(t) /\ Len(t) \in Nat
  BY BelowIs, OutlineFacts
<1>2. Named(t, Below(t, i, AttributeKinds), name) \subseteq Below(t, i, AttributeKinds)
  BY DEF Named
<1>3. Named(t, Below(t, i, AttributeKinds), name) \subseteq Nat
  BY <1>1, <1>2
<1> QED
  BY <1>2, <1>3, FirstIs DEF _findAttribute

LEMMA ChildFound ==
    ASSUME NEW t, Outline(t), NEW i \in 0..Len(t), NEW name
    PROVE  IsPlace(t, _findChildTag(t, i, name))
<1>1. Len(t) \in Nat /\ \A kinds : Below(t, i, kinds) \subseteq 1..Len(t)
  BY BelowIs, OutlineFacts
<1>2. ASSUME NEW S, S \subseteq 1..Len(t) PROVE IsPlace(t, FirstOf(S))
  <2>1. S \subseteq Nat
    BY <1>1, <1>2
  <2>2. FirstOf(S) = NoNode \/ FirstOf(S) \in S
    BY <2>1, FirstIs
  <2>3. FirstOf(S) \in S => FirstOf(S) \in 0..Len(t)
    <3> DEFINE first == FirstOf(S)
    <3>1. first \in S => first \in 1..Len(t)
      BY <1>2
    <3> HIDE DEF first
    <3>2. first \in S => first \in 0..Len(t)
      BY <1>1, <3>1
    <3> QED
      BY <3>2 DEF first
  <2> QED
    BY <2>2, <2>3 DEF IsPlace
<1>3. ASSUME NEW kinds, NEW n PROVE Named(t, Below(t, i, kinds), n) \subseteq 1..Len(t)
  BY <1>1 DEF Named
<1>4. IsPlace(t, FirstOf(Named(t, Below(t, i, ChildKinds), name)))
  BY <1>2, <1>3
<1>5. ASSUME NEW n, NEW index PROVE IsPlace(t, getNamedChild(t, i, n, index))
  <2> DEFINE named == Named(t, Below(t, i, AttributeKinds \cup ChildKinds), n)
             S == {j \in named : Cardinality({k \in named : k < j}) = index}
  <2>1. S \subseteq 1..Len(t)
    BY <1>3
  <2>2. getNamedChild(t, i, n, index) = FirstOf(S)
    BY DEF getNamedChild
  <2> QED
    BY <1>2, <2>1, <2>2
<1> QED
  BY <1>4, <1>5 DEF _findChildTag

LEMMA NodeFound ==
    ASSUME NEW t, Outline(t), NEW path, path \in Seq(Names)
    PROVE  IsPlace(t, findNode(t, path))
<1> DEFINE N == Len(path)
           next(i, k) ==
               IF i = NoNode THEN NoNode
               ELSE IF i # 0 /\ k = Len(path) /\ _findAttribute(t, i, path[k]) # NoNode
                    THEN _findAttribute(t, i, path[k])
                    ELSE _findChildTag(t, i, path[k])
           S == {NoNode} \cup 0..Len(t)
           e(f, k) == IF k = 0 THEN 0 ELSE next(f[k - 1], k)
           step == [k \in 1..N |-> [s \in S |-> next(s, k)]]
           w == CHOOSE f : f = [k \in 0..N |-> e(f, k)]
<1>1. N \in Nat /\ Len(t) \in Nat /\ 0 \in S
  BY OutlineFacts
<1>2. findNode(t, path) = IF path = <<>> THEN NoNode ELSE w[N]
  BY Zenon DEF findNode
<1>3. ASSUME NEW s \in S, NEW k \in 1..N PROVE next(s, k) \in S
  <2>1. CASE s = NoNode
    BY <2>1
  <2>2. CASE s # NoNode
    <3>1. s \in 0..Len(t)
      BY <2>2
    <3>2. _findAttribute(t, s, path[k]) \in S
      BY <1>1, <3>1, AttributeFound, BelowIs
    <3>3. _findChildTag(t, s, path[k]) \in S
      BY <3>1, ChildFound DEF IsPlace
    <3> QED
      BY <2>2, <3>2, <3>3
  <2> QED
    BY <2>1, <2>2
<1> HIDE DEF N, S, next
<1>4. step \in [1..N -> [S -> S]]
  BY <1>3
<1>5. PICK f : Walks(f, N, S, 0, step)
  <2> HIDE DEF step
  <2> QED
    BY <1>1, <1>4, WalkExists
<1>6. f = [k \in 0..N |-> e(f, k)]
  <2>1. ASSUME NEW k \in 0..N PROVE f[k] = e(f, k)
    <3>1. CASE k = 0
      BY <1>5, <3>1 DEF Walks
    <3>2. CASE k # 0
      <4>1. k \in 1..N /\ k - 1 \in 0..N
        BY <1>1, <3>2
      <4>2. f[k] = step[k][f[k - 1]] /\ f[k - 1] \in S
        BY <1>5, <4>1 DEF Walks
      <4> QED
        BY <3>2, <4>1, <4>2
    <3> QED
      BY <3>1, <3>2
  <2> HIDE DEF e
  <2> QED
    BY <1>5, <2>1 DEF Walks
<1>7. w = [k \in 0..N |-> e(w, k)]
  <2> HIDE DEF e
  <2> QED
    BY <1>6
<1> HIDE DEF w
<1>8. \A k \in 0..N : w[k] = e(w, k)
  <2> HIDE DEF e
  <2> QED
    BY <1>7
<1>9. w[0] = 0 /\ \A k \in 1..N : w[k] = next(w[k - 1], k)
  BY <1>1, <1>8
<1>10. w[N] \in S
  <2> DEFINE Good == {k \in 0..N : w[k] \in S}
  <2>1. 0 \in Good
    BY <1>1, <1>9
  <2>2. \A k \in 1..N : k - 1 \in Good => k \in Good
    BY <1>1, <1>3, <1>9
  <2> HIDE DEF Good
  <2>3. \A k \in 0..N : k \in Good
    BY <1>1, <2>1, <2>2, CountsUp
  <2> QED
    BY <1>1, <2>3 DEF Good
<1> QED
  BY <1>2, <1>10 DEF IsPlace, S

-----------------------------------------------------------------------------
(* add() *)

\* An attribute that becomes a tag.
LEMMA PromotedIs ==
    ASSUME NEW t, Outline(t), NEW i \in 1..Len(t), t[i].kind = "tag",
           NEW attribute \in Below(t, i, AttributeKinds)
    PROVE  /\ Outline(Promoted(t, i, attribute).tree)
           /\ IsPlace(Promoted(t, i, attribute).tree, Promoted(t, i, attribute).at)
<1> DEFINE d == DepthOf(t, i)
           end == EndOf(t, i)
           a == t[attribute]
           tag == Node(a.depth, "tag", a.name, <<>>)
           leaf == Node(a.depth + 1, "cdata", CDATAName, a.value)
           nodes == <<tag, leaf>>
           grown == InsertAfter(t, end, nodes)
<1>1. /\ t \in Seq(Nodes) /\ Len(t) \in Nat /\ i \in 0..Len(t) /\ d \in Nat
      /\ \A k \in 1..Len(t) : t[k] \in Nodes /\ t[k].depth \in Nat /\ t[k].depth = DepthOf(t, k)
                              /\ MayFollow(NodeAt(t, k - 1), t[k])
  BY OutlineFacts
<1>2. /\ attribute \in i + 1..end /\ attribute \in 1..Len(t)
      /\ a.depth = d + 1 /\ a.kind \in AttributeKinds
  BY <1>1, BelowIs
<1>3. end \in i..Len(t) /\ end \in 0..Len(t)
  BY <1>1, EndIs
<1>4. a.name \in Names /\ a.value \in Values /\ a.depth \in Nat /\ a.depth + 1 \in Nat
  BY <1>1, <1>2 DEF Nodes
<1>5. tag \in Nodes /\ leaf \in Nodes
  BY <1>4, NodesMade, NamesAndValues DEF ChildKinds
<1>6. tag.kind = "tag" /\ tag.depth = d + 1 /\ leaf.kind = "cdata" /\ leaf.depth = d + 2
  BY <1>1, <1>2 DEF Node
<1>7. Promoted(t, i, attribute) = [tree |-> Without(grown, {attribute}), at |-> end]
  BY DEF Promoted, TagOf
<1> HIDE DEF tag, leaf, a
<1>8. nodes \in Seq(Nodes) /\ nodes # <<>> /\ Len(nodes) = 2 /\ nodes[1] = tag /\ nodes[2] = leaf
  BY <1>5
<1> HIDE DEF nodes, d
<1>9. /\ MayFollow(NodeAt(t, end), tag)
      /\ end < Len(t) => /\ t[end + 1].depth <= d /\ t[end + 1].depth \in Nat /\ t[end + 1].depth > 0
                         /\ t[end + 1].kind \notin AttributeKinds
  BY <1>1, <1>6, TagFollows DEF d
<1>10. MayFollow(tag, leaf)
  BY <1>1, <1>6 DEF MayFollow, AttributeKinds
<1>11. end < Len(t) => MayFollow(leaf, t[end + 1])
  BY <1>1, <1>6, <1>9 DEF MayFollow
<1>12. \A k \in 2..Len(nodes) : MayFollow(nodes[k - 1], nodes[k])
  BY <1>8, <1>10
<1> HIDE DEF end
<1>13. Outline(grown) /\ Len(grown) = Len(t) + 2
  BY <1>3, <1>8, <1>9, <1>11, <1>12, InsertKeepsOutline
<1>14. InsertsNodes(grown, t, end, nodes)
  BY <1>1, <1>3, <1>8, InsertIs
<1> HIDE DEF grown
\* Nothing is below an attribute.
<1>15. attribute \in 1..Len(grown) /\ grown[attribute].kind \in AttributeKinds
  <2>1. attribute \in 1..end
    BY <1>1, <1>2
  <2>2. grown[attribute] = a
    BY <1>14, <2>1 DEF InsertsNodes, a
  <2> QED
    BY <1>1, <1>2, <1>13, <2>2
<1>16. EndOf(grown, attribute) = attribute
  <2>1. /\ Len(grown) \in Nat
        /\ \A k \in 1..Len(grown) : grown[k].depth \in Nat /\ grown[k].depth = DepthOf(grown, k)
                                    /\ MayFollow(NodeAt(grown, k - 1), grown[k])
    BY <1>13, OutlineFacts
  <2>2. EndOf(grown, attribute) \in attribute..Len(grown)
        /\ \A k \in attribute + 1..EndOf(grown, attribute) : grown[k].depth > DepthOf(grown, attribute)
    BY <1>13, <1>15, <2>1, EndIs
  <2>3. SUFFICES ASSUME EndOf(grown, attribute) # attribute PROVE FALSE
    OBVIOUS
  <2> DEFINE q == attribute + 1
  <2>4. q \in attribute + 1..EndOf(grown, attribute) /\ q \in 1..Len(grown) /\ q - 1 = attribute /\ attribute # 0
    BY <1>1, <1>15, <2>1, <2>2, <2>3
  <2> HIDE DEF q
  <2>5. MayFollow(NodeAt(grown, q - 1), grown[q]) /\ grown[q].depth > grown[attribute].depth
        /\ grown[q].depth \in Nat /\ grown[attribute].depth \in Nat
    BY <1>15, <2>1, <2>2, <2>4
  <2>6. MayFollow(grown[attribute], grown[q])
    BY <2>4, <2>5 DEF NodeAt
  <2> QED
    BY <1>15, <2>5, <2>6 DEF MayFollow, AttributeKinds
<1>17. Outline(Without(grown, {attribute})) /\ Len(Without(grown, {attribute})) = Len(t) + 1
  <2>1. Outline(Without(grown, {attribute}))
    BY <1>13, <1>15, WithoutKeepsOutline
  <2>2. Len(Without(grown, {attribute})) = Len(grown) - 1
    BY <1>13, <1>15, <1>16, WithoutOne
  <2> QED
    BY <1>1, <1>13, <2>1, <2>2
<1>18. end \in 0..Len(Without(grown, {attribute}))
  BY <1>1, <1>3, <1>17
<1> QED
  BY <1>7, <1>17, <1>18 DEF IsPlace


\* Where add() is after so many names of the path: the tree so far is an outline.
Reached == {x \in [tree : Seq(Nodes), at : {NoNode} \cup Nat] : Outline(x.tree) /\ IsPlace(x.tree, x.at)}

LEMMA ReachedIs ==
    ASSUME NEW t, Outline(t), NEW i, IsPlace(t, i)
    PROVE  [tree |-> t, at |-> i] \in Reached
<1>1. Len(t) \in Nat /\ t \in Seq(Nodes)
  BY OutlineFacts
<1>2. i \in {NoNode} \cup Nat
  BY <1>1 DEF IsPlace
<1> QED
  BY <1>1, <1>2 DEF Reached

LEMMA AddedIs ==
    ASSUME NEW t, Outline(t), NEW path, path \in Seq(Names), path # <<>>, NEW kind \in AttributeKinds,
           NEW value \in Values
    PROVE  /\ Outline(Added(t, path, kind, value).tree)
           /\ Added(t, path, kind, value).ends \in {"returns", "throws"}
<1> DEFINE N == Len(path) - 1
           descend(x, k) ==
               LET child == _findChildTag(x.tree, x.at, path[k])
                   attribute == _findAttribute(x.tree, x.at, path[k])
               IN  IF x.at = NoNode \/ (x.at # 0 /\ x.tree[x.at].kind # "tag") THEN [x EXCEPT !.at = NoNode]
                   ELSE IF child # NoNode THEN [x EXCEPT !.at = child]
                   ELSE IF attribute # NoNode /\ x.at # 0 THEN Promoted(x.tree, x.at, attribute)
                   ELSE Grown(x.tree, x.at, path[k])
           base == [tree |-> t, at |-> 0]
           e(f, k) == IF k = 0 THEN base ELSE descend(f[k - 1], k)
           step == [k \in 1..N |-> [x \in Reached |-> descend(x, k)]]
           w == CHOOSE f : f = [k \in 0..N |-> e(f, k)]
           parent == w[N]
<1>1. Len(path) \in Nat /\ N \in Nat /\ path[Len(path)] \in Names /\ \A k \in 1..N : path[k] \in Names
  OBVIOUS
<1>2. Added(t, path, kind, value) =
          IF parent.at = NoNode \/ (parent.at # 0 /\ parent.tree[parent.at].kind # "tag")
          THEN [tree |-> parent.tree, ends |-> "throws"]
          ELSE [tree |-> AddLeaf(parent.tree, parent.at, Last(path), kind, value), ends |-> "returns"]
  BY Zenon DEF Added
<1>3. ASSUME NEW x \in Reached, NEW k \in 1..N PROVE descend(x, k) \in Reached
  <2> DEFINE u == x.tree
             i == x.at
             child == _findChildTag(u, i, path[k])
             attribute == _findAttribute(u, i, path[k])
  <2>1. x = [tree |-> u, at |-> i] /\ Outline(u) /\ IsPlace(u, i)
    BY DEF Reached
  <2>2. path[k] \in Names
    BY <1>1
  <2>3. \A j : [x EXCEPT !.at = j] = [tree |-> u, at |-> j]
    BY <2>1
  <2> HIDE DEF u, i
  <2>4. CASE i = NoNode \/ (i # 0 /\ u[i].kind # "tag")
    <3>1. descend(x, k) = [tree |-> u, at |-> NoNode]
      BY <2>3, <2>4 DEF u, i
    <3> QED
      BY <2>1, <3>1, ReachedIs DEF IsPlace
  <2>5. CASE ~ (i = NoNode \/ (i # 0 /\ u[i].kind # "tag"))
    <3>1. i \in 0..Len(u) /\ (i # 0 => u[i].kind = "tag")
      BY <2>1, <2>5 DEF IsPlace
    <3>2. CASE child # NoNode
      <4>1. descend(x, k) = [tree |-> u, at |-> child]
        BY <2>3, <2>5, <3>2 DEF u, i
      <4>2. IsPlace(u, child)
        BY <2>1, <3>1, ChildFound
      <4> QED
        BY <2>1, <4>1, <4>2, ReachedIs
    <3>3. CASE child = NoNode /\ attribute # NoNode /\ i # 0
      <4>1. descend(x, k) = Promoted(u, i, attribute)
        BY <2>5, <3>3 DEF u, i
      <4>2. attribute \in Below(u, i, AttributeKinds)
        BY <2>1, <3>1, <3>3, AttributeFound
      <4>3. i \in 1..Len(u)
        <5>1. Len(u) \in Nat
          BY <2>1, OutlineFacts
        <5> QED
          BY <3>1, <3>3, <5>1
      <4> HIDE DEF attribute
      <4>4. Outline(Promoted(u, i, attribute).tree)
            /\ IsPlace(Promoted(u, i, attribute).tree, Promoted(u, i, attribute).at)
        BY <2>1, <3>1, <3>3, <4>2, <4>3, PromotedIs
      <4>5. Promoted(u, i, attribute) = [tree |-> Promoted(u, i, attribute).tree,
                                         at |-> Promoted(u, i, attribute).at]
        BY DEF Promoted
      <4> QED
        BY <4>1, <4>4, <4>5, ReachedIs
    <3>4. CASE child = NoNode /\ ~ (attribute # NoNode /\ i # 0)
      <4>1. descend(x, k) = Grown(u, i, path[k])
        BY <2>5, <3>4 DEF u, i
      <4>2. Outline(Grown(u, i, path[k]).tree)
            /\ IsPlace(Grown(u, i, path[k]).tree, Grown(u, i, path[k]).at)
        BY <2>1, <2>2, <3>1, GrownIs
      <4>3. Grown(u, i, path[k]) = [tree |-> Grown(u, i, path[k]).tree, at |-> Grown(u, i, path[k]).at]
        BY DEF Grown
      <4> QED
        BY <4>1, <4>2, <4>3, ReachedIs
    <3> QED
      BY <3>2, <3>3, <3>4
  <2> QED
    BY <2>4, <2>5
<1>4. base \in Reached
  <2>1. Len(t) \in Nat
    BY OutlineFacts
  <2>2. IsPlace(t, 0)
    BY <2>1 DEF IsPlace
  <2> QED
    BY <2>2, ReachedIs
<1> HIDE DEF N, base, descend
<1>5. step \in [1..N -> [Reached -> Reached]]
  BY <1>3
<1>6. PICK f : Walks(f, N, Reached, base, step)
  <2> HIDE DEF step
  <2> QED
    BY <1>1, <1>4, <1>5, WalkExists
<1>7. f = [k \in 0..N |-> e(f, k)]
  <2>1. ASSUME NEW k \in 0..N PROVE f[k] = e(f, k)
    <3>1. CASE k = 0
      BY <1>6, <3>1 DEF Walks
    <3>2. CASE k # 0
      <4>1. k \in 1..N /\ k - 1 \in 0..N
        BY <1>1, <3>2
      <4>2. f[k] = step[k][f[k - 1]] /\ f[k - 1] \in Reached
        BY <1>6, <4>1 DEF Walks
      <4> QED
        BY <3>2, <4>1, <4>2
    <3> QED
      BY <3>1, <3>2
  <2> HIDE DEF e
  <2> QED
    BY <1>6, <2>1 DEF Walks
<1>8. w = [k \in 0..N |-> e(w, k)]
  <2> HIDE DEF e
  <2> QED
    BY <1>7
<1> HIDE DEF w
<1>9. \A k \in 0..N : w[k] = e(w, k)
  <2> HIDE DEF e
  <2> QED
    BY <1>8
<1>10. w[0] = base /\ \A k \in 1..N : w[k] = descend(w[k - 1], k)
  BY <1>1, <1>9
<1>11. parent \in Reached
  <2> DEFINE Good == {k \in 0..N : w[k] \in Reached}
  <2>1. 0 \in Good
    BY <1>1, <1>4, <1>10
  <2>2. \A k \in 1..N : k - 1 \in Good => k \in Good
    BY <1>1, <1>3, <1>10
  <2> HIDE DEF Good
  <2>3. \A k \in 0..N : k \in Good
    BY <1>1, <2>1, <2>2, CountsUp
  <2> QED
    BY <1>1, <2>3 DEF Good
<1> HIDE DEF parent
<1>12. Outline(parent.tree) /\ IsPlace(parent.tree, parent.at) /\ Last(path) \in Names
  BY <1>1, <1>11 DEF Reached, Last
<1>13. CASE parent.at = NoNode \/ (parent.at # 0 /\ parent.tree[parent.at].kind # "tag")
  BY <1>2, <1>12, <1>13
<1>14. CASE ~ (parent.at = NoNode \/ (parent.at # 0 /\ parent.tree[parent.at].kind # "tag"))
  <2>1. parent.at \in 0..Len(parent.tree) /\ (parent.at # 0 => parent.tree[parent.at].kind = "tag")
    BY <1>12, <1>14 DEF IsPlace
  <2>2. Outline(AddLeaf(parent.tree, parent.at, Last(path), kind, value))
    BY <1>12, <2>1, AddLeafKeepsOutline
  <2> QED
    BY <1>2, <1>14, <2>2
<1> QED
  BY <1>13, <1>14

-----------------------------------------------------------------------------
(* deleteNamedChildren(), setLiteral() *)

LEMMA FrontIs ==
    ASSUME NEW path, path \in Seq(Names), path # <<>>
    PROVE  Front(path) \in Seq(Names) /\ Last(path) \in Names
  BY DEF Front, Last

LEMMA DeletedKeepsOutline ==
    ASSUME NEW t, Outline(t), NEW path, path \in Seq(Names), path # <<>>
    PROVE  Outline(Deleted(t, path))
<1> DEFINE parent == IF Len(path) = 1 THEN 0 ELSE findNode(t, Front(path))
           nodes == Named(t, Below(t, parent, AttributeKinds \cup ChildKinds), Last(path))
<1>1. Deleted(t, path) = IF parent = NoNode THEN t ELSE Without(t, nodes)
  BY DEF Deleted
<1>2. IsPlace(t, parent)
  <2>1. Len(t) \in Nat
    BY OutlineFacts
  <2> QED
    BY <2>1, FrontIs, NodeFound DEF IsPlace
<1> HIDE DEF parent
<1>3. CASE parent = NoNode
  BY <1>1, <1>3
<1>4. CASE parent # NoNode
  <2>1. parent \in 0..Len(t)
    BY <1>2, <1>4 DEF IsPlace
  <2>2. nodes \subseteq 1..Len(t)
    BY <2>1, BelowIs DEF Named
  <2> HIDE DEF nodes
  <2> QED
    BY <1>1, <1>4, <2>2, WithoutKeepsOutline
<1> QED
  BY <1>3, <1>4

LEMMA SetIs ==
    ASSUME NEW t, Outline(t), NEW path, path \in Seq(Names), path # <<>>, NEW value \in Values
    PROVE  Outline(Set(t, path, value).tree) /\ Set(t, path, value).ends \in {"returns", "throws"}
<1> DEFINE i == findNode(t, path)
           at == ValueNode(t, i)
           u == [t EXCEPT ![at].value = value, ![at].kind = IF @ = "item" THEN "attribute" ELSE @]
<1>1. Set(t, path, value) = IF i = NoNode THEN Added(t, path, "attribute", value)
                            ELSE IF at = NoNode THEN [tree |-> t, ends |-> "throws"]
                            ELSE [tree |-> u, ends |-> "returns"]
  BY DEF Set
<1>2. /\ t \in Seq(Nodes) /\ Len(t) \in Nat /\ DOMAIN t = 1..Len(t)
      /\ \A k \in 1..Len(t) : t[k] \in Nodes /\ MayFollow(NodeAt(t, k - 1), t[k])
  BY OutlineFacts
<1>3. CASE i = NoNode
  BY <1>1, <1>3, AddedIs DEF AttributeKinds
<1>4. CASE i # NoNode /\ at = NoNode
  BY <1>1, <1>4
<1>5. CASE i # NoNode /\ at # NoNode
  <2> HIDE DEF at
  <2>1. u \in Seq(Nodes) /\ Len(u) = Len(t)
        /\ \A k \in 1..Len(t) : /\ u[k].depth = t[k].depth
                                /\ u[k].kind = "tag" <=> t[k].kind = "tag"
                                /\ u[k].kind \in AttributeKinds <=> t[k].kind \in AttributeKinds
    <3> DEFINE new == [t[at] EXCEPT !.value = value, !.kind = IF @ = "item" THEN "attribute" ELSE @]
    <3>1. CASE at \in 1..Len(t)
      <4>1. t[at] \in Nodes
        BY <1>2, <3>1
      <4>2. /\ new \in Nodes /\ new.depth = t[at].depth
            /\ new.kind = "tag" <=> t[at].kind = "tag"
            /\ new.kind \in AttributeKinds <=> t[at].kind \in AttributeKinds
        BY <4>1 DEF Nodes, AttributeKinds, ChildKinds
      <4>3. u = [t EXCEPT ![at] = new]
        BY <1>2, <3>1
      <4> HIDE DEF new, u
      <4>4. /\ Len(u) = Len(t) /\ DOMAIN u = DOMAIN t /\ u \in Seq(Nodes)
            /\ \A k \in 1..Len(t) : u[k] = IF k = at THEN new ELSE t[k]
        BY <1>2, <3>1, <4>2, <4>3
      <4> QED
        BY <4>2, <4>4
    <3>2. CASE at \notin 1..Len(t)
      <4>1. u = t
        BY <1>2, <3>2
      <4> QED
        BY <1>2, <4>1
    <3> QED
      BY <3>1, <3>2
  <2> HIDE DEF u
  <2>2. ASSUME NEW k \in 1..Len(u) PROVE MayFollow(NodeAt(u, k - 1), u[k])
    <3>1. k \in 1..Len(t) /\ MayFollow(NodeAt(t, k - 1), t[k])
      BY <1>2, <2>1, <2>2
    <3>2. CASE k = 1
      <4>1. NodeAt(u, k - 1) = NodeAt(t, k - 1)
        BY <3>2 DEF NodeAt
      <4> QED
        BY <2>1, <3>1, <4>1 DEF MayFollow
    <3>3. CASE k # 1
      <4> DEFINE p == k - 1
      <4>1. p \in 1..Len(t) /\ p # 0
        BY <1>2, <3>1, <3>3
      <4> HIDE DEF p
      <4>2. NodeAt(u, p) = u[p] /\ NodeAt(t, p) = t[p] /\ MayFollow(t[p], t[k])
        BY <3>1, <4>1 DEF NodeAt, p
      <4>3. /\ u[p].depth = t[p].depth /\ u[k].depth = t[k].depth
            /\ u[p].kind = "tag" <=> t[p].kind = "tag"
            /\ u[p].kind \in AttributeKinds <=> t[p].kind \in AttributeKinds
            /\ u[k].kind \in AttributeKinds <=> t[k].kind \in AttributeKinds
        BY <2>1, <3>1, <4>1
      <4>4. t[p].kind # "settings"
        BY <1>2, <4>1 DEF Nodes, AttributeKinds, ChildKinds
      <4>5. MayFollow(u[p], u[k])
        BY <4>2, <4>3, <4>4 DEF MayFollow
      <4> QED
        BY <4>2, <4>5 DEF p
    <3> QED
      BY <3>2, <3>3
  <2>3. Outline(u)
    BY <2>1, <2>2 DEF Outline
  <2> QED
    BY <1>1, <1>5, <2>3 DEF at
<1> QED
  BY <1>3, <1>4, <1>5


-----------------------------------------------------------------------------
(* VSettingsXMLParser *)

NameStates == {"kTag2_in_name", "kTag4_in_attribute_name", "kCloseTag2_in_name"}
TagStates ==
    {"kTag3_post_name", "kTag4_in_attribute_name", "kTag5_attribute_equals", "kTag6_attribute_quoted",
     "kTag7_attribute_unquoted", "kTag8_solo_close_slash"}

\* What a step needs that emits something, and what it leaves behind.
SoundStep(s) ==
    /\ s.to \in NameStates => s.keeps = TRUE
    /\ s.emits \in {"OpenTagName", "AttributeName", "AttributeNameOnly", "CloseTagName"} => s.from \in NameStates
    /\ s.emits \in {"AttributeNameOnly", "AttributeValue", "EndSoloTag"} => s.from \in TagStates
    /\ s.emits \in {"nothing", "CDATA", "OpenTagName", "AttributeName", "AttributeNameOnly", "AttributeValue",
                    "CloseTagName", "EndSoloTag"}
    /\ s.to \in TagStates =>
           \/ s.emits = "OpenTagName"
           \/ s.from \in TagStates /\ s.emits \in {"nothing", "AttributeName", "AttributeNameOnly", "AttributeValue"}

LEMMA StepsAreSound == \A s \in ParserSteps : SoundStep(s)
<1>1. ASSUME NEW s \in CommentSteps PROVE SoundStep(s)
  BY DEF CommentSteps, Step, SoundStep, NameStates, TagStates
<1>2. ASSUME NEW s \in TagSteps PROVE SoundStep(s)
  BY DEF TagSteps, Step, SoundStep, NameStates, TagStates
<1>3. ASSUME NEW s \in AttributeSteps PROVE SoundStep(s)
  BY DEF AttributeSteps, Step, SoundStep, NameStates, TagStates
<1> QED
  BY <1>1, <1>2, <1>3 DEF ParserSteps

\* The current tag has everything that came after it below it; before its ">", that is
\* attributes.
IsCurrent(t, tag) ==
    /\ tag \in 0..Len(t) /\ (tag # 0 => t[tag].kind = "tag")
    /\ \A k \in tag + 1..Len(t) : t[k].depth > DepthOf(t, tag)
StillOpen(t, tag) ==
    /\ tag # 0
    /\ tag = Len(t) \/ (t[Len(t)].kind \in AttributeKinds /\ t[Len(t)].depth = t[tag].depth + 1)

LEMMA ChildAppended ==
    ASSUME NEW t, Outline(t), NEW tag, IsCurrent(t, tag), NEW node \in Nodes,
           node.depth = DepthOf(t, tag) + 1, node.kind \in ChildKinds
    PROVE  /\ Outline(Append(t, node)) /\ IsCurrent(Append(t, node), tag)
           /\ node.kind = "tag" => /\ IsCurrent(Append(t, node), Len(t) + 1)
                                   /\ StillOpen(Append(t, node), Len(t) + 1)
<1> DEFINE N == Len(t)
           d == DepthOf(t, tag)
           u == Append(t, node)
<1>1. /\ t \in Seq(Nodes) /\ N \in Nat
      /\ \A k \in 1..N : t[k] \in Nodes /\ t[k].depth \in Nat /\ t[k].depth = DepthOf(t, k)
      /\ \A k \in 0..N : DepthOf(t, k) \in Nat /\ DepthOf(t, k) = NodeAt(t, k).depth
  BY OutlineFacts
<1>2. tag \in 0..N /\ d \in Nat /\ (tag # 0 => t[tag].kind = "tag")
      /\ \A k \in tag + 1..N : t[k].depth > d
  BY <1>1 DEF IsCurrent
<1> HIDE DEF d
<1>3. MayFollow(NodeAt(t, N), node)
  <2>1. node.kind \notin AttributeKinds /\ node.depth = d + 1
    BY DEF ChildKinds, AttributeKinds, d
  <2>2. CASE tag = N
    <3>1. NodeAt(t, N).depth = d /\ NodeAt(t, N).kind \in {"tag", "settings"}
      BY <1>1, <1>2, <2>2 DEF NodeAt, d
    <3> QED
      BY <1>2, <2>1, <3>1 DEF MayFollow
  <2>3. CASE tag # N
    <3>1. N \in tag + 1..N /\ N # 0 /\ N \in 1..N
      BY <1>1, <1>2, <2>3
    <3>2. NodeAt(t, N) = t[N] /\ t[N].depth > d /\ t[N].depth \in Nat
      BY <1>1, <1>2, <3>1 DEF NodeAt
    <3> QED
      BY <1>2, <2>1, <3>2 DEF MayFollow
  <2> QED
    BY <2>2, <2>3
<1>4. /\ Outline(u) /\ Len(u) = N + 1 /\ u[N + 1] = node
      /\ \A k \in 1..N : u[k] = t[k]
  BY <1>1, <1>3, AppendKeepsOutline, AppendProperties
<1> HIDE DEF u
<1>5. DepthOf(u, tag) = d
  BY <1>1, <1>2, <1>4 DEF DepthOf, d
<1>6. IsCurrent(u, tag)
  <2>1. tag \in 0..Len(u) /\ (tag # 0 => u[tag].kind = "tag")
    BY <1>1, <1>2, <1>4
  <2>2. ASSUME NEW k \in tag + 1..Len(u) PROVE u[k].depth > DepthOf(u, tag)
    <3>1. CASE k = N + 1
      BY <1>2, <1>4, <1>5, <3>1 DEF d
    <3>2. CASE k # N + 1
      <4>1. k \in tag + 1..N /\ k \in 1..N
        BY <1>1, <1>2, <1>4, <3>2
      <4> QED
        BY <1>2, <1>4, <1>5, <4>1
    <3> QED
      BY <3>1, <3>2
  <2> QED
    BY <2>1, <2>2 DEF IsCurrent
<1>7. ASSUME node.kind = "tag" PROVE IsCurrent(u, N + 1) /\ StillOpen(u, N + 1)
  BY <1>1, <1>4, <1>7 DEF IsCurrent, StillOpen
<1> QED
  BY <1>4, <1>6, <1>7 DEF u, N

LEMMA AttributeAppended ==
    ASSUME NEW t, Outline(t), NEW tag, IsCurrent(t, tag), StillOpen(t, tag), NEW node \in Nodes,
           node.depth = t[tag].depth + 1, node.kind \in AttributeKinds
    PROVE  /\ Outline(Append(t, node)) /\ IsCurrent(Append(t, node), tag)
           /\ StillOpen(Append(t, node), tag)
<1> DEFINE N == Len(t)
           d == DepthOf(t, tag)
           u == Append(t, node)
<1>1. /\ t \in Seq(Nodes) /\ N \in Nat
      /\ \A k \in 1..N : t[k] \in Nodes /\ t[k].depth \in Nat /\ t[k].depth = DepthOf(t, k)
  BY OutlineFacts
<1>2. tag \in 1..N /\ N \in 1..N /\ d \in Nat /\ d = t[tag].depth /\ t[tag].kind = "tag"
      /\ \A k \in tag + 1..N : t[k].depth > d
  BY <1>1 DEF IsCurrent, StillOpen
<1> HIDE DEF d
<1>3. MayFollow(NodeAt(t, N), node)
  <2>1. NodeAt(t, N) = t[N]
    BY <1>1, <1>2 DEF NodeAt
  <2>2. CASE tag = N
    BY <1>2, <2>1, <2>2 DEF MayFollow
  <2>3. CASE t[N].kind \in AttributeKinds /\ t[N].depth = t[tag].depth + 1
    BY <1>2, <2>1, <2>3 DEF MayFollow
  <2> QED
    BY <2>2, <2>3 DEF StillOpen
<1>4. /\ Outline(u) /\ Len(u) = N + 1 /\ u[N + 1] = node
      /\ \A k \in 1..N : u[k] = t[k]
  BY <1>1, <1>3, AppendKeepsOutline, AppendProperties
<1> HIDE DEF u
<1>5. DepthOf(u, tag) = d /\ u[tag] = t[tag]
  BY <1>1, <1>2, <1>4 DEF DepthOf
<1>6. IsCurrent(u, tag)
  <2>1. tag \in 0..Len(u) /\ (tag # 0 => u[tag].kind = "tag")
    BY <1>1, <1>2, <1>4
  <2>2. ASSUME NEW k \in tag + 1..Len(u) PROVE u[k].depth > DepthOf(u, tag)
    <3>1. CASE k = N + 1
      BY <1>2, <1>4, <1>5, <3>1
    <3>2. CASE k # N + 1
      <4>1. k \in tag + 1..N /\ k \in 1..N
        BY <1>1, <1>2, <1>4, <3>2
      <4> QED
        BY <1>2, <1>4, <1>5, <4>1
    <3> QED
      BY <3>1, <3>2
  <2> QED
    BY <2>1, <2>2 DEF IsCurrent
<1>7. StillOpen(u, tag)
  BY <1>1, <1>2, <1>4, <1>5 DEF StillOpen
<1> QED
  BY <1>4, <1>6, <1>7 DEF u

\* The nearest shallower node is the parent: a tag, since nothing is below another node.
LEMMA ParentIs ==
    ASSUME NEW t, Outline(t), NEW i \in 1..Len(t), \A k \in i + 1..Len(t) : t[k].depth > t[i].depth
    PROVE  IsCurrent(t, ParentOf(t, i))
<1> DEFINE N == Len(t)
           d == t[i].depth
           S == {k \in 0..i - 1 : DepthOf(t, k) < d}
           T == {0} \cup {o \in 1..i - 1 : t[o].kind = "tag" /\ t[o].depth < t[i].depth}
           q == Max(S)
           p == Max(T)
<1>1. /\ N \in Nat /\ d \in Nat /\ d > 0 /\ i - 1 \in Nat
      /\ \A k \in 1..N : t[k].depth \in Nat /\ t[k].depth = DepthOf(t, k) /\ MayFollow(NodeAt(t, k - 1), t[k])
      /\ \A k \in 0..N : DepthOf(t, k) \in Nat /\ DepthOf(t, k) = NodeAt(t, k).depth
  BY OutlineFacts
<1>2. ParentOf(t, i) = p
  BY DEF ParentOf
<1>3. DepthOf(t, 0) = 0
  BY DEF DepthOf
<1>4. S \subseteq 0..i - 1 /\ S # {} /\ T \subseteq 0..i - 1 /\ T # {} /\ 0 \in T
  <2>1. 0 \in S
    BY <1>1, <1>3
  <2> QED
    BY <1>1, <2>1
<1>5. /\ q \in S /\ \A k \in S : q >= k
      /\ p \in T /\ \A k \in T : p >= k
  <2> HIDE DEF S, T
  <2> QED
    BY <1>1, <1>4, MaxOfBounded
<1> HIDE DEF p, q
<1>6. T \subseteq S
  <2>1. ASSUME NEW o \in 1..i - 1, t[o].depth < d PROVE DepthOf(t, o) < d
    <3>1. o \in 1..N
      BY <1>1
    <3> QED
      BY <1>1, <2>1, <3>1
  <2> QED
    BY <1>1, <1>3, <2>1
<1>7. q = 0 \/ t[q].kind = "tag"
  <2> SUFFICES ASSUME q # 0, t[q].kind # "tag" PROVE FALSE
    OBVIOUS
  <2> DEFINE r == q + 1
  <2>1. q \in 0..i - 1 /\ q \in 1..N /\ r \in 1..i /\ r \in 1..N /\ r - 1 = q /\ r \in Nat
    BY <1>1, <1>5
  <2>2. r > q
    BY <2>1
  <2> HIDE DEF r
  <2>3. MayFollow(t[q], t[r]) /\ t[q].depth < d /\ t[q].depth \in Nat /\ t[r].depth \in Nat /\ d \in Nat
    <3>1. MayFollow(NodeAt(t, r - 1), t[r])
      BY <1>1, <2>1
    <3>2. t[q].depth < d
      BY <1>1, <1>5, <2>1
    <3> QED
      BY <1>1, <2>1, <3>1, <3>2 DEF NodeAt
  <2>4. t[q].kind # "settings"
    BY <2>1, OutlineFacts DEF Nodes, AttributeKinds, ChildKinds
  <2>5. t[r].depth < d
    BY <2>3, <2>4 DEF MayFollow
  <2>6. r # i
    BY <1>1, <2>5
  <2>7. r \in 0..i - 1 /\ DepthOf(t, r) < d
    BY <1>1, <2>1, <2>5, <2>6
  <2>8. q >= r
    BY <1>5, <2>7
  <2> QED
    BY <2>1, <2>2, <2>8
<1>8. p = q
  <2>1. q \in 0..i - 1 /\ DepthOf(t, q) < d
    BY <1>5
  <2>2. q # 0 => q \in 1..N /\ q \in 1..i - 1 /\ t[q].depth < t[i].depth
    BY <1>1, <2>1
  <2>3. q \in T
    BY <1>4, <1>7, <2>2
  <2>4. p >= q /\ q >= p
    BY <1>5, <1>6, <2>3
  <2>5. p \in 0..i - 1
    BY <1>4, <1>5
  <2> QED
    BY <1>1, <2>1, <2>4, <2>5
<1>9. p \in 0..i - 1 /\ DepthOf(t, p) < d /\ DepthOf(t, p) \in Nat /\ p \in 0..N /\ (p # 0 => t[p].kind = "tag")
  <2>1. p \in 0..i - 1 /\ DepthOf(t, p) < d
    BY <1>5, <1>8
  <2>2. p \in 0..N
    BY <1>1, <2>1
  <2> QED
    BY <1>1, <1>7, <1>8, <2>1, <2>2
<1>10. ASSUME NEW k \in p + 1..N PROVE t[k].depth > DepthOf(t, p)
  <2>1. k \in 1..N /\ t[k].depth \in Nat /\ t[k].depth = DepthOf(t, k) /\ k > p /\ k \in Nat
        /\ p \in Nat /\ i \in Nat
    BY <1>1, <1>9
  <2>2. CASE k < i
    <3>1. k \in 0..i - 1 /\ ~ (q >= k)
      BY <1>1, <1>8, <1>9, <2>1, <2>2
    <3>2. k \notin S
      BY <1>5, <3>1
    <3>3. ~ (DepthOf(t, k) < d)
      BY <3>1, <3>2
    <3> QED
      BY <1>1, <1>9, <2>1, <3>3
  <2>3. CASE k = i
    BY <1>9, <2>3
  <2>4. CASE k > i
    <3>1. k \in i + 1..Len(t)
      BY <1>1, <2>1, <2>4
    <3>2. t[k].depth > d
      BY <3>1
    <3> QED
      BY <1>1, <1>9, <2>1, <3>2
  <2> QED
    BY <1>1, <2>1, <2>2, <2>3, <2>4
<1> QED
  BY <1>2, <1>9, <1>10 DEF IsCurrent


ParserStates == {s.from : s \in ParserSteps} \cup {s.to : s \in ParserSteps}
ParserRecords ==
    [tree : Seq(Nodes), ends : {"returns", "throws", "undefined"}, mParserState : ParserStates,
     mElement : Seq(Tokens), mCurrentTag : Nat, mPendingAttributeName : Names]

\* A parser between two tokens.
Parsed ==
    {p \in ParserRecords :
        /\ Outline(p.tree) /\ IsCurrent(p.tree, p.mCurrentTag)
        /\ p.mParserState \in NameStates => p.mElement # <<>>
        /\ p.mParserState \in TagStates => StillOpen(p.tree, p.mCurrentTag)}

LEMMA TrimmedIs ==
    ASSUME NEW value, value \in Seq(Tokens)
    PROVE  Trimmed(value) \in Seq(Tokens)
<1> DEFINE solid == {k \in DOMAIN value : value[k] # Space}
           first == Min(solid)
           last == Max(solid)
<1>1. Len(value) \in Nat /\ solid \subseteq 0..Len(value) /\ solid \subseteq Nat /\ solid \subseteq 1..Len(value)
  OBVIOUS
<1>2. CASE solid = {}
  BY <1>2 DEF Trimmed
<1>3. CASE solid # {}
  <2>1. first \in 1..Len(value) /\ last \in 1..Len(value)
    <3> HIDE DEF solid
    <3>1. first \in solid /\ last \in solid
      BY <1>1, <1>3, MinOfAny, MaxOfBounded
    <3> QED
      BY <1>1, <3>1
  <2>2. Trimmed(value) = SubSeq(value, first, last)
    BY <1>3 DEF Trimmed
  <2> HIDE DEF first, last
  <2>3. SubSeq(value, first, last) \in Seq(Tokens)
    BY <1>1, <2>1
  <2> QED
    BY <2>2, <2>3
<1> QED
  BY <1>2, <1>3

\* What a step emits: the tree is still an outline, and whatever comes next finds the
\* current tag as it needs it.
LEMMA EmittedIs ==
    ASSUME NEW p \in Parsed, NEW s \in ParserSteps, s.from = p.mParserState
    PROVE  /\ Emitted(p, s.emits) \in ParserRecords
           /\ Outline(Emitted(p, s.emits).tree)
           /\ IsCurrent(Emitted(p, s.emits).tree, Emitted(p, s.emits).mCurrentTag)
           /\ s.to \in TagStates => StillOpen(Emitted(p, s.emits).tree, Emitted(p, s.emits).mCurrentTag)
<1> DEFINE q == Emitted(p, s.emits)
           t == p.tree
           tag == p.mCurrentTag
           element == p.mElement
<1>1. p \in ParserRecords /\ Outline(t) /\ IsCurrent(t, tag)
      /\ (p.mParserState \in NameStates => element # <<>>)
      /\ (p.mParserState \in TagStates => StillOpen(t, tag))
  BY DEF Parsed
<1>2. SoundStep(s)
  BY StepsAreSound
<1>3. t \in Seq(Nodes) /\ element \in Seq(Tokens) /\ tag \in 0..Len(t) /\ Len(t) \in Nat /\ DepthOf(t, tag) \in Nat
      /\ (tag # 0 => DepthOf(t, tag) = t[tag].depth)
  <2>1. tag \in 0..Len(t)
    BY <1>1 DEF IsCurrent
  <2> QED
    BY <1>1, <2>1, OutlineFacts DEF ParserRecords, DepthOf
<1>4. p.mParserState \in NameStates => Head(element) \in Names
  <2>1. element # <<>> => Head(element) \in Tokens
    BY <1>3
  <2> QED
    BY <1>1, <2>1, NamesAndValues
<1>5. ASSUME NEW node \in Nodes PROVE Append(t, node) \in Seq(Nodes)
  BY <1>3
<1>6. CASE s.emits = "nothing" \/ (s.emits = "CDATA" /\ Trimmed(element) = <<>>)
  <2>1. q = p
    BY <1>6 DEF Emitted, emitCDATA
  <2>2. s.to \in TagStates => StillOpen(t, tag)
    BY <1>1, <1>2, <1>6 DEF SoundStep
  <2> QED
    BY <1>1, <2>1, <2>2
<1>7. CASE s.emits = "CDATA" /\ Trimmed(element) # <<>>
  <2> DEFINE node == Node(DepthOf(t, tag) + 1, "cdata", CDATAName, Trimmed(element))
  <2>1. q = [p EXCEPT !.tree = Append(t, node)]
    BY <1>7 DEF Emitted, emitCDATA
  <2>2. node \in Nodes
    <3>1. Trimmed(element) \in Values
      BY <1>3, TrimmedIs, NamesAndValues
    <3>2. DepthOf(t, tag) + 1 \in Nat /\ "cdata" \in AttributeKinds \cup ChildKinds /\ CDATAName \in Names
      BY <1>3, NamesAndValues DEF ChildKinds
    <3> QED
      BY <3>1, <3>2, NodesMade
  <2>3. node.depth = DepthOf(t, tag) + 1 /\ node.kind \in ChildKinds
    BY DEF Node, ChildKinds
  <2> HIDE DEF node
  <2>4. Outline(Append(t, node)) /\ IsCurrent(Append(t, node), tag)
    BY <1>1, <2>2, <2>3, ChildAppended
  <2>5. q \in ParserRecords /\ q.tree = Append(t, node) /\ q.mCurrentTag = tag
    BY <1>1, <1>5, <2>1, <2>2 DEF ParserRecords
  <2>6. s.to \notin TagStates
    BY <1>2, <1>7 DEF SoundStep
  <2> HIDE DEF q
  <2> QED
    BY <2>4, <2>5, <2>6 DEF q
<1>8. CASE s.emits = "OpenTagName"
  <2> DEFINE node == Node(DepthOf(t, tag) + 1, "tag", Head(element), <<>>)
  <2>1. q = [p EXCEPT !.tree = Append(t, node), !.mCurrentTag = Len(t) + 1]
    BY <1>8 DEF Emitted, emitOpenTagName
  <2>2. node \in Nodes
    <3>1. Head(element) \in Names
      BY <1>2, <1>4, <1>8 DEF SoundStep
    <3>2. DepthOf(t, tag) + 1 \in Nat /\ "tag" \in AttributeKinds \cup ChildKinds /\ <<>> \in Values
      BY <1>3, NamesAndValues DEF ChildKinds
    <3> QED
      BY <3>1, <3>2, NodesMade
  <2>3. node.depth = DepthOf(t, tag) + 1 /\ node.kind \in ChildKinds /\ node.kind = "tag"
    BY DEF Node, ChildKinds
  <2> HIDE DEF node
  <2>4. /\ Outline(Append(t, node)) /\ IsCurrent(Append(t, node), Len(t) + 1)
        /\ StillOpen(Append(t, node), Len(t) + 1)
    BY <1>1, <2>2, <2>3, ChildAppended
  <2>5. q \in ParserRecords /\ q.tree = Append(t, node) /\ q.mCurrentTag = Len(t) + 1
    <3> DEFINE u == Append(t, node)
               n == Len(t) + 1
    <3>1. u \in Seq(Nodes) /\ n \in Nat /\ q = [p EXCEPT !.tree = u, !.mCurrentTag = n]
      BY <1>3, <1>5, <2>1, <2>2
    <3> HIDE DEF u, n, q
    <3>2. q \in ParserRecords /\ q.tree = u /\ q.mCurrentTag = n
      BY <1>1, <3>1 DEF ParserRecords
    <3> QED
      BY <3>2 DEF u, n
  <2> HIDE DEF q
  <2> QED
    BY <2>4, <2>5 DEF q
<1>9. CASE s.emits = "AttributeName"
  <2>1. q = [p EXCEPT !.mPendingAttributeName = Head(element)]
    BY <1>9 DEF Emitted
  <2>2. Head(element) \in Names
    BY <1>2, <1>4, <1>9 DEF SoundStep
  <2>3. q \in ParserRecords /\ q.tree = t /\ q.mCurrentTag = tag
    BY <1>1, <2>1, <2>2 DEF ParserRecords
  <2>4. s.to \in TagStates => StillOpen(t, tag)
    BY <1>1, <1>2, <1>9 DEF SoundStep
  <2> HIDE DEF q
  <2> QED
    BY <1>1, <2>3, <2>4 DEF q
<1>10. CASE s.emits \in {"AttributeNameOnly", "AttributeValue"}
  <2>1. PICK kind \in AttributeKinds, name \in Names, value \in Values : q = emitAttribute(p, kind, name, value)
    <3>1. CASE s.emits = "AttributeNameOnly"
      <4>1. Head(element) \in Names /\ <<>> \in Values /\ "item" \in AttributeKinds
        BY <1>2, <1>4, <3>1, NamesAndValues DEF SoundStep, AttributeKinds
      <4>2. q = emitAttribute(p, "item", Head(element), <<>>)
        BY <3>1 DEF Emitted
      <4> QED
        BY <4>1, <4>2
    <3>2. CASE s.emits = "AttributeValue"
      <4>1. p.mPendingAttributeName \in Names /\ element \in Values /\ "attribute" \in AttributeKinds
        BY <1>1, <1>3, NamesAndValues DEF ParserRecords, AttributeKinds
      <4>2. q = emitAttribute(p, "attribute", p.mPendingAttributeName, element)
        BY <3>2 DEF Emitted
      <4> QED
        BY <4>1, <4>2
    <3> QED
      BY <1>10, <3>1, <3>2
  <2> DEFINE node == Node(t[tag].depth + 1, kind, name, value)
  <2>2. q = [p EXCEPT !.tree = Append(t, node)]
    BY <2>1 DEF emitAttribute
  <2>3. StillOpen(t, tag)
    BY <1>1, <1>2, <1>10 DEF SoundStep
  <2>4. t[tag].depth \in Nat /\ t[tag].depth + 1 \in Nat
    BY <1>3, <2>3 DEF StillOpen
  <2>5. node \in Nodes
    BY <2>4, NodesMade
  <2>6. node.depth = t[tag].depth + 1 /\ node.kind \in AttributeKinds
    BY DEF Node
  <2> HIDE DEF node
  <2>7. Outline(Append(t, node)) /\ IsCurrent(Append(t, node), tag) /\ StillOpen(Append(t, node), tag)
    BY <1>1, <2>3, <2>5, <2>6, AttributeAppended
  <2>8. q \in ParserRecords /\ q.tree = Append(t, node) /\ q.mCurrentTag = tag
    BY <1>1, <1>5, <2>2, <2>5 DEF ParserRecords
  <2> HIDE DEF q
  <2> QED
    BY <2>7, <2>8 DEF q
<1>11. CASE s.emits = "EndSoloTag" \/ (s.emits = "CloseTagName" /\ tag # 0 /\ t[tag].name = Head(element))
  <2> DEFINE parent == ParentOf(t, tag)
  <2>1. q = [p EXCEPT !.mCurrentTag = parent]
    BY <1>11 DEF Emitted, emitEndSoloTag, emitCloseTagName
  <2>2. tag # 0
    BY <1>1, <1>2, <1>11 DEF SoundStep, StillOpen
  <2>3. tag \in 1..Len(t) /\ \A k \in tag + 1..Len(t) : t[k].depth > t[tag].depth
    BY <1>1, <1>3, <2>2 DEF IsCurrent
  <2>4. IsCurrent(t, parent)
    BY <1>1, <2>3, ParentIs
  <2> HIDE DEF parent
  <2>5. parent \in Nat
    BY <1>3, <2>4 DEF IsCurrent
  <2>6. q \in ParserRecords /\ q.tree = t /\ q.mCurrentTag = parent
    BY <1>1, <2>1, <2>5 DEF ParserRecords
  <2>7. s.to \notin TagStates
    BY <1>2, <1>11 DEF SoundStep
  <2> HIDE DEF q
  <2> QED
    BY <1>1, <2>4, <2>6, <2>7 DEF q
<1>12. CASE s.emits = "CloseTagName" /\ (tag = 0 \/ t[tag].name # Head(element))
  <2>1. q = [p EXCEPT !.ends = "undefined"] \/ q = [p EXCEPT !.ends = "throws"]
    BY <1>12 DEF Emitted, emitCloseTagName
  <2>2. q \in ParserRecords /\ q.tree = t /\ q.mCurrentTag = tag
    BY <1>1, <2>1 DEF ParserRecords
  <2>3. s.to \notin TagStates
    BY <1>2, <1>12 DEF SoundStep
  <2> HIDE DEF q
  <2> QED
    BY <1>1, <2>2, <2>3 DEF q
<1> QED
  BY <1>2, <1>6, <1>7, <1>8, <1>9, <1>10, <1>11, <1>12 DEF SoundStep


LEMMA ParseLineIs ==
    ASSUME NEW p \in Parsed, NEW token \in Tokens
    PROVE  parseLine(p, token) \in Parsed
<1> DEFINE steps == {s \in ParserSteps : s.from = p.mParserState /\ ClassOf(token) \in s.tokens}
           step == CHOOSE s \in steps : TRUE
           element == (IF step.to = step.from THEN p.mElement ELSE <<>>)
                          \o (IF step.keeps THEN <<token>> ELSE <<>>)
           q == Emitted(p, step.emits)
<1>1. parseLine(p, token) =
          IF p.ends # "returns" \/ token = EndOfLine THEN p
          ELSE IF steps = {} THEN [p EXCEPT !.ends = "throws"]
          ELSE [q EXCEPT !.mParserState = step.to, !.mElement = element]
  BY DEF parseLine
<1>2. p \in ParserRecords /\ Outline(p.tree) /\ IsCurrent(p.tree, p.mCurrentTag)
      /\ (p.mParserState \in NameStates => p.mElement # <<>>)
      /\ (p.mParserState \in TagStates => StillOpen(p.tree, p.mCurrentTag))
  BY DEF Parsed
<1>3. CASE p.ends # "returns" \/ token = EndOfLine
  BY <1>1, <1>3
<1>4. CASE ~ (p.ends # "returns" \/ token = EndOfLine) /\ steps = {}
  <2> DEFINE r == [p EXCEPT !.ends = "throws"]
  <2>1. /\ r \in ParserRecords /\ r.tree = p.tree /\ r.mCurrentTag = p.mCurrentTag
        /\ r.mParserState = p.mParserState /\ r.mElement = p.mElement
    BY <1>2 DEF ParserRecords
  <2>2. parseLine(p, token) = r
    BY <1>1, <1>4
  <2> HIDE DEF r
  <2>3. r \in Parsed
    BY <1>2, <2>1 DEF Parsed
  <2> QED
    BY <2>2, <2>3
<1>5. CASE ~ (p.ends # "returns" \/ token = EndOfLine) /\ steps # {}
  <2>1. step \in steps
    <3> HIDE DEF steps
    <3> QED
      BY <1>5
  <2>2. step \in ParserSteps /\ step.from = p.mParserState
    BY <2>1
  <2> HIDE DEF step, steps
  <2>3. SoundStep(step)
    BY <2>2, StepsAreSound
  <2>4. /\ q \in ParserRecords /\ Outline(q.tree) /\ IsCurrent(q.tree, q.mCurrentTag)
        /\ step.to \in TagStates => StillOpen(q.tree, q.mCurrentTag)
    BY <2>2, EmittedIs
  <2>5. element \in Seq(Tokens) /\ (step.to \in NameStates => element # <<>>)
    <3> DEFINE before == IF step.to = step.from THEN p.mElement ELSE <<>>
               after == IF step.keeps THEN <<token>> ELSE <<>>
    <3>1. before \in Seq(Tokens)
      BY <1>2 DEF ParserRecords
    <3>2. after \in Seq(Tokens) /\ (step.to \in NameStates => after = <<token>>)
      BY <2>3 DEF SoundStep
    <3>3. element = before \o after
      OBVIOUS
    <3> HIDE DEF before, after, element
    <3>4. before \o after \in Seq(Tokens) /\ Len(before \o after) = Len(before) + Len(after)
      BY <3>1, <3>2, ConcatProperties
    <3>5. ASSUME step.to \in NameStates PROVE before \o after # <<>>
      <4>1. Len(after) = 1 /\ Len(before) \in Nat
        BY <3>1, <3>2, <3>5
      <4>2. Len(before \o after) > 0
        BY <3>4, <4>1
      <4> QED
        BY <4>2
    <3> QED
      BY <3>3, <3>4, <3>5
  <2>6. step.to \in ParserStates
    BY <2>2 DEF ParserStates
  <2> DEFINE r == [q EXCEPT !.mParserState = step.to, !.mElement = element]
  <2>7. parseLine(p, token) = r
    BY <1>1, <1>5
  <2> HIDE DEF element, q
  <2>8. /\ r \in ParserRecords /\ r.tree = q.tree /\ r.mCurrentTag = q.mCurrentTag
        /\ r.mParserState = step.to /\ r.mElement = element
    BY <2>4, <2>5, <2>6 DEF ParserRecords
  <2> HIDE DEF r
  <2>9. r \in Parsed
    BY <2>4, <2>5, <2>8 DEF Parsed
  <2> QED
    BY <2>7, <2>9
<1> QED
  BY <1>3, <1>4, <1>5

LEMMA ParseIs ==
    ASSUME NEW text, text \in Seq(Tokens)
    PROVE  Outline(parse(text).tree) /\ parse(text).ends \in {"returns", "throws", "undefined"}
<1> DEFINE lines == IF text # <<>> /\ Head(text) = "<?xml?>" THEN Tail(text) ELSE text
           N == Len(lines)
           base == [tree |-> <<>>, ends |-> "returns", mParserState |-> "kReady", mElement |-> <<>>,
                    mCurrentTag |-> 0, mPendingAttributeName |-> EmptyName]
           e(f, k) == IF k = 0 THEN base ELSE parseLine(f[k - 1], lines[k])
           step == [k \in 1..N |-> [p \in Parsed |-> parseLine(p, lines[k])]]
           w == CHOOSE f : f = [k \in 0..N |-> e(f, k)]
<1>1. lines \in Seq(Tokens)
  OBVIOUS
<1>2. parse(text) = w[N]
  BY Zenon DEF parse
<1> HIDE DEF lines
<1>3. N \in Nat /\ \A k \in 1..N : lines[k] \in Tokens
  BY <1>1
<1>4. base \in Parsed
  <2>1. base \in ParserRecords
    <3>1. "kReady" \in ParserStates
      <4> DEFINE s == Step("kReady", {"<"}, "kTag1_open", "CDATA", FALSE)
      <4>1. s \in ParserSteps
        BY Zenon DEF ParserSteps, TagSteps
      <4>2. s.from = "kReady"
        BY DEF Step
      <4> HIDE DEF s
      <4> QED
        BY <4>1, <4>2 DEF ParserStates
    <3>2. EmptyName \in Names
      BY NamesAndValues
    <3> QED
      BY <3>1, <3>2 DEF ParserRecords
  <2>2. Outline(<<>>) /\ IsCurrent(<<>>, 0)
    BY DEF Outline, IsCurrent
  <2>3. "kReady" \notin NameStates /\ "kReady" \notin TagStates
    BY DEF NameStates, TagStates
  <2> QED
    BY <2>1, <2>2, <2>3 DEF Parsed
<1>5. \A p \in Parsed : \A k \in 1..N : parseLine(p, lines[k]) \in Parsed
  BY <1>3, ParseLineIs
<1> HIDE DEF N, base
<1>6. step \in [1..N -> [Parsed -> Parsed]]
  BY <1>5
<1>7. PICK f : Walks(f, N, Parsed, base, step)
  <2> HIDE DEF step
  <2> QED
    BY <1>3, <1>4, <1>6, WalkExists
<1>8. f = [k \in 0..N |-> e(f, k)]
  <2>1. ASSUME NEW k \in 0..N PROVE f[k] = e(f, k)
    <3>1. CASE k = 0
      BY <1>7, <3>1 DEF Walks
    <3>2. CASE k # 0
      <4>1. k \in 1..N /\ k - 1 \in 0..N
        BY <1>3, <3>2
      <4>2. f[k] = step[k][f[k - 1]] /\ f[k - 1] \in Parsed
        BY <1>7, <4>1 DEF Walks
      <4> QED
        BY <3>2, <4>1, <4>2
    <3> QED
      BY <3>1, <3>2
  <2> HIDE DEF e
  <2> QED
    BY <1>7, <2>1 DEF Walks
<1>9. w = [k \in 0..N |-> e(w, k)]
  <2> HIDE DEF e
  <2> QED
    BY <1>8
<1> HIDE DEF w
<1>10. \A k \in 0..N : w[k] = e(w, k)
  <2> HIDE DEF e
  <2> QED
    BY <1>9
<1>11. w[0] = base /\ \A k \in 1..N : w[k] = parseLine(w[k - 1], lines[k])
  BY <1>3, <1>10
<1>12. w[N] \in Parsed
  <2> DEFINE Good == {k \in 0..N : w[k] \in Parsed}
  <2>1. 0 \in Good
    BY <1>3, <1>4, <1>11
  <2>2. \A k \in 1..N : k - 1 \in Good => k \in Good
    BY <1>3, <1>5, <1>11
  <2> HIDE DEF Good
  <2>3. \A k \in 0..N : k \in Good
    BY <1>3, <2>1, <2>2, CountsUp
  <2> QED
    BY <1>3, <2>3 DEF Good
<1> QED
  BY <1>2, <1>12 DEF Parsed, ParserRecords


-----------------------------------------------------------------------------
(* The settings *)

SettingsInv ==
    /\ Outline(settings) /\ Len(settings) <= MaxNodes
    /\ callEnds \in {"returns", "throws", "undefined"}

LEMMA PathsAndTexts ==
    /\ \A path \in SettingPaths : path \in Seq(Names) /\ path # <<>>
    /\ \A text \in SettingTexts : text \in Seq(Tokens)
<1>1. ASSUME NEW S, NEW T, S \subseteq T, NEW s \in Seq(S) PROVE s \in Seq(T)
  BY <1>1
<1>2. ASSUME NEW path \in SettingPaths PROVE path \in Seq(Names) /\ path # <<>>
  <2>1. path \in Seq(ToSet(path)) /\ path # <<>>
    BY SettingsConstants
  <2>2. ToSet(path) \subseteq Names
    BY DEF Names, PathNames
  <2> QED
    BY <1>1, <2>1, <2>2
<1>3. ASSUME NEW text \in SettingTexts PROVE text \in Seq(Tokens)
  <2>1. text \in Seq(ToSet(text))
    BY SettingsConstants
  <2>2. ToSet(text) \subseteq Tokens
    BY DEF Tokens
  <2> QED
    BY <1>1, <2>1, <2>2
<1> QED
  BY <1>2, <1>3

LEMMA ResultIs ==
    ASSUME NEW x, Outline(x.tree), x.ends \in {"returns", "throws", "undefined"}, Result(x)
    PROVE  SettingsInv'
  BY DEF Result, SettingsInv, Outline

LEMMA SettingsStep == SettingsInv /\ [SettingsNext]_settingsVars => SettingsInv'
<1> SUFFICES ASSUME SettingsInv, [SettingsNext]_settingsVars PROVE SettingsInv'
  OBVIOUS
<1>1. Outline(settings)
  BY DEF SettingsInv
<1>2. SettingValues \subseteq Values /\ <<>> \in Values /\ <<"v">> \in Values /\ <<"w">> \in Values
  BY NamesAndValues
<1>3. CASE UNCHANGED settingsVars
  BY <1>3 DEF SettingsInv, Outline, settingsVars
<1>4. ASSUME NEW path \in SettingPaths, NEW value \in SettingValues, AddsStringValue(path, value)
      PROVE  SettingsInv'
  <2>1. Outline(Added(settings, path, "attribute", value).tree)
        /\ Added(settings, path, "attribute", value).ends \in {"returns", "throws"}
    BY <1>1, <1>2, PathsAndTexts, AddedIs DEF AttributeKinds
  <2> QED
    BY <1>4, <2>1, ResultIs DEF AddsStringValue
<1>5. ASSUME NEW path \in SettingPaths, NEW value \in SettingValues, SetsStringValue(path, value)
      PROVE  SettingsInv'
  <2>1. Outline(Set(settings, path, value).tree) /\ Set(settings, path, value).ends \in {"returns", "throws"}
    BY <1>1, <1>2, PathsAndTexts, SetIs
  <2> QED
    BY <1>5, <2>1, ResultIs DEF SetsStringValue
<1>6. ASSUME NEW path \in SettingPaths, AddsItem(path) PROVE SettingsInv'
  <2>1. Outline(Added(settings, path, "item", <<>>).tree)
        /\ Added(settings, path, "item", <<>>).ends \in {"returns", "throws"}
    BY <1>1, <1>2, PathsAndTexts, AddedIs DEF AttributeKinds
  <2> QED
    BY <1>6, <2>1, ResultIs DEF AddsItem
<1>7. ASSUME NEW path \in SettingPaths, DeletesNode(path) PROVE SettingsInv'
  <2> DEFINE x == [tree |-> Deleted(settings, path), ends |-> "returns"]
  <2>1. Outline(Deleted(settings, path))
    BY <1>1, PathsAndTexts, DeletedKeepsOutline
  <2>2. Outline(x.tree) /\ x.ends \in {"returns", "throws", "undefined"} /\ Result(x)
    BY <1>7, <2>1 DEF DeletesNode
  <2> HIDE DEF x
  <2> QED
    BY <2>2, ResultIs
<1>8. ASSUME NEW path \in SettingPaths, SetsPointValue(path, <<"v">>, <<"w">>) PROVE SettingsInv'
  <2> DEFINE deleted == Deleted(settings, path)
             first == Added(deleted, Append(path, "x"), "attribute", <<"v">>)
             second == Added(first.tree, Append(path, "y"), "attribute", <<"w">>)
             x == IF first.ends = "throws" THEN first ELSE second
  <2>1. Result(x)
    BY <1>8 DEF SetsPointValue
  <2>2. Append(path, "x") \in Seq(Names) /\ Append(path, "x") # <<>>
        /\ Append(path, "y") \in Seq(Names) /\ Append(path, "y") # <<>>
    <3>1. path \in Seq(Names) /\ "x" \in Names /\ "y" \in Names
      BY PathsAndTexts, NamesAndValues
    <3> QED
      BY <3>1, AppendProperties
  <2>3. Outline(deleted)
    BY <1>1, PathsAndTexts, DeletedKeepsOutline
  <2> HIDE DEF deleted
  <2>4. Outline(first.tree) /\ first.ends \in {"returns", "throws"}
    BY <1>2, <2>2, <2>3, AddedIs DEF AttributeKinds
  <2> HIDE DEF first
  <2>5. Outline(second.tree) /\ second.ends \in {"returns", "throws"}
    BY <1>2, <2>2, <2>4, AddedIs DEF AttributeKinds
  <2> HIDE DEF second
  <2>6. Outline(x.tree) /\ x.ends \in {"returns", "throws"}
    BY <2>4, <2>5
  <2> HIDE DEF x
  <2> QED
    BY <2>1, <2>6, ResultIs
<1>9. ASSUME NEW text \in SettingTexts, ReadsFromStream(text) PROVE SettingsInv'
  <2>1. Outline(parse(text).tree) /\ parse(text).ends \in {"returns", "throws", "undefined"}
    BY PathsAndTexts, ParseIs
  <2> QED
    BY <1>9, <2>1, ResultIs DEF ReadsFromStream
<1> QED
  BY <1>3, <1>4, <1>5, <1>6, <1>7, <1>8, <1>9 DEF SettingsNext

LEMMA OutlineIsTyped == SettingsInv => SettingsTypeOK
<1> SUFFICES ASSUME SettingsInv PROVE SettingsTypeOK
  OBVIOUS
<1>1. Outline(settings) /\ Len(settings) <= MaxNodes /\ callEnds \in {"returns", "throws", "undefined"}
  BY DEF SettingsInv
<1>2. DOMAIN settings = 1..Len(settings)
  BY <1>1, OutlineFacts
<1>3. ASSUME NEW i \in 1..Len(settings)
      PROVE  /\ settings[i].depth \in 1..DepthOf(settings, i - 1) + 1
             /\ settings[i].kind \in AttributeKinds \cup ChildKinds
  <2>1. settings[i] \in Nodes /\ settings[i].depth \in Nat /\ settings[i].depth > 0
        /\ settings[i].depth <= DepthOf(settings, i - 1) + 1
    BY <1>1, OutlineFacts
  <2>2. DepthOf(settings, i - 1) \in Nat
    <3>1. i - 1 \in 0..Len(settings)
      BY <1>1, OutlineFacts
    <3> QED
      BY <1>1, <3>1, OutlineFacts
  <2> QED
    BY <2>1, <2>2 DEF Nodes
<1> QED
  BY <1>1, <1>2, <1>3 DEF SettingsTypeOK

\* The settings are a tree, whatever was added, set, deleted or read: the nodes below one
\* follow it, at most one level down, and only a tag has any, its attributes before its
\* children (VSettingsTag keeps them apart).  So it is when a path leads into an attribute,
\* which becomes a tag, and for text that is cut off or closes tags that are not open.
THEOREM SettingsTypeCorrect == SettingsSpec => [](Outline(settings) /\ SettingsTypeOK)
<1>1. SettingsInit => SettingsInv
  BY SettingsConstants DEF SettingsInit, SettingsInv, Outline
<1>2. SettingsInv => Outline(settings)
  BY DEF SettingsInv
<1> QED
  BY <1>1, <1>2, SettingsStep, OutlineIsTyped, PTL DEF SettingsSpec
==============================================================================
