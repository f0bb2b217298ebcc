------------------------- MODULE NodePublisherProofs -------------------------
(***************************************************************************)
(* Proofs about NodePublisher, for any number of callers, publish loops    *)
(* and services: the types, what may be published after a stop, and that   *)
(* the keep-alive loop's comparison of two lengths finds every service     *)
(* that is gone.                                                           *)
(***************************************************************************)
EXTENDS NodePublisher, FiniteSetTheorems, TLAPS

LEMMA TypeInit == Init => TypeOK
  BY PublisherAssumption DEF Init, TypeOK

\* Every step keeps the types.
LEMMA TypeNext == TypeOK /\ [Next]_vars => TypeOK'
  <1> SUFFICES ASSUME TypeOK, [Next]_vars PROVE TypeOK'
    OBVIOUS
  <1> USE PublisherAssumption DEF TypeOK, registry, others
  <1>1. ASSUME NEW c \in Callers, CallStart(c) \/ CallStop(c) PROVE TypeOK'
    BY <1>1 DEF CallStart, CallStop
  <1>2. ASSUME NEW c \in Callers, CallerStep(c) PROVE TypeOK'
    BY <1>2 DEF CallerStep, SpawnLoop, RemoveServices, Halted, Ahead,
         Booting, Spawned, PastCheck
  <1>3. ASSUME NEW l \in Loops, LoopStep(l) PROVE TypeOK'
    BY <1>3 DEF LoopStep, BeginLoop, CheckRunning, Publish, WakeUp
  <1>4. CASE Reconfigure \/ StartRegistry \/ StopRegistry
    BY <1>4 DEF Reconfigure, StartRegistry, StopRegistry
  <1>5. CASE KeepAliveStep
    <2>1. CASE AnnounceAlive
      BY <2>1 DEF AnnounceAlive
    <2>2. CASE CloseUnused
      BY <2>2 DEF CloseUnused
    <2>3. CASE NextPass
      BY <2>3 DEF NextPass
    <2>4. QED
      BY <1>5, <2>1, <2>2, <2>3 DEF KeepAliveStep
  <1>6. CASE MapRace
    BY <1>6 DEF MapRace
  <1>7. CASE UNCHANGED vars
    BY <1>7 DEF vars
  <1>8. QED
    BY <1>1, <1>2, <1>3, <1>4, <1>5, <1>6, <1>7 DEF Next

\* The variables have their types.
THEOREM TypeCorrect == Spec => []TypeOK
  BY TypeInit, TypeNext, PTL DEF Spec
-----------------------------------------------------------------------------
(***************************************************************************)
(* What was asked for against the publish loops.                           *)
(***************************************************************************)
LEMMA PublishInvNext == PublishInv /\ [Next]_vars => PublishInv'
  <1> SUFFICES ASSUME PublishInv, [Next]_vars PROVE PublishInv'
    OBVIOUS
  <1>1. TypeOK'
    BY TypeNext DEF PublishInv
  <1> USE <1>1 DEF PublishInv, TypeOK, Ahead, Booting, Spawned, PastCheck
  <1>2. ASSUME NEW c \in Callers, CallStart(c) PROVE PublishInv'
    BY <1>2 DEF CallStart, registry
  <1>3. ASSUME NEW c \in Callers, CallStop(c) PROVE PublishInv'
    BY <1>3 DEF CallStop, registry
  <1>4. ASSUME NEW c \in Callers, SpawnLoop(c) PROVE PublishInv'
    BY <1>4 DEF SpawnLoop, registry
  <1>5. ASSUME NEW c \in Callers, RemoveServices(c) PROVE PublishInv'
    <2>1. services' = {} /\ overtaken' = Ahead /\ Ahead' = Ahead
      BY <1>5 DEF RemoveServices, registry
    <2>2. QED
      BY <2>1
  <1>6. ASSUME NEW c \in Callers, Halted(c) PROVE PublishInv'
    BY <1>6 DEF Halted, registry
  <1>7. ASSUME NEW l \in Loops, LoopStep(l) PROVE PublishInv'
    <2>1. CASE BeginLoop(l)
      BY <2>1 DEF BeginLoop, registry
    <2>2. CASE CheckRunning(l)
      BY <2>2 DEF CheckRunning, registry
    <2>3. CASE Publish(l)
      BY <2>3 DEF Publish, registry
    <2>4. CASE WakeUp(l)
      BY <2>4 DEF WakeUp, registry
    <2>5. QED
      BY <1>7, <2>1, <2>2, <2>3, <2>4 DEF LoopStep
  <1>8. CASE Reconfigure \/ StartRegistry \/ StopRegistry \/ KeepAliveStep \/ MapRace
    BY <1>8 DEF Reconfigure, StartRegistry, StopRegistry, KeepAliveStep, AnnounceAlive,
         CloseUnused, NextPass, MapRace, others, registry
  <1>9. CASE UNCHANGED vars
    BY <1>9 DEF vars
  <1>10. QED
    BY <1>2, <1>3, <1>4, <1>5, <1>6, <1>7, <1>8, <1>9 DEF Next, CallerStep

\* After a stop, services stay registered only if its removal met a start under
\* way or a loop that still had to set the flag, to test it or to publish
\* (nodemanager.go:266-274 and 283-285).
THEOREM StoppedNodesAreUnpublished == Spec => []PublishedOnlyAsAsked
  <1>1. Init => PublishInv
    BY TypeInit DEF Init, PublishInv, Ahead, Booting, Spawned, PastCheck
  <1>2. PublishInv => PublishedOnlyAsAsked
    BY DEF PublishInv, PublishedOnlyAsAsked
  <1>3. QED
    BY <1>1, <1>2, PublishInvNext, PTL DEF Spec
-----------------------------------------------------------------------------
(***************************************************************************)
(* The byes of the keep-alive loop.                                        *)
(***************************************************************************)
\* A subset of a finite set that is not smaller is the set itself.
LEMMA NotSmaller ==
  ASSUME NEW S, IsFiniteSet(S), NEW U \in SUBSET S, ~(Cardinality(U) < Cardinality(S))
  PROVE  U = S
  <1>1. IsFiniteSet(U) /\ Cardinality(U) \in Nat /\ Cardinality(S) \in Nat
    BY FS_Subset, FS_CardinalityType
  <1>2. Cardinality(U) <= Cardinality(S) /\ (Cardinality(U) = Cardinality(S) => U = S)
    BY FS_Subset
  <1>3. QED
    BY <1>1, <1>2

LEMMA AdvertiserInvNext == AdvertiserInv /\ [Next]_vars => AdvertiserInv'
  <1> SUFFICES ASSUME AdvertiserInv, [Next]_vars PROVE AdvertiserInv'
    OBVIOUS
  <1>1. TypeOK'
    BY TypeNext DEF AdvertiserInv
  <1> USE <1>1 DEF AdvertiserInv, ByeForEveryClosed
  <1>2. CASE AnnounceAlive
    BY <1>2 DEF AnnounceAlive
  <1>3. CASE CloseUnused
    <2>1. used \subseteq advertizers
      BY <1>3 DEF CloseUnused
    <2>2. IsFiniteSet(advertizers)
      BY PublisherAssumption, FS_Subset DEF TypeOK
    <2>3. advertizers' = used
      <3>1. CASE Cardinality(used) < Cardinality(advertizers)
        BY <1>3, <3>1, <2>1 DEF CloseUnused
      <3>2. CASE ~(Cardinality(used) < Cardinality(advertizers))
        BY <1>3, <3>2, <2>1, <2>2, NotSmaller DEF CloseUnused
      <3>3. QED
        BY <3>1, <3>2
    <2>4. announced' = advertizers'
      BY <1>3, <2>1 DEF CloseUnused
    <2>5. QED
      BY <1>3, <2>3, <2>4 DEF CloseUnused
  <1>4. CASE NextPass
    BY <1>4 DEF NextPass
  <1>5. CASE Reconfigure \/ StartRegistry \/ StopRegistry \/ MapRace
    BY <1>5 DEF Reconfigure, StartRegistry, StopRegistry, MapRace, registry
  <1>6. ASSUME NEW c \in Callers, CallStart(c) \/ CallStop(c) \/ CallerStep(c)
        PROVE  AdvertiserInv'
    BY <1>6 DEF CallStart, CallStop, CallerStep, SpawnLoop, RemoveServices, Halted, registry
  <1>7. ASSUME NEW l \in Loops, LoopStep(l) PROVE AdvertiserInv'
    BY <1>7 DEF LoopStep, BeginLoop, CheckRunning, Publish, WakeUp, registry
  <1>8. CASE UNCHANGED vars
    BY <1>8 DEF vars
  <1>9. QED
    BY <1>2, <1>3, <1>4, <1>5, <1>6, <1>7, <1>8 DEF Next, KeepAliveStep

\* The network hears a bye for every advertiser that is closed, and each pass
\* closes all that are unused: comparing the number of used advertisers with
\* the number of advertisers misses none (ServiceRegistry.go:299-313).
THEOREM ByesAreComplete == Spec => []ByeForEveryClosed
  <1>1. Init => AdvertiserInv
    BY TypeInit DEF Init, AdvertiserInv, ByeForEveryClosed
  <1>2. AdvertiserInv => ByeForEveryClosed
    BY DEF AdvertiserInv
  <1>3. QED
    BY <1>1, <1>2, AdvertiserInvNext, PTL DEF Spec
=============================================================================
