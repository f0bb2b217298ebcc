---------------------------- MODULE NodePublisher ----------------------------
(***************************************************************************)
(* How a started instance announces its nodes: the node manager's publish  *)
(* loop (service/nodemanager.go) writes the services of the instance into  *)
(* the service registry, whose keep-alive loop                             *)
(* (service/netutil/ServiceRegistry.go) announces them by UPnP and says    *)
(* bye for those that are gone.  The goroutines share the flag running and *)
(* the map services without any lock.                                      *)
(*                                                                         *)
(* StartNodes and StopNodes are called by manageState once and by the      *)
(* pages /start and /stop as often as a user likes, each request on its    *)
(* own goroutine; vagrant takes minutes, the loops sleep 10 and 15 s.      *)
(***************************************************************************)
EXTENDS Naturals, FiniteSets

CONSTANTS Callers,   \* goroutines that call StartNodes and StopNodes
          Loops,     \* slots for publish loops: bounds how many live at once
          Services,  \* the services an instance may have
          Offers,    \* what GetServices() may return: {} unless the copy is ready
          HasWorker  \* the instance has a worker node

ASSUME PublisherAssumption ==
  IsFiniteSet(Services) /\ Offers \subseteq SUBSET Services /\ {} \in Offers
  /\ HasWorker \in BOOLEAN

VARIABLES
  caller,      \* caller[c]: where caller c is
  running,     \* nodeManager.running
  loop,        \* loop[l]: where publish loop l is
  offered,     \* what GetServices() returns for the node manager's copy
  services,    \* the registry's services of the provider "NodeManager"
  keepAlive,   \* where the keep-alive loop is
  looping,     \* advertizing of the registry copy the keep-alive loop runs on
  advertizing, \* advertizing of the registry itself
  used,        \* usedAdvertisers of the pass under way
  advertizers, \* the services an advertiser exists for
  announced,   \* the services the network heard alive and no bye of since
  stopped,     \* history: the registry's Stop was called
  asked,       \* history: the last call of the two was StartNodes
  overtaken,   \* history: the last removal met a start or a loop still ahead of it
  ended        \* the process ended

vars == <<caller, running, loop, offered, services, keepAlive, looping,
          advertizing, used, advertizers, announced, stopped, asked, overtaken, ended>>
registry == <<keepAlive, looping, advertizing, used, advertizers, announced, stopped>>

TypeOK ==
  /\ caller \in [Callers -> {"idle", "booting", "removing", "halting"}]
  /\ running \in BOOLEAN
  /\ loop \in [Loops -> {"none", "spawned", "check", "publish", "sleep"}]
  /\ offered \in Offers /\ services \in Offers
  /\ keepAlive \in {"off", "iterate", "close", "sleep"}
  /\ looping \in BOOLEAN /\ advertizing \in BOOLEAN
  /\ used \in Offers
  /\ advertizers \in SUBSET Services /\ announced \in SUBSET Services
  /\ stopped \in BOOLEAN /\ asked \in BOOLEAN
  /\ overtaken \in BOOLEAN /\ ended \in BOOLEAN

\* ConfigureNodes has succeeded.  Pages may have edited the configuration since
\* its readiness was checked.
Init ==
  /\ caller = [c \in Callers |-> "idle"]
  /\ running = FALSE
  /\ loop = [l \in Loops |-> "none"]
  /\ offered \in Offers /\ services = {}
  /\ keepAlive = "off" /\ looping = FALSE /\ advertizing = FALSE
  /\ used = {} /\ advertizers = {} /\ announced = {}
  /\ stopped = FALSE /\ asked = FALSE /\ overtaken = FALSE /\ ended = FALSE
-----------------------------------------------------------------------------
(***************************************************************************)
(* StartNodes: vagrant up, then a new publish loop.                        *)
(***************************************************************************)
\* Without a worker StartNodes returns at once, with nothing published; before
\* the first configuration, which the registry's start precedes, it panics.
CallStart(c) ==
  /\ ~ended /\ caller[c] = "idle" /\ keepAlive # "off"
  /\ HasWorker
  /\ asked' = TRUE
  /\ caller' = [caller EXCEPT ![c] = "booting"]
  /\ UNCHANGED <<running, loop, offered, services, registry, overtaken, ended>>

\* vagrant is done, or failed, which is only logged.
SpawnLoop(c) ==
  /\ ~ended /\ caller[c] = "booting"
  /\ \E l \in Loops : loop[l] = "none" /\ loop' = [loop EXCEPT ![l] = "spawned"]
  /\ caller' = [caller EXCEPT ![c] = "idle"]
  /\ UNCHANGED <<running, offered, services, registry, asked, overtaken, ended>>

(***************************************************************************)
(* StopNodes: clear the flag, remove the services, vagrant halt.           *)
(***************************************************************************)
CallStop(c) ==
  /\ ~ended /\ caller[c] = "idle"
  /\ running' = FALSE
  /\ asked' = FALSE
  /\ caller' = [caller EXCEPT ![c] = "removing"]
  /\ UNCHANGED <<loop, offered, services, registry, overtaken, ended>>

\* Slip: the removal of the services is forgotten.
RemoveNothing(c) ==
  /\ ~ended /\ caller[c] = "removing"
  /\ caller' = [caller EXCEPT ![c] = "halting"]
  /\ UNCHANGED <<running, loop, offered, services, registry, asked, overtaken, ended>>

\* What publishes after this moment although nothing is started any more: a start
\* whose loop is still to be spawned, a loop still to set the flag or to find it
\* set, and one past its check.
Booting == {c \in Callers : caller[c] = "booting"}
Spawned == {l \in Loops : loop[l] = "spawned"}
PastCheck == {l \in Loops : loop[l] = "publish"}
Ahead == running \/ Booting # {} \/ Spawned # {} \/ PastCheck # {}

RemoveServices(c) ==
  /\ ~ended /\ caller[c] = "removing"
  /\ services' = {}
  /\ overtaken' = Ahead
  /\ caller' = [caller EXCEPT ![c] = "halting"]
  /\ UNCHANGED <<running, loop, offered, registry, asked, ended>>

Halted(c) ==
  /\ ~ended /\ caller[c] = "halting"
  /\ caller' = [caller EXCEPT ![c] = "idle"]
  /\ UNCHANGED <<running, loop, offered, services, registry, asked, overtaken, ended>>
-----------------------------------------------------------------------------
(***************************************************************************)
(* publishServices: the flag is set by the new goroutine itself.           *)
(***************************************************************************)
\* Slip: nobody sets the flag.
BeginUnset(l) ==
  /\ ~ended /\ loop[l] = "spawned"
  /\ loop' = [loop EXCEPT ![l] = "check"]
  /\ UNCHANGED <<caller, running, offered, services, registry, asked, overtaken, ended>>

BeginLoop(l) ==
  /\ ~ended /\ loop[l] = "spawned"
  /\ running' = TRUE
  /\ loop' = [loop EXCEPT ![l] = "check"]
  /\ UNCHANGED <<caller, offered, services, registry, asked, overtaken, ended>>

\* Slip: the loop never looks at the flag again.
CheckNothing(l) ==
  /\ ~ended /\ loop[l] = "check"
  /\ loop' = [loop EXCEPT ![l] = "publish"]
  /\ UNCHANGED <<caller, running, offered, services, registry, asked, overtaken, ended>>

CheckRunning(l) ==
  /\ ~ended /\ loop[l] = "check"
  /\ loop' = [loop EXCEPT ![l] = IF running THEN "publish" ELSE "none"]
  /\ UNCHANGED <<caller, running, offered, services, registry, asked, overtaken, ended>>

\* Slip: one of the services is left out.
PublishSome(l) ==
  /\ ~ended /\ loop[l] = "publish"
  /\ \E s \in offered : services' = offered \ {s}
  /\ loop' = [loop EXCEPT ![l] = "sleep"]
  /\ UNCHANGED <<caller, running, offered, registry, asked, overtaken, ended>>

\* GetServices, nothing for a copy that is not ready, and AddServices.
Publish(l) ==
  /\ ~ended /\ loop[l] = "publish"
  /\ services' = offered
  /\ loop' = [loop EXCEPT ![l] = "sleep"]
  /\ UNCHANGED <<caller, running, offered, registry, asked, overtaken, ended>>

WakeUp(l) ==
  /\ ~ended /\ loop[l] = "sleep"
  /\ loop' = [loop EXCEPT ![l] = "check"]
  /\ UNCHANGED <<caller, running, offered, services, registry, asked, overtaken, ended>>
\* A page edits the node objects that the copy shares with the configuration, or
\* a later start replaces the copy: other names, or no longer (or again) ready.
Reconfigure ==
  /\ ~ended
  /\ offered' \in Offers \ {offered}
  /\ UNCHANGED <<caller, running, loop, services, registry, asked, overtaken, ended>>
-----------------------------------------------------------------------------
(***************************************************************************)
(* The service registry.  Start has a value receiver: the loop it starts   *)
(* runs on a copy, whose maps are the registry's and whose flag is its own.*)
(***************************************************************************)
others == <<caller, running, loop, offered, services, asked, overtaken>>

StartRegistry ==
  /\ ~ended /\ keepAlive = "off" /\ ~looping
  /\ keepAlive' = "iterate"
  /\ looping' = TRUE
  /\ UNCHANGED <<others, advertizing, used, advertizers, announced, stopped, ended>>

\* Stop, called by manageState when it enters the setup.
StopRegistry ==
  /\ ~ended /\ keepAlive # "off"
  /\ advertizing' = FALSE
  /\ stopped' = TRUE
  /\ UNCHANGED <<others, keepAlive, looping, used, advertizers, announced, ended>>

\* Every service found gets an advertiser and is announced alive; a failure to
\* create an advertiser is fatal.
AnnounceAlive ==
  /\ ~ended /\ keepAlive = "iterate"
  /\ \/ /\ used' = services
        /\ advertizers' = advertizers \cup services
        /\ announced' = announced \cup services
        /\ keepAlive' = "close"
        /\ UNCHANGED ended
     \/ /\ services \ advertizers # {}
        /\ ended' = TRUE
        /\ UNCHANGED <<used, advertizers, announced, keepAlive>>
  /\ UNCHANGED <<others, looping, advertizing, stopped>>

\* Slip: the number of advertisers is compared the wrong way round.
CloseIfMore ==
  /\ ~ended /\ keepAlive = "close"
  /\ IF Cardinality(used) > Cardinality(advertizers)
     THEN advertizers' = used /\ announced' = announced \ (advertizers \ used)
     ELSE UNCHANGED <<advertizers, announced>>
  /\ keepAlive' = "sleep"
  /\ UNCHANGED <<others, looping, advertizing, used, stopped, ended>>

\* Slip: the advertiser is deleted without a bye.
CloseSilently ==
  /\ ~ended /\ keepAlive = "close"
  /\ advertizers' = advertizers \cap used
  /\ keepAlive' = "sleep"
  /\ UNCHANGED <<others, looping, advertizing, used, announced, stopped, ended>>

\* Bye for the advertisers that were not used.
CloseUnused ==
  /\ ~ended /\ keepAlive = "close"
  /\ IF Cardinality(used) < Cardinality(advertizers)
     THEN advertizers' = advertizers \cap used /\ announced' = announced \ (advertizers \ used)
     ELSE UNCHANGED <<advertizers, announced>>
  /\ keepAlive' = "sleep"
  /\ UNCHANGED <<others, looping, advertizing, used, stopped, ended>>

NextPass ==
  /\ ~ended /\ keepAlive = "sleep"
  /\ keepAlive' = IF looping THEN "iterate" ELSE "off"
  /\ UNCHANGED <<others, looping, advertizing, used, advertizers, announced, stopped, ended>>

\* Two goroutines in the map services, one of them writing: the Go runtime may
\* end the program.
Writers == {<<"loop", l>> : l \in {k \in Loops : loop[k] = "publish"}} \cup
           {<<"caller", c>> : c \in {d \in Callers : caller[d] = "removing"}}
Accesses == Cardinality(Writers) + (IF keepAlive = "iterate" THEN 1 ELSE 0)

MapRace ==
  /\ ~ended /\ Writers # {} /\ Accesses > 1
  /\ ended' = TRUE
  /\ UNCHANGED <<others, registry>>
-----------------------------------------------------------------------------
CallerStep(c) == SpawnLoop(c) \/ RemoveServices(c) \/ Halted(c)
LoopStep(l) == BeginLoop(l) \/ CheckRunning(l) \/ Publish(l) \/ WakeUp(l)
KeepAliveStep == AnnounceAlive \/ CloseUnused \/ NextPass

Next ==
  \/ \E c \in Callers : CallStart(c) \/ CallStop(c) \/ CallerStep(c)
  \/ \E l \in Loops : LoopStep(l)
  \/ Reconfigure \/ StartRegistry \/ StopRegistry \/ KeepAliveStep \/ MapRace

Spec == Init /\ [][Next]_vars

\* Sleeps end and vagrant returns; every goroutine is scheduled.
Fairness ==
  /\ \A c \in Callers : WF_vars(CallerStep(c))
  /\ \A l \in Loops : WF_vars(LoopStep(l))
  /\ WF_vars(KeepAliveStep)
FairSpec == Spec /\ Fairness
-----------------------------------------------------------------------------
(***************************************************************************)
(* Properties.                                                             *)
(***************************************************************************)
\* When the last call was a stop, the services of the nodes are registered only
\* until this stop removes them, or because its removal was overtaken: it met a
\* start in its vagrant run or a loop that still had to set the flag, to test it
\* or to publish (nodemanager.go:266-274 against 283-285).  A loop in its sleep,
\* and any other interleaving of starts, stops and loops, leaves nothing behind.
PublishedOnlyAsAsked ==
  services # {} =>
    \/ asked \/ overtaken
    \/ \E c \in Callers : caller[c] = "removing"

\* The network heard a bye for each closed advertiser, and after a pass there
\* are advertisers for exactly the services of this pass: comparing the two
\* lengths finds every removal (ServiceRegistry.go:299-313).
ByeForEveryClosed ==
  /\ announced = advertizers
  /\ keepAlive = "sleep" => advertizers = used

\* Once the services stay removed the network hears the byes, also after the
\* registry was stopped, and hears of them no more.
RemovedAreUnannounced ==
  <>[](services = {} /\ keepAlive # "off") => <>[](announced = {} \/ ended)

\* The inductive invariant behind PublishedOnlyAsAsked: what is about to publish
\* counts like what is published.
PublishInv ==
  /\ TypeOK
  /\ services # {} \/ Ahead =>
       \/ asked \/ overtaken
       \/ \E c \in Callers : caller[c] = "removing"

\* The one behind ByeForEveryClosed: every service of a pass has an advertiser
\* before the pass looks for the unused ones.
AdvertiserInv ==
  /\ TypeOK
  /\ keepAlive = "close" => used \subseteq advertizers
  /\ ByeForEveryClosed

\* A start that no stop follows gets announced what its nodes offer, and nothing
\* else, once nobody edits them any more.
StartAnnounces ==
  \A o \in Offers :
    Spawned # {} /\ offered = o ~>
      \/ announced = o \/ offered # o
      \/ ended \/ \E c \in Callers : caller[c] = "removing"

\* A stop that no start follows ends every publish loop, as many as quick
\* restarts within the loops' sleep have left.
StopEndsLoops ==
  <>[](~running /\ Spawned = {})
     => <>[](ended \/ \A l \in Loops : loop[l] = "none")

\* "No collected service data will be removed, but no further updates will
\* happen" (ServiceRegistry.go:48-50): no pass begins after Stop.
NoUpdateAfterStop == [][stopped /\ keepAlive = "sleep" => keepAlive' # "iterate"]_vars
=============================================================================
