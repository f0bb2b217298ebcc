----------------------------- MODULE ClusterView -----------------------------
(***************************************************************************)
(* What the controller of a cluster knows of its nodes: the announcements  *)
(* the service registry receives (service/netutil/ServiceRegistry.go) are  *)
(* entered into the known clusters (service/clustermanager.go).            *)
(*                                                                         *)
(* Announcements are UPnP datagrams: the network loses, repeats, delays    *)
(* and reorders them, and each is handled by a goroutine of its own.  Only *)
(* an alive message changes the view; a received bye is logged, nothing    *)
(* expires.  Devices that are not WinKube services are dropped by their    *)
(* advertisement type and left out here.  NodePublisher models the sender. *)
(*                                                                         *)
(* The actions on the process as a whole and the requests that remove      *)
(* nodes are in ClusterApi, which extends this module.                     *)
(***************************************************************************)
CONSTANTS Masters, Workers, Controllers,  \* services by the type they announce
          Members,  \* those that announce the cluster id of this controller
          Own,      \* those of the controller's own instance
          Self,     \* the controller's node as startLocal creates it
          Casts     \* bound: sets of nodes and clients that take part together

Nodes == Masters \cup Workers \cup Controllers

ASSUME ViewAssumption ==
  /\ Own \subseteq Members /\ Members \subseteq Nodes /\ Self \notin Nodes
  /\ Masters \cap Workers = {} /\ Controllers \cap (Masters \cup Workers) = {}

VARIABLES
  cast,      \* the nodes and clients that take part in this behaviour
  status,    \* CurrentStatus of the controller's process, "off" without one;
             \* "FAILING" is a STARTING that gives back what it reserved
  listening, \* the local controller listens to the registry
  known,     \* the entry of knownClusters for the own cluster
  network,   \* nodes of which an alive message is under way
  up,        \* nodes that run and announce themselves
  reported,  \* history: nodes removed as stopped since they went down
  late       \* history: those of which an alive message was under way then

viewVars == <<cast, status, listening, known, network, up, reported, late>>

\* The entry startLocal creates.
NewCluster == [masters |-> {}, workers |-> {}, controller |-> Self]

ViewTypeOK ==
  /\ cast \in Casts
  /\ status \in {"off", "STARTING", "FAILING", "RUNNING", "SETUP"}
  /\ listening \in BOOLEAN
  /\ known \in [masters : SUBSET Masters, workers : SUBSET Workers,
                controller : Controllers \cup {Self}]
  /\ network \in SUBSET Nodes /\ up \in SUBSET Nodes
  /\ reported \in SUBSET Nodes /\ late \in SUBSET Nodes

ViewInit ==
  /\ cast \in Casts
  /\ status = "off" /\ listening = FALSE /\ known = NewCluster
  /\ network = {} /\ up = {} /\ reported = {} /\ late = {}

Listed == known.masters \cup known.workers \cup {known.controller}
-----------------------------------------------------------------------------
(***************************************************************************)
(* Nodes and network.                                                      *)
(***************************************************************************)
\* The nodes of the own instance are announced by its process, from StartNodes
\* on, which comes after the controller listens.
NodeStarts(n) ==
  /\ n \in cast \ up
  /\ n \in Own => listening
  /\ up' = up \cup {n}
  /\ reported' = reported \ {n} /\ late' = late \ {n}
  /\ UNCHANGED <<cast, status, listening, known, network>>

\* The bye of a node that stops, if it sends one, changes nothing (onBye).
NodeStops(n) ==
  /\ n \in up
  /\ up' = up \ {n}
  /\ UNCHANGED <<cast, status, listening, known, network, reported, late>>

\* A pass of the keep-alive loop of the node's instance.
Announce(n) ==
  /\ n \in up \ network
  /\ network' = network \cup {n}
  /\ UNCHANGED <<cast, status, listening, known, up, reported, late>>

LoseMessage(n) ==
  /\ n \in network
  /\ network' = network \ {n}
  /\ UNCHANGED <<cast, status, listening, known, up, reported, late>>
-----------------------------------------------------------------------------
(***************************************************************************)
(* Receiving.                                                              *)
(***************************************************************************)
\* nodeFromService and the switch of ServiceReceived.
Entered(cluster, n) ==
  [cluster EXCEPT !.masters = @ \cup ({n} \cap Masters),
                  !.workers = @ \cup ({n} \cap Workers),
                  !.controller = IF n \in Controllers THEN n ELSE @]

\* Slip: the case of the workers is missing.
ServiceReceivedNoWorker(n) ==
  /\ status # "off" /\ n \in network
  /\ network' \in {network, network \ {n}}
  /\ known' = IF listening /\ n \in Members \ Workers THEN Entered(known, n) ELSE known
  /\ UNCHANGED <<cast, status, listening, up, reported, late>>

\* onAlive and ServiceReceived.  A message of the own instance is logged as
\* ignored and handled all the same.  For another cluster
\* GetOrCreateClusterById makes an entry that is filled and thrown away.  The
\* message may arrive once more.
ServiceReceived(n) ==
  /\ status # "off" /\ n \in network
  /\ network' \in {network, network \ {n}}
  /\ known' = IF listening /\ n \in Members THEN Entered(known, n) ELSE known
  /\ UNCHANGED <<cast, status, listening, up, reported, late>>

\* Slip: only the workers are looked through.
RemovedWorker(cluster, n) == [cluster EXCEPT !.workers = @ \ {n}]

\* removeNode
Removed(cluster, n) == [cluster EXCEPT !.masters = @ \ {n}, !.workers = @ \ {n}]

\* getNode and removeNode of actionNodeStopped: it finds masters and workers.
RemoveStopped(n) ==
  /\ known' = Removed(known, n)
  /\ IF n \in (known.masters \cup known.workers) \ up
     THEN reported' = reported \cup {n} /\ late' = late \cup ({n} \cap network)
     ELSE UNCHANGED <<reported, late>>
  /\ UNCHANGED <<cast, status, listening, network, up>>

ViewStep ==
  \E n \in Nodes :
    NodeStarts(n) \/ NodeStops(n) \/ Announce(n) \/ LoseMessage(n) \/ ServiceReceived(n)
-----------------------------------------------------------------------------
(***************************************************************************)
(* Properties.                                                             *)
(***************************************************************************)
\* A node that was removed as stopped comes back into the view only by an alive
\* message that was already under way when it was removed: nothing recalls a
\* delayed datagram, and nothing but the request removes a stopped node
\* (onBye does nothing, ServiceRegistry.go:201).
GhostsHaveCause == \A n \in reported : n \in Listed /\ n \notin up => n \in late

\* A node that stays up is seen by a controller that stays up, again and again,
\* whatever was lost, repeated, delayed or removed before, and however often
\* the controller was restarted with an empty view.
NodeSeen ==
  \A n \in Members :
    <>[](n \in up /\ listening) => []<>(n \in Listed)
=============================================================================
