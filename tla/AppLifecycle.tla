---------------------------- MODULE AppLifecycle ----------------------------
(***************************************************************************)
(* The life of an instance: server.go, the start of the local controller   *)
(* (service/clustermanager.go) and of the nodes (service/nodemanager.go).  *)
(*                                                                         *)
(* The goroutine manageState compares the required with the current status *)
(* and switches; the pages of the web applications run beside it, edit the *)
(* same global configuration and set the required status.  The switch to   *)
(* RUNNING is split wherever it reads the configuration again, because it  *)
(* lasts minutes (the registry's Start sleeps 20 s, reserving an address   *)
(* pings hosts, vagrant boots machines).  A nil dereference or a panic in  *)
(* it is not recovered and ends the process.                               *)
(***************************************************************************)
EXTENDS SystemConfig

CONSTANTS FileConfigs,  \* configurations the config file may hold (or the default)
          Requests      \* pairs <<page, form>> a browser may send

ASSUME LifecycleAssumption ==
  FileConfigs \subseteq Config /\ Requests \subseteq {"step1", "step2", "step3", "install"} \X Form

VARIABLES
  disk,        \* the configuration read at the start of the process
  config,      \* Container().Config
  current,     \* CurrentStatus
  required,    \* RequiredAppStatus
  mpc,         \* where manageState is
  old,         \* oldStatus of switchToRunning
  cluster,     \* ClusterVMNet of the cluster the local controller runs
  nodes,       \* the node manager's copy of the configuration, or NoConfig
  shared,      \* the nodes of the copy that are still the objects config points to
  reserved,    \* addresses used in the pool of the local controller
  vagrant,     \* the Vagrantfile: "none", "partial" or "good"
  crashed,     \* the process ended by a panic
  asked,       \* history: in setup, the install page got a valid configuration
               \* and neither the status nor the configuration changed since
  disturbed    \* history: a page changed the configuration during the last start

vars == <<disk, config, current, required, mpc, old, cluster, nodes, shared,
          reserved, vagrant, crashed, asked, disturbed>>
status == <<current, required, old>>
deploy == <<cluster, nodes, shared, reserved, vagrant>>
history == <<asked, disturbed>>

NoConfig == Absent
NodeFields == {"master", "worker"}

Labels == {"loop", "registry", "controller", "startLocal", "startRemote", "master",
           "configureMaster", "reserveMaster", "worker", "configureWorker",
           "reserveWorker", "configureNodes", "generate", "startNodes"}

TypeOK ==
  /\ disk \in FileConfigs
  /\ config \in Config
  /\ current \in {"INITIALIZED", "SETUP", "STARTING", "RUNNING"}
  /\ required \in {"SETUP", "RUNNING"}
  /\ mpc \in Labels
  /\ old \in {"INITIALIZED", "SETUP"}
  /\ cluster \in VMNetType \cup {"none"}
  /\ nodes \in Config \cup {NoConfig}
  /\ shared \in SUBSET NodeFields
  /\ reserved \in SUBSET Ips
  /\ vagrant \in {"none", "partial", "good"}
  /\ crashed \in BOOLEAN
  /\ asked \in BOOLEAN /\ disturbed \in BOOLEAN

\* Start() of AppContainer.go and startup() of server.go.
Booted(c) ==
  /\ config' = c
  /\ current' = "INITIALIZED" /\ old' = "INITIALIZED"
  /\ required' = IF Ready(c) THEN "RUNNING" ELSE "SETUP"
  /\ mpc' = "loop" /\ cluster' = "none" /\ nodes' = NoConfig /\ shared' = {} /\ reserved' = {}
  /\ crashed' = FALSE /\ asked' = FALSE /\ disturbed' = FALSE

Init ==
  /\ disk \in FileConfigs
  /\ config = disk
  /\ current = "INITIALIZED" /\ old = "INITIALIZED"
  /\ required = IF Ready(disk) THEN "RUNNING" ELSE "SETUP"
  /\ mpc = "loop" /\ cluster = "none" /\ nodes = NoConfig /\ shared = {} /\ reserved = {}
  /\ vagrant = "none"
  /\ crashed = FALSE /\ asked = FALSE /\ disturbed = FALSE
-----------------------------------------------------------------------------
At(l) == ~crashed /\ mpc = l

Goto(l) == mpc' = l /\ UNCHANGED crashed

\* A nil dereference or panic in manageState.
Crash == crashed' = TRUE /\ UNCHANGED mpc

\* Slip: the failed start is recorded as a status the program does not know.
ResetToError ==
  /\ current' = "ERROR"
  /\ required' = "SETUP"
  /\ Goto("loop")
  /\ UNCHANGED old

\* Slip: the failed start is not given up, the next round tries it again.
RetryStart ==
  /\ current' = old
  /\ Goto("loop")
  /\ UNCHANGED <<required, old>>

ResetToSetupStatus ==
  /\ current' = old
  /\ required' = "SETUP"
  /\ Goto("loop")
  /\ UNCHANGED old

\* manageState: the switch to SETUP.  The stop of the registry is in NodePublisher.
SwitchToSetup ==
  /\ At("loop") /\ required = "SETUP" /\ current # "SETUP"
  /\ current' = "SETUP"
  /\ asked' = FALSE
  /\ UNCHANGED <<disk, config, required, mpc, old, deploy, crashed, disturbed>>

\* switchToRunning up to the check of the configuration.
SwitchToRunning ==
  /\ At("loop") /\ required = "RUNNING" /\ current # "RUNNING"
  /\ IF Ready(config)
     THEN /\ old' = current
          /\ current' = "STARTING"
          /\ Goto("registry")
          /\ asked' = FALSE /\ disturbed' = FALSE
          /\ UNCHANGED required
     ELSE /\ UNCHANGED <<current, old, mpc, crashed, history>>
          /\ required' = "SETUP"
  /\ UNCHANGED <<disk, config, deploy>>

\* ServiceRegistry.Start; without multicast it is not implemented and panics.
StartRegistry ==
  /\ At("registry")
  /\ IF config.mcast THEN Goto("controller") ELSE Crash
  /\ UNCHANGED <<disk, config, status, deploy, history>>

\* localController.Start decides and then reads the chosen part again.
ChooseController ==
  /\ At("controller")
  /\ Goto(IF IsControllerNode(config) THEN "startLocal" ELSE "startRemote")
  /\ UNCHANGED <<disk, config, status, deploy, history>>

\* CreateCIDR panics if it cannot parse the network.
StartLocal ==
  /\ At("startLocal")
  /\ IF IsControllerNode(config) /\ config.cidr
     THEN cluster' = config.ctl /\ reserved' = {} /\ Goto("master")
     ELSE Crash /\ UNCHANGED <<cluster, reserved>>
  /\ UNCHANGED <<disk, config, status, nodes, shared, vagrant, history>>

\* The remote controller serves no /cluster/config: joining it always fails.
StartRemote ==
  /\ At("startRemote")
  /\ IF config.login THEN ResetToSetupStatus ELSE Crash /\ UNCHANGED status
  /\ UNCHANGED <<disk, config, deploy, history>>
-----------------------------------------------------------------------------
(***************************************************************************)
(* configureMaster and configureWorker: both panic after the assignment if *)
(* the network type is none they know.                                     *)
(***************************************************************************)
CheckMaster ==
  /\ At("master")
  /\ Goto(IF IsMasterNode(config) THEN "configureMaster" ELSE "worker")
  /\ UNCHANGED <<disk, config, status, deploy, history>>

ConfigureMaster ==
  /\ At("configureMaster")
  /\ IF IsMasterNode(config) /\ IsControllerNode(config)
     THEN /\ config' = [config EXCEPT !.master.net = config.ctl]
          /\ IF config.ctl \in Net THEN Goto("reserveMaster") ELSE Crash
     ELSE Crash /\ UNCHANGED config
  /\ UNCHANGED <<disk, status, deploy, history>>

CheckWorker ==
  /\ At("worker")
  /\ Goto(IF IsWorkerNode(config) THEN "configureWorker" ELSE "configureNodes")
  /\ UNCHANGED <<disk, config, status, deploy, history>>

ConfigureWorker ==
  /\ At("configureWorker")
  /\ IF IsWorkerNode(config) /\ IsControllerNode(config)
     THEN /\ config' = [config EXCEPT !.worker.net = config.ctl]
          /\ IF config.ctl \in Net THEN Goto("reserveWorker") ELSE Crash
     ELSE Crash /\ UNCHANGED config
  /\ UNCHANGED <<disk, status, deploy, history>>

\* Slip: the addresses in use are not excluded.
ReservedTwice(ip) == ip \in Ips \cup {NoIp}

\* GetFreeIp of the only reserving goroutine: an unused address, or none when
\* the pool is exhausted or every unused address answers the ping.
Reserved(ip) == ip \in (Ips \ reserved) \cup {NoIp}

ReserveMaster ==
  /\ At("reserveMaster")
  /\ \E ip \in Ips \cup {NoIp} :
       /\ Reserved(ip)
       /\ reserved' = reserved \cup ({ip} \ {NoIp})
       /\ IF IsMasterNode(config)
          THEN config' = [config EXCEPT !.master.addr = ip] /\ Goto("worker")
          ELSE Crash /\ UNCHANGED config
  /\ UNCHANGED <<disk, status, cluster, nodes, shared, vagrant, history>>

ReserveWorker ==
  /\ At("reserveWorker")
  /\ \E ip \in Ips \cup {NoIp} :
       /\ Reserved(ip)
       /\ reserved' = reserved \cup ({ip} \ {NoIp})
       /\ IF IsWorkerNode(config)
          THEN config' = [config EXCEPT !.worker.addr = ip] /\ Goto("configureNodes")
          ELSE Crash /\ UNCHANGED config
  /\ UNCHANGED <<disk, status, cluster, nodes, shared, vagrant, history>>
-----------------------------------------------------------------------------
(***************************************************************************)
(* ConfigureNodes and StartNodes.                                          *)
(***************************************************************************)
\* Slip: only the master's address is released.
ReleaseMasterIp(c) ==
  reserved' = reserved \ (IF IsMasterNode(c) THEN {c.master.addr} ELSE {})

\* releaseIPsOnError looks at the master's network type for the worker's address
\* as well: of a worker behind NAT beside a bridged master it releases the name
\* of the host.
WorkerUnreleased(c) ==
  /\ IsMasterNode(c) /\ IsWorkerNode(c)
  /\ c.master.net = "Bridged" /\ c.worker.net # "Bridged"

ReleaseIps(c) ==
  reserved' = reserved \
    (({IF IsMasterNode(c) THEN c.master.addr ELSE NoIp} \cup
      {IF IsWorkerNode(c) /\ ~WorkerUnreleased(c) THEN c.worker.addr ELSE NoIp}) \ {NoIp})

\* The copy of the configuration is shallow: it shares the node objects.
\* createVagrantConfig dereferences both nodes.  Creating the Vagrantfile
\* empties it or fails.
ConfigureNodes ==
  /\ At("configureNodes")
  /\ nodes' = config
  /\ shared' = {f \in NodeFields : config[f] # Absent}
  /\ \/ /\ ~IsMasterNode(config) /\ ~IsWorkerNode(config)
        /\ Goto("startNodes")
        /\ UNCHANGED <<status, reserved, vagrant>>
     \/ /\ IsMasterNode(config) # IsWorkerNode(config)
        /\ Crash
        /\ UNCHANGED <<status, reserved, vagrant>>
     \/ /\ IsMasterNode(config) /\ IsWorkerNode(config)
        /\ \/ vagrant' = "partial" /\ Goto("generate") /\ UNCHANGED <<status, reserved>>
           \/ ResetToSetupStatus /\ ReleaseIps(config) /\ UNCHANGED vagrant
  /\ UNCHANGED <<disk, config, cluster, history>>

\* The template names a field that does not exist (NodeAdress) when bridged.
Generate ==
  /\ At("generate")
  /\ IF cluster = "NAT"
     THEN vagrant' = "good" /\ Goto("startNodes") /\ UNCHANGED <<status, reserved>>
     ELSE ResetToSetupStatus /\ ReleaseIps(nodes) /\ UNCHANGED vagrant
  /\ UNCHANGED <<disk, config, cluster, nodes, shared, history>>

\* Slip: the status reached is also the one required.
StartNodesAndStay ==
  /\ At("startNodes")
  /\ current' = "RUNNING" /\ required' = "RUNNING"
  /\ Goto("loop")
  /\ UNCHANGED <<disk, config, old, deploy, history>>

\* StartNodes returns no error, whatever vagrant does.
StartNodes ==
  /\ At("startNodes")
  /\ current' = "RUNNING"
  /\ Goto("loop")
  /\ UNCHANGED <<disk, config, required, old, deploy, history>>
-----------------------------------------------------------------------------
(***************************************************************************)
(* The web pages and the operator.                                         *)
(***************************************************************************)
\* EnterSetupAction (/enter-setup of the monitor).
EnterSetup ==
  /\ ~crashed
  /\ required' = "SETUP"
  /\ UNCHANGED <<disk, config, current, mpc, old, deploy, crashed, history>>

\* A page edits the configuration: a node it drops is no longer shared with the
\* node manager's copy, a correction of one that it keeps changes both.
Edit(page, form) ==
  /\ config' = PageResult(page, config, form)
  /\ shared' = {f \in shared : ReadConfig(config, form).config[f] # Absent}
  /\ nodes' = IF nodes = NoConfig THEN nodes
              ELSE [f \in DOMAIN nodes |-> IF f \in shared' THEN config'[f] ELSE nodes[f]]

\* The configuration changes while a start is under way.
Disturbs == mpc # "loop" /\ config' # config

\* A page of the wizard; none but the index looks at the status.
WizardPage ==
  /\ ~crashed
  /\ \E r \in Requests : r[1] # "install" /\ Edit(r[1], r[2])
  /\ asked' = (asked /\ config' = config)
  /\ disturbed' = (disturbed \/ Disturbs)
  /\ UNCHANGED <<disk, status, mpc, cluster, reserved, vagrant, crashed>>

\* ValidateConfig hands the validator the function config instead of the
\* configuration, which is never valid.
ValidateConfig(c) == FALSE

\* InstallConfigAction: writes the configuration and asks for RUNNING if the
\* validation succeeds, else it is one more page of the wizard.
Install ==
  /\ ~crashed
  /\ \E r \in Requests :
       /\ r[1] = "install"
       /\ IF ValidateConfig(config)
          THEN /\ disk' = config /\ vagrant' = "none" /\ required' = "RUNNING"
               /\ UNCHANGED <<config, nodes, shared>>
          ELSE /\ Edit("install", r[2])
               /\ UNCHANGED <<disk, vagrant, required>>
  /\ asked' = (current = "SETUP" /\ Ready(config'))
  /\ disturbed' = (disturbed \/ Disturbs)
  /\ UNCHANGED <<current, mpc, old, cluster, reserved, crashed>>

\* The operator starts the ended process again: the pool and the node
\* manager's configuration are gone, the Vagrantfile is still there.
Restart ==
  /\ crashed
  /\ Booted(disk)
  /\ UNCHANGED <<disk, vagrant>>

Manage ==
  \/ SwitchToSetup \/ SwitchToRunning \/ StartRegistry \/ ChooseController
  \/ StartLocal \/ StartRemote \/ CheckMaster \/ ConfigureMaster \/ ReserveMaster
  \/ CheckWorker \/ ConfigureWorker \/ ReserveWorker \/ ConfigureNodes \/ Generate
  \/ StartNodes

Next == Manage \/ EnterSetup \/ WizardPage \/ Install \/ Restart

Spec == Init /\ [][Next]_vars

\* manageState runs until the process ends: the sleeps end, a ping and an HTTP
\* request time out, and vagrant returns.
FairSpec == Spec /\ WF_vars(Manage)
-----------------------------------------------------------------------------
(***************************************************************************)
(* Properties.                                                             *)
(***************************************************************************)
\* A start that was given up leaves no address reserved, whichever step of it
\* failed (nodemanager.go:199, "Releasing internal/public node IPs due to
\* error"), unless a page changed the configuration meanwhile: then the release
\* may look for the addresses of nodes that are gone.
FailedStartKeepsNoAddress ==
  [][mpc # "loop" /\ mpc' = "loop" /\ current' # "RUNNING" /\ ~crashed /\ ~disturbed
       => reserved' = {}]_vars

\* What runs is what was configured: each node the manager started has the
\* cluster's network type, its own reserved address unless the pool had none,
\* and machines have a complete Vagrantfile, unless a page changed the
\* configuration during the start; a page that does so later breaks none of
\* this, although it edits node objects the node manager shares.
RunningNodesAreProvisioned ==
  current = "RUNNING" /\ ~crashed /\ ~disturbed =>
    /\ nodes # NoConfig
    /\ NodeIps(nodes) = reserved
    /\ IsMasterNode(nodes) => nodes.master.net = cluster
    /\ IsWorkerNode(nodes) => vagrant = "good" /\ nodes.worker.net = cluster
    /\ IsMasterNode(nodes) /\ IsWorkerNode(nodes) /\ nodes.master.addr # NoIp =>
         nodes.master.addr # nodes.worker.addr

\* However the pages disturbed a start that failed: an address it leaves behind
\* belongs to no node that is still configured, or to the worker it deployed, when
\* the network type changed between the configuration of the two nodes: the code
\* releases the worker's address by the master's network type (nodemanager.go:208).
FailedStartFreesItsNodes ==
  [][mpc # "loop" /\ mpc' = "loop" /\ current' # "RUNNING" /\ ~crashed
       => \A ip \in reserved' \cap NodeIps(config') :
            WorkerUnreleased(nodes') /\ ip = nodes'.worker.addr]_vars

\* An undisturbed start of a configuration the validator accepts ends the process
\* only if multicast is off, the cluster's network or network type is none the
\* code knows, or there is exactly one node.
CrashesAreKnown ==
  crashed => \/ disturbed
             \/ ~config.mcast
             \/ ~config.cidr
             \/ config.ctl = "other" /\ (IsMasterNode(config) \/ IsWorkerNode(config))
             \/ IsMasterNode(config) # IsWorkerNode(config)

\* What a page makes of c when its form r is sent once, again and once more: a
\* ticked worker comes and goes with each submission, and on step 2 a master
\* that was added for it follows it.
Resubmitted(page, c, r) ==
  LET once == PageResult(page, c, r)
      twice == PageResult(page, once, r)
  IN IF "worker" \notin r.roles
     THEN twice = once
     ELSE /\ PageResult(page, twice, r) = once
          /\ \A f \in DOMAIN once \ NodeFields : twice[f] = once[f]
          /\ twice.master # once.master =>
               /\ page = "step2" /\ IsControllerNode(once)
               /\ r.select /\ r.roles \cap {"primary", "joining"} = {}

\* Submitting a form again (a double click, the browser's reload) changes nothing
\* but a ticked worker and the master added for it, and those come back with the
\* next submission: readNodeConfig clears the worker in the else branch of its
\* creation (setupapp.go:148-160).
ResubmittingTogglesNodes ==
  mpc = "loop" => \A r \in Requests : Resubmitted(r[1], config, r[2])

\* A start ends: with running nodes, back in setup, or with the process.
StartConcludes ==
  current = "STARTING" ~> (current \in {"RUNNING", "SETUP"} \/ crashed)

\* The request to enter the setup is not lost, whatever manageState is doing.
SetupRequestHonoured == required = "SETUP" ~> (current = "SETUP" \/ crashed)

\* Nodes are started only from a valid configuration, as the message
\* "Cannot switch to a RUNNING state: config is not ready." promises
\* (server.go:115).
RunningOnlyWhenReady == current = "RUNNING" /\ ~crashed => Ready(nodes)

\* "Web action starting the node after the configuration has been completed"
\* (setupapp.go:442): after the install page got a valid configuration, the
\* configuration is changed again or the start begins.
InstallStartsNode == asked ~> ~asked
=============================================================================
