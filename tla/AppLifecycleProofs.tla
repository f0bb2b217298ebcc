-------------------------- MODULE AppLifecycleProofs --------------------------
(***************************************************************************)
(* Proofs about AppLifecycle, for any addresses, configuration files and   *)
(* requests: the types, what a start that no page disturbs leaves behind   *)
(* when it succeeds, fails or ends the process, what any failed start      *)
(* leaves behind, and what a form does that is sent again.                 *)
(***************************************************************************)
EXTENDS AppLifecycle, TLAPS

-----------------------------------------------------------------------------
(***************************************************************************)
(* The pages.                                                              *)
(***************************************************************************)
\* A node of d that was there in c is the same one, any other has no address.
Keeps(c, d) ==
  /\ d \in Config
  /\ IsMasterNode(c) /\ IsMasterNode(d) => d.master = c.master
  /\ IsWorkerNode(c) /\ IsWorkerNode(d) => d.worker = c.worker
  /\ ~IsMasterNode(c) /\ IsMasterNode(d) => d.master.addr = NoIp
  /\ ~IsWorkerNode(c) /\ IsWorkerNode(d) => d.worker.addr = NoIp

LEMMA NewNodeType ==
  ASSUME NEW j \in BOOLEAN PROVE NewNode(j) \in NodeConfig /\ NewNode(j).addr = NoIp
  BY DEF NewNode, NodeConfig, VMNetType

\* The master is created only if there was none, and the worker as well.
LEMMA ReadMasterResult ==
  ASSUME NEW c \in Config, NEW r \in Form
  PROVE  Keeps(c, ReadMaster(c, r)) /\ ReadMaster(c, r).worker = c.worker
  <1>1. (r.roles \cap {"controller", "primary"} = {}) \in BOOLEAN
    OBVIOUS
  <1>2. /\ NewNode(r.roles \cap {"controller", "primary"} = {}) \in NodeConfig
        /\ NewNode(r.roles \cap {"controller", "primary"} = {}).addr = NoIp
    BY <1>1, NewNodeType
  <1>3. QED
    BY <1>2 DEF ReadMaster, CreatesMaster, Keeps, IsMasterNode, IsWorkerNode, Config

LEMMA ReadWorkerResult ==
  ASSUME NEW c \in Config, NEW r \in Form
  PROVE  Keeps(c, ReadWorker(c, r)) /\ ReadWorker(c, r).master = c.master
  BY NewNodeType DEF ReadWorker, CreatesWorker, Keeps, IsMasterNode, IsWorkerNode, Config

LEMMA ReadNodeConfigResult ==
  ASSUME NEW c \in Config, NEW r \in Form
  PROVE  Keeps(c, ReadNodeConfig(c, r).config)
  <1> DEFINE m == ReadMaster(c, r)
  <1>1. Keeps(c, m) /\ m.worker = c.worker /\ m \in Config
    BY ReadMasterResult DEF Keeps
  <1>2. Keeps(m, ReadWorker(m, r)) /\ ReadWorker(m, r).master = m.master
    BY <1>1, ReadWorkerResult
  <1>3. Keeps(c, ReadWorker(m, r))
    BY <1>1, <1>2 DEF Keeps, IsMasterNode, IsWorkerNode
  <1>4. Keeps(c, c)
    BY DEF Keeps
  <1>5. ReadNodeConfig(c, r).config \in {c, m, ReadWorker(m, r)}
    BY DEF ReadNodeConfig, Panic, Done
  <1>6. QED
    BY <1>1, <1>3, <1>4, <1>5

\* What readNetConfig reads.
LEMMA NetFields ==
  ASSUME NEW c \in Config, NEW r \in Form
  PROVE  LET n == ReadNet(c, r) IN
         /\ n \in Config /\ n.login = c.login /\ n.master = c.master /\ n.worker = c.worker
         /\ n.ctl = (IF c.ctl = "undefined" THEN "NAT" ELSE c.ctl)
         /\ n.token = c.token /\ n.cidr = c.cidr
         /\ n.mcast = (c.mcast \/ r.mcast)
         /\ n.mc = (c.mc \/ r.mc)
  <1> DEFINE a == c.mcast \/ r.mcast
             b == c.mc \/ r.mc
             t == IF c.ctl = "undefined" THEN "NAT" ELSE c.ctl
  <1>1. a \in BOOLEAN /\ b \in BOOLEAN
    OBVIOUS
  <1>2. t \in VMNetType \cup {"none"}
    BY DEF Config, VMNetType, Net
  <1>3. ReadNet(c, r) = [[[c EXCEPT !.mcast = a] EXCEPT !.mc = b] EXCEPT !.ctl = t]
    BY DEF ReadNet, Config
  <1> HIDE DEF a, b, t
  <1>4. LET n == ReadNet(c, r) IN
        /\ n \in Config /\ n.login = c.login /\ n.master = c.master /\ n.worker = c.worker
        /\ n.ctl = t /\ n.token = c.token /\ n.cidr = c.cidr /\ n.mcast = a /\ n.mc = b
    BY <1>1, <1>2, <1>3 DEF Config
  <1>5. QED
    BY <1>4 DEF a, b, t

LEMMA ReadConfigResult ==
  ASSUME NEW c \in Config, NEW r \in Form
  PROVE  Keeps(c, ReadConfig(c, r).config)
  <1> DEFINE k == ReadController(c, r)
             n == ReadNodeConfig(ReadNet(k, r), r)
  <1>1. k \in Config /\ k.master = c.master /\ k.worker = c.worker
    BY DEF ReadController, InitControllerConfig, Config, VMNetType, Net
  <1>2. ReadNet(k, r) \in Config /\ ReadNet(k, r).master = c.master /\ ReadNet(k, r).worker = c.worker
    BY <1>1, NetFields
  <1>3. Keeps(ReadNet(k, r), n.config)
    BY <1>2, ReadNodeConfigResult
  <1>4. Keeps(c, k) /\ Keeps(c, n.config)
    BY <1>1, <1>2, <1>3 DEF Keeps, IsMasterNode, IsWorkerNode
  <1>5. Keeps(c, [n.config EXCEPT !.login = @ /\ ~IsControllerNode(n.config)])
    <2>1. n.config \in Config
      BY <1>4 DEF Keeps
    <2>2. (n.config.login /\ ~IsControllerNode(n.config)) \in BOOLEAN
      OBVIOUS
    <2>3. QED
      BY <1>4, <2>1, <2>2 DEF Keeps, IsMasterNode, IsWorkerNode, Config
  <1>6. ReadConfig(c, r).config \in
          {k, n.config, [n.config EXCEPT !.login = @ /\ ~IsControllerNode(n.config)]}
    BY DEF ReadConfig, Panic, Done
  <1>7. QED
    BY <1>4, <1>5, <1>6

\* A page makes a configuration, what it changes of a node that is there before
\* and after is not the network type or the address, and a node it adds has none.
LEMMA PageKeepsAddresses ==
  ASSUME NEW c \in Config, NEW r \in Form, NEW page
  PROVE  /\ PageResult(page, c, r) \in Config
         /\ \A f \in NodeFields :
              c[f] # Absent /\ ReadConfig(c, r).config[f] # Absent =>
                /\ PageResult(page, c, r)[f] # Absent
                /\ PageResult(page, c, r)[f].net = c[f].net
                /\ PageResult(page, c, r)[f].addr = c[f].addr
         /\ \A f \in NodeFields :
              PageResult(page, c, r)[f] # Absent
              /\ (c[f] = Absent \/ ReadConfig(c, r).config[f] = Absent) =>
                PageResult(page, c, r)[f].addr = NoIp
  <1> DEFINE d == ReadConfig(c, r).config
  <1>1. Keeps(c, d) /\ d \in Config
    BY ReadConfigResult DEF Keeps
  <1>2. PageResult(page, c, r) \in {d, Normalise(d)}
    BY DEF PageResult
  <1>3. /\ Normalise(d) \in Config
        /\ d.master # Absent => /\ Normalise(d).master # Absent
                                /\ Normalise(d).master.net = d.master.net
                                /\ Normalise(d).master.addr = d.master.addr
        /\ d.master = Absent /\ Normalise(d).master # Absent => Normalise(d).master.addr = NoIp
        /\ Normalise(d).worker = d.worker
    <2>1. CASE IsMasterNode(d)
      <3>1. d.master \in NodeConfig
        BY <1>1, <2>1 DEF IsMasterNode, Config
      <3>2. [d.master EXCEPT !.joining = ~IsControllerNode(d)] \in NodeConfig
        BY <3>1 DEF NodeConfig
      <3>3. Normalise(d) = [d EXCEPT !.master = [d.master EXCEPT !.joining = ~IsControllerNode(d)]]
        BY <1>1, <2>1 DEF Normalise
      <3>4. [d.master EXCEPT !.joining = ~IsControllerNode(d)].net = d.master.net
            /\ [d.master EXCEPT !.joining = ~IsControllerNode(d)].addr = d.master.addr
        BY <3>1 DEF NodeConfig
      <3>5. Normalise(d) \in Config
        BY <1>1, <3>2, <3>3 DEF Config
      <3>6. /\ Normalise(d).master = [d.master EXCEPT !.joining = ~IsControllerNode(d)]
            /\ Normalise(d).worker = d.worker
        BY <1>1, <3>3 DEF Config
      <3>7. QED
        BY <2>1, <3>2, <3>4, <3>5, <3>6, ConfigAssumption DEF IsMasterNode
    <2>2. CASE ~IsMasterNode(d)
      BY <1>1, <2>2, NewNodeType DEF Normalise, IsMasterNode, Config
    <2>3. QED
      BY <2>1, <2>2
  <1>4. QED
    BY <1>1, <1>2, <1>3 DEF Keeps, IsMasterNode, IsWorkerNode, NodeFields
-----------------------------------------------------------------------------
(***************************************************************************)
(* Types, and when a process can still start.                              *)
(***************************************************************************)
\* manageState is in a start exactly while the status is STARTING, and only a
\* fresh process, whose pool is empty, starts.
StatusInv ==
  /\ TypeOK
  /\ current = "STARTING" <=> mpc # "loop"
  /\ current = "SETUP" => required = "SETUP"
  /\ mpc = "loop" /\ required = "RUNNING" /\ current # "RUNNING" =>
       current = "INITIALIZED" /\ reserved = {}
  /\ mpc \in {"registry", "controller", "startLocal", "startRemote"} => reserved = {}

LEMMA StatusInit == Init => StatusInv
  BY LifecycleAssumption DEF Init, StatusInv, TypeOK, Labels

\* Setting a field of a node that is there.
LEMMA SetMaster ==
  ASSUME NEW c \in Config, IsMasterNode(c), NEW n \in NodeConfig
  PROVE  LET d == [c EXCEPT !.master = n]
         IN  /\ d \in Config /\ d.master = n /\ d.worker = c.worker /\ IsMasterNode(d)
             /\ d.ctl = c.ctl /\ d.cidr = c.cidr /\ d.mcast = c.mcast /\ d.login = c.login
  BY ConfigAssumption DEF Config, IsMasterNode

LEMMA SetWorker ==
  ASSUME NEW c \in Config, IsWorkerNode(c), NEW n \in NodeConfig
  PROVE  LET d == [c EXCEPT !.worker = n]
         IN  /\ d \in Config /\ d.worker = n /\ d.master = c.master /\ IsWorkerNode(d)
             /\ d.ctl = c.ctl /\ d.cidr = c.cidr /\ d.mcast = c.mcast /\ d.login = c.login
  BY ConfigAssumption DEF Config, IsWorkerNode

LEMMA SetField ==
  ASSUME NEW n \in NodeConfig
  PROVE  /\ \A net \in VMNetType : LET k == [n EXCEPT !.net = net]
                            IN  k \in NodeConfig /\ k.net = net /\ k.addr = n.addr
         /\ \A ip \in Ips \cup {NoIp} : LET k == [n EXCEPT !.addr = ip]
                                       IN  k \in NodeConfig /\ k.addr = ip /\ k.net = n.net
  BY DEF NodeConfig

\* What the four steps that write into the nodes make of the configuration.
LEMMA ConfigureType ==
  ASSUME TypeOK
  PROVE  /\ ConfigureMaster => config' \in Config
         /\ ConfigureWorker => config' \in Config
         /\ ReserveMaster => config' \in Config
         /\ ReserveWorker => config' \in Config
  <1>1. config \in Config
    BY DEF TypeOK
  <1>2. ASSUME IsMasterNode(config) PROVE config.master \in NodeConfig
    BY <1>1, <1>2 DEF Config, IsMasterNode
  <1>3. ASSUME IsWorkerNode(config) PROVE config.worker \in NodeConfig
    BY <1>1, <1>3 DEF Config, IsWorkerNode
  <1>4. ASSUME IsControllerNode(config) PROVE config.ctl \in VMNetType
    BY <1>1, <1>4 DEF Config, IsControllerNode
  <1>5. ASSUME ConfigureMaster PROVE config' \in Config
    BY <1>1, <1>2, <1>4, <1>5, SetMaster, SetField DEF ConfigureMaster
  <1>6. ASSUME ConfigureWorker PROVE config' \in Config
    BY <1>1, <1>3, <1>4, <1>6, SetWorker, SetField DEF ConfigureWorker
  <1>7. ASSUME ReserveMaster PROVE config' \in Config
    BY <1>1, <1>2, <1>7, SetMaster, SetField DEF ReserveMaster
  <1>8. ASSUME ReserveWorker PROVE config' \in Config
    BY <1>1, <1>3, <1>8, SetWorker, SetField DEF ReserveWorker
  <1>9. QED
    BY <1>5, <1>6, <1>7, <1>8

\* A page leaves a copy of a configuration one.
LEMMA EditType ==
  ASSUME TypeOK, NEW page, NEW r \in Form, Edit(page, r)
  PROVE  /\ config' \in Config
         /\ nodes' \in Config \cup {NoConfig}
         /\ nodes # NoConfig => nodes' \in Config
         /\ shared' \in SUBSET shared
  <1>1. config \in Config /\ config' = PageResult(page, config, r) /\ config' \in Config
    BY PageKeepsAddresses DEF TypeOK, Edit
  <1>2. shared' \in SUBSET shared
    BY DEF Edit
  <1>3. ASSUME nodes # NoConfig PROVE nodes' \in Config
    <2>1. nodes \in Config
      BY <1>3 DEF TypeOK
    <2>2. nodes' = [f \in DOMAIN nodes |-> IF f \in shared' THEN config'[f] ELSE nodes[f]]
      BY <1>3 DEF Edit
    <2>3. QED
      BY <1>1, <2>1, <2>2 DEF Config
  <1>4. QED
    BY <1>1, <1>2, <1>3 DEF Edit, TypeOK

LEMMA StatusNext == StatusInv /\ [Next]_vars => StatusInv'
  <1> SUFFICES ASSUME StatusInv, [Next]_vars PROVE StatusInv'
    OBVIOUS
  <1> USE DEF StatusInv, TypeOK, Labels, At, Goto, Crash, status, deploy, history
  <1>1. CASE SwitchToSetup \/ SwitchToRunning
    BY <1>1 DEF SwitchToSetup, SwitchToRunning
  <1>2. CASE StartRegistry \/ ChooseController
    BY <1>2 DEF StartRegistry, ChooseController
  <1>3. CASE StartLocal \/ StartRemote
    BY <1>3 DEF StartLocal, StartRemote, ResetToSetupStatus, IsControllerNode, Config
  <1>4. CASE CheckMaster \/ CheckWorker
    BY <1>4 DEF CheckMaster, CheckWorker
  <1>5. CASE ConfigureMaster
    BY <1>5, ConfigureType DEF ConfigureMaster
  <1>6. CASE ConfigureWorker
    BY <1>6, ConfigureType DEF ConfigureWorker
  <1>7. CASE ReserveMaster
    BY <1>7, ConfigureType DEF ReserveMaster
  <1>8. CASE ReserveWorker
    BY <1>8, ConfigureType DEF ReserveWorker
  <1>9. CASE ConfigureNodes \/ Generate
    BY <1>9 DEF ConfigureNodes, Generate, ResetToSetupStatus, ReleaseIps, NodeFields
  <1>10. CASE StartNodes \/ EnterSetup
    BY <1>10 DEF StartNodes, EnterSetup
  <1>11. CASE WizardPage
    <2>1. PICK r \in Requests : Edit(r[1], r[2])
      BY <1>11 DEF WizardPage
    <2>2. config' \in Config /\ nodes' \in Config \cup {NoConfig} /\ shared' \in SUBSET shared
      BY <2>1, EditType, LifecycleAssumption
    <2>3. (asked /\ config' = config) \in BOOLEAN /\ (disturbed \/ Disturbs) \in BOOLEAN
      OBVIOUS
    <2>4. QED
      BY <1>11, <2>2, <2>3 DEF WizardPage
  <1>12. CASE Install
    <2>1. PICK r \in Requests : Edit("install", r[2])
      BY <1>12 DEF Install, ValidateConfig
    <2>2. config' \in Config /\ nodes' \in Config \cup {NoConfig} /\ shared' \in SUBSET shared
      BY <2>1, EditType, LifecycleAssumption
    <2>3. UNCHANGED <<disk, vagrant, required>>
      BY <1>12 DEF Install, ValidateConfig
    <2>4. (current = "SETUP" /\ Ready(config')) \in BOOLEAN /\ (disturbed \/ Disturbs) \in BOOLEAN
      BY DEF Ready
    <2>5. QED
      BY <1>12, <2>2, <2>3, <2>4 DEF Install
  <1>13. CASE Restart
    BY <1>13, LifecycleAssumption DEF Restart, Booted
  <1>14. CASE UNCHANGED vars
    BY <1>14 DEF vars
  <1>15. QED
    BY <1>1, <1>2, <1>3, <1>4, <1>5, <1>6, <1>7, <1>8, <1>9, <1>10, <1>11, <1>12, <1>13, <1>14
       DEF Next, Manage

\* The variables have their types.
THEOREM TypeCorrect == Spec => []TypeOK
  <1>1. StatusInv => TypeOK
    BY DEF StatusInv
  <1>2. QED
    BY <1>1, StatusInit, StatusNext, PTL DEF Spec

-----------------------------------------------------------------------------
(***************************************************************************)
(* A start that no page disturbs.                                          *)
(***************************************************************************)
\* The addresses in the pool are those of the nodes of c, whose network type is
\* the cluster's, and two nodes do not share one.
MasterIps(c) == {IF IsMasterNode(c) THEN c.master.addr ELSE NoIp} \ {NoIp}
MasterConfigured(c) == IsMasterNode(c) => c.master.net = cluster
Provisioned(c) ==
  /\ NodeIps(c) = reserved
  /\ MasterConfigured(c)
  /\ IsWorkerNode(c) => c.worker.net = cluster
  /\ IsMasterNode(c) /\ IsWorkerNode(c) /\ c.master.addr # NoIp =>
       c.master.addr # c.worker.addr

\* What each step of an undisturbed start has made sure of.
Checked ==
  /\ mpc # "registry" => config.mcast
  /\ IsControllerNode(config) \/ config.login
  /\ config.ctl # "undefined"
  /\ mpc = "startLocal" => IsControllerNode(config)
  /\ mpc = "startRemote" => config.login
Within ==
  /\ mpc \notin {"registry", "controller", "startLocal", "startRemote"} =>
       IsControllerNode(config) /\ cluster = config.ctl
  /\ mpc \in {"configureMaster", "reserveMaster"} => IsMasterNode(config)
  /\ mpc \in {"configureWorker", "reserveWorker"} => IsWorkerNode(config)
  /\ mpc \in {"master", "configureMaster", "reserveMaster"} => reserved = {}
  /\ mpc = "reserveMaster" => config.master.net = cluster
  /\ mpc \in {"worker", "configureWorker", "reserveWorker"} =>
       reserved = MasterIps(config) /\ MasterConfigured(config)
  /\ mpc = "reserveWorker" => config.worker.net = cluster
Deployed ==
  /\ mpc \in {"configureNodes", "generate", "startNodes"} => Provisioned(config)
  /\ mpc \in {"generate", "startNodes"} => nodes = config /\ \A f \in shared : config[f] # Absent
  /\ mpc = "generate" => IsMasterNode(config) /\ IsWorkerNode(config)
  /\ mpc = "startNodes" => (IsWorkerNode(config) => vagrant = "good")

\* What runs, and the objects the copy of the configuration shares with it.
Running ==
  /\ nodes # NoConfig
  /\ Provisioned(nodes)
  /\ IsWorkerNode(nodes) => vagrant = "good"
  /\ \A f \in shared : nodes[f] # Absent /\ nodes[f] = config[f]

StartInv ==
  /\ StatusInv
  /\ mpc # "loop" /\ ~disturbed => Checked /\ Within /\ Deployed
  /\ current = "RUNNING" /\ ~crashed /\ ~disturbed => Running
  /\ CrashesAreKnown

LEMMA StartInit == Init => StartInv
  BY StatusInit DEF Init, StartInv, CrashesAreKnown

\* A page that changes the configuration during a start disturbs it, one that
\* leaves it alone does not touch the copy; later the copy keeps its addresses.
LEMMA EditStart ==
  ASSUME StartInv, NEW page, NEW r \in Form, Edit(page, r), ~crashed,
         disturbed' = (disturbed \/ Disturbs),
         UNCHANGED <<current, mpc, cluster, reserved, vagrant, crashed>>, StatusInv'
  PROVE  StartInv'
  <1>1. config \in Config /\ TypeOK /\ config' = PageResult(page, config, r)
    BY DEF StartInv, StatusInv, TypeOK, Edit
  <1>2. ASSUME mpc # "loop", ~disturbed'
        PROVE  Checked' /\ Within' /\ Deployed'
    <2>1. ~disturbed /\ config' = config
      BY <1>2 DEF Disturbs
    <2>2. Checked /\ Within /\ Deployed
      BY <1>2, <2>1 DEF StartInv
    <2>3. Checked' /\ Within'
      BY <2>1, <2>2 DEF Checked, Within, MasterIps, MasterConfigured
    <2>4. ASSUME mpc \in {"generate", "startNodes"} PROVE nodes' = config /\ shared' \in SUBSET shared
      <3>1. nodes = config /\ nodes # NoConfig
        BY <1>1, <2>2, <2>4, ConfigAssumption DEF Deployed, NoConfig
      <3>2. nodes' = [f \in DOMAIN config |-> config[f]]
        BY <2>1, <3>1 DEF Edit
      <3>3. QED
        BY <1>1, <3>2 DEF Edit, Config
    <2>5. Deployed'
      BY <2>1, <2>2, <2>4 DEF Deployed, Provisioned, MasterConfigured
    <2>6. QED
      BY <2>3, <2>5
  <1>3. ASSUME current = "RUNNING", ~disturbed' PROVE Running'
    <2>1. Running /\ nodes \in Config /\ shared \in SUBSET NodeFields
      BY <1>1, <1>3 DEF StartInv, Running, TypeOK
    <2>2. /\ shared' = {f \in shared : ReadConfig(config, r).config[f] # Absent}
          /\ nodes' = [f \in DOMAIN nodes |-> IF f \in shared' THEN config'[f] ELSE nodes[f]]
      BY <2>1 DEF Edit, Running
    <2>3. ASSUME NEW f \in shared'
          PROVE  /\ nodes[f] # Absent /\ config'[f] # Absent
                 /\ config'[f].net = nodes[f].net /\ config'[f].addr = nodes[f].addr
      BY <1>1, <2>1, <2>2, PageKeepsAddresses DEF Running
    <2>4. \A f \in NodeFields : nodes'[f] = IF f \in shared' THEN config'[f] ELSE nodes[f]
      BY <2>1, <2>2 DEF Config, NodeFields
    <2>5. \A f \in NodeFields :
            /\ nodes'[f] = Absent <=> nodes[f] = Absent
            /\ nodes'[f] # Absent => nodes'[f].net = nodes[f].net /\ nodes'[f].addr = nodes[f].addr
      BY <2>3, <2>4
    <2>6. /\ IsMasterNode(nodes)' = IsMasterNode(nodes)
          /\ IsWorkerNode(nodes)' = IsWorkerNode(nodes)
          /\ IsMasterNode(nodes) => /\ nodes'.master.net = nodes.master.net
                                    /\ nodes'.master.addr = nodes.master.addr
          /\ IsWorkerNode(nodes) => /\ nodes'.worker.net = nodes.worker.net
                                    /\ nodes'.worker.addr = nodes.worker.addr
      BY <2>5 DEF NodeFields, IsMasterNode, IsWorkerNode
    <2>7. Provisioned(nodes)' /\ (IsWorkerNode(nodes)' => vagrant' = "good")
      BY <2>1, <2>6 DEF Running, Provisioned, MasterConfigured, NodeIps
    <2>8. nodes' # NoConfig
      BY <1>1, <2>1, EditType, ConfigAssumption DEF Running, NoConfig
    <2>9. \A f \in shared' : nodes'[f] # Absent /\ nodes'[f] = config'[f]
      BY <2>1, <2>2, <2>3, <2>4
    <2>10. QED
      BY <2>7, <2>8, <2>9 DEF Running
  <1>4. CrashesAreKnown'
    BY DEF CrashesAreKnown
  <1>5. QED
    BY <1>2, <1>3, <1>4 DEF StartInv

LEMMA StartNext == StartInv /\ [Next]_vars => StartInv'
  <1> SUFFICES ASSUME StartInv, [Next]_vars PROVE StartInv'
    OBVIOUS
  <1>1. StatusInv' /\ TypeOK /\ config \in Config /\ StatusInv
    BY StatusNext DEF StartInv, StatusInv, TypeOK
  <1>2. CASE WizardPage
    BY <1>1, <1>2, EditStart, LifecycleAssumption DEF WizardPage, status
  <1>3. CASE Install
    BY <1>1, <1>3, EditStart, LifecycleAssumption DEF Install, ValidateConfig
  <1>4. CASE Restart
    BY <1>1, <1>4 DEF Restart, Booted, StartInv, CrashesAreKnown
  <1>5. CASE UNCHANGED vars
    BY <1>5, <1>1 DEF vars, StartInv, Checked, Within, Deployed, Running, CrashesAreKnown,
         MasterIps, MasterConfigured, Provisioned
  <1>6. CASE SwitchToSetup \/ EnterSetup
    BY <1>6, <1>1 DEF SwitchToSetup, EnterSetup, At, deploy, history, StartInv, StatusInv, Checked, Within,
         Deployed, Running, CrashesAreKnown, MasterIps, MasterConfigured, Provisioned
  <1> DEFINE Invs == Checked' /\ Within' /\ Deployed'
  <1>7. ASSUME Manage, ~SwitchToSetup, ~SwitchToRunning PROVE
          /\ ~crashed /\ mpc # "loop" /\ UNCHANGED disturbed
          /\ ~disturbed => Checked /\ Within /\ Deployed
    BY <1>7 DEF StartInv, Manage, At, history, StartRegistry, ChooseController, StartLocal, StartRemote,
         CheckMaster, ConfigureMaster, ReserveMaster, CheckWorker, ConfigureWorker, ReserveWorker,
         ConfigureNodes, Generate, StartNodes
  <1>8. CASE SwitchToRunning
    BY <1>8, <1>1 DEF SwitchToRunning, At, Goto, deploy, history, StartInv, StatusInv, Checked, Within,
         Deployed, Running, CrashesAreKnown, Ready, IsControllerNode, MasterConfigured, Provisioned
  \* The other steps of manageState, when the start is not disturbed.
  <1>9. ASSUME Manage, ~SwitchToSetup, ~SwitchToRunning, ~disturbed
        PROVE  /\ mpc' # "loop" => Invs
               /\ current' = "RUNNING" /\ ~crashed' => Running'
               /\ CrashesAreKnown'
    <2>1. /\ Checked /\ Within /\ Deployed /\ ~crashed /\ mpc # "loop" /\ ~disturbed'
          /\ current = "STARTING"
      BY <1>1, <1>7, <1>9 DEF StatusInv
    <2> USE <1>1, <2>1 DEF At, Goto, Crash, status, deploy, history, ResetToSetupStatus
    <2>2. CASE StartRegistry \/ ChooseController
      BY <2>2 DEF StartRegistry, ChooseController, Checked, Within, Deployed, CrashesAreKnown
    <2>3. CASE StartLocal \/ StartRemote
      BY <2>3 DEF StartLocal, StartRemote, Checked, Within, Deployed, CrashesAreKnown, StatusInv, TypeOK
    <2>4. CASE CheckMaster \/ CheckWorker
      BY <2>4 DEF CheckMaster, CheckWorker, Checked, Within, Deployed, CrashesAreKnown, MasterIps,
           MasterConfigured, Provisioned, NodeIps
    <2>5. CASE ConfigureMaster
      <3>1. config.master \in NodeConfig /\ config.ctl \in VMNetType /\ cluster = config.ctl
        BY <2>5 DEF Within, Config, IsMasterNode, IsControllerNode, ConfigureMaster
      <3>2. /\ config' = [config EXCEPT !.master = [config.master EXCEPT !.net = config.ctl]]
            /\ \/ mpc' = "reserveMaster" /\ ~crashed'
               \/ mpc' = mpc /\ config.ctl = "other"
            /\ UNCHANGED <<current, cluster, reserved>>
        BY <2>5, <3>1 DEF ConfigureMaster, Within, Checked, VMNetType
      <3>3. /\ IsMasterNode(config') /\ config'.master.net = config.ctl
            /\ config'.ctl = config.ctl /\ config'.cidr = config.cidr /\ config'.mcast = config.mcast /\ config'.login = config.login
        <4> DEFINE n == [config.master EXCEPT !.net = config.ctl]
        <4>1. n \in NodeConfig /\ n.net = config.ctl /\ n.addr = config.master.addr
          BY <3>1, SetField
        <4>2. IsMasterNode(config) /\ config' = [config EXCEPT !.master = n]
          BY <2>5, <3>2 DEF Within, ConfigureMaster
        <4> HIDE DEF n
        <4>3. QED
          BY <4>1, <4>2, <3>1, <3>2, SetMaster
      <3>4. QED
        BY <2>5, <3>1, <3>2, <3>3 DEF Checked, Within, Deployed, CrashesAreKnown, IsControllerNode,
             IsMasterNode, ConfigureMaster
    <2>6. CASE ConfigureWorker
      <3>1. config.worker \in NodeConfig /\ config.ctl \in VMNetType /\ cluster = config.ctl
        BY <2>6 DEF Within, Config, IsWorkerNode, IsControllerNode, ConfigureWorker
      <3>2. /\ config' = [config EXCEPT !.worker = [config.worker EXCEPT !.net = config.ctl]]
            /\ \/ mpc' = "reserveWorker" /\ ~crashed'
               \/ mpc' = mpc /\ config.ctl = "other"
            /\ UNCHANGED <<current, cluster, reserved>>
        BY <2>6, <3>1 DEF ConfigureWorker, Within, Checked, VMNetType
      <3>3. /\ IsWorkerNode(config') /\ config'.worker.net = config.ctl /\ config'.master = config.master
            /\ config'.ctl = config.ctl /\ config'.cidr = config.cidr /\ config'.mcast = config.mcast /\ config'.login = config.login
        <4> DEFINE n == [config.worker EXCEPT !.net = config.ctl]
        <4>1. n \in NodeConfig /\ n.net = config.ctl /\ n.addr = config.worker.addr
          BY <3>1, SetField
        <4>2. IsWorkerNode(config) /\ config' = [config EXCEPT !.worker = n]
          BY <2>6, <3>2 DEF Within, ConfigureWorker
        <4> HIDE DEF n
        <4>3. QED
          BY <4>1, <4>2, <3>1, <3>2, SetWorker
      <3>4. QED
        BY <2>6, <3>1, <3>2, <3>3 DEF Checked, Within, Deployed, CrashesAreKnown, IsControllerNode,
             IsMasterNode, IsWorkerNode, MasterIps, MasterConfigured, ConfigureWorker
    <2>7. CASE ReserveMaster
      <3>1. PICK ip \in Ips \cup {NoIp} :
              /\ reserved' = reserved \cup ({ip} \ {NoIp})
              /\ config' = [config EXCEPT !.master = [config.master EXCEPT !.addr = ip]]
              /\ mpc' = "worker" /\ ~crashed' /\ UNCHANGED <<current, cluster>>
        BY <2>7 DEF ReserveMaster, Within
      <3>2. config.master \in NodeConfig /\ reserved = {} /\ config.master.net = cluster
        BY <2>7 DEF Within, Config, IsMasterNode, ReserveMaster
      <3>3. /\ IsMasterNode(config') /\ config'.master.net = cluster /\ config'.master.addr = ip
            /\ config'.ctl = config.ctl /\ config'.cidr = config.cidr /\ config'.mcast = config.mcast /\ config'.login = config.login
        <4> DEFINE n == [config.master EXCEPT !.addr = ip]
        <4>1. n \in NodeConfig /\ n.addr = ip /\ n.net = config.master.net
          BY <3>2, SetField
        <4>2. IsMasterNode(config) /\ config' = [config EXCEPT !.master = n]
          BY <2>7, <3>1 DEF Within, ReserveMaster
        <4> HIDE DEF n
        <4>3. QED
          BY <4>1, <4>2, <3>1, <3>2, SetMaster
      <3>4. QED
        BY <2>7, <3>1, <3>2, <3>3 DEF Checked, Within, Deployed, CrashesAreKnown, IsControllerNode,
             IsMasterNode, MasterIps, MasterConfigured, ReserveMaster
    <2>8. CASE ReserveWorker
      <3>1. PICK ip \in Ips \cup {NoIp} :
              /\ Reserved(ip)
              /\ reserved' = reserved \cup ({ip} \ {NoIp})
              /\ config' = [config EXCEPT !.worker = [config.worker EXCEPT !.addr = ip]]
              /\ mpc' = "configureNodes" /\ ~crashed' /\ UNCHANGED <<current, cluster>>
        BY <2>8 DEF ReserveWorker, Within
      <3>2. /\ config.worker \in NodeConfig /\ config.worker.net = cluster
            /\ reserved = MasterIps(config) /\ MasterConfigured(config)
        BY <2>8 DEF Within, Config, IsWorkerNode, ReserveWorker
      <3>3. /\ IsWorkerNode(config') /\ config'.worker.net = cluster /\ config'.worker.addr = ip
            /\ config'.ctl = config.ctl /\ config'.cidr = config.cidr /\ config'.mcast = config.mcast /\ config'.login = config.login
            /\ config'.master = config.master
        <4> DEFINE n == [config.worker EXCEPT !.addr = ip]
        <4>1. n \in NodeConfig /\ n.addr = ip /\ n.net = config.worker.net
          BY <3>2, SetField
        <4>2. IsWorkerNode(config) /\ config' = [config EXCEPT !.worker = n]
          BY <2>8, <3>1 DEF Within, ReserveWorker
        <4> HIDE DEF n
        <4>3. QED
          BY <4>1, <4>2, <3>1, <3>2, SetWorker
      <3>4. Provisioned(config)'
        BY <3>1, <3>2, <3>3 DEF Provisioned, NodeIps, MasterIps, MasterConfigured, Reserved,
             IsMasterNode, IsWorkerNode
      <3>5. QED
        BY <2>8, <3>1, <3>3, <3>4 DEF Checked, Within, Deployed, CrashesAreKnown, IsControllerNode, ReserveWorker
    <2>9. CASE ConfigureNodes
      <3>1. current' # "RUNNING"
        BY <2>9 DEF ConfigureNodes, StatusInv, TypeOK
      <3>2. mpc' # "loop" => Invs
        BY <2>9 DEF ConfigureNodes, Checked, Within, Deployed, MasterConfigured, Provisioned
      <3>3. CrashesAreKnown'
        BY <2>9 DEF ConfigureNodes, CrashesAreKnown
      <3>4. QED
        BY <3>1, <3>2, <3>3
    <2>10. CASE Generate
      BY <2>10 DEF Generate, Checked, Within, Deployed, CrashesAreKnown, MasterConfigured, Provisioned,
           StatusInv, TypeOK
    <2>11. CASE StartNodes
      BY <2>11, ConfigAssumption DEF StartNodes, Within, Deployed, Running, CrashesAreKnown, MasterConfigured,
           Provisioned, NoConfig
    <2>12. QED
      BY <1>9, <2>2, <2>3, <2>4, <2>5, <2>6, <2>7, <2>8, <2>9, <2>10, <2>11 DEF Manage
  <1>10. CASE Manage /\ ~SwitchToSetup /\ ~SwitchToRunning
    <2>1. CASE disturbed
      BY <1>1, <1>7, <1>10, <2>1 DEF StartInv, CrashesAreKnown
    <2>2. QED
      BY <1>1, <1>7, <1>9, <1>10, <2>1 DEF StartInv
  <1>11. QED
    BY <1>2, <1>3, <1>4, <1>5, <1>6, <1>8, <1>10 DEF Next

\* What runs is provisioned (see AppLifecycle) unless a page disturbed the
\* start, for any configuration file and any requests.
THEOREM RunningIsProvisioned == Spec => []RunningNodesAreProvisioned
  <1>1. StartInv => RunningNodesAreProvisioned
    BY DEF StartInv, Running, Provisioned, MasterConfigured, RunningNodesAreProvisioned
  <1>2. QED
    BY <1>1, StartInit, StartNext, PTL DEF Spec

\* An undisturbed start ends the process only for the reasons listed.
THEOREM CrashesHaveCause == Spec => []CrashesAreKnown
  <1>1. StartInv => CrashesAreKnown
    BY DEF StartInv
  <1>2. QED
    BY <1>1, StartInit, StartNext, PTL DEF Spec

\* An undisturbed start that fails leaves the pool empty: the steps before the
\* reservations do not touch it, the ones after them release the addresses of
\* the nodes, and those are all there are.
THEOREM FailureReleases == Spec => FailedStartKeepsNoAddress
  <1>1. StartInv /\ [Next]_vars =>
          (mpc # "loop" /\ mpc' = "loop" /\ current' # "RUNNING" /\ ~crashed /\ ~disturbed
             => reserved' = {})
    <2> SUFFICES ASSUME StartInv, [Next]_vars, mpc # "loop", mpc' = "loop", current' # "RUNNING",
                        ~crashed, ~disturbed
                 PROVE  reserved' = {}
      OBVIOUS
    <2>1. Within /\ Deployed
      BY DEF StartInv
    <2>2. StartRemote \/ ConfigureNodes \/ Generate
      BY DEF Next, Manage, At, Goto, Crash, status, vars, SwitchToSetup, SwitchToRunning, StartRegistry,
           ChooseController, StartLocal, CheckMaster, ConfigureMaster, ReserveMaster, CheckWorker,
           ConfigureWorker, ReserveWorker, StartNodes, EnterSetup, WizardPage, Install, Restart
    <2>3. CASE StartRemote
      BY <2>3 DEF StartRemote, At, deploy, StartInv, StatusInv
    <2>4. CASE ConfigureNodes \/ Generate
      BY <2>1, <2>4 DEF ConfigureNodes, Generate, At, Goto, Crash, Deployed, Provisioned, ReleaseIps,
         NodeIps, MasterConfigured, WorkerUnreleased
    <2>5. QED
      BY <2>2, <2>3, <2>4
  <1>2. QED
    BY <1>1, StartInit, StartNext, PTL DEF Spec, FailedStartKeepsNoAddress

\* While the Vagrantfile is generated, every node that is still configured and
\* has an address is one of the node manager's copy, whatever the pages did.
CopyInv ==
  /\ StatusInv
  /\ mpc = "generate" =>
       /\ nodes # NoConfig
       /\ \A f \in shared : nodes[f] # Absent /\ nodes[f] = config[f]
       /\ \A f \in NodeFields : config[f] # Absent /\ config[f].addr # NoIp => f \in shared

LEMMA EditCopy ==
  ASSUME CopyInv, NEW page, NEW r \in Form, Edit(page, r), StatusInv', mpc' = mpc
  PROVE  CopyInv'
  <1> SUFFICES ASSUME mpc = "generate"
               PROVE  /\ nodes' # NoConfig
                      /\ \A f \in shared' : nodes'[f] # Absent /\ nodes'[f] = config'[f]
                      /\ \A f \in NodeFields :
                           config'[f] # Absent /\ config'[f].addr # NoIp => f \in shared'
    BY DEF CopyInv
  <1>1. /\ config \in Config /\ nodes \in Config /\ shared \in SUBSET NodeFields /\ TypeOK
        /\ nodes # NoConfig
    BY DEF CopyInv, StatusInv, TypeOK
  <1>2. /\ config' = PageResult(page, config, r)
        /\ shared' = {f \in shared : ReadConfig(config, r).config[f] # Absent}
        /\ nodes' = [f \in DOMAIN nodes |-> IF f \in shared' THEN config'[f] ELSE nodes[f]]
    BY <1>1 DEF Edit
  <1>3. nodes' # NoConfig
    BY <1>1, EditType, ConfigAssumption DEF NoConfig
  <1>4. ASSUME NEW f \in shared' PROVE nodes'[f] # Absent /\ nodes'[f] = config'[f]
    <2>1. nodes[f] # Absent /\ nodes[f] = config[f] /\ f \in NodeFields
      BY <1>1, <1>2, <1>4 DEF CopyInv
    <2>2. config'[f] # Absent
      BY <1>1, <1>2, <1>4, <2>1, PageKeepsAddresses
    <2>3. f \in DOMAIN nodes
      BY <1>1, <2>1 DEF Config, NodeFields
    <2>4. QED
      BY <1>2, <1>4, <2>2, <2>3
  <1>5. ASSUME NEW f \in NodeFields, config'[f] # Absent, config'[f].addr # NoIp PROVE f \in shared'
    <2>1. config[f] # Absent /\ ReadConfig(config, r).config[f] # Absent
      BY <1>1, <1>2, <1>5, PageKeepsAddresses
    <2>2. config[f].addr # NoIp
      BY <1>1, <1>2, <1>5, <2>1, PageKeepsAddresses
    <2>3. QED
      BY <1>2, <2>1, <2>2 DEF CopyInv
  <1>6. QED
    BY <1>3, <1>4, <1>5

LEMMA CopyNext == CopyInv /\ [Next]_vars => CopyInv'
  <1> SUFFICES ASSUME CopyInv, [Next]_vars PROVE CopyInv'
    OBVIOUS
  <1>1. StatusInv' /\ config \in Config /\ TypeOK
    BY StatusNext DEF CopyInv, StatusInv, TypeOK
  <1>2. CASE WizardPage
    BY <1>1, <1>2, EditCopy, LifecycleAssumption DEF WizardPage
  <1>3. CASE Install
    BY <1>1, <1>3, EditCopy, LifecycleAssumption DEF Install, ValidateConfig
  <1>4. CASE ConfigureNodes
    BY <1>1, <1>4, ConfigAssumption DEF CopyInv, ConfigureNodes, Goto, Crash, ResetToSetupStatus, NodeFields,
       NoConfig, At
  <1>5. CASE Next /\ ~WizardPage /\ ~Install /\ ~ConfigureNodes
    <2>1. mpc' = "generate" => /\ mpc = "generate" /\ UNCHANGED <<config, nodes, shared>>
      BY <1>5 DEF Next, Manage, At, Goto, Crash, status, deploy, SwitchToSetup, SwitchToRunning, StartRegistry,
           ChooseController, StartLocal, StartRemote, CheckMaster, ConfigureMaster, ReserveMaster, CheckWorker,
           ConfigureWorker, ReserveWorker, Generate, StartNodes, EnterSetup, Restart, Booted, ResetToSetupStatus
    <2>2. QED
      BY <1>1, <2>1 DEF CopyInv
  <1>6. CASE UNCHANGED vars
    BY <1>1, <1>6 DEF vars, CopyInv
  <1>7. QED
    BY <1>2, <1>3, <1>4, <1>5, <1>6

\* A failed start leaves no configured node's address reserved but for one case
\* (see AppLifecycle), whatever the pages did meanwhile.
THEOREM FailureFreesNodes == Spec => FailedStartFreesItsNodes
  <1>1. Init => CopyInv
    BY StatusInit DEF CopyInv, Init
  <1>2. CopyInv /\ [Next]_vars =>
          (mpc # "loop" /\ mpc' = "loop" /\ current' # "RUNNING" /\ ~crashed
             => \A ip \in reserved' \cap NodeIps(config') :
                  WorkerUnreleased(nodes') /\ ip = nodes'.worker.addr)
    <2> SUFFICES ASSUME CopyInv, [Next]_vars, mpc # "loop", mpc' = "loop", current' # "RUNNING",
                        ~crashed, NEW ip \in reserved' \cap NodeIps(config')
                 PROVE  WorkerUnreleased(nodes') /\ ip = nodes'.worker.addr
      OBVIOUS
    <2>1. StartRemote \/ ConfigureNodes \/ Generate
      BY DEF Next, Manage, At, Goto, Crash, status, vars, SwitchToSetup, SwitchToRunning, StartRegistry,
           ChooseController, StartLocal, CheckMaster, ConfigureMaster, ReserveMaster, CheckWorker,
           ConfigureWorker, ReserveWorker, StartNodes, EnterSetup, WizardPage, Install, Restart
    <2>2. CASE StartRemote
      BY <2>2 DEF StartRemote, At, deploy, CopyInv, StatusInv
    <2>3. CASE ConfigureNodes
      <3>1. reserved' = reserved \
              (({IF IsMasterNode(config) THEN config.master.addr ELSE NoIp} \cup
                {IF IsWorkerNode(config) /\ ~WorkerUnreleased(config) THEN config.worker.addr ELSE NoIp}) \ {NoIp})
        BY <2>3 DEF ConfigureNodes, At, Goto, Crash, ReleaseIps
      <3>2. config' = config /\ nodes' = config
        BY <2>3 DEF ConfigureNodes
      <3>3. QED
        BY <3>1, <3>2 DEF NodeIps
    <2>4. CASE Generate
      <3>1. mpc = "generate" /\ UNCHANGED <<config, nodes>> /\ ReleaseIps(nodes)
        BY <2>4 DEF Generate, At, Goto
      <3>2. PICK f \in NodeFields : config[f] # Absent /\ config[f].addr = ip /\ ip # NoIp
        BY <3>1 DEF NodeIps, NodeFields, IsMasterNode, IsWorkerNode
      <3>3. nodes[f] # Absent /\ nodes[f].addr = ip
        BY <3>1, <3>2 DEF CopyInv
      <3>4. ip \notin (({IF IsMasterNode(nodes) THEN nodes.master.addr ELSE NoIp} \cup
                {IF IsWorkerNode(nodes) /\ ~WorkerUnreleased(nodes) THEN nodes.worker.addr ELSE NoIp}) \ {NoIp})
        BY <3>1 DEF ReleaseIps
      <3>5. QED
        BY <3>1, <3>2, <3>3, <3>4 DEF NodeFields, IsMasterNode, IsWorkerNode
    <2>5. QED
      BY <2>1, <2>2, <2>3, <2>4
  <1>3. QED
    BY <1>1, <1>2, CopyNext, PTL DEF Spec, FailedStartFreesItsNodes
-----------------------------------------------------------------------------
(***************************************************************************)
(* A form that is sent again.                                              *)
(***************************************************************************)
\* A configuration is its fields.
LEMMA SameFields ==
  ASSUME NEW c \in Config, NEW d \in Config,
         c.ctl = d.ctl, c.token = d.token, c.cidr = d.cidr, c.login = d.login, c.master = d.master,
         c.worker = d.worker, c.mcast = d.mcast, c.mc = d.mc
  PROVE  c = d
  BY DEF Config

\* What the form says about the controller and the network is in c already.
Settled(c, r) ==
  /\ "controller" \in r.roles => c.ctl # "none"
  /\ "controller" \notin r.roles /\ r.select => c.ctl = "none" /\ c.token = FALSE /\ c.cidr = TRUE
  /\ r.mcast => c.mcast
  /\ r.mc => c.mc
  /\ c.ctl # "undefined"

LEMMA RereadController ==
  ASSUME NEW c \in Config, NEW r \in Form
  PROVE  LET k == ReadController(c, r) IN
         /\ k \in Config /\ k.login = c.login /\ k.master = c.master /\ k.worker = c.worker
         /\ ReadController(k, r) = k
         /\ "controller" \in r.roles => k.ctl # "none"
         /\ "controller" \notin r.roles /\ r.select => k.ctl = "none" /\ k.token = FALSE /\ k.cidr = TRUE
         /\ Settled(c, r) => k = c
  <1> DEFINE k == ReadController(c, r)
  <1>1. /\ k \in Config /\ k.login = c.login /\ k.master = c.master /\ k.worker = c.worker
        /\ "controller" \in r.roles => k.ctl # "none"
        /\ "controller" \notin r.roles /\ r.select => k.ctl = "none" /\ k.token = FALSE /\ k.cidr = TRUE
    BY DEF ReadController, InitControllerConfig, IsControllerNode, Config, VMNetType, Net
  <1>2. \A d \in Config :
          /\ "controller" \in r.roles => d.ctl # "none"
          /\ "controller" \notin r.roles /\ r.select => d.ctl = "none" /\ d.token = FALSE /\ d.cidr = TRUE
          => ReadController(d, r) = d
    BY DEF ReadController, InitControllerConfig, IsControllerNode, Config
  <1>3. QED
    BY <1>1, <1>2 DEF Settled

LEMMA RereadNet ==
  ASSUME NEW c \in Config, NEW r \in Form
  PROVE  LET n == ReadNet(c, r) IN
         /\ n \in Config /\ n.login = c.login /\ n.master = c.master /\ n.worker = c.worker
         /\ n.ctl = (IF c.ctl = "undefined" THEN "NAT" ELSE c.ctl)
         /\ n.token = c.token /\ n.cidr = c.cidr
         /\ r.mcast => n.mcast
         /\ r.mc => n.mc
         /\ Settled(c, r) => n = c
  <1>1. LET n == ReadNet(c, r) IN
         /\ n \in Config /\ n.login = c.login /\ n.master = c.master /\ n.worker = c.worker
         /\ n.ctl = (IF c.ctl = "undefined" THEN "NAT" ELSE c.ctl)
         /\ n.token = c.token /\ n.cidr = c.cidr
         /\ r.mcast => n.mcast
         /\ r.mc => n.mc
    BY NetFields
  <1>2. ASSUME Settled(c, r) PROVE ReadNet(c, r) = c
    <2>1. c.mcast \in BOOLEAN /\ c.mc \in BOOLEAN /\ r.mcast \in BOOLEAN /\ r.mc \in BOOLEAN
      BY DEF Config, Form
    <2>2. (c.mcast \/ r.mcast) = c.mcast /\ (c.mc \/ r.mc) = c.mc
      BY <1>2, <2>1 DEF Settled
    <2>3. [[[c EXCEPT !.mcast = c.mcast] EXCEPT !.mc = c.mc] EXCEPT !.ctl = c.ctl] = c
      BY DEF Config
    <2>4. c.ctl # "undefined"
      BY <1>2 DEF Settled
    <2>5. ReadNet(c, r) = [[[c EXCEPT !.mcast = c.mcast \/ r.mcast] EXCEPT !.mc = c.mc \/ r.mc]
                             EXCEPT !.ctl = c.ctl]
      BY <2>4 DEF ReadNet, Config
    <2>6. QED
      BY <2>2, <2>3, <2>5
  <1>3. QED
    BY <1>1, <1>2

\* What readNodeConfig makes of a master and of a worker, and step 2 of the
\* master that is left.
Selected(m, r) ==
  IF r.select /\ r.roles \cap {"primary", "joining"} = {} THEN Absent
  ELSE IF m = Absent /\ r.roles \cap {"controller", "primary", "joining"} # {}
  THEN NewNode(r.roles \cap {"controller", "primary"} = {})
  ELSE m

Toggled(w, r) ==
  IF w = Absent /\ "worker" \in r.roles THEN NewNode(TRUE) ELSE IF r.select THEN Absent ELSE w

Corrected(page, m, w, ctl) ==
  IF page # "step2" THEN m
  ELSE IF m # Absent THEN [m EXCEPT !.joining = (ctl = "none")]
  ELSE IF w # Absent /\ ctl # "none" THEN NewNode(FALSE)
  ELSE Absent

LEMMA NodeTypes ==
  ASSUME NEW r \in Form, NEW m \in NodeConfig \cup {Absent}
  PROVE  /\ Selected(m, r) \in NodeConfig \cup {Absent}
         /\ Toggled(m, r) \in NodeConfig \cup {Absent}
         /\ \A page, w, ctl : Corrected(page, m, w, ctl) \in NodeConfig \cup {Absent}
  <1>1. \A b \in BOOLEAN : NewNode(b) \in NodeConfig
    BY NewNodeType
  <1>2. (r.roles \cap {"controller", "primary"} = {}) \in BOOLEAN
    OBVIOUS
  <1>3. \A b \in BOOLEAN : m # Absent => [m EXCEPT !.joining = b] \in NodeConfig
    BY DEF NodeConfig
  <1>4. \A ctl : (ctl = "none") \in BOOLEAN
    OBVIOUS
  <1>5. Selected(m, r) \in NodeConfig \cup {Absent}
    BY <1>1, <1>2 DEF Selected
  <1>6. Toggled(m, r) \in NodeConfig \cup {Absent}
    BY <1>1 DEF Toggled
  <1>7. \A page, w, ctl : Corrected(page, m, w, ctl) \in NodeConfig \cup {Absent}
    BY <1>1, <1>3, <1>4 DEF Corrected
  <1>8. QED
    BY <1>5, <1>6, <1>7

LEMMA MasterFields ==
  ASSUME NEW c \in Config, NEW r \in Form
  PROVE  ReadMaster(c, r) = [c EXCEPT !.master = Selected(c.master, r)]
  <1>1. [c EXCEPT !.master = c.master] = c
    BY DEF Config
  <1>2. QED
    BY <1>1 DEF ReadMaster, CreatesMaster, IsMasterNode, Selected

LEMMA WorkerFields ==
  ASSUME NEW c \in Config, NEW r \in Form
  PROVE  ReadWorker(c, r) = [c EXCEPT !.worker = Toggled(c.worker, r)]
  <1>1. [c EXCEPT !.worker = c.worker] = c
    BY DEF Config
  <1>2. QED
    BY <1>1 DEF ReadWorker, CreatesWorker, IsWorkerNode, Toggled

LEMMA NormaliseFields ==
  ASSUME NEW c \in Config
  PROVE  Normalise(c) = [c EXCEPT !.master = Corrected("step2", c.master, c.worker, c.ctl)]
  <1>1. [c EXCEPT !.master = c.master] = c
    BY DEF Config
  <1>2. (~IsControllerNode(c)) = (c.ctl = "none")
    BY DEF IsControllerNode
  <1>3. CASE IsMasterNode(c)
    <2>1. Normalise(c) = [c EXCEPT !.master = [c.master EXCEPT !.joining = ~IsControllerNode(c)]]
      BY <1>3 DEF Normalise, Config
    <2>2. QED
      BY <1>2, <1>3, <2>1 DEF Corrected, IsMasterNode
  <1>4. CASE ~IsMasterNode(c)
    BY <1>1, <1>4 DEF Normalise, Corrected, IsMasterNode, IsWorkerNode, IsControllerNode
  <1>5. QED
    BY <1>3, <1>4

\* The three ways a page panics.
LoginPanics(c, r) == r.login /\ ~c.login
MasterPanics(c, r) == CreatesMaster(c, r) /\ ~HasClusterId(c)
WorkerPanics(c, r) == CreatesWorker(c, r) /\ ~HasClusterId(c)

LEMMA PanicFields ==
  ASSUME NEW c \in Config, NEW r \in Form, NEW page, Settled(c, r)
  PROVE  /\ LoginPanics(c, r) \/ MasterPanics(c, r) => PageResult(page, c, r) = c
         /\ ~LoginPanics(c, r) /\ ~MasterPanics(c, r) /\ WorkerPanics(c, r) =>
              PageResult(page, c, r) = [c EXCEPT !.master = Selected(c.master, r)]
  <1> DEFINE m == [c EXCEPT !.master = Selected(c.master, r)]
  <1>1. ReadController(c, r) = c /\ ReadNet(c, r) = c
    BY RereadController, RereadNet
  <1>2. ReadMaster(c, r) = m /\ m.worker = c.worker /\ m.ctl = c.ctl /\ m.login = c.login
    BY MasterFields DEF Config
  <1>3. CreatesWorker(m, r) /\ ~HasClusterId(m) <=> WorkerPanics(c, r)
    BY <1>2 DEF WorkerPanics, CreatesWorker, HasClusterId, IsWorkerNode, IsControllerNode
  <1> HIDE DEF m
  <1>4. ReadNodeConfig(c, r) = IF MasterPanics(c, r) THEN Panic(c)
                               ELSE IF WorkerPanics(c, r) THEN Panic(m)
                               ELSE Done(ReadWorker(m, r))
    BY <1>2, <1>3 DEF ReadNodeConfig, MasterPanics
  <1>5. LoginPanics(c, r) => ReadConfig(c, r) = Panic(c)
    BY <1>1 DEF ReadConfig, LoginPanics
  <1>6. ~LoginPanics(c, r) /\ MasterPanics(c, r) => ReadConfig(c, r) = Panic(c)
    BY <1>1, <1>4 DEF ReadConfig, LoginPanics, Panic
  <1>7. ~LoginPanics(c, r) /\ ~MasterPanics(c, r) /\ WorkerPanics(c, r) => ReadConfig(c, r) = Panic(m)
    BY <1>1, <1>4 DEF ReadConfig, LoginPanics, Panic
  <1>8. \A d : Panic(d).panic = TRUE /\ Panic(d).config = d
    BY DEF Panic
  <1>9. QED
    BY <1>5, <1>6, <1>7, <1>8 DEF PageResult, m

LEMMA DoneFields ==
  ASSUME NEW c \in Config, NEW r \in Form, NEW page, Settled(c, r),
         ~LoginPanics(c, r), ~MasterPanics(c, r), ~WorkerPanics(c, r)
  PROVE  LET e == PageResult(page, c, r) IN
         /\ e.ctl = c.ctl /\ e.token = c.token /\ e.cidr = c.cidr /\ e.mcast = c.mcast /\ e.mc = c.mc
         /\ e.login = (c.login /\ c.ctl = "none")
         /\ e.worker = Toggled(c.worker, r)
         /\ e.master = Corrected(page, Selected(c.master, r), Toggled(c.worker, r), c.ctl)
  <1> DEFINE sel == Selected(c.master, r)
             tog == Toggled(c.worker, r)
             m == [c EXCEPT !.master = sel]
             w == [m EXCEPT !.worker = tog]
             log == c.login /\ c.ctl = "none"
             d == [w EXCEPT !.login = log]
  <1>1. ReadController(c, r) = c /\ ReadNet(c, r) = c
    BY RereadController, RereadNet
  <1>2. sel \in NodeConfig \cup {Absent} /\ tog \in NodeConfig \cup {Absent}
    <2>1. c.master \in NodeConfig \cup {Absent} /\ c.worker \in NodeConfig \cup {Absent}
      BY DEF Config
    <2>2. QED
      BY <2>1, NodeTypes
  <1>3. ReadMaster(c, r) = m
    BY MasterFields
  <1>4. log \in BOOLEAN
    OBVIOUS
  <1> HIDE DEF sel, tog, log
  <1>5. /\ m \in Config /\ m.master = sel /\ m.worker = c.worker /\ m.ctl = c.ctl
        /\ m.login = c.login /\ m.token = c.token /\ m.cidr = c.cidr /\ m.mcast = c.mcast /\ m.mc = c.mc
    BY <1>2 DEF Config
  <1> HIDE DEF m
  <1>6. /\ w \in Config /\ w.master = sel /\ w.worker = tog /\ w.ctl = c.ctl
        /\ w.login = c.login /\ w.token = c.token /\ w.cidr = c.cidr /\ w.mcast = c.mcast /\ w.mc = c.mc
    BY <1>2, <1>5 DEF Config
  <1>7. ReadWorker(m, r) = w
    BY <1>5, WorkerFields DEF tog
  <1> HIDE DEF w
  <1>8. /\ d \in Config /\ d.master = sel /\ d.worker = tog /\ d.ctl = c.ctl
        /\ d.login = log /\ d.token = c.token /\ d.cidr = c.cidr /\ d.mcast = c.mcast /\ d.mc = c.mc
    BY <1>4, <1>6 DEF Config
  <1>9. ReadNodeConfig(c, r) = Done(w)
    BY <1>3, <1>5, <1>7 DEF ReadNodeConfig, MasterPanics, WorkerPanics, CreatesWorker, HasClusterId,
       IsWorkerNode, IsControllerNode
  <1>10. (w.login /\ ~IsControllerNode(w)) = log
    BY <1>6 DEF IsControllerNode, log
  <1> HIDE DEF d
  <1>11. ReadConfig(c, r) = Done(d)
    <2>1. Done(w).panic = FALSE /\ Done(w).config = w
      BY DEF Done
    <2>2. ReadConfig(c, r) = Done([w EXCEPT !.login = w.login /\ ~IsControllerNode(w)])
      BY <1>1, <1>9, <2>1 DEF ReadConfig, LoginPanics
    <2>3. QED
      BY <1>10, <2>2 DEF d
  <1>12. PageResult(page, c, r) = IF page = "step2" THEN Normalise(d) ELSE d
    BY <1>11 DEF PageResult, Done
  <1>13. Normalise(d) = [d EXCEPT !.master = Corrected("step2", sel, tog, c.ctl)]
    BY <1>8, NormaliseFields
  <1> DEFINE cor == Corrected("step2", sel, tog, c.ctl)
  <1>14. /\ Normalise(d).master = cor /\ Normalise(d).worker = tog /\ Normalise(d).ctl = c.ctl
         /\ Normalise(d).login = log /\ Normalise(d).token = c.token
         /\ Normalise(d).cidr = c.cidr
         /\ Normalise(d).mcast = c.mcast /\ Normalise(d).mc = c.mc
    <2>1. Normalise(d) = [d EXCEPT !.master = cor]
      BY <1>13 DEF cor
    <2> HIDE DEF cor
    <2>2. QED
      BY <1>8, <2>1 DEF Config
  <1>15. Corrected(page, sel, tog, c.ctl) = IF page = "step2" THEN cor ELSE sel
    BY DEF Corrected
  <1> HIDE DEF cor
  <1>16. QED
    BY <1>8, <1>12, <1>14, <1>15 DEF sel, tog, log

\* The nodes after a form, after the same form again and after it once more.
LEMMA NodesAgain ==
  ASSUME NEW r \in Form, NEW page, NEW ctl,
         NEW m \in NodeConfig \cup {Absent}, NEW w \in NodeConfig \cup {Absent}
  PROVE  LET w1 == Toggled(w, r)
             m1 == Corrected(page, Selected(m, r), w1, ctl)
             w2 == Toggled(w1, r)
             m2 == Corrected(page, Selected(m1, r), w2, ctl)
         IN  /\ Selected(Selected(m, r), r) = Selected(m, r)
             /\ ~("worker" \in r.roles /\ r.select) => w2 = w1 /\ m2 = m1
             /\ "worker" \in r.roles =>
                  Toggled(w2, r) = w1 /\ Corrected(page, Selected(m2, r), w1, ctl) = m1
             /\ ctl = "none" => Selected(m1, r) = m1
             /\ m2 # m1 => /\ page = "step2" /\ ctl # "none"
                           /\ r.select /\ r.roles \cap {"primary", "joining"} = {}
  <1> DEFINE w1 == Toggled(w, r)
             s == Selected(m, r)
             m1 == Corrected(page, s, w1, ctl)
             w2 == Toggled(w1, r)
             m2 == Corrected(page, Selected(m1, r), w2, ctl)
             drop == r.select /\ r.roles \cap {"primary", "joining"} = {}
             b == (ctl = "none")
  <1>1. b \in BOOLEAN /\ NewNode(FALSE) \in NodeConfig /\ NewNode(TRUE) \in NodeConfig
    BY NewNodeType
  <1>2. s \in NodeConfig \cup {Absent} /\ w1 \in NodeConfig \cup {Absent}
    BY NodeTypes
  <1>3. \A k \in NodeConfig : /\ [k EXCEPT !.joining = b] \in NodeConfig
                              /\ [[k EXCEPT !.joining = b] EXCEPT !.joining = b] = [k EXCEPT !.joining = b]
    BY <1>1 DEF NodeConfig
  <1>4. ctl # "none" => [NewNode(FALSE) EXCEPT !.joining = b] = NewNode(FALSE)
    <2>1. ASSUME ctl # "none" PROVE b = FALSE
      BY <2>1
    <2>2. [NewNode(FALSE) EXCEPT !.joining = FALSE] = NewNode(FALSE)
      <3>1. \A k \in NodeConfig : k.joining = FALSE => [k EXCEPT !.joining = FALSE] = k
        BY DEF NodeConfig
      <3>2. NewNode(FALSE).joining = FALSE
        BY DEF NewNode
      <3>3. QED
        BY <1>1, <3>1, <3>2
    <2>3. QED
      BY <2>1, <2>2
  <1>5. Absent \notin NodeConfig
    BY ConfigAssumption
  <1>6. \A k : drop => Selected(k, r) = Absent
    BY DEF Selected
  <1>7. \A k : ~drop /\ k # Absent => Selected(k, r) = k
    BY DEF Selected
  <1>8. ~drop /\ s = Absent => Selected(Absent, r) = Absent
    BY <1>7 DEF Selected
  <1>9. r.select /\ ~drop => s # Absent
    <2>1. (r.roles \cap {"controller", "primary"} = {}) \in BOOLEAN
      OBVIOUS
    <2>2. NewNode(r.roles \cap {"controller", "primary"} = {}) # Absent
      BY <2>1, <1>5, NewNodeType
    <2>3. QED
      BY <2>2 DEF Selected
  <1>10. Selected(s, r) = s
    BY <1>6, <1>7, <1>8
  <1>11. \A u \in NodeConfig : \A v :
           /\ Corrected(page, u, v, ctl) # Absent
           /\ Corrected(page, Corrected(page, u, v, ctl), v, ctl) = Corrected(page, u, v, ctl)
           /\ \A v2 : Corrected(page, u, v2, ctl) = Corrected(page, u, v, ctl)
    BY <1>3, <1>5 DEF Corrected
  <1>12. ~drop => Selected(m1, r) = IF m1 = Absent THEN s ELSE m1
    BY <1>2, <1>7, <1>8, <1>11
  <1>13. ~drop /\ s = Absent => Corrected(page, m1, w1, ctl) = m1
    BY <1>1, <1>4, <1>5 DEF Corrected
  <1>14. ~drop => Corrected(page, Selected(m1, r), w1, ctl) = m1
    BY <1>2, <1>11, <1>12, <1>13
  <1>15. ~("worker" \in r.roles /\ r.select) => w2 = w1
    BY <1>1, <1>5 DEF Toggled
  <1>16. "worker" \in r.roles => Toggled(w2, r) = w1
    BY <1>1, <1>5 DEF Toggled
  <1>17. ~("worker" \in r.roles /\ r.select) => m2 = m1
    BY <1>6, <1>14, <1>15
  <1>18. "worker" \in r.roles => Corrected(page, Selected(m2, r), w1, ctl) = m1
    <2>1. CASE drop
      BY <2>1, <1>6
    <2>2. CASE ~drop /\ ~r.select
      BY <2>2, <1>14, <1>17
    <2>3. CASE ~drop /\ r.select
      <3>1. s \in NodeConfig
        BY <2>3, <1>2, <1>9
      <3>2. m1 # Absent /\ m1 \in NodeConfig
        BY <3>1, <1>11, NodeTypes
      <3>3. Selected(m1, r) = m1 /\ m2 = m1
        BY <2>3, <3>1, <3>2, <1>7, <1>11
      <3>4. QED
        BY <2>3, <3>3, <1>14
    <2>4. QED
      BY <2>1, <2>2, <2>3
  <1>19. ctl = "none" => Selected(m1, r) = m1
    <2>1. ctl = "none" /\ s = Absent => m1 = Absent
      BY DEF Corrected
    <2>2. s # Absent => m1 # Absent
      BY <1>2, <1>11
    <2>3. QED
      BY <2>1, <2>2, <1>6, <1>12
  <1>20. ~drop => m2 = m1
    <2>1. CASE m1 = Absent
      BY <2>1, <1>2, <1>5, <1>11, <1>12, <1>13, <1>14, <1>17, <1>9
    <2>2. CASE m1 # Absent
      BY <2>2, <1>2, <1>7, <1>9, <1>11, <1>17, <1>12
    <2>3. QED
      BY <2>1, <2>2
  <1>21. drop /\ (page # "step2" \/ ctl = "none") => m2 = m1
    BY <1>6 DEF Corrected
  <1>22. QED
    BY <1>10, <1>15, <1>16, <1>17, <1>18, <1>19, <1>20, <1>21

\* A form that found its part about the controller and the network settled.
LEMMA ResubmitSettled ==
  ASSUME NEW c \in Config, NEW r \in Form, NEW page, Settled(c, r)
  PROVE  Resubmitted(page, c, r)
  <1> DEFINE once == PageResult(page, c, r)
             twice == PageResult(page, once, r)
             third == PageResult(page, twice, r)
             Changed == /\ \A f \in DOMAIN once \ NodeFields : twice[f] = once[f]
                        /\ twice.master # once.master =>
                             /\ page = "step2" /\ IsControllerNode(once)
                             /\ r.select /\ r.roles \cap {"primary", "joining"} = {}
  <1> SUFFICES IF "worker" \in r.roles THEN third = once /\ Changed ELSE twice = once
    BY DEF Resubmitted
  <1>1. once \in Config /\ twice \in Config /\ third \in Config
    BY PageKeepsAddresses
  <1>2. twice = once => third = twice /\ Changed
    OBVIOUS
  <1>3. CASE LoginPanics(c, r) \/ MasterPanics(c, r)
    BY <1>3, PanicFields
  <1>4. CASE ~LoginPanics(c, r) /\ ~MasterPanics(c, r) /\ WorkerPanics(c, r)
    <2> DEFINE m == [c EXCEPT !.master = Selected(c.master, r)]
    <2>1. once = m
      BY <1>4, PanicFields
    <2>2. /\ m.master = Selected(c.master, r) /\ m.worker = c.worker /\ m.ctl = c.ctl
          /\ m.login = c.login /\ m.token = c.token /\ m.cidr = c.cidr /\ m.mcast = c.mcast /\ m.mc = c.mc
      BY DEF Config
    <2>3. Selected(m.master, r) = m.master
      BY <2>2, NodesAgain DEF Config
    <2> HIDE DEF m
    <2>4. Settled(m, r) /\ m \in Config
      BY <1>1, <2>1, <2>2 DEF Settled
    <2>5. WorkerPanics(m, r) /\ ~LoginPanics(m, r)
      BY <1>4, <2>2 DEF WorkerPanics, LoginPanics, CreatesWorker, HasClusterId, IsWorkerNode, IsControllerNode
    <2>6. PageResult(page, m, r) \in {m, [m EXCEPT !.master = Selected(m.master, r)]}
      BY <2>4, <2>5, PanicFields
    <2>7. [m EXCEPT !.master = m.master] = m
      BY <2>4 DEF Config
    <2>8. twice = once
      BY <2>1, <2>3, <2>6, <2>7
    <2>9. QED
      BY <2>8
  <1>5. CASE ~LoginPanics(c, r) /\ ~MasterPanics(c, r) /\ ~WorkerPanics(c, r)
    <2> DEFINE ctl == c.ctl
               w1 == Toggled(c.worker, r)
               m1 == Corrected(page, Selected(c.master, r), w1, ctl)
               w2 == Toggled(w1, r)
               m2 == Corrected(page, Selected(m1, r), w2, ctl)
               log == (c.login /\ ctl = "none")
               Fields(d) == /\ d.ctl = ctl /\ d.token = c.token /\ d.cidr = c.cidr /\ d.mcast = c.mcast /\ d.mc = c.mc
                            /\ d.login = log
    <2>1. c.master \in NodeConfig \cup {Absent} /\ c.worker \in NodeConfig \cup {Absent}
      BY DEF Config
    <2>2. /\ ~("worker" \in r.roles /\ r.select) => w2 = w1 /\ m2 = m1
          /\ "worker" \in r.roles =>
               Toggled(w2, r) = w1 /\ Corrected(page, Selected(m2, r), w1, ctl) = m1
          /\ ctl = "none" => Selected(m1, r) = m1
          /\ m2 # m1 => /\ page = "step2" /\ ctl # "none"
                        /\ r.select /\ r.roles \cap {"primary", "joining"} = {}
      BY <2>1, NodesAgain
    <2> HIDE DEF w1, m1, w2, m2, log, ctl
    <2>3. Fields(once) /\ once.worker = w1 /\ once.master = m1
      BY <1>5, DoneFields DEF w1, m1, log, ctl
    <2>4. (log /\ ctl = "none") = log
      BY DEF log
    <2> HIDE DEF once
    <2>5. \A d \in Config : Fields(d) => Settled(d, r)
      BY DEF Settled, ctl
    <2>6. ASSUME NEW d \in Config, Fields(d), ~LoginPanics(d, r), ~MasterPanics(d, r), ~WorkerPanics(d, r)
          PROVE  LET e == PageResult(page, d, r) IN
                 /\ Fields(e)
                 /\ e.worker = Toggled(d.worker, r)
                 /\ e.master = Corrected(page, Selected(d.master, r), Toggled(d.worker, r), ctl)
      BY <2>4, <2>5, <2>6, DoneFields
    <2>7. ASSUME LoginPanics(once, r) \/ MasterPanics(once, r) \/ WorkerPanics(once, r)
          PROVE  twice = once
      <3>1. Settled(once, r)
        BY <1>1, <2>3, <2>5
      <3>2. CASE LoginPanics(once, r) \/ MasterPanics(once, r)
        BY <1>1, <3>1, <3>2, PanicFields
      <3>3. CASE ~LoginPanics(once, r) /\ ~MasterPanics(once, r) /\ WorkerPanics(once, r)
        <4>1. ctl = "none"
          BY <2>3, <3>3 DEF WorkerPanics, HasClusterId, IsControllerNode
        <4>2. twice = [once EXCEPT !.master = once.master]
          BY <1>1, <2>2, <2>3, <3>1, <3>3, <4>1, PanicFields
        <4>3. QED
          BY <1>1, <4>2 DEF Config
      <3>4. QED
        BY <2>7, <3>2, <3>3
    <2>8. ASSUME ~LoginPanics(once, r), ~MasterPanics(once, r), ~WorkerPanics(once, r)
          PROVE  Fields(twice) /\ twice.worker = w2 /\ twice.master = m2
      BY <1>1, <2>3, <2>6, <2>8 DEF w2, m2
    <2>9. CASE LoginPanics(once, r) \/ MasterPanics(once, r) \/ WorkerPanics(once, r)
      BY <1>2, <2>7, <2>9
    <2>10. CASE ~LoginPanics(once, r) /\ ~MasterPanics(once, r) /\ ~WorkerPanics(once, r)
      <3>1. Fields(twice) /\ twice.worker = w2 /\ twice.master = m2
        BY <2>8, <2>10
      <3>2. CASE ~("worker" \in r.roles /\ r.select)
        <4>1. twice = once
          BY <1>1, <2>2, <2>3, <3>1, <3>2, SameFields
        <4>2. QED
          BY <1>2, <4>1
      <3>3. CASE "worker" \in r.roles /\ r.select
        <4> HIDE DEF twice
        <4>1. HasClusterId(once)
          <5>1. CASE c.worker = Absent
            <6>1. HasClusterId(c)
              BY <1>5, <3>3, <5>1 DEF WorkerPanics, CreatesWorker, IsWorkerNode
            <6>2. QED
              BY <2>3, <6>1 DEF HasClusterId, IsControllerNode, log, ctl
          <5>2. CASE c.worker # Absent
            BY <2>3, <2>10, <3>3, <5>2 DEF WorkerPanics, CreatesWorker, IsWorkerNode, w1, Toggled
          <5>3. QED
            BY <5>1, <5>2
        <4>2. HasClusterId(twice) /\ ~LoginPanics(twice, r)
          BY <2>3, <2>10, <3>1, <4>1 DEF HasClusterId, IsControllerNode, LoginPanics
        <4>3. ~MasterPanics(twice, r) /\ ~WorkerPanics(twice, r)
          BY <4>2 DEF MasterPanics, WorkerPanics
        <4>4. Fields(third) /\ third.worker = w1 /\ third.master = m1
          BY <1>1, <2>2, <2>6, <3>1, <3>3, <4>1, <4>2, <4>3
        <4>5. third = once
          BY <1>1, <2>3, <4>4, SameFields
        <4>6. Changed
          <5>1. \A f \in DOMAIN once \ NodeFields :
                  f \in {"ctl", "token", "cidr", "login", "mcast", "mc"}
            BY <1>1 DEF Config, NodeFields
          <5>2. \A f \in {"ctl", "token", "cidr", "login", "mcast", "mc"} : twice[f] = once[f]
            BY <2>3, <3>1
          <5>3. twice.master # once.master =>
                  /\ page = "step2" /\ IsControllerNode(once)
                  /\ r.select /\ r.roles \cap {"primary", "joining"} = {}
            BY <2>2, <2>3, <3>1 DEF IsControllerNode
          <5>4. QED
            BY <5>1, <5>2, <5>3
        <4>7. QED
          BY <3>3, <4>5, <4>6
      <3>4. QED
        BY <3>2, <3>3
    <2>11. QED
      BY <2>9, <2>10
  <1>6. QED
    BY <1>3, <1>4, <1>5

\* The first submission settles the form's part about the controller and the
\* network, or stops before it with a controller that it would read again.
LEMMA Resubmit ==
  ASSUME NEW c \in Config, NEW r \in Form, NEW page
  PROVE  Resubmitted(page, c, r)
  <1> DEFINE k == ReadController(c, r)
             n == ReadNet(k, r)
  <1>1. /\ k \in Config /\ k.login = c.login /\ ReadController(k, r) = k
        /\ "controller" \in r.roles => k.ctl # "none"
        /\ "controller" \notin r.roles /\ r.select => k.ctl = "none" /\ k.token = FALSE /\ k.cidr = TRUE
    BY RereadController
  <1> HIDE DEF k
  <1>2. n \in Config /\ Settled(n, r) /\ n.login = k.login
    <2>1. /\ n \in Config /\ n.login = k.login /\ n.ctl = (IF k.ctl = "undefined" THEN "NAT" ELSE k.ctl)
          /\ n.token = k.token /\ n.cidr = k.cidr
          /\ r.mcast => n.mcast
          /\ r.mc => n.mc
      BY <1>1, RereadNet
    <2> HIDE DEF n
    <2>2. QED
      BY <1>1, <2>1 DEF Settled
  <1>3. CASE r.login /\ ~k.login
    <2>1. ReadConfig(c, r) = Panic(k) /\ ReadConfig(k, r) = Panic(k)
      BY <1>1, <1>3 DEF ReadConfig, k
    <2>2. PageResult(page, c, r) = k /\ PageResult(page, k, r) = k
      BY <2>1 DEF PageResult, Panic
    <2>3. QED
      BY <2>2 DEF Resubmitted
  <1>4. CASE ~(r.login /\ ~k.login)
    <2>1. ReadController(n, r) = n /\ ReadNet(n, r) = n
      BY <1>2, RereadController, RereadNet
    <2>2. ReadConfig(c, r) = ReadConfig(n, r)
      <3> HIDE DEF n
      <3>1. ReadNet(k, r) = n
        BY DEF n
      <3>2. QED
        BY <1>2, <1>4, <2>1, <3>1 DEF ReadConfig, k
    <2>3. PageResult(page, c, r) = PageResult(page, n, r)
      BY <2>2 DEF PageResult
    <2>4. QED
      BY <1>2, <2>3, ResubmitSettled DEF Resubmitted
  <1>5. QED
    BY <1>3, <1>4

\* Submitting a form again changes at most the worker and the master added for
\* it, and twice changes nothing: for any configuration that is reached and any
\* form.
THEOREM ResubmittingToggles == Spec => []ResubmittingTogglesNodes
  <1>1. StatusInv => ResubmittingTogglesNodes
    <2>1. ASSUME StatusInv, NEW r \in Requests PROVE config \in Config /\ r[2] \in Form
      BY <2>1, LifecycleAssumption DEF StatusInv, TypeOK
    <2>2. QED
      BY <2>1, Resubmit DEF ResubmittingTogglesNodes
  <1>2. QED
    BY <1>1, StatusInit, StatusNext, PTL DEF Spec
=============================================================================
