----------------------------- MODULE SystemConfig -----------------------------
(***************************************************************************)
(* The configuration of an instance (service/configuration.go), what makes *)
(* it ready to start (service/AppContainer.go) and how the pages of the    *)
(* setup wizard edit it (service/setupapp.go).  Operators only: the global *)
(* Container().Config is a variable of the modules that extend this one.   *)
(*                                                                         *)
(* A configuration is a record                                             *)
(*   ctl     "none" for ControllerConfig = nil, else its ClusterVMNet;     *)
(*           the file may hold any number for it, "other" is one that is   *)
(*           no network type                                               *)
(*   token   the controller configuration has a ClusterToken               *)
(*   cidr    its ClusterNetCIDR is one that CreateCIDR can parse           *)
(*   login   ClusterLogin # nil                                            *)
(*   master, worker   Absent for nil, or a node record                     *)
(*   mcast   NetMulticastEnabled          mc   MasterController # ""       *)
(* and a node is [joining, net, addr]; addr is the reserved address, NoIp  *)
(* for the empty string.  token and cidr are FALSE and TRUE without a      *)
(* controller configuration.  Names, boxes, memory and ports, which every  *)
(* constructor of the code sets to valid values, are left out.             *)
(***************************************************************************)
CONSTANTS Absent,  \* a nil *ClusterNodeConfig
          Ips,     \* addresses of the cluster's network
          NoIp     \* ""

Net == {"NAT", "Bridged"}
VMNetType == Net \cup {"undefined", "other"}
NodeConfig == [joining : BOOLEAN, net : VMNetType, addr : Ips \cup {NoIp}]
Config ==
  [ctl : VMNetType \cup {"none"}, token : BOOLEAN, cidr : BOOLEAN, login : BOOLEAN,
   master : NodeConfig \cup {Absent}, worker : NodeConfig \cup {Absent},
   mcast : BOOLEAN, mc : BOOLEAN]

ASSUME ConfigAssumption == NoIp \notin Ips /\ Absent \notin NodeConfig \cup Config

NewNode(isJoining) == [joining |-> isJoining, net |-> "undefined", addr |-> NoIp]

\* InitConfig without a configuration file.
DefaultConfig ==
  [ctl |-> "none", token |-> FALSE, cidr |-> TRUE, login |-> FALSE, master |-> Absent,
   worker |-> Absent, mcast |-> TRUE, mc |-> FALSE]

IsControllerNode(c) == c.ctl # "none"
IsMasterNode(c) == c.master # Absent
IsWorkerNode(c) == c.worker # Absent
IsJoiningMaster(c) == IsMasterNode(c) /\ c.master.joining
IsPrimaryMaster(c) == IsMasterNode(c) /\ ~c.master.joining

\* Slip: an instance needs neither a controller nor a cluster to join.
ReadyWithoutCluster(c) ==
  /\ c.mcast \/ c.mc
  /\ IsWorkerNode(c) => c.worker.joining
  /\ IsControllerNode(c) =>
       (IsJoiningMaster(c) => c.token) /\ ~c.login /\ c.ctl # "undefined"

\* The struct validation of AppContainer.go.  Of the network type and the CIDR
\* it requires that they are there.
Ready(c) ==
  /\ IsControllerNode(c) \/ c.login
  /\ c.mcast \/ c.mc
  /\ IsWorkerNode(c) => c.worker.joining
  /\ IsControllerNode(c) =>
       (IsJoiningMaster(c) => c.token) /\ ~c.login /\ c.ctl # "undefined"

\* ClusterId() dereferences one of the two.
HasClusterId(c) == IsControllerNode(c) \/ c.login

InitControllerConfig(c) ==
  IF IsControllerNode(c) THEN c ELSE [c EXCEPT !.ctl = "NAT", !.token = FALSE, !.cidr = TRUE]

\* The addresses reserved for the nodes of a configuration.
NodeIps(c) ==
  ({IF IsMasterNode(c) THEN c.master.addr ELSE NoIp} \cup
   {IF IsWorkerNode(c) THEN c.worker.addr ELSE NoIp}) \ {NoIp}
-----------------------------------------------------------------------------
(***************************************************************************)
(* readConfig.  A request is the form fields that matter:                  *)
(*   roles   the checkboxes of step 1 that are ticked                      *)
(*   select  POST with the hidden field selectNodes (the form of step 1)   *)
(*   mcast   Net-MulticastEnabled is sent (the form can only send "on")    *)
(*   mc      Net-MasterController is sent                                  *)
(*   login   the ClusterLogin-* fields are sent                            *)
(* The result is the configuration and whether the handler panicked on the *)
(* way, which net/http recovers: the edits made so far stay.               *)
(***************************************************************************)
Roles == {"controller", "primary", "joining", "worker"}
Form == [roles : SUBSET Roles, select : BOOLEAN, mcast : BOOLEAN, mc : BOOLEAN, login : BOOLEAN]
NoFields == [roles |-> {}, select |-> FALSE, mcast |-> FALSE, mc |-> FALSE, login |-> FALSE]
Step1Form(roles) == [NoFields EXCEPT !.roles = roles, !.select = TRUE]
Step2Form(mc, login) == [NoFields EXCEPT !.mcast = TRUE, !.mc = mc, !.login = login]

Done(c) == [config |-> c, panic |-> FALSE]
Panic(c) == [config |-> c, panic |-> TRUE]

ReadController(c, r) ==
  IF "controller" \in r.roles THEN InitControllerConfig(c)
  ELSE IF r.select THEN [c EXCEPT !.ctl = "none", !.token = FALSE, !.cidr = TRUE]
  ELSE c

ReadNet(c, r) ==
  [c EXCEPT !.mcast = @ \/ r.mcast, !.mc = @ \/ r.mc,
            !.ctl = IF @ = "undefined" THEN "NAT" ELSE @]

\* The master is created by any of three roles and dropped unless one of two
\* is selected; ticking only "controller" creates and drops it.
CreatesMaster(c, r) ==
  ~IsMasterNode(c) /\ r.roles \cap {"controller", "primary", "joining"} # {}

\* Slip: the master is cleared in the else branch of its creation, too.
ReadMasterElse(c, r) ==
  IF CreatesMaster(c, r)
  THEN [c EXCEPT !.master = NewNode(r.roles \cap {"controller", "primary"} = {})]
  ELSE IF r.select THEN [c EXCEPT !.master = Absent]
  ELSE c

ReadMaster(c, r) ==
  IF r.select /\ r.roles \cap {"primary", "joining"} = {}
  THEN [c EXCEPT !.master = Absent]
  ELSE IF CreatesMaster(c, r)
  THEN [c EXCEPT !.master = NewNode(r.roles \cap {"controller", "primary"} = {})]
  ELSE c

CreatesWorker(c, r) == ~IsWorkerNode(c) /\ "worker" \in r.roles

\* Else-if: a worker that is there already is dropped although it is ticked.
ReadWorker(c, r) ==
  IF CreatesWorker(c, r) THEN [c EXCEPT !.worker = NewNode(TRUE)]
  ELSE IF r.select THEN [c EXCEPT !.worker = Absent]
  ELSE c

ReadNodeConfig(c, r) ==
  IF CreatesMaster(c, r) /\ ~HasClusterId(c) THEN Panic(c)
  ELSE LET m == ReadMaster(c, r)
       IN IF CreatesWorker(m, r) /\ ~HasClusterId(m) THEN Panic(m)
          ELSE Done(ReadWorker(m, r))

ReadConfig(c, r) ==
  LET k == ReadController(c, r)
  IN IF r.login /\ ~k.login THEN Panic(k)
     ELSE LET n == ReadNodeConfig(ReadNet(k, r), r)
          IN IF n.panic THEN n
             ELSE Done([n.config EXCEPT !.login = @ /\ ~IsControllerNode(n.config)])

\* The corrections of Step2Action (nothing to correct if nothing is selected).
Normalise(c) ==
  IF IsMasterNode(c) THEN [c EXCEPT !.master.joining = ~IsControllerNode(c)]
  ELSE IF IsWorkerNode(c) /\ IsControllerNode(c) THEN [c EXCEPT !.master = NewNode(FALSE)]
  ELSE c

\* What a page does to the configuration.  Step 2 may panic once more when it
\* lists the clusters: the state does not change any more then.
PageResult(page, c, r) ==
  LET read == ReadConfig(c, r)
  IN IF page = "step2" /\ ~read.panic THEN Normalise(read.config) ELSE read.config
=============================================================================
