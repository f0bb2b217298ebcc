------------------------------ MODULE ClusterApi ------------------------------
(***************************************************************************)
(* The controller's process as the rest of the cluster sees it: the REST   *)
(* API on port 9999 (service/clustermanager.go on webapp/application.go)   *)
(* with the address pool and the view of ClusterView behind it, through    *)
(* crashes and restarts of the process.                                    *)
(*                                                                         *)
(* A client is a program on another machine that asks for an address, uses *)
(* it, and gives it back.  Each request is a goroutine of the process;     *)
(* connections break at any time, the process may end at any time, and     *)
(* both the pool and the view are in its memory only.  The locks of the    *)
(* pool are in CidrPool: a call that hangs there takes no step here.       *)
(***************************************************************************)
EXTENDS ClusterView

CONSTANTS Clients,  \* machines that ask for an address and give it back
          Reporters, \* machines that report nodes started and stopped
          Locals,   \* the controller's own nodes, served by its start
          Careless, \* bound: those that may send open requests
          Ips,      \* addresses of the cluster's network
          NoIp      \* ""

ASSUME ApiAssumption ==
  /\ Clients \cap Reporters = {} /\ Locals \cap (Clients \cup Reporters) = {}
  /\ NoIp \notin Ips /\ Ips \cap Nodes = {} /\ NoIp \notin Nodes

Remote == Clients \cup Reporters
Callers == Remote \cup Locals

VARIABLES
  used,     \* usedIps of the pool
  call,     \* call[c]: the request or local call of c
  lease,    \* lease[c]: the address c believes to be its own, or NoIp
  excused,  \* history: addresses chosen by overlapping calls, or in use by a
            \* client when the process ended
  leaked    \* history: used addresses whose client never learned of them or
            \* whose release failed

apiVars == <<used, call, lease, excused, leaked>>
vars == <<viewVars, apiVars>>

\* A request: path is the last part of the URL path, param the name of the
\* parameter that holds arg; open if the text /cluster/id is anywhere in its
\* URI, also behind the question mark.
Request ==
  [method : {"GET", "POST", "DELETE"}, path : {"nodeip", "node"}, open : BOOLEAN,
   param : {"master", "address", "ip", "id"}, arg : Ips \cup {NoIp} \cup Nodes]

NodeIpRequest(o) ==
  [method |-> "GET", path |-> "nodeip", open |-> o, param |-> "master", arg |-> NoIp]
Idle == [at |-> "idle", req |-> NodeIpRequest(FALSE), ip |-> NoIp]

ApiTypeOK ==
  /\ used \in SUBSET Ips
  /\ call \in [Callers -> [at : {"idle", "sent", "handling", "chosen", "answered"},
                           req : Request, ip : Ips \cup {NoIp}]]
  /\ lease \in [Callers -> Ips \cup {NoIp}]
  /\ excused \in SUBSET Ips /\ leaked \in SUBSET Ips

TypeOK == ViewTypeOK /\ ApiTypeOK

Init ==
  /\ ViewInit
  /\ used = {} /\ excused = {} /\ leaked = {}
  /\ call = [c \in Callers |-> Idle]
  /\ lease = [c \in Callers |-> NoIp]
-----------------------------------------------------------------------------
(***************************************************************************)
(* The clients.  remoteControllerDelegate.ReleaseNodeIP sends the address  *)
(* as "ip"; the handler reads "address".                                   *)
(***************************************************************************)
\* Whether a request of c is open.
Open(c) == {o \in BOOLEAN : o => c \in Careless}

Send(c, r) == call' = [call EXCEPT ![c] = [at |-> "sent", req |-> r, ip |-> NoIp]]

SendReserve(c) ==
  /\ c \in cast /\ call[c].at = "idle" /\ lease[c] = NoIp
  /\ \E o \in Open(c) : Send(c, NodeIpRequest(o))
  /\ UNCHANGED <<viewVars, used, lease, excused, leaked>>

\* From here on the client does not use the address any more.
SendRelease(c) ==
  /\ c \in cast /\ call[c].at = "idle" /\ lease[c] # NoIp
  /\ \E p \in {"address", "ip"}, o \in Open(c) :
       Send(c, [method |-> "DELETE", path |-> "nodeip", open |-> o,
                param |-> p, arg |-> lease[c]])
  /\ lease' = [lease EXCEPT ![c] = NoIp]
  /\ UNCHANGED <<viewVars, used, excused, leaked>>

\* A node that started or stopped is reported by any client.
SendNode(c) ==
  /\ c \in cast /\ call[c].at = "idle"
  /\ \E n \in Nodes \cap cast, m \in {"POST", "DELETE"}, o \in Open(c) :
       Send(c, [method |-> m, path |-> "node", open |-> o, param |-> "id", arg |-> n])
  /\ UNCHANGED <<viewVars, used, lease, excused, leaked>>

IsRelease(r) == r.method = "DELETE" /\ r.path = "nodeip"

\* The request of c ends without an effect.
GiveUp(c) ==
  /\ call' = [call EXCEPT ![c] = Idle]
  /\ leaked' = IF IsRelease(call[c].req) THEN leaked \cup {call[c].req.arg} ELSE leaked
  /\ UNCHANGED <<viewVars, used, lease, excused>>

\* The connection fails before the request is read, or nobody listens.
LoseRequest(c) == call[c].at = "sent" /\ GiveUp(c)
-----------------------------------------------------------------------------
(***************************************************************************)
(* HandleRequest: authenticate, look the handler up, run it.               *)
(***************************************************************************)
\* Slip: the status is not looked at.
AuthAnyStatus(r, trusted) == r.open \/ trusted

\* A request is trusted if it brings the cluster's id and credentials.  An open
\* one passes before either is looked at, whatever its path is.
controllerAuthAction(r, trusted) == r.open \/ (status = "RUNNING" /\ trusted)

\* The routes of the requests that change state; the others only read.
Routes ==
  [GET |-> [nodeip |-> "actionReserveNodeIP", node |-> "none"],
   POST |-> [nodeip |-> "none", node |-> "actionNodeStarted"],
   DELETE |-> [nodeip |-> "actionReleaseNodeIP", node |-> "actionNodeStopped"]]
findAction(r) == Routes[r.method][r.path]

HandleRequest(c) ==
  /\ status # "off" /\ call[c].at = "sent"
  /\ \E trusted \in BOOLEAN :
       IF controllerAuthAction(call[c].req, trusted) /\ findAction(call[c].req) # "none"
       THEN /\ call' = [call EXCEPT ![c].at = "handling"]
            /\ UNCHANGED <<viewVars, used, lease, excused, leaked>>
       ELSE GiveUp(c)

Handles(c, action) == call[c].at = "handling" /\ findAction(call[c].req) = action

ChosenBy(ip) == {d \in Callers : call[d].at = "chosen" /\ call[d].ip = ip}

\* Slip: the empty answer of an exhausted pool is taken for an address.
ChooseAny(c) ==
  /\ \E ip \in (Ips \ used) \cup {NoIp} :
       /\ call' = [call EXCEPT ![c].at = "chosen", ![c].ip = ip]
       /\ excused' = IF ChosenBy(ip) = {} THEN excused ELSE excused \cup {ip}
  /\ UNCHANGED <<viewVars, used, lease, leaked>>

\* GetFreeIp until an unused address has not answered the ping.
Choose(c) ==
  /\ \E ip \in Ips \ used :
       /\ call' = [call EXCEPT ![c].at = "chosen", ![c].ip = ip]
       /\ excused' = IF ChosenBy(ip) = {} THEN excused ELSE excused \cup {ip}
  /\ UNCHANGED <<viewVars, used, lease, leaked>>

actionReserveNodeIP(c) == Handles(c, "actionReserveNodeIP") /\ Choose(c)

\* No unused address, or each of them answered the ping: the status 404.
NoAddress(c) == Handles(c, "actionReserveNodeIP") /\ GiveUp(c)

\* Slip: the address is returned and not stored.
GrantForgotten(c) ==
  /\ call[c].at = "chosen"
  /\ call' = [call EXCEPT ![c].at = "answered"]
  /\ UNCHANGED <<viewVars, used, lease, excused, leaked>>

\* GetFreeIp stores the address it returns.
Grant(c) ==
  /\ call[c].at = "chosen"
  /\ used' = used \cup {call[c].ip}
  /\ call' = [call EXCEPT ![c].at = "answered"]
  /\ UNCHANGED <<viewVars, lease, excused, leaked>>

\* The answer arrives, or the connection has broken meanwhile.
Answer(c) ==
  /\ call[c].at = "answered"
  /\ \/ lease' = [lease EXCEPT ![c] = call[c].ip] /\ UNCHANGED leaked
     \/ leaked' = leaked \cup {call[c].ip} /\ UNCHANGED lease
  /\ call' = [call EXCEPT ![c] = Idle]
  /\ UNCHANGED <<viewVars, used, excused>>

\* Slip: the lock of the pool is not taken.
NoLock == TRUE

\* The write lock of MarkIpUnused waits for the calls of GetFreeIp under way.
NobodyChooses == \A d \in Callers : call[d].at # "chosen"

\* Slip: the address is read and not released.
ReleaseNothing(c) ==
  /\ Handles(c, "actionReleaseNodeIP")
  /\ NobodyChooses
  /\ leaked' = IF call[c].req.param = "address" THEN leaked \ {call[c].req.arg}
               ELSE leaked \cup {call[c].req.arg}
  /\ call' = [call EXCEPT ![c] = Idle]
  /\ UNCHANGED <<viewVars, used, lease, excused>>

actionReleaseNodeIP(c) ==
  /\ Handles(c, "actionReleaseNodeIP")
  /\ NobodyChooses
  /\ IF call[c].req.param = "address"
     THEN used' = used \ {call[c].req.arg} /\ leaked' = leaked \ {call[c].req.arg}
     ELSE leaked' = leaked \cup {call[c].req.arg} /\ UNCHANGED used
  /\ call' = [call EXCEPT ![c] = Idle]
  /\ UNCHANGED <<viewVars, lease, excused>>

\* The body is decoded into a copy of the node, which fails: the node is entered
\* nowhere.
actionNodeStarted(c) == Handles(c, "actionNodeStarted") /\ GiveUp(c)

actionNodeStopped(c) ==
  /\ Handles(c, "actionNodeStopped")
  /\ RemoveStopped(call[c].req.arg)
  /\ call' = [call EXCEPT ![c] = Idle]
  /\ UNCHANGED <<used, lease, excused, leaked>>
-----------------------------------------------------------------------------
(***************************************************************************)
(* The process.                                                            *)
(***************************************************************************)
\* startLocal: a new entry, a new pool, and the API serves from now on.
StartLocal ==
  /\ status = "off"
  /\ status' = "STARTING"
  /\ UNCHANGED <<cast, listening, known, network, up, reported, late, apiVars>>

\* configureMaster and configureWorker, one after the other.
ReserveLocal(l) ==
  /\ status = "STARTING" /\ ~listening
  /\ \A k \in Locals : call[k].at = "idle"
  /\ lease[l] = NoIp
  /\ Choose(l)

StoreLocal(l) ==
  /\ call[l].at = "answered"
  /\ lease' = [lease EXCEPT ![l] = call[l].ip]
  /\ call' = [call EXCEPT ![l] = Idle]
  /\ UNCHANGED <<viewVars, used, excused, leaked>>

\* The end of localController.Start.
Listen ==
  /\ status = "STARTING" /\ ~listening
  /\ \A l \in Locals : call[l].at = "idle"
  /\ listening' = TRUE
  /\ UNCHANGED <<cast, status, known, network, up, reported, late, apiVars>>

Run ==
  /\ status = "STARTING" /\ listening
  /\ status' = "RUNNING"
  /\ UNCHANGED <<cast, listening, known, network, up, reported, late, apiVars>>

\* ConfigureNodes fails: releaseIPsOnError looks at the nodes one by one.
FailStart ==
  /\ status = "STARTING" /\ listening
  /\ status' = "FAILING"
  /\ UNCHANGED <<cast, listening, known, network, up, reported, late, apiVars>>

\* The address the node's object names is released, once no call of GetFreeIp is
\* under way.  A page that dropped or replaced the node, or changed its network
\* type, has hidden the reserved one.
ReleaseLocal(l) ==
  /\ status = "FAILING" /\ lease[l] # NoIp
  /\ \/ NobodyChooses /\ used' = used \ {lease[l]} /\ UNCHANGED leaked
     \/ leaked' = leaked \cup {lease[l]} /\ UNCHANGED used
  /\ lease' = [lease EXCEPT ![l] = NoIp]
  /\ UNCHANGED <<viewVars, call, excused>>

\* resetToSetupStatus
StartFailed ==
  /\ status = "FAILING" /\ \A l \in Locals : lease[l] = NoIp
  /\ status' = "SETUP"
  /\ UNCHANGED <<cast, listening, known, network, up, reported, late, apiVars>>

\* The API goes on serving, and refuses all but open requests.
EnterSetup ==
  /\ status = "RUNNING"
  /\ status' = "SETUP"
  /\ UNCHANGED <<cast, listening, known, network, up, reported, late, apiVars>>

\* A panic, a map race the runtime detects, or the operator: view, pool and
\* requests are gone, the clients keep their addresses.
EndProcess ==
  /\ status # "off"
  /\ status' = "off" /\ listening' = FALSE /\ known' = NewCluster
  /\ up' = up \ Own
  /\ used' = {} /\ leaked' = {}
  /\ excused' = excused \cup ({lease[c] : c \in Clients} \ {NoIp})
  /\ call' = [c \in Callers |-> Idle]
  /\ lease' = [c \in Callers |-> IF c \in Locals THEN NoIp ELSE lease[c]]
  /\ UNCHANGED <<cast, network, reported, late>>

ProcessStep ==
  StartLocal \/ Listen \/ Run \/ FailStart \/ StartFailed \/ EnterSetup \/ EndProcess

ServerStep(c) ==
  \/ LoseRequest(c) \/ HandleRequest(c)
  \/ actionReserveNodeIP(c) \/ NoAddress(c) \/ actionReleaseNodeIP(c)
  \/ actionNodeStarted(c) \/ actionNodeStopped(c)

Next ==
  \/ ViewStep /\ UNCHANGED apiVars
  \/ \E c \in Clients : SendReserve(c) \/ SendRelease(c) \/ Answer(c)
  \/ \E c \in Reporters : SendNode(c)
  \/ \E c \in Remote : ServerStep(c)
  \/ \E l \in Locals : ReserveLocal(l) \/ StoreLocal(l) \/ ReleaseLocal(l)
  \/ \E c \in Callers : Grant(c)
  \/ ProcessStep

Spec == Init /\ [][Next]_vars

\* A running node announces itself every 15 s, and a receiving process handles
\* what arrives; the network does not lose every message.
FairSpec ==
  Spec /\ \A n \in Nodes : WF_vars(Announce(n) /\ UNCHANGED apiVars)
                            /\ SF_vars(ServiceReceived(n) /\ UNCHANGED apiVars)
-----------------------------------------------------------------------------
(***************************************************************************)
(* Properties.                                                             *)
(***************************************************************************)
\* Two machines have the same address only if their calls of GetFreeIp
\* overlapped, or after a client kept it through a restart of the controller,
\* whose pool starts empty (clustermanager.go:284): whatever is lost, refused
\* or released in between, nothing else grants an address twice.
AddressClashHasCause ==
  \A c, d \in Callers :
    c # d /\ lease[c] = lease[d] /\ lease[c] # NoIp => lease[c] \in excused

InUse(ip) ==
  \E c \in Callers :
    \/ lease[c] = ip
    \/ call[c].at = "answered" /\ call[c].ip = ip
    \/ /\ call[c].at \in {"sent", "handling"}
       /\ IsRelease(call[c].req) /\ call[c].req.arg = ip

\* An address that is used belongs to somebody, or is on its way to or from its
\* client, or is lost for one of the known reasons: a lost answer, a lost or
\* refused release, or one that names the parameter as the remote controller
\* does (clustermanager.go:726 against 478), or a failed start that a page has
\* hidden the node from (nodemanager.go:197-215).
LeakHasCause == \A ip \in used : InUse(ip) \/ ip \in leaked

\* While the start reserves the addresses of its own nodes the API serves
\* already, and the only requests inside it are open ones: no other client can
\* choose an address beside the start and be granted the same, also one that
\* sent its request to an earlier process.
StartMeetsOnlyOpenRequests ==
  (\E l \in Locals : call[l].at # "idle") =>
    \A c \in Remote : call[c].at \in {"idle", "sent"} \/ call[c].req.open

\* What the requests and the start do to the pool, restarts included, is what
\* SharedPool allows: an address chosen was free, and none is released between
\* its choice and its store (cidr.go:63-75 and 94-98).
Pool == INSTANCE SharedPool
          WITH offer <- [c \in Callers |-> IF call[c].at = "chosen" THEN {call[c].ip} ELSE {}]
PoolSpec == Pool!RestartedSpec
=============================================================================
