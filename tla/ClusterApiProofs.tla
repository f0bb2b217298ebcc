--------------------------- MODULE ClusterApiProofs ---------------------------
(***************************************************************************)
(* Proofs about ClusterApi, for any sets of nodes, clients, reporters,     *)
(* local nodes and addresses: the types, how a removed node comes back     *)
(* into the view, which requests may meet the reservations of the start,   *)
(* and the two accounts of the addresses (who may share one, who may have  *)
(* lost one).                                                              *)
(***************************************************************************)
EXTENDS ClusterApi, TLAPS

\* A caller with a call under way holds no lease; a chosen or answered address
\* and the argument of a release are addresses; reporters ask for none.
Shape ==
  /\ \A c \in Callers : call[c].at # "idle" => lease[c] = NoIp
  /\ \A c \in Callers : call[c].at \in {"chosen", "answered"} => call[c].ip \in Ips
  /\ \A c \in Callers : IsRelease(call[c].req) => call[c].req.arg \in Ips
  /\ \A c \in Reporters : lease[c] = NoIp

ShapeInv == TypeOK /\ Shape

\* What a handler gets is not a release unless it is the one of releases.
LEMMA Routing ==
  ASSUME NEW r \in Request
  PROVE  /\ findAction(r) = "actionReleaseNodeIP" <=> IsRelease(r)
         /\ findAction(r) \in {"actionReserveNodeIP", "actionReleaseNodeIP",
                               "actionNodeStarted", "actionNodeStopped", "none"}
  BY DEF Request, findAction, Routes, IsRelease

LEMMA ShapeInit == Init => ShapeInv
  <1> SUFFICES ASSUME Init PROVE ShapeInv
    OBVIOUS
  <1>1. ViewTypeOK
    BY DEF Init, ViewInit, ViewTypeOK, NewCluster
  <1>2. ApiTypeOK
    BY DEF Init, ApiTypeOK, Idle, NodeIpRequest, Request
  <1>3. Shape
    BY DEF Init, Shape, Idle, NodeIpRequest, IsRelease, Callers, Remote
  <1>4. QED
    BY <1>1, <1>2, <1>3 DEF ShapeInv, TypeOK

\* The steps of the nodes, the network and the registry keep the view's types.
LEMMA ViewTypeNext == ViewTypeOK /\ ViewStep => ViewTypeOK'
  <1> SUFFICES ASSUME ViewTypeOK, NEW n \in Nodes,
                      NodeStarts(n) \/ NodeStops(n) \/ Announce(n) \/ LoseMessage(n)
                        \/ ServiceReceived(n)
               PROVE  ViewTypeOK'
    BY DEF ViewStep
  <1> USE DEF ViewTypeOK
  <1>1. CASE NodeStarts(n) \/ NodeStops(n) \/ Announce(n) \/ LoseMessage(n)
    BY <1>1 DEF NodeStarts, NodeStops, Announce, LoseMessage
  <1>2. CASE ServiceReceived(n)
    BY <1>2 DEF ServiceReceived, Entered, Nodes
  <1>3. QED
    BY <1>1, <1>2

LEMMA ShapeNext == ShapeInv /\ [Next]_vars => ShapeInv'
  <1> SUFFICES ASSUME ShapeInv, [Next]_vars PROVE ShapeInv'
    OBVIOUS
  <1> USE DEF ShapeInv, TypeOK, ApiTypeOK, Shape
  <1>a. Idle \in [at : {"idle"}, req : Request, ip : {NoIp}] /\ ~IsRelease(Idle.req)
    BY DEF Idle, NodeIpRequest, Request, IsRelease
  <1>b. ASSUME NEW c \in Callers, GiveUp(c) PROVE ShapeInv'
    BY <1>a, <1>b DEF GiveUp, viewVars, ViewTypeOK, Callers, Remote
  <1>1. CASE ViewStep /\ UNCHANGED apiVars
    BY <1>1, ViewTypeNext DEF apiVars, IsRelease
  <1>2. ASSUME NEW c \in Clients, SendReserve(c) PROVE ShapeInv'
    BY <1>2 DEF SendReserve, Send, Open, NodeIpRequest, Request, IsRelease, viewVars, ViewTypeOK,
         Callers, Remote
  <1>3. ASSUME NEW c \in Clients, SendRelease(c) PROVE ShapeInv'
    BY <1>3, ApiAssumption DEF SendRelease, Send, Open, Request, IsRelease, viewVars, ViewTypeOK,
         Callers, Remote
  <1>4. ASSUME NEW c \in Clients, Answer(c) PROVE ShapeInv'
    BY <1>4, <1>a, ApiAssumption DEF Answer, viewVars, ViewTypeOK, Callers, Remote
  <1>5. ASSUME NEW c \in Reporters, SendNode(c) PROVE ShapeInv'
    BY <1>5 DEF SendNode, Send, Open, Request, IsRelease, viewVars, ViewTypeOK, Callers, Remote
  <1>6. ASSUME NEW c \in Callers, Choose(c), call[c].at # "idle" \/ lease[c] = NoIp PROVE ShapeInv'
    BY <1>6 DEF Choose, viewVars, ViewTypeOK, Callers, Remote
  <1>7. ASSUME NEW c \in Remote, ServerStep(c) PROVE ShapeInv'
    <2>0. c \in Callers
      BY DEF Callers
    <2>1. CASE LoseRequest(c) \/ NoAddress(c) \/ actionNodeStarted(c)
      BY <2>0, <2>1, <1>b DEF LoseRequest, NoAddress, actionNodeStarted
    <2>2. CASE HandleRequest(c)
      <3>1. CASE call' = [call EXCEPT ![c].at = "handling"]
                 /\ UNCHANGED <<viewVars, used, lease, excused, leaked>>
        BY <2>0, <2>2, <3>1 DEF HandleRequest, viewVars, ViewTypeOK, Callers, Remote
      <3>2. CASE GiveUp(c)
        BY <2>0, <3>2, <1>b
      <3>3. QED
        BY <2>2, <3>1, <3>2 DEF HandleRequest
    <2>3. CASE actionReserveNodeIP(c)
      BY <2>0, <2>3, <1>6 DEF actionReserveNodeIP, Handles
    <2>4. CASE actionReleaseNodeIP(c)
      <3>1. IsRelease(call[c].req)
        BY <2>0, <2>4, Routing DEF actionReleaseNodeIP, Handles
      <3>2. call[c].req.arg \in Ips
        BY <2>0, <3>1
      <3>3. QED
        BY <2>0, <2>4, <3>2, <1>a DEF actionReleaseNodeIP, viewVars, ViewTypeOK, Callers, Remote
    <2>5. CASE actionNodeStopped(c)
      <3>1. ViewTypeOK'
        <4>1. known' = Removed(known, call[c].req.arg)
              /\ UNCHANGED <<cast, status, listening, network, up>>
          BY <2>5 DEF actionNodeStopped, RemoveStopped
        <4>2. reported' \in SUBSET Nodes /\ late' \in SUBSET Nodes
          BY <2>5 DEF actionNodeStopped, RemoveStopped, ViewTypeOK, Nodes
        <4>3. QED
          BY <4>1, <4>2 DEF Removed, ViewTypeOK
      <3>2. QED
        BY <2>0, <2>5, <3>1, <1>a DEF actionNodeStopped
    <2>6. QED
      BY <1>7, <2>1, <2>2, <2>3, <2>4, <2>5 DEF ServerStep
  <1>8. ASSUME NEW l \in Locals, ReserveLocal(l) \/ StoreLocal(l) PROVE ShapeInv'
    <2>1. CASE ReserveLocal(l)
      BY <2>1, <1>6 DEF ReserveLocal, Callers
    <2>2. CASE StoreLocal(l)
      BY <2>2, <1>a, ApiAssumption DEF StoreLocal, viewVars, ViewTypeOK, Callers, Remote
    <2>3. QED
      BY <1>8, <2>1, <2>2
  <1>9. ASSUME NEW c \in Callers, Grant(c) PROVE ShapeInv'
    BY <1>9 DEF Grant, viewVars, ViewTypeOK, Callers, Remote
  <1>10. CASE StartLocal \/ Listen \/ Run \/ FailStart \/ StartFailed \/ EnterSetup
    BY <1>10 DEF StartLocal, Listen, Run, FailStart, StartFailed, EnterSetup, apiVars, ViewTypeOK
  <1>11. ASSUME NEW l \in Locals, ReleaseLocal(l) PROVE ShapeInv'
    BY <1>11, ApiAssumption DEF ReleaseLocal, viewVars, ViewTypeOK, Callers, Remote
  <1>12. CASE EndProcess
    <2>1. ViewTypeOK'
      BY <1>12 DEF EndProcess, ViewTypeOK, NewCluster
    <2>2. ApiTypeOK'
      <3>1. {lease[c] : c \in Clients} \ {NoIp} \in SUBSET Ips
        BY DEF Callers, Remote
      <3>2. QED
        BY <1>12, <1>a, <3>1 DEF EndProcess, Callers, Remote
    <2>3. Shape'
      BY <1>12, <1>a DEF EndProcess, Callers, Remote
    <2>4. QED
      BY <2>1, <2>2, <2>3
  <1>13. CASE UNCHANGED vars
    BY <1>13 DEF vars, viewVars, apiVars, ViewTypeOK
  <1>14. QED
    BY <1>1, <1>2, <1>3, <1>4, <1>5, <1>7, <1>8, <1>9, <1>10, <1>11, <1>12, <1>13
       DEF Next, ProcessStep

\* The variables have their types, for any constants.
THEOREM TypeCorrect == Spec => []TypeOK
  BY ShapeInit, ShapeNext, PTL DEF Spec, ShapeInv
-----------------------------------------------------------------------------
(***************************************************************************)
(* The view.                                                               *)
(***************************************************************************)
\* Every step but those of ViewStep, a report of a stopped node and the end of
\* the process leaves the view alone.
LEMMA ViewFrame ==
  ASSUME [Next]_vars
  PROVE  \/ ViewStep
         \/ \E n : RemoveStopped(n)
         \/ EndProcess
         \/ UNCHANGED <<known, network, up, reported, late>>
  <1>1. ASSUME NEW c, ServerStep(c) PROVE \/ RemoveStopped(call[c].req.arg)
                                         \/ UNCHANGED <<known, network, up, reported, late>>
    BY <1>1 DEF ServerStep, LoseRequest, HandleRequest, GiveUp, actionReserveNodeIP, Choose,
         NoAddress, actionReleaseNodeIP, actionNodeStarted, actionNodeStopped, viewVars
  <1>2. CASE \E c \in Clients : SendReserve(c) \/ SendRelease(c) \/ Answer(c)
    BY <1>2 DEF SendReserve, SendRelease, Answer, viewVars
  <1>3. CASE \E c \in Reporters : SendNode(c)
    BY <1>3 DEF SendNode, viewVars
  <1>4. CASE \E l \in Locals : ReserveLocal(l) \/ StoreLocal(l) \/ ReleaseLocal(l)
    BY <1>4 DEF ReserveLocal, Choose, StoreLocal, ReleaseLocal, viewVars
  <1>5. CASE \E c \in Callers : Grant(c)
    BY <1>5 DEF Grant, viewVars
  <1>6. CASE ProcessStep
    BY <1>6 DEF ProcessStep, StartLocal, Listen, Run, FailStart, StartFailed, EnterSetup
  <1>7. CASE UNCHANGED vars
    BY <1>7 DEF vars, viewVars
  <1>8. QED
    BY <1>1, <1>2, <1>3, <1>4, <1>5, <1>6, <1>7 DEF Next

\* A node stays reported only while it is down, and as long as no message of
\* it was under way then, none is now and it is not listed.
GhostInv ==
  /\ reported \cap up = {}
  /\ \A n \in reported \ late : n \notin network /\ n \notin Listed

\* Only a delayed announcement brings a removed node back
\* (clustermanager.go:761-770, ServiceRegistry.go:194-204).
THEOREM GhostsAreLateAnnouncements == Spec => []GhostsHaveCause
  <1>1. Init => GhostInv
    BY DEF Init, ViewInit, GhostInv
  <1>2. ASSUME ShapeInv, GhostInv, [Next]_vars PROVE GhostInv'
    <2> USE DEF GhostInv, Listed
    <2>1. /\ known \in [masters : SUBSET Masters, workers : SUBSET Workers,
                        controller : Controllers \cup {Self}]
          /\ reported \in SUBSET Nodes
      BY <1>2 DEF ShapeInv, TypeOK, ViewTypeOK
    <2>2. ASSUME NEW n \in Nodes, NodeStarts(n) \/ NodeStops(n) PROVE GhostInv'
      BY <1>2, <2>2 DEF NodeStarts, NodeStops
    <2>3. ASSUME NEW n \in Nodes, Announce(n) \/ LoseMessage(n) PROVE GhostInv'
      BY <1>2, <2>3 DEF Announce, LoseMessage
    <2>4. ASSUME NEW n \in Nodes, ServiceReceived(n) PROVE GhostInv'
      BY <1>2, <2>1, <2>4 DEF ServiceReceived, Entered
    <2>5. ASSUME NEW n, RemoveStopped(n) PROVE GhostInv'
      <3>1. known' = [known EXCEPT !.masters = @ \ {n}, !.workers = @ \ {n}]
            /\ UNCHANGED <<network, up>>
        BY <2>5 DEF RemoveStopped, Removed
      <3>2. CASE n \in (known.masters \cup known.workers) \ up
        <4>1. reported' = reported \cup {n} /\ late' = late \cup ({n} \cap network)
          BY <2>5, <3>2 DEF RemoveStopped
        <4>2. n # known.controller
          BY <2>1, <3>2, ViewAssumption DEF Nodes
        <4>3. QED
          BY <1>2, <2>1, <3>1, <3>2, <4>1, <4>2
      <3>3. CASE n \notin (known.masters \cup known.workers) \ up
        <4>1. UNCHANGED <<reported, late>>
          BY <2>5, <3>3 DEF RemoveStopped
        <4>2. QED
          BY <1>2, <2>1, <3>1, <4>1
      <3>4. QED
        BY <3>2, <3>3
    <2>6. CASE EndProcess
      <3>1. Listed' = {Self} /\ UNCHANGED <<network, reported, late>> /\ up' = up \ Own
        BY <2>6 DEF EndProcess, NewCluster
      <3>2. QED
        BY <1>2, <2>1, <3>1, ViewAssumption
    <2>7. CASE UNCHANGED <<known, network, up, reported, late>>
      BY <1>2, <2>7
    <2>8. QED
      BY <1>2, <2>2, <2>3, <2>4, <2>5, <2>6, <2>7, ViewFrame DEF ViewStep
  <1>3. GhostInv => GhostsHaveCause
    BY DEF GhostInv, GhostsHaveCause
  <1>4. QED
    BY <1>1, <1>2, <1>3, ShapeInit, ShapeNext, PTL DEF Spec
-----------------------------------------------------------------------------
(***************************************************************************)
(* The start among the requests.                                           *)
(***************************************************************************)
\* Until the process runs only open requests are past their authentication, and
\* the own nodes call the pool only before the controller listens.
AloneInv ==
  /\ status \in {"off", "STARTING"} =>
       \A c \in Remote : call[c].at \in {"idle", "sent"} \/ call[c].req.open
  /\ \A l \in Locals : call[l].at # "idle" => status = "STARTING" /\ ~listening

LEMMA AloneInit == Init => AloneInv
  BY DEF Init, ViewInit, AloneInv, Idle, Callers, Remote

LEMMA AloneNext == ShapeInv /\ AloneInv /\ [Next]_vars => AloneInv'
  <1> SUFFICES ASSUME ShapeInv, AloneInv, [Next]_vars PROVE AloneInv'
    OBVIOUS
  <1> USE DEF AloneInv, Remote, Callers
  <1>a. call \in [Callers -> [at : {"idle", "sent", "handling", "chosen", "answered"},
                             req : Request, ip : Ips \cup {NoIp}]]
    BY DEF ShapeInv, TypeOK, ApiTypeOK
  <1>b. Idle.at = "idle"
    BY DEF Idle
  <1> USE <1>a, <1>b, ApiAssumption
  <1>1. CASE ViewStep /\ UNCHANGED apiVars
    BY <1>1 DEF ViewStep, NodeStarts, NodeStops, Announce, LoseMessage, ServiceReceived, apiVars
  <1>2. ASSUME NEW c \in Remote, SendReserve(c) \/ SendRelease(c) \/ SendNode(c) PROVE AloneInv'
    BY <1>2 DEF SendReserve, SendRelease, SendNode, Send, viewVars
  <1>3. ASSUME NEW c \in Remote, GiveUp(c) \/ Answer(c) PROVE AloneInv'
    BY <1>3 DEF GiveUp, Answer, viewVars
  <1>4. ASSUME NEW c \in Remote, ServerStep(c) PROVE AloneInv'
    <2>1. CASE LoseRequest(c) \/ NoAddress(c) \/ actionNodeStarted(c)
      BY <2>1, <1>3 DEF LoseRequest, NoAddress, actionNodeStarted
    <2>2. CASE HandleRequest(c)
      BY <2>2, <1>3 DEF HandleRequest, controllerAuthAction, viewVars
    <2>3. CASE actionReserveNodeIP(c)
      BY <2>3 DEF actionReserveNodeIP, Handles, Choose, viewVars
    <2>4. CASE actionReleaseNodeIP(c)
      BY <2>4 DEF actionReleaseNodeIP, viewVars
    <2>5. CASE actionNodeStopped(c)
      BY <2>5 DEF actionNodeStopped, RemoveStopped
    <2>6. QED
      BY <1>4, <2>1, <2>2, <2>3, <2>4, <2>5 DEF ServerStep
  <1>5. ASSUME NEW l \in Locals, ReserveLocal(l) \/ StoreLocal(l) PROVE AloneInv'
    BY <1>5 DEF ReserveLocal, Choose, StoreLocal, viewVars
  <1>6. ASSUME NEW c \in Callers, Grant(c) PROVE AloneInv'
    BY <1>6 DEF Grant, viewVars
  <1>7. CASE StartLocal \/ Listen \/ Run \/ FailStart \/ StartFailed \/ EnterSetup
    BY <1>7 DEF StartLocal, Listen, Run, FailStart, StartFailed, EnterSetup, apiVars
  <1>8. ASSUME NEW l \in Locals, ReleaseLocal(l) PROVE AloneInv'
    BY <1>8 DEF ReleaseLocal, viewVars
  <1>9. CASE EndProcess
    BY <1>9 DEF EndProcess
  <1>10. CASE UNCHANGED vars
    BY <1>10 DEF vars, viewVars, apiVars
  <1>11. QED
    BY <1>1, <1>2, <1>3, <1>4, <1>5, <1>6, <1>7, <1>8, <1>9, <1>10 DEF Next, ProcessStep

\* Until the process runs all requests but the open ones are refused
\* (clustermanager.go:666-676), so none but those meets the reservations of the
\* start, which overlap no other GetFreeIp then.
THEOREM StartMeetsOnlyOpen == Spec => []StartMeetsOnlyOpenRequests
  <1>1. AloneInv => StartMeetsOnlyOpenRequests
    BY DEF AloneInv, StartMeetsOnlyOpenRequests
  <1>2. QED
    BY <1>1, ShapeInit, ShapeNext, AloneInit, AloneNext, PTL DEF Spec
-----------------------------------------------------------------------------
(***************************************************************************)
(* Who has an address.                                                     *)
(***************************************************************************)
\* The address c has a claim to: its lease, the one chosen for it, or the one it
\* is giving back; never two at a time (Shape).
Claim(c) ==
  IF lease[c] # NoIp THEN lease[c]
  ELSE IF call[c].at \in {"chosen", "answered"} THEN call[c].ip
  ELSE IF call[c].at \in {"sent", "handling"} /\ IsRelease(call[c].req) THEN call[c].req.arg
  ELSE NoIp

\* A claim beyond the choice is known to the pool, and no two claims are to the
\* same address, but for the excused addresses.
ClaimInv ==
  /\ \A c \in Callers : Claim(c) # NoIp /\ call[c].at # "chosen" => Claim(c) \in used \cup excused
  /\ \A c, d \in Callers : c # d /\ Claim(c) = Claim(d) /\ Claim(c) # NoIp => Claim(c) \in excused

ClaimAll == ShapeInv /\ AloneInv /\ ClaimInv

\* A step that moves the claim of one caller only, to another stage or away,
\* and takes nothing from the pool.
LEMMA ClaimKept ==
  ASSUME ClaimInv, NEW c \in Callers, used \subseteq used', excused \subseteq excused',
         \A d \in Callers \ {c} : Claim(d)' = Claim(d) /\ call'[d] = call[d],
         Claim(c)' # NoIp =>
           Claim(c)' = Claim(c) /\ (call'[c].at = "chosen" \/ call[c].at # "chosen" \/ Claim(c) \in used')
  PROVE  ClaimInv'
  BY DEF ClaimInv

LEMMA ClaimNext == ClaimAll /\ [Next]_vars => ClaimInv'
  <1> SUFFICES ASSUME ClaimAll, [Next]_vars PROVE ClaimInv'
    OBVIOUS
  <1>a. /\ call \in [Callers -> [at : {"idle", "sent", "handling", "chosen", "answered"},
                                req : Request, ip : Ips \cup {NoIp}]]
        /\ lease \in [Callers -> Ips \cup {NoIp}]
        /\ Shape /\ ClaimInv /\ AloneInv
    BY DEF ClaimAll, ShapeInv, TypeOK, ApiTypeOK
  <1>b. Idle.at = "idle" /\ \A o : ~IsRelease(NodeIpRequest(o))
    BY DEF Idle, NodeIpRequest, IsRelease
  <1> USE <1>a, <1>b, ApiAssumption
  <1>c. ASSUME UNCHANGED <<call, lease, used, excused>> PROVE ClaimInv'
    BY <1>c DEF ClaimInv, Claim
  <1>d. ASSUME NEW c \in Callers, GiveUp(c) PROVE ClaimInv'
    <2>1. Claim(c)' # NoIp => Claim(c)' = Claim(c) /\ call[c].at # "chosen"
      <3>1. Claim(c)' = lease[c]
        BY <1>d DEF GiveUp, Claim
      <3>2. QED
        BY <3>1 DEF Claim, Shape
    <2>2. \A d \in Callers \ {c} : Claim(d)' = Claim(d) /\ call'[d] = call[d]
      BY <1>d DEF GiveUp, Claim
    <2>3. QED
      BY <1>d, <2>1, <2>2, ClaimKept DEF GiveUp
  <1>e. ASSUME NEW c \in Callers, Choose(c), lease[c] = NoIp PROVE ClaimInv'
    <2>1. PICK ip \in Ips \ used :
            /\ call' = [call EXCEPT ![c].at = "chosen", ![c].ip = ip]
            /\ excused' = IF ChosenBy(ip) = {} THEN excused ELSE excused \cup {ip}
      BY <1>e DEF Choose
    <2>2. Claim(c)' = ip /\ call'[c].at = "chosen"
      BY <1>e, <2>1 DEF Claim, Choose
    <2>3. \A d \in Callers \ {c} : Claim(d)' = Claim(d) /\ call'[d] = call[d]
      BY <1>e, <2>1 DEF Claim, Choose
    <2>4. UNCHANGED used /\ excused \subseteq excused'
      BY <1>e, <2>1 DEF Choose
    <2>5. ASSUME NEW d \in Callers \ {c}, Claim(d) = ip PROVE ip \in excused'
      <3>1. CASE call[d].at = "chosen"
        <4>1. call[d].ip = ip
          BY <2>5, <3>1 DEF Claim, Shape
        <4>2. d \in ChosenBy(ip)
          BY <3>1, <4>1 DEF ChosenBy
        <4>3. QED
          BY <2>1, <4>2
      <3>2. CASE call[d].at # "chosen"
        BY <2>1, <2>4, <2>5, <3>2 DEF ClaimInv
      <3>3. QED
        BY <3>1, <3>2
    <2>6. QED
      BY <2>1, <2>2, <2>3, <2>4, <2>5 DEF ClaimInv
  <1>1. CASE ViewStep /\ UNCHANGED apiVars
    BY <1>1, <1>c DEF apiVars
  <1>2. ASSUME NEW c \in Clients, SendReserve(c) PROVE ClaimInv'
    <2>1. Claim(c)' = NoIp /\ \A d \in Callers \ {c} : Claim(d)' = Claim(d) /\ call'[d] = call[d]
      BY <1>2 DEF SendReserve, Send, Claim, Callers, Remote
    <2>2. QED
      BY <1>2, <2>1, ClaimKept DEF SendReserve, Callers, Remote
  <1>3. ASSUME NEW c \in Clients, SendRelease(c) PROVE ClaimInv'
    <2>1. Claim(c)' = Claim(c) /\ call[c].at = "idle"
      BY <1>3 DEF SendRelease, Send, Claim, IsRelease, Callers, Remote
    <2>2. \A d \in Callers \ {c} : Claim(d)' = Claim(d) /\ call'[d] = call[d]
      BY <1>3 DEF SendRelease, Send, Claim, Callers, Remote
    <2>3. QED
      BY <1>3, <2>1, <2>2, ClaimKept DEF SendRelease, Callers, Remote
  <1>4. ASSUME NEW c \in Callers, Answer(c) \/ StoreLocal(c) PROVE ClaimInv'
    <2>1. Claim(c)' # NoIp => Claim(c)' = Claim(c) /\ call[c].at # "chosen"
      BY <1>4 DEF Answer, StoreLocal, Claim, Shape
    <2>2. \A d \in Callers \ {c} : Claim(d)' = Claim(d) /\ call'[d] = call[d]
      BY <1>4 DEF Answer, StoreLocal, Claim
    <2>3. QED
      BY <1>4, <2>1, <2>2, ClaimKept DEF Answer, StoreLocal
  <1>5. ASSUME NEW c \in Reporters, SendNode(c) PROVE ClaimInv'
    <2>1. Claim(c)' = NoIp /\ \A d \in Callers \ {c} : Claim(d)' = Claim(d) /\ call'[d] = call[d]
      BY <1>5 DEF SendNode, Send, Claim, Shape, IsRelease, Callers, Remote
    <2>2. QED
      BY <1>5, <2>1, ClaimKept DEF SendNode, Callers, Remote
  <1>6. ASSUME NEW c \in Remote, ServerStep(c) PROVE ClaimInv'
    <2>0. c \in Callers
      BY DEF Callers
    <2>1. CASE LoseRequest(c) \/ NoAddress(c) \/ actionNodeStarted(c)
      BY <2>0, <2>1, <1>d DEF LoseRequest, NoAddress, actionNodeStarted
    <2>2. CASE HandleRequest(c) /\ ~GiveUp(c)
      <3>1. /\ call' = [call EXCEPT ![c].at = "handling"] /\ call[c].at = "sent"
            /\ UNCHANGED <<used, lease, excused>>
        BY <2>2 DEF HandleRequest
      <3>2. Claim(c)' = Claim(c)
        BY <2>0, <3>1 DEF Claim, IsRelease
      <3>3. \A d \in Callers \ {c} : Claim(d)' = Claim(d) /\ call'[d] = call[d]
        BY <3>1 DEF Claim
      <3>4. QED
        BY <2>0, <3>1, <3>2, <3>3, ClaimKept
    <2>3. CASE actionReserveNodeIP(c)
      BY <2>0, <2>3, <1>e DEF actionReserveNodeIP, Handles, Shape
    <2>4. CASE actionReleaseNodeIP(c)
      <3>1. IsRelease(call[c].req) /\ call[c].at = "handling"
        BY <2>0, <2>4, Routing DEF actionReleaseNodeIP, Handles
      <3>2. Claim(c) = call[c].req.arg /\ Claim(c) \in Ips
        BY <2>0, <3>1 DEF Claim, Shape
      <3>3. Claim(c)' = NoIp
        BY <2>0, <2>4, <3>1 DEF actionReleaseNodeIP, Claim, Shape
      <3>4. \A d \in Callers \ {c} : Claim(d)' = Claim(d) /\ call'[d] = call[d]
        BY <2>4 DEF actionReleaseNodeIP, Claim
      <3>5. used \ {Claim(c)} \subseteq used' /\ UNCHANGED excused
        BY <2>4, <3>2 DEF actionReleaseNodeIP
      <3>6. QED
        BY <2>0, <3>2, <3>3, <3>4, <3>5 DEF ClaimInv
    <2>5. CASE actionNodeStopped(c)
      <3>1. ~IsRelease(call[c].req) /\ call[c].at = "handling"
        BY <2>0, <2>5, Routing DEF actionNodeStopped, Handles
      <3>2. Claim(c)' = NoIp
        BY <2>0, <2>5, <3>1 DEF actionNodeStopped, Claim, Shape
      <3>3. \A d \in Callers \ {c} : Claim(d)' = Claim(d) /\ call'[d] = call[d]
        BY <2>5 DEF actionNodeStopped, Claim
      <3>4. QED
        BY <2>0, <2>5, <3>2, <3>3, ClaimKept DEF actionNodeStopped
    <2>6. CASE GiveUp(c)
      BY <2>0, <2>6, <1>d
    <2>7. QED
      BY <1>6, <2>1, <2>2, <2>3, <2>4, <2>5, <2>6 DEF ServerStep
  <1>7. ASSUME NEW l \in Locals, ReserveLocal(l) PROVE ClaimInv'
    BY <1>7, <1>e DEF ReserveLocal, Callers
  <1>8. ASSUME NEW c \in Callers, Grant(c) PROVE ClaimInv'
    <2>1. Claim(c)' = Claim(c) /\ Claim(c) = call[c].ip
      BY <1>8 DEF Grant, Claim, Shape
    <2>2. \A d \in Callers \ {c} : Claim(d)' = Claim(d) /\ call'[d] = call[d]
      BY <1>8 DEF Grant, Claim
    <2>3. used' = used \cup {call[c].ip} /\ UNCHANGED excused
      BY <1>8 DEF Grant
    <2>4. QED
      BY <2>1, <2>2, <2>3, ClaimKept
  <1>9. CASE StartLocal \/ Listen \/ Run \/ FailStart \/ StartFailed \/ EnterSetup
    BY <1>9, <1>c DEF StartLocal, Listen, Run, FailStart, StartFailed, EnterSetup, apiVars
  <1>10. ASSUME NEW l \in Locals, ReleaseLocal(l) PROVE ClaimInv'
    <2>1. call[l].at = "idle"
      BY <1>10 DEF ReleaseLocal, AloneInv
    <2>2. /\ UNCHANGED <<call, excused>>
          /\ lease' = [lease EXCEPT ![l] = NoIp]
          /\ used \ {lease[l]} \subseteq used'
      BY <1>10 DEF ReleaseLocal
    <2>3. Claim(l) = lease[l] /\ Claim(l)' = NoIp /\ l \in Callers
      BY <2>1, <2>2 DEF Claim, Callers
    <2>4. \A c \in Callers \ {l} : Claim(c)' = Claim(c)
      BY <2>2 DEF Claim
    <2>5. ASSUME NEW c \in Callers \ {l}, Claim(c) # NoIp, call[c].at # "chosen"
          PROVE  Claim(c) \in used' \cup excused
      BY <2>2, <2>3, <2>5 DEF ClaimInv
    <2>6. QED
      BY <2>2, <2>3, <2>4, <2>5 DEF ClaimInv
  <1>11. CASE EndProcess
    <2>1. /\ \A c \in Callers : call'[c] = Idle
          /\ \A c \in Callers : lease'[c] = IF c \in Locals THEN NoIp ELSE lease[c]
          /\ excused' = excused \cup ({lease[c] : c \in Clients} \ {NoIp})
      BY <1>11 DEF EndProcess
    <2>2. \A c \in Callers : Claim(c)' = IF c \in Clients THEN lease[c] ELSE NoIp
      BY <2>1 DEF Claim, Shape, Callers, Remote
    <2>3. QED
      BY <2>1, <2>2 DEF ClaimInv
  <1>12. CASE UNCHANGED vars
    BY <1>12, <1>c DEF vars, apiVars
  <1>13. QED
    BY <1>1, <1>2, <1>3, <1>4, <1>5, <1>6, <1>7, <1>8, <1>9, <1>10, <1>11, <1>12
       DEF Next, ProcessStep, Callers, Remote

\* An address is granted twice only by overlapping calls of GetFreeIp or after
\* a restart of the controller (cidr.go:63-75, clustermanager.go:284).
THEOREM ClashesAreExcused == Spec => []AddressClashHasCause
  <1>1. Init => ClaimInv
    BY DEF Init, ClaimInv, Claim, Idle, NodeIpRequest, IsRelease
  <1>2. ClaimInv => AddressClashHasCause
    BY DEF ClaimInv, Claim, AddressClashHasCause
  <1>3. QED
    BY <1>1, <1>2, ShapeInit, ShapeNext, AloneInit, AloneNext, ClaimNext, PTL DEF Spec, ClaimAll
-----------------------------------------------------------------------------
(***************************************************************************)
(* Whose the used addresses are.                                           *)
(***************************************************************************)
\* It is enough that a step puts nothing into the pool that is not in use, and
\* that what is still used and was in use or leaked is so afterwards.
LEMMA LeakStep ==
  ASSUME LeakHasCause,
         \A ip \in used' : ip \in used \/ InUse(ip)',
         \A ip \in used' : ip \in leaked => ip \in leaked',
         \A ip \in used' : InUse(ip) => InUse(ip)' \/ ip \in leaked'
  PROVE  LeakHasCause'
  BY DEF LeakHasCause

LEMMA LeakNext == ShapeInv /\ AloneInv /\ LeakHasCause /\ [Next]_vars => LeakHasCause'
  <1> SUFFICES ASSUME ShapeInv, AloneInv, LeakHasCause, [Next]_vars PROVE LeakHasCause'
    OBVIOUS
  <1>a. /\ call \in [Callers -> [at : {"idle", "sent", "handling", "chosen", "answered"},
                                req : Request, ip : Ips \cup {NoIp}]]
        /\ lease \in [Callers -> Ips \cup {NoIp}]
        /\ used \in SUBSET Ips
        /\ Shape
    BY DEF ShapeInv, TypeOK, ApiTypeOK
  <1> USE <1>a, ApiAssumption
  <1>c. ASSUME UNCHANGED <<call, lease, used, leaked>> PROVE LeakHasCause'
    BY <1>c DEF LeakHasCause, InUse
  <1>d. ASSUME NEW c \in Callers, GiveUp(c), call[c].at \in {"sent", "handling"}
        PROVE  LeakHasCause'
    <2>1. \A ip \in Ips : InUse(ip) => InUse(ip)' \/ ip \in leaked'
      <3>1. ASSUME NEW ip \in Ips, NEW d \in Callers \ {c},
                   \/ lease[d] = ip
                   \/ call[d].at = "answered" /\ call[d].ip = ip
                   \/ /\ call[d].at \in {"sent", "handling"}
                      /\ IsRelease(call[d].req) /\ call[d].req.arg = ip
            PROVE  InUse(ip)'
        BY <1>d, <3>1 DEF GiveUp, InUse
      <3>2. ASSUME NEW ip \in Ips, lease[c] = ip PROVE InUse(ip)'
        BY <1>d, <3>2 DEF GiveUp, InUse
      <3>3. ASSUME NEW ip \in Ips, IsRelease(call[c].req), call[c].req.arg = ip
            PROVE  ip \in leaked'
        BY <1>d, <3>3 DEF GiveUp
      <3>4. QED
        BY <1>d, <3>1, <3>2, <3>3 DEF InUse
    <2>2. QED
      BY <1>d, <2>1, LeakStep DEF GiveUp
  <1>e. ASSUME NEW c \in Callers, Choose(c), lease[c] = NoIp,
               call[c].at = "idle" \/ ~IsRelease(call[c].req)
        PROVE  LeakHasCause'
    BY <1>e, LeakStep DEF Choose, InUse
  <1>1. CASE ViewStep /\ UNCHANGED apiVars
    BY <1>1, <1>c DEF apiVars
  <1>2. ASSUME NEW c \in Clients, SendReserve(c) PROVE LeakHasCause'
    BY <1>2, LeakStep DEF SendReserve, Send, InUse, Callers, Remote
  <1>3. ASSUME NEW c \in Clients, SendRelease(c) PROVE LeakHasCause'
    <2>1. PICK p \in {"address", "ip"}, o \in Open(c) :
            call' = [call EXCEPT ![c] = [at |-> "sent", ip |-> NoIp,
              req |-> [method |-> "DELETE", path |-> "nodeip", open |-> o,
                       param |-> p, arg |-> lease[c]]]]
      BY <1>3 DEF SendRelease, Send
    <2>2. call'[c].at = "sent" /\ IsRelease(call'[c].req) /\ call'[c].req.arg = lease[c]
      BY <2>1 DEF IsRelease, Callers, Remote
    <2>3. ASSUME NEW ip \in Ips, InUse(ip) PROVE InUse(ip)'
      <3>1. CASE lease[c] = ip
        BY <2>2, <3>1 DEF InUse, Callers, Remote
      <3>2. PICK d \in Callers :
              \/ lease[d] = ip
              \/ call[d].at = "answered" /\ call[d].ip = ip
              \/ /\ call[d].at \in {"sent", "handling"}
                 /\ IsRelease(call[d].req) /\ call[d].req.arg = ip
        BY <2>3 DEF InUse
      <3>3. CASE lease[c] # ip
        <4>1. d # c
          BY <1>3, <3>2, <3>3 DEF SendRelease
        <4>2. call'[d] = call[d] /\ lease'[d] = lease[d]
          BY <1>3, <2>1, <4>1 DEF SendRelease, Callers, Remote
        <4>3. QED
          BY <3>2, <4>2 DEF InUse
      <3>4. QED
        BY <3>1, <3>3
    <2>4. QED
      BY <1>3, <2>3, LeakStep DEF SendRelease
  <1>4. ASSUME NEW c \in Callers, Answer(c) \/ StoreLocal(c) PROVE LeakHasCause'
    <2>1. call[c].at = "answered" /\ lease[c] = NoIp
      BY <1>4 DEF Answer, StoreLocal, Shape
    <2>2. \A ip \in Ips : InUse(ip) => InUse(ip)' \/ ip \in leaked'
      BY <1>4, <2>1 DEF Answer, StoreLocal, InUse
    <2>3. QED
      BY <1>4, <2>2, LeakStep DEF Answer, StoreLocal
  <1>5. ASSUME NEW c \in Reporters, SendNode(c) PROVE LeakHasCause'
    BY <1>5, LeakStep DEF SendNode, Send, InUse, Callers, Remote
  <1>6. ASSUME NEW c \in Remote, ServerStep(c) PROVE LeakHasCause'
    <2>0. c \in Callers
      BY DEF Callers
    <2>1. CASE LoseRequest(c) \/ NoAddress(c) \/ actionNodeStarted(c)
      BY <2>0, <2>1, <1>d DEF LoseRequest, NoAddress, actionNodeStarted, Handles
    <2>2. CASE HandleRequest(c) /\ ~GiveUp(c)
      <3>1. /\ call' = [call EXCEPT ![c].at = "handling"] /\ call[c].at = "sent"
            /\ UNCHANGED <<used, lease, leaked>>
        BY <2>2 DEF HandleRequest
      <3>2. QED
        BY <2>0, <3>1, LeakStep DEF InUse
    <2>3. CASE actionReserveNodeIP(c)
      <3>1. ~IsRelease(call[c].req)
        BY <2>0, <2>3, Routing DEF actionReserveNodeIP, Handles
      <3>2. QED
        BY <2>0, <2>3, <3>1, <1>e DEF actionReserveNodeIP, Handles, Shape
    <2>4. CASE actionReleaseNodeIP(c)
      <3>1. call[c].at = "handling" /\ lease[c] = NoIp
        BY <2>0, <2>4 DEF actionReleaseNodeIP, Handles, Shape
      <3>2. \A d \in Callers \ {c} : call'[d] = call[d]
        BY <2>4 DEF actionReleaseNodeIP
      <3>3. UNCHANGED lease
        BY <2>4 DEF actionReleaseNodeIP
      <3>4. \A ip \in Ips : InUse(ip) /\ ip # call[c].req.arg => InUse(ip)'
        BY <2>0, <3>1, <3>2, <3>3 DEF InUse
      <3>5. QED
        BY <2>4, <3>4, LeakStep DEF actionReleaseNodeIP
    <2>5. CASE actionNodeStopped(c)
      <3>1. ~IsRelease(call[c].req) /\ call[c].at = "handling"
        BY <2>0, <2>5, Routing DEF actionNodeStopped, Handles
      <3>2. QED
        BY <2>0, <2>5, <3>1, LeakStep DEF actionNodeStopped, InUse
    <2>6. CASE HandleRequest(c) /\ GiveUp(c)
      BY <2>0, <2>6, <1>d DEF HandleRequest
    <2>7. QED
      BY <1>6, <2>1, <2>2, <2>3, <2>4, <2>5, <2>6 DEF ServerStep
  <1>7. ASSUME NEW l \in Locals, ReserveLocal(l) PROVE LeakHasCause'
    BY <1>7, <1>e DEF ReserveLocal, Callers
  <1>8. ASSUME NEW c \in Callers, Grant(c) PROVE LeakHasCause'
    BY <1>8, LeakStep DEF Grant, InUse
  <1>9. CASE StartLocal \/ Listen \/ Run \/ FailStart \/ StartFailed \/ EnterSetup
    BY <1>9, <1>c DEF StartLocal, Listen, Run, FailStart, StartFailed, EnterSetup, apiVars
  <1>10. ASSUME NEW l \in Locals, ReleaseLocal(l) PROVE LeakHasCause'
    <2>1. \A ip \in Ips : InUse(ip) /\ ip # lease[l] => InUse(ip)'
      BY <1>10 DEF ReleaseLocal, InUse
    <2>2. CASE used' = used \ {lease[l]} /\ UNCHANGED leaked
      BY <2>1, <2>2, LeakStep
    <2>3. CASE leaked' = leaked \cup {lease[l]} /\ UNCHANGED used
      BY <2>1, <2>3, LeakStep
    <2>4. QED
      BY <1>10, <2>2, <2>3 DEF ReleaseLocal
  <1>11. CASE EndProcess
    BY <1>11 DEF EndProcess, LeakHasCause
  <1>12. CASE UNCHANGED vars
    BY <1>12, <1>c DEF vars, apiVars
  <1>13. QED
    BY <1>1, <1>2, <1>3, <1>4, <1>5, <1>6, <1>7, <1>8, <1>9, <1>10, <1>11, <1>12
       DEF Next, ProcessStep, Callers, Remote

\* A used address belongs to somebody, is on its way, or was lost with an answer
\* or a release (clustermanager.go:461-479 and 713-734).
THEOREM LeaksAreKnown == Spec => []LeakHasCause
  <1>1. Init => LeakHasCause
    BY DEF Init, LeakHasCause
  <1>2. QED
    BY <1>1, ShapeInit, ShapeNext, AloneInit, AloneNext, LeakNext, PTL DEF Spec
-----------------------------------------------------------------------------
(***************************************************************************)
(* The pool as SharedPool describes it.                                    *)
(***************************************************************************)
\* The addresses the call of c may still return.
Offered(c) == IF call[c].at = "chosen" THEN {call[c].ip} ELSE {}
Offers == [c \in Callers |-> Offered(c)]

PoolStep == [Pool!Next \/ Pool!Restart]_<<used, Offers>>

\* What leaves the chosen calls and the used addresses alone is not seen.
LEMMA Unseen ==
  ASSUME UNCHANGED used, \A c \in Callers : Offered(c)' = Offered(c)
  PROVE  PoolStep
  BY DEF PoolStep, Offers

\* A call that is not between its choice and its store may become one that is
\* not, either.
LEMMA QuietCall ==
  ASSUME ShapeInv, NEW c \in Callers, call[c].at # "chosen", UNCHANGED used,
         NEW r, r.at # "chosen", call' = [call EXCEPT ![c] = r]
  PROVE  PoolStep
  <1>1. \A d \in Callers : Offered(d)' = Offered(d)
    BY DEF Offered, ShapeInv, TypeOK, ApiTypeOK
  <1>2. QED
    BY <1>1, Unseen

\* A choice is a look that stops at one address.
LEMMA ChoiceIsLook ==
  ASSUME ShapeInv, NEW c \in Callers, call[c].at # "chosen", Choose(c)
  PROVE  PoolStep
  <1>1. PICK ip \in Ips \ used : call' = [call EXCEPT ![c].at = "chosen", ![c].ip = ip]
    BY DEF Choose
  <1>2. Offers[c] = {} /\ Offers' = [Offers EXCEPT ![c] = {ip}] /\ UNCHANGED used
    <2>1. call'[c].at = "chosen" /\ call'[c].ip = ip /\ UNCHANGED used
      BY <1>1 DEF Choose, ShapeInv, TypeOK, ApiTypeOK
    <2>2. \A d \in Callers : d # c => call'[d] = call[d]
      BY <1>1 DEF ShapeInv, TypeOK, ApiTypeOK
    <2>3. Offered(c)' = {ip} /\ \A d \in Callers : d # c => Offered(d)' = Offered(d)
      BY <2>1, <2>2 DEF Offered
    <2>4. Offered(c) = {}
      BY DEF Offered
    <2>5. QED
      BY <2>1, <2>3, <2>4 DEF Offers
  <1>3. {ip} \in SUBSET (Ips \ used)
    OBVIOUS
  <1>4. QED
    BY <1>2, <1>3 DEF PoolStep, Offers, Offered, Pool!Next, Pool!Look

\* The start and the requests use the pool as its locks let several goroutines
\* use it, and a new process begins with an empty one: an address that is given
\* twice was chosen by two calls under way together, or is left from an earlier
\* process (clustermanager.go:461-479, cidr.go:63-98).
THEOREM RequestsShareThePool == Spec => PoolSpec
  <1>1. Init => Pool!Init
    BY DEF Init, Pool!Init, Idle
  <1>2. ShapeInv /\ AloneInv /\ [Next]_vars => PoolStep
    <2> SUFFICES ASSUME ShapeInv, AloneInv, [Next]_vars PROVE PoolStep
      OBVIOUS
    <2>a. Idle.at # "chosen"
      BY DEF Idle
    <2>b. ASSUME NEW c \in Callers, call[c].at # "chosen", GiveUp(c) PROVE PoolStep
      BY <2>a, <2>b, QuietCall DEF GiveUp
    <2>c. ASSUME NobodyChooses, NobodyChooses', used' \in SUBSET Ips PROVE PoolStep
      <3>1. Offers' = Offers /\ \A c \in Callers : Offers[c] = {}
        BY <2>c DEF NobodyChooses, Offers, Offered
      <3>2. QED
        BY <2>c, <3>1 DEF PoolStep, Offers, Offered, Pool!Next, Pool!Write
    <2>1. CASE ViewStep /\ UNCHANGED apiVars
      BY <2>1, Unseen DEF apiVars, Offered
    <2>2. ASSUME NEW c \in Remote, SendReserve(c) \/ SendRelease(c) \/ SendNode(c)
          PROVE  PoolStep
      <3>1. \E r : r.at = "sent" /\ call' = [call EXCEPT ![c] = r]
        BY <2>2 DEF SendReserve, SendRelease, SendNode, Send
      <3>2. call[c].at # "chosen" /\ UNCHANGED used /\ c \in Callers
        BY <2>2 DEF SendReserve, SendRelease, SendNode, Callers
      <3>3. QED
        BY <3>1, <3>2, QuietCall
    <2>3. ASSUME NEW c \in Callers, Answer(c) \/ StoreLocal(c) PROVE PoolStep
      BY <2>3, <2>a, QuietCall DEF Answer, StoreLocal
    <2>4. ASSUME NEW c \in Remote, ServerStep(c) PROVE PoolStep
      <3>0. c \in Callers
        BY DEF Callers
      <3>1. CASE LoseRequest(c) \/ NoAddress(c) \/ actionNodeStarted(c)
        BY <3>0, <3>1, <2>b DEF LoseRequest, NoAddress, actionNodeStarted, Handles
      <3>2. CASE HandleRequest(c)
        <4>1. CASE GiveUp(c)
          BY <3>0, <3>2, <4>1, <2>b DEF HandleRequest
        <4>2. CASE call' = [call EXCEPT ![c].at = "handling"] /\ UNCHANGED used
          BY <3>0, <3>2, <4>2, Unseen DEF HandleRequest, Offered, ShapeInv, TypeOK, ApiTypeOK
        <4>3. QED
          BY <3>2, <4>1, <4>2 DEF HandleRequest
      <3>3. CASE actionReserveNodeIP(c)
        BY <3>0, <3>3, ChoiceIsLook DEF actionReserveNodeIP, Handles
      <3>4. CASE actionReleaseNodeIP(c)
        <4>1. NobodyChooses /\ NobodyChooses'
          BY <3>0, <3>4, <2>a DEF actionReleaseNodeIP, NobodyChooses, ShapeInv, TypeOK, ApiTypeOK
        <4>2. used' \in SUBSET Ips
          BY <3>4 DEF actionReleaseNodeIP, ShapeInv, TypeOK, ApiTypeOK
        <4>3. QED
          BY <4>1, <4>2, <2>c
      <3>5. CASE actionNodeStopped(c)
        BY <3>0, <3>5, <2>a, QuietCall DEF actionNodeStopped, Handles
      <3>6. QED
        BY <2>4, <3>1, <3>2, <3>3, <3>4, <3>5 DEF ServerStep
    <2>5. ASSUME NEW l \in Locals, ReserveLocal(l) PROVE PoolStep
      BY <2>5, ChoiceIsLook DEF ReserveLocal, Callers
    <2>6. ASSUME NEW c \in Callers, Grant(c) PROVE PoolStep
      <3>1. Offers[c] = {call[c].ip} /\ used' = used \cup {call[c].ip}
        BY <2>6 DEF Grant, Offers, Offered
      <3>2. Offers' = [Offers EXCEPT ![c] = {}]
        BY <2>6 DEF Grant, Offers, Offered, ShapeInv, TypeOK, ApiTypeOK
      <3>3. QED
        BY <3>1, <3>2 DEF PoolStep, Offers, Offered, Pool!Next, Pool!Take
    <2>7. CASE StartLocal \/ Listen \/ Run \/ FailStart \/ StartFailed \/ EnterSetup
      BY <2>7, Unseen DEF StartLocal, Listen, Run, FailStart, StartFailed, EnterSetup,
         apiVars, Offered
    <2>8. ASSUME NEW l \in Locals, ReleaseLocal(l) PROVE PoolStep
      <3>1. CASE NobodyChooses /\ used' = used \ {lease[l]}
        <4>1. NobodyChooses' /\ used' \in SUBSET Ips
          BY <2>8, <3>1 DEF ReleaseLocal, NobodyChooses, ShapeInv, TypeOK, ApiTypeOK
        <4>2. QED
          BY <3>1, <4>1, <2>c
      <3>2. CASE UNCHANGED used
        BY <2>8, <3>2, Unseen DEF ReleaseLocal, Offered
      <3>3. QED
        BY <2>8, <3>1, <3>2 DEF ReleaseLocal
    <2>9. CASE EndProcess
      <3>1. used' = {} /\ Offers' = [c \in Callers |-> {}]
        BY <2>9, <2>a DEF EndProcess, Offers, Offered
      <3>2. QED
        BY <3>1 DEF PoolStep, Offers, Offered, Pool!Restart
    <2>10. CASE UNCHANGED vars
      BY <2>10, Unseen DEF vars, apiVars, Offered
    <2>11. QED
      BY <2>1, <2>2, <2>3, <2>4, <2>5, <2>6, <2>7, <2>8, <2>9, <2>10
         DEF Next, ProcessStep, Callers, Remote
  <1>3. QED
    BY <1>1, <1>2, ShapeInit, ShapeNext, AloneInit, AloneNext, PTL
       DEF Spec, PoolSpec, Pool!RestartedSpec, Pool!vars, PoolStep, Offers, Offered
=============================================================================
