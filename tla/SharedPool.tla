------------------------------ MODULE SharedPool ------------------------------
(***************************************************************************)
(* What the address pool of a cluster's network still promises when any    *)
(* number of goroutines reserve addresses at once: a GetFreeIp looks at    *)
(* the pool once, returns and stores an address it found free then, and    *)
(* until it has stored it no address is given back, or marked, by another  *)
(* call.  Only the other calls of GetFreeIp that are under way can have    *)
(* stored the same address meanwhile.                                      *)
(*                                                                         *)
(* CidrPool, with its locks, and ClusterApi, with its requests and the     *)
(* restarts of the process, both implement this specification: the two     *)
(* steps ClusterApi makes of a GetFreeIp assume no more than the locks     *)
(* provide.  IpAllocator is what the pool promises to a single caller.     *)
(***************************************************************************)
CONSTANTS Callers,  \* goroutines that call GetFreeIp
          Ips       \* the addresses of the network

VARIABLES used,     \* the addresses that are not free
          offer     \* offer[c]: the addresses the call of c may return

vars == <<used, offer>>

Init ==
  /\ used = {}
  /\ offer = [c \in Callers |-> {}]

\* c reads the pool; from here on it does not look again.
Look(c) ==
  /\ offer[c] = {}
  /\ \E S \in SUBSET (Ips \ used) : offer' = [offer EXCEPT ![c] = S]
  /\ UNCHANGED used

\* Some of the addresses answered a ping, or c has found none.
Narrow(c) ==
  /\ \E S \in SUBSET offer[c] : offer' = [offer EXCEPT ![c] = S]
  /\ UNCHANGED used

\* c returns an address that was free when it looked.
Take(c) ==
  /\ \E ip \in offer[c] : used' = used \cup {ip}
  /\ offer' = [offer EXCEPT ![c] = {}]

\* Addresses are marked or given back while no call is on its way from its
\* look to its answer.
Write ==
  /\ \A c \in Callers : offer[c] = {}
  /\ used' \in SUBSET Ips
  /\ UNCHANGED offer

Next == Write \/ \E c \in Callers : Look(c) \/ Narrow(c) \/ Take(c)

Spec == Init /\ [][Next]_vars

\* The process ends; the next one has an empty pool.
Restart == used' = {} /\ offer' = [c \in Callers |-> {}]

RestartedSpec == Init /\ [][Next \/ Restart]_vars
==============================================================================
