----------------------------- MODULE IpAllocator -----------------------------
(***************************************************************************)
(* What a caller expects of the address pool of a cluster's network: a     *)
(* node owns at most one address, an address has at most one owner, and an *)
(* address is handed out again only after its owner gave it back.          *)
(*                                                                         *)
(* CidrPool implements this specification as long as one goroutine makes   *)
(* the reservations; with two it does not.                                 *)
(***************************************************************************)
CONSTANTS Nodes,    \* the nodes an address is reserved for
          Ips,      \* the addresses
          NoIp      \* the owner has none

VARIABLE owned      \* owned[n]: the address node n owns, or NoIp

TypeOK == owned \in [Nodes -> Ips \cup {NoIp}]

Init == owned = [n \in Nodes |-> NoIp]

\* n gets an address nobody owns.
Allocate(n, ip) ==
  /\ owned[n] = NoIp
  /\ \A m \in Nodes : owned[m] # ip
  /\ owned' = [owned EXCEPT ![n] = ip]

\* n gives its address back.
Release(n) ==
  /\ owned[n] # NoIp
  /\ owned' = [owned EXCEPT ![n] = NoIp]

Next == \E n \in Nodes : Release(n) \/ \E ip \in Ips : Allocate(n, ip)

Spec == Init /\ [][Next]_owned
==============================================================================
