----------------------------- MODULE MCClusterApi -----------------------------
(* ClusterApi on small sets, see the cfg. *)
EXTENDS ClusterApi

\* The view and the pool share nothing but the process: a behaviour has either
\* two nodes and who reports them, or the clients that ask for addresses.
ViewOrPool ==
  UNION {{{n, k} \cup Reporters : k \in Nodes \ {n}} : n \in Nodes} \cup {Clients}
=============================================================================
