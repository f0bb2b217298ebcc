------------------------------- MODULE CidrPool -------------------------------
(***************************************************************************)
(* The address pool of a cluster's network (service/netutil/cidr.go) used  *)
(* by several goroutines: the configuration of the local nodes and one     *)
(* goroutine for every HTTP request of a remote node                       *)
(* (/cluster/reserve-nodeip, /cluster/release-nodeip).                     *)
(*                                                                         *)
(* A call is split where another goroutine can run in between: at every    *)
(* operation on the pool's RWMutex, and between the beginning and the end  *)
(* of every access to the map usedIps.  GetFreeIp stores into the map      *)
(* holding the READ lock only and takes that lock a second time in         *)
(* FreeIps; MarkIpUsed reads the map before it takes the lock.             *)
(*                                                                         *)
(* Abstracted: addresses are atoms (their order matters only for which of  *)
(* the unreachable addresses is taken, and Ping's answers are arbitrary),  *)
(* the time stored beside a used address is dropped (it is never read).    *)
(***************************************************************************)
EXTENDS Naturals

CONSTANTS Granters,   \* goroutines that call GetFreeIp
          Markers,    \* goroutines that call MarkIpUsed
          Releasers,  \* goroutines that call MarkIpUnused
          Readers,    \* goroutines that call FreeIps or UsedIps
          Nodes,      \* the nodes addresses are reserved for
          Addrs,      \* the addresses a caller can name
          Net,        \* those inside the network
          Hosts,      \* AllIps(): those of the network's hosts
          DefIp,      \* the address the CIDR was written with (this.ip)
          NoIp, NoNode, NoProc

Procs == Granters \cup Markers \cup Releasers \cup Readers

ASSUME AddrAssumption ==
  /\ Hosts \subseteq Net /\ Net \subseteq Addrs /\ DefIp \in Net
  /\ NoIp \notin Addrs
ASSUME NullAssumption == NoNode \notin Nodes /\ NoProc \notin Procs

VARIABLES
  pc,       \* pc[p]: where goroutine p is in its call
  op,       \* op[p]: the method p is executing
  node,     \* node[p]: the node p reserves or releases an address for
  cand,     \* cand[p]: the address the call is about
  snap,     \* snap[p]: the local list freeIps
  used,     \* the keys of the map usedIps
  holds,    \* holds[p]: read locks p holds; RWMutex read locks are counted
  queued,   \* goroutines blocked in RLock behind a pending writer
  writer,   \* the goroutine whose Lock() was announced, or NoProc
  lease,    \* lease[n]: the address node n believes is reserved for it
  fatal     \* the Go runtime stopped the program (concurrent map access)

vars == <<pc, op, node, cand, snap, used, holds, queued, writer, lease, fatal>>
locals == <<op, node, cand, snap>>
mutex == <<holds, queued, writer>>

Labels == {"idle", "nested", "scan", "scanning", "ping", "storing",
           "check", "lock", "drain", "write"}
Methods == {"none", "get", "free", "mark", "unmark"}

TypeOK ==
  /\ pc \in [Procs -> Labels]
  /\ op \in [Procs -> Methods]
  /\ node \in [Procs -> Nodes \cup {NoNode}]
  /\ cand \in [Procs -> Addrs \cup {NoIp}]
  /\ snap \in [Procs -> SUBSET Hosts]
  /\ used \in SUBSET Net
  /\ holds \in [Procs -> 0 .. 2]
  /\ queued \in SUBSET Procs
  /\ writer \in Procs \cup {NoProc}
  /\ lease \in [Nodes -> Net \cup {NoIp}]
  /\ fatal \in BOOLEAN

Init ==
  /\ pc = [p \in Procs |-> "idle"]
  /\ op = [p \in Procs |-> "none"]
  /\ node = [p \in Procs |-> NoNode]
  /\ cand = [p \in Procs |-> NoIp]
  /\ snap = [p \in Procs |-> {}]
  /\ used = {}
  /\ holds = [p \in Procs |-> 0]
  /\ queued = {}
  /\ writer = NoProc
  /\ lease = [n \in Nodes |-> NoIp]
  /\ fatal = FALSE
-----------------------------------------------------------------------------
(***************************************************************************)
(* sync.RWMutex.  Lock() first announces the writer, which makes every     *)
(* later RLock() wait, a nested one as well, and then waits for the readers *)
(* that are inside.  Unlock() lets in all the readers that wait before the *)
(* next writer can be announced.                                           *)
(***************************************************************************)
RLock(p) ==
  /\ IF writer = NoProc
     THEN holds' = [holds EXCEPT ![p] = @ + 1] /\ UNCHANGED queued
     ELSE queued' = queued \cup {p} /\ UNCHANGED holds
  /\ UNCHANGED writer

RUnlock(p) ==
  /\ holds' = [holds EXCEPT ![p] = @ - 1]
  /\ UNCHANGED <<queued, writer>>

AnnounceLock(p) ==
  /\ writer = NoProc
  /\ writer' = p
  /\ UNCHANGED <<holds, queued>>

ReadersGone == \A q \in Procs : holds[q] = 0

Unlock ==
  /\ writer' = NoProc
  /\ holds' = [q \in Procs |-> IF q \in queued THEN holds[q] + 1 ELSE holds[q]]
  /\ queued' = {}

\* p is at a label and not blocked in the RLock that precedes it.
At(p, l) == ~fatal /\ pc[p] = l /\ p \notin queued

Goto(p, l) == pc' = [pc EXCEPT ![p] = l]

\* p starts method m about address ip of node n.
Call(p, m, n, ip) ==
  /\ At(p, "idle")
  /\ op' = [op EXCEPT ![p] = m]
  /\ node' = [node EXCEPT ![p] = n]
  /\ cand' = [cand EXCEPT ![p] = ip]
  /\ UNCHANGED <<snap, fatal>>

\* p returns to its caller.
Return(p) ==
  /\ Goto(p, "idle")
  /\ op' = [op EXCEPT ![p] = "none"]
  /\ node' = [node EXCEPT ![p] = NoNode]
  /\ cand' = [cand EXCEPT ![p] = NoIp]
  /\ snap' = [snap EXCEPT ![p] = {}]

\* No other call about node n is under way.
Untouched(n) == \A q \in Procs : node[q] # n
-----------------------------------------------------------------------------
(***************************************************************************)
(* GetFreeIp: RLock; FreeIps (RLock, read the map, RUnlock); Ping the free *)
(* addresses until one does not answer; store it; RUnlock.                 *)
(***************************************************************************)
CallGetFreeIp(p, n) ==
  /\ p \in Granters
  /\ lease[n] = NoIp /\ Untouched(n)
  /\ Call(p, "get", n, NoIp)
  /\ RLock(p)
  /\ Goto(p, "nested")
  /\ UNCHANGED <<used, lease>>

EnterFreeIps(p) ==
  /\ At(p, "nested")
  /\ RLock(p)
  /\ Goto(p, "scan")
  /\ UNCHANGED <<locals, used, lease, fatal>>

CallFreeIps(p) ==
  /\ p \in Readers
  /\ Call(p, "free", NoNode, NoIp)
  /\ RLock(p)
  /\ Goto(p, "scan")
  /\ UNCHANGED <<used, lease>>

\* Slip: all the addresses of the network are listed.
BeginScanAll(p) ==
  /\ At(p, "scan")
  /\ Goto(p, "scanning")
  /\ snap' = [snap EXCEPT ![p] = Hosts]
  /\ UNCHANGED <<op, node, cand, used, lease, fatal, mutex>>

BeginScan(p) ==
  /\ At(p, "scan")
  /\ Goto(p, "scanning")
  /\ snap' = [snap EXCEPT ![p] = Hosts \ used]
  /\ UNCHANGED <<op, node, cand, used, lease, fatal, mutex>>

\* An address another goroutine stored during the scan is found free or used.
ScanResults(p) == {s \in SUBSET snap[p] : snap[p] \ used \subseteq s}

EndScan(p) ==
  /\ At(p, "scanning")
  /\ RUnlock(p)
  /\ IF op[p] = "free"
     THEN Return(p)
     ELSE /\ Goto(p, "ping")
          /\ \E s \in ScanResults(p) : snap' = [snap EXCEPT ![p] = s]
          /\ UNCHANGED <<op, node, cand>>
  /\ UNCHANGED <<used, lease, fatal>>

\* Slip: the early return of an exhausted pool without the deferred RUnlock.
PingNoUnlock(p) ==
  /\ At(p, "ping")
  /\ \/ \E ip \in snap[p] :
          /\ cand' = [cand EXCEPT ![p] = ip]
          /\ Goto(p, "storing")
          /\ UNCHANGED <<op, node, snap, mutex>>
     \/ Return(p) /\ UNCHANGED mutex
  /\ UNCHANGED <<used, lease, fatal>>

\* The first address whose ping is not answered, or none.
Ping(p) ==
  /\ At(p, "ping")
  /\ \/ \E ip \in snap[p] :
          /\ cand' = [cand EXCEPT ![p] = ip]
          /\ Goto(p, "storing")
          /\ UNCHANGED <<op, node, snap, mutex>>
     \/ Return(p) /\ RUnlock(p)
  /\ UNCHANGED <<used, lease, fatal>>

\* Slip: the address is returned without being remembered.
GrantForgotten(p) ==
  /\ At(p, "storing")
  /\ lease' = [lease EXCEPT ![node[p]] = cand[p]]
  /\ RUnlock(p)
  /\ Return(p)
  /\ UNCHANGED <<used, fatal>>

Grant(p) ==
  /\ At(p, "storing")
  /\ used' = used \cup {cand[p]}
  /\ lease' = [lease EXCEPT ![node[p]] = cand[p]]
  /\ RUnlock(p)
  /\ Return(p)
  /\ UNCHANGED fatal
-----------------------------------------------------------------------------
(***************************************************************************)
(* MarkIpUsed and MarkIpUnused.                                            *)
(***************************************************************************)
CallMarkIpUsed(p, n, ip) ==
  /\ p \in Markers
  /\ lease[n] = NoIp /\ Untouched(n)
  /\ Call(p, "mark", n, ip)
  /\ Goto(p, "check")
  /\ UNCHANGED <<used, lease, mutex>>

\* Slip: a used address is not refused.
CheckIpNotUsed(p) ==
  /\ At(p, "check")
  /\ IF cand[p] = DefIp \/ cand[p] \notin Net
     THEN Return(p)
     ELSE Goto(p, "lock") /\ UNCHANGED locals
  /\ UNCHANGED <<used, lease, fatal, mutex>>

\* The three refusals, evaluated before the lock is taken.
CheckIp(p) ==
  /\ At(p, "check")
  /\ IF cand[p] \in used \/ cand[p] = DefIp \/ cand[p] \notin Net
     THEN Return(p)
     ELSE Goto(p, "lock") /\ UNCHANGED locals
  /\ UNCHANGED <<used, lease, fatal, mutex>>

\* The owner stops using its address when it calls.
CallMarkIpUnused(p, n) ==
  /\ p \in Releasers
  /\ lease[n] # NoIp /\ Untouched(n)
  /\ Call(p, "unmark", n, lease[n])
  /\ lease' = [lease EXCEPT ![n] = NoIp]
  /\ Goto(p, "lock")
  /\ UNCHANGED <<used, mutex>>

LockPool(p) ==
  /\ At(p, "lock")
  /\ AnnounceLock(p)
  /\ Goto(p, "drain")
  /\ UNCHANGED <<locals, used, lease, fatal>>

\* Slip: the map is written without waiting for the readers.
DrainNobody(p) ==
  /\ At(p, "drain")
  /\ Goto(p, "write")
  /\ UNCHANGED <<locals, used, lease, fatal, mutex>>

DrainReaders(p) ==
  /\ At(p, "drain")
  /\ ReadersGone
  /\ Goto(p, "write")
  /\ UNCHANGED <<locals, used, lease, fatal, mutex>>

MarkUsed(p) ==
  /\ At(p, "write") /\ op[p] = "mark"
  /\ used' = used \cup {cand[p]}
  /\ lease' = [lease EXCEPT ![node[p]] = cand[p]]
  /\ Unlock
  /\ Return(p)
  /\ UNCHANGED fatal

MarkUnused(p) ==
  /\ At(p, "write") /\ op[p] = "unmark"
  /\ used' = used \ {cand[p]}
  /\ Unlock
  /\ Return(p)
  /\ UNCHANGED <<lease, fatal>>
-----------------------------------------------------------------------------
Writing == {p \in Procs : pc[p] \in {"storing", "write"}}
Reading == {p \in Procs : p \notin queued /\ pc[p] \in {"scanning", "check"}}

\* A map access that overlaps a write may be detected by the Go runtime,
\* which ends the program ("fatal error: concurrent map ...").
MapRace ==
  /\ ~fatal
  /\ \E p \in Writing : (Writing \cup Reading) \ {p} # {}
  /\ fatal' = TRUE
  /\ UNCHANGED <<pc, locals, used, mutex, lease>>

\* A call goes on.
Step(p) ==
  \/ EnterFreeIps(p) \/ BeginScan(p) \/ EndScan(p) \/ Ping(p) \/ Grant(p)
  \/ CheckIp(p) \/ LockPool(p) \/ DrainReaders(p) \/ MarkUsed(p) \/ MarkUnused(p)

NewCall(p) ==
  \/ CallFreeIps(p)
  \/ \E n \in Nodes : CallGetFreeIp(p, n) \/ CallMarkIpUnused(p, n)
  \/ \E n \in Nodes, ip \in Addrs : CallMarkIpUsed(p, n, ip)

Next == MapRace \/ \E p \in Procs : Step(p) \/ NewCall(p)

Spec == Init /\ [][Next]_vars

\* The Go scheduler runs every runnable goroutine, and sync.Mutex hands the
\* lock over to a waiter that has waited for long: strong fairness for it.
Fairness == \A p \in Procs : WF_vars(Step(p)) /\ SF_vars(LockPool(p))
FairSpec == Spec /\ Fairness
-----------------------------------------------------------------------------
(***************************************************************************)
(* Properties.                                                             *)
(***************************************************************************)
\* While a goroutine holds the write lock no other one has a read lock, is
\* inside another critical section of the pool, or is storing: the exclusion
\* MarkIpUsed and MarkIpUnused rely on when they write the map.
WriteExclusive ==
  \A p \in Procs : pc[p] = "write" =>
    \A q \in Procs : holds[q] = 0 /\ (q # p => pc[q] # "write")

\* No address becomes free while somebody holds a read lock: what GetFreeIp
\* saw used at its first RLock cannot be what it returns, however long the
\* pings take.
NoReleaseUnderRLock ==
  [][(\E p \in Procs : holds[p] > 0) => used \subseteq used']_vars

\* Two nodes never have the same address, which is what the test
\* cidr_test.go:207 expects of two calls of GetFreeIp.
NoDoubleGrant ==
  \A m, n \in Nodes : lease[m] = lease[n] /\ lease[m] # NoIp => m = n

\* An address a node has is used in the pool: it cannot be granted again.
LeasesAreUsed == \A n \in Nodes : lease[n] # NoIp => lease[n] \in used

\* The read locks a goroutine needs where it is; it waits for the last one of
\* them while it is queued.
ReadLocks(p) ==
  IF pc[p] \in {"nested", "ping", "storing"} THEN 1
  ELSE IF pc[p] \notin {"scan", "scanning"} THEN 0
  ELSE IF op[p] = "free" THEN 1 ELSE 2

\* The method a goroutine executes fits where it is and what it works on.
CallInv ==
  \A p \in Procs :
    /\ pc[p] \in {"nested", "ping", "storing"} => op[p] = "get"
    /\ pc[p] \in {"scan", "scanning"} => op[p] \in {"get", "free"}
    /\ pc[p] = "check" => op[p] = "mark"
    /\ pc[p] \in {"lock", "drain", "write"} => op[p] \in {"mark", "unmark"}
    /\ pc[p] = "idle" => op[p] = "none"
    /\ op[p] \in {"get", "mark", "unmark"} => node[p] \in Nodes
    /\ op[p] = "get" => p \in Granters
    /\ op[p] = "mark" => p \in Markers
    /\ pc[p] \in {"storing", "lock", "drain", "write"} => cand[p] \in Net

\* The state of the mutex follows from where the goroutines are.
MutexInv ==
  /\ \A p \in Procs :
       /\ holds[p] = IF p \in queued THEN ReadLocks(p) - 1 ELSE ReadLocks(p)
       /\ pc[p] \in {"drain", "write"} <=> writer = p
       /\ pc[p] = "write" => \A q \in Procs : holds[q] = 0
       /\ p \in queued => pc[p] \in {"nested", "scan"}
  /\ queued # {} => writer # NoProc

\* The inductive invariant of the calls and the mutex.  It says why the pool
\* is safe as far as it is: every read lock is accounted for, so a writer that
\* found the readers gone stays alone until it unlocks.
PoolInv == TypeOK /\ CallInv /\ MutexInv

\* One goroutine makes all the reservations.
SerialGrants == \A p, q \in Granters \cup Markers : p = q

\* What a single granting goroutine knows of the map while it is between
\* reading and writing it, and what a release under way still covers.
GrantInv ==
  /\ \A p \in Procs :
       /\ op[p] \in {"get", "mark"} => lease[node[p]] = NoIp
       /\ op[p] = "get" /\ pc[p] \in {"scanning", "ping"} => snap[p] \cap used = {}
       /\ pc[p] = "storing" => cand[p] \notin used
       /\ op[p] = "mark" /\ pc[p] # "check" => cand[p] \notin used
       /\ op[p] = "unmark" => cand[p] \in used /\ \A n \in Nodes : lease[n] # cand[p]
  /\ \A p, q \in Procs :
       op[p] = "unmark" /\ op[q] = "unmark" /\ cand[p] = cand[q] => p = q
  /\ NoDoubleGrant
  /\ LeasesAreUsed

\* GetFreeIp waits in FreeIps behind a writer that waits for GetFreeIp.
NestedDeadlock == \E p \in queued : holds[p] > 0

\* Once a writer got between the two RLocks of GetFreeIp, nothing but the end
\* of the program dissolves it: every later call on the pool hangs as well.
NestedDeadlockIsForever == [][NestedDeadlock => NestedDeadlock']_vars

\* A call returns unless the nested RLock hangs the pool or the runtime ended
\* the program: there is no other way to wait forever.
CallsReturnOrHang ==
  \A p \in Procs : pc[p] # "idle" ~> (pc[p] = "idle" \/ NestedDeadlock \/ fatal)

\* Every call returns, as the sequence of reservations and releases in
\* cidr_test.go:230 does.
CallsReturn == \A p \in Procs : pc[p] # "idle" ~> (pc[p] = "idle" \/ fatal)

\* The pool as its callers expect it.
Allocator == INSTANCE IpAllocator WITH Ips <- Net, owned <- lease
AllocatorSpec == Allocator!Spec

\* The addresses the GetFreeIp of p may still return.
Offer(p) ==
  IF op[p] # "get" THEN {}
  ELSE IF pc[p] \in {"scanning", "ping"} THEN snap[p]
  ELSE IF pc[p] = "storing" THEN {cand[p]}
  ELSE {}

\* The pool as several reserving goroutines share it: each stores an address
\* it saw free, and nothing but another GetFreeIp that is under way as well can
\* change the pool in between.
Shared == INSTANCE SharedPool
            WITH Callers <- Granters, Ips <- Net, offer <- [p \in Granters |-> Offer(p)]
SharedSpec == Shared!Spec
=============================================================================
