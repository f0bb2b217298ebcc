---------------------------- MODULE CidrPoolProofs ----------------------------
(***************************************************************************)
(* Proofs about CidrPool: the exclusion its mutex provides, for any number *)
(* of goroutines, nodes and addresses; that a hang in the nested RLock is  *)
(* final; and that with one reserving goroutine the pool implements        *)
(* IpAllocator.                                                            *)
(***************************************************************************)
EXTENDS CidrPool, TLAPS

\* PoolInv holds initially: nobody is in a call and all locks are free.
LEMMA PoolInvInit == Init => PoolInv
  <1> SUFFICES ASSUME Init PROVE PoolInv
    OBVIOUS
  <1>1. TypeOK
    <2>1. pc \in [Procs -> Labels] /\ op \in [Procs -> Methods]
      BY DEF Init, Labels, Methods
    <2>2. node \in [Procs -> Nodes \cup {NoNode}] /\ cand \in [Procs -> Addrs \cup {NoIp}]
      BY DEF Init
    <2>3. snap \in [Procs -> SUBSET Hosts] /\ used \in SUBSET Net
      BY DEF Init
    <2>4. holds \in [Procs -> 0 .. 2] /\ queued \in SUBSET Procs
      BY DEF Init
    <2>5. writer \in Procs \cup {NoProc} /\ lease \in [Nodes -> Net \cup {NoIp}]
      BY DEF Init
    <2>6. QED
      BY <2>1, <2>2, <2>3, <2>4, <2>5 DEF Init, TypeOK
  <1>2. CallInv
    BY DEF Init, CallInv
  <1>3. MutexInv
    BY NullAssumption DEF Init, MutexInv, ReadLocks
  <1>4. QED
    BY <1>1, <1>2, <1>3 DEF PoolInv

\* Starting a call keeps PoolInv.
LEMMA NewCallPoolInv ==
  ASSUME PoolInv, NEW p \in Procs, NewCall(p)
  PROVE  PoolInv'
  <1> USE AddrAssumption, NullAssumption
      DEF PoolInv, TypeOK, CallInv, MutexInv, ReadLocks, Labels, Methods,
          Call, At, Goto, RLock, mutex
  <1>1. CASE CallFreeIps(p)
    BY <1>1 DEF CallFreeIps
  <1>2. ASSUME NEW n \in Nodes, CallGetFreeIp(p, n) PROVE PoolInv'
    BY <1>2 DEF CallGetFreeIp
  <1>3. ASSUME NEW n \in Nodes, CallMarkIpUnused(p, n) PROVE PoolInv'
    BY <1>3 DEF CallMarkIpUnused
  <1>4. ASSUME NEW n \in Nodes, NEW ip \in Addrs, CallMarkIpUsed(p, n, ip) PROVE PoolInv'
    BY <1>4 DEF CallMarkIpUsed
  <1>5. QED
    BY <1>1, <1>2, <1>3, <1>4 DEF NewCall

\* Every step of a call keeps PoolInv.
LEMMA StepPoolInv ==
  ASSUME PoolInv, NEW p \in Procs, Step(p)
  PROVE  PoolInv'
  <1> USE AddrAssumption, NullAssumption
      DEF PoolInv, TypeOK, CallInv, MutexInv, ReadLocks, Labels, Methods,
          At, Goto, Return, locals, mutex
  <1>1. CASE EnterFreeIps(p)
    BY <1>1 DEF EnterFreeIps, RLock
  <1>2. CASE BeginScan(p)
    BY <1>2 DEF BeginScan
  <1>3. CASE EndScan(p)
    BY <1>3 DEF EndScan, RUnlock, ScanResults
  <1>4. CASE Ping(p)
    BY <1>4 DEF Ping, RUnlock
  <1>5. CASE Grant(p)
    BY <1>5 DEF Grant, RUnlock
  <1>6. CASE CheckIp(p)
    BY <1>6 DEF CheckIp
  <1>7. CASE LockPool(p)
    BY <1>7 DEF LockPool, AnnounceLock
  <1>8. CASE DrainReaders(p)
    BY <1>8 DEF DrainReaders, ReadersGone
  <1>9. CASE MarkUsed(p)
    BY <1>9 DEF MarkUsed, Unlock
  <1>10. CASE MarkUnused(p)
    BY <1>10 DEF MarkUnused, Unlock
  <1>11. QED
    BY <1>1, <1>2, <1>3, <1>4, <1>5, <1>6, <1>7, <1>8, <1>9, <1>10 DEF Step

\* PoolInv is inductive: also the end of the program and stuttering keep it.
LEMMA NextPoolInv == PoolInv /\ [Next]_vars => PoolInv'
  <1> SUFFICES ASSUME PoolInv, [Next]_vars PROVE PoolInv'
    OBVIOUS
  <1>1. CASE MapRace
    BY <1>1 DEF MapRace, locals, mutex, PoolInv, TypeOK, CallInv, MutexInv, ReadLocks
  <1>2. CASE UNCHANGED vars
    BY <1>2 DEF vars, PoolInv, TypeOK, CallInv, MutexInv, ReadLocks
  <1>3. QED
    BY <1>1, <1>2, StepPoolInv, NewCallPoolInv DEF Next

\* The variables have their types, every goroutine is in a method that fits
\* where it is, and every read lock is accounted for: in each reachable state,
\* for any sets of goroutines, nodes and addresses.
THEOREM PoolInvariant == Spec => []PoolInv
  BY PoolInvInit, NextPoolInv, PTL DEF Spec

\* A goroutine that writes the map under the write lock is alone with it among
\* those that hold a lock (cidr.go:88-98).
THEOREM WriterIsAlone == Spec => []WriteExclusive
  <1>1. PoolInv => WriteExclusive
    BY DEF PoolInv, MutexInv, WriteExclusive
  <1>2. QED
    BY <1>1, PoolInvariant, PTL

\* The only step that makes an address free is the delete of MarkIpUnused,
\* which the read lock of a GetFreeIp under way keeps out.
THEOREM NoReleaseDuringGrant == Spec => NoReleaseUnderRLock
  <1>1. PoolInv /\ [Next]_vars => [(\E p \in Procs : holds[p] > 0) => used \subseteq used']_vars
    <2> SUFFICES ASSUME PoolInv, Next, NEW r \in Procs, holds[r] > 0
                 PROVE  used \subseteq used'
      OBVIOUS
    <2>1. ASSUME NEW p \in Procs, MarkUnused(p) PROVE FALSE
      BY <2>1 DEF MarkUnused, At, PoolInv, MutexInv, TypeOK
    <2>2. ASSUME NEW p \in Procs, Step(p) PROVE used \subseteq used'
      BY <2>1, <2>2 DEF Step, EnterFreeIps, BeginScan, EndScan, Ping, Grant, CheckIp,
           LockPool, DrainReaders, MarkUsed
    <2>3. ASSUME NEW p \in Procs, NewCall(p) PROVE used \subseteq used'
      BY <2>3 DEF NewCall, CallFreeIps, CallGetFreeIp, CallMarkIpUnused, CallMarkIpUsed
    <2>4. QED
      BY <2>2, <2>3 DEF Next, MapRace
  <1>2. QED
    BY <1>1, PoolInvariant, PTL DEF Spec, NoReleaseUnderRLock

\* The hang of the nested RLock is final (cidr.go:64-66 and 100): the writer
\* waits for the goroutine that waits for the writer, and nobody else can
\* unlock for either of them.
THEOREM NestedDeadlockIsFinal == Spec => NestedDeadlockIsForever
  <1>1. PoolInv /\ [Next]_vars => [NestedDeadlock => NestedDeadlock']_vars
    <2> SUFFICES ASSUME PoolInv, Next, NEW r \in queued, holds[r] > 0
                 PROVE  NestedDeadlock'
      BY DEF NestedDeadlock
    <2> USE DEF NestedDeadlock, At
    <2>1. r \in Procs /\ ~ReadersGone /\ writer # NoProc
      BY DEF PoolInv, TypeOK, MutexInv, ReadersGone
    <2>2. \A p \in Procs : pc[p] # "write"
      BY <2>1 DEF PoolInv, TypeOK, MutexInv
    <2>3. ASSUME NEW p \in Procs, Step(p) PROVE NestedDeadlock'
      <3>1. p # r /\ ~MarkUsed(p) /\ ~MarkUnused(p) /\ ~DrainReaders(p) /\ ~LockPool(p)
        BY <2>1, <2>2, <2>3 DEF Step, MarkUsed, MarkUnused, DrainReaders, LockPool,
             AnnounceLock, EnterFreeIps, BeginScan, EndScan, Ping, Grant, CheckIp
      <3>2. CASE EnterFreeIps(p)
        BY <3>1, <3>2, <2>1 DEF EnterFreeIps, RLock, PoolInv, TypeOK
      <3>3. CASE BeginScan(p) \/ CheckIp(p)
        BY <3>3 DEF BeginScan, CheckIp, mutex
      <3>4. CASE EndScan(p) \/ Ping(p) \/ Grant(p)
        BY <3>1, <3>4, <2>1 DEF EndScan, Ping, Grant, RUnlock, mutex, PoolInv, TypeOK
      <3>5. QED
        BY <2>3, <3>1, <3>2, <3>3, <3>4 DEF Step
    <2>4. ASSUME NEW p \in Procs, NewCall(p) PROVE NestedDeadlock'
      <3>1. p # r
        BY <2>4 DEF NewCall, CallFreeIps, CallGetFreeIp, CallMarkIpUnused,
             CallMarkIpUsed, Call
      <3>2. QED
        BY <2>4, <3>1, <2>1 DEF NewCall, CallFreeIps, CallGetFreeIp, CallMarkIpUnused,
             CallMarkIpUsed, RLock, mutex, PoolInv, TypeOK
    <2>5. QED
      BY <2>3, <2>4 DEF Next, MapRace, mutex
  <1>2. QED
    BY <1>1, PoolInvariant, PTL DEF Spec, NestedDeadlockIsForever

-----------------------------------------------------------------------------
(***************************************************************************)
(* With one reserving goroutine nobody else adds to the map between its    *)
(* scan and its store, nor between the check of MarkIpUsed and its write.  *)
(***************************************************************************)
LEMMA GrantInvInit == Init => GrantInv
  BY DEF Init, GrantInv, NoDoubleGrant, LeasesAreUsed

\* The starts of calls keep GrantInv; a release takes the address from the
\* node before the pool forgets it.
LEMMA NewCallGrantInv ==
  ASSUME SerialGrants, PoolInv, GrantInv, NEW p \in Procs, NewCall(p)
  PROVE  GrantInv'
  <1> USE AddrAssumption, NullAssumption
      DEF PoolInv, TypeOK, CallInv, GrantInv, NoDoubleGrant, LeasesAreUsed, SerialGrants,
          Call, At, Goto
  <1>1. CASE CallFreeIps(p)
    BY <1>1 DEF CallFreeIps
  <1>2. ASSUME NEW n \in Nodes, CallGetFreeIp(p, n) PROVE GrantInv'
    BY <1>2 DEF CallGetFreeIp
  <1>3. ASSUME NEW n \in Nodes, CallMarkIpUnused(p, n) PROVE GrantInv'
    BY <1>3 DEF CallMarkIpUnused, Untouched
  <1>4. ASSUME NEW n \in Nodes, NEW ip \in Addrs, CallMarkIpUsed(p, n, ip) PROVE GrantInv'
    BY <1>4 DEF CallMarkIpUsed
  <1>5. QED
    BY <1>1, <1>2, <1>3, <1>4 DEF NewCall

\* The steps of calls keep GrantInv.
LEMMA StepGrantInv ==
  ASSUME SerialGrants, PoolInv, GrantInv, NEW p \in Procs, Step(p)
  PROVE  GrantInv'
  <1> USE AddrAssumption, NullAssumption
      DEF PoolInv, TypeOK, CallInv, GrantInv, NoDoubleGrant, LeasesAreUsed, SerialGrants,
          At, Goto, Return, locals
  <1>1. CASE EnterFreeIps(p)
    BY <1>1 DEF EnterFreeIps
  <1>2. CASE BeginScan(p)
    BY <1>2 DEF BeginScan
  <1>3. CASE EndScan(p)
    BY <1>3 DEF EndScan, ScanResults
  <1>4. CASE Ping(p)
    BY <1>4 DEF Ping
  <1>5. CASE Grant(p)
    BY <1>5 DEF Grant
  <1>6. CASE CheckIp(p)
    BY <1>6 DEF CheckIp
  <1>7. CASE LockPool(p)
    BY <1>7 DEF LockPool
  <1>8. CASE DrainReaders(p)
    BY <1>8 DEF DrainReaders
  <1>9. CASE MarkUsed(p)
    BY <1>9 DEF MarkUsed
  <1>10. CASE MarkUnused(p)
    BY <1>10 DEF MarkUnused, MutexInv, ReadLocks
  <1>11. QED
    BY <1>1, <1>2, <1>3, <1>4, <1>5, <1>6, <1>7, <1>8, <1>9, <1>10 DEF Step

\* GrantInv is inductive relative to PoolInv.
LEMMA NextGrantInv ==
  ASSUME SerialGrants
  PROVE  PoolInv /\ GrantInv /\ [Next]_vars => GrantInv'
  <1> SUFFICES ASSUME PoolInv, GrantInv, [Next]_vars PROVE GrantInv'
    OBVIOUS
  <1>1. CASE MapRace
    BY <1>1 DEF MapRace, locals, GrantInv, NoDoubleGrant, LeasesAreUsed
  <1>2. CASE UNCHANGED vars
    BY <1>2 DEF vars, GrantInv, NoDoubleGrant, LeasesAreUsed
  <1>3. QED
    BY <1>1, <1>2, SerialGrants, StepGrantInv, NewCallGrantInv DEF Next

\* With a single reserving goroutine the grant invariant always holds.
THEOREM GrantInvariant ==
  ASSUME SerialGrants
  PROVE  Spec => []GrantInv
  <1>1. PoolInv /\ GrantInv /\ [Next]_vars => GrantInv'
    BY SerialGrants, NextGrantInv
  <1>2. QED
    BY <1>1, GrantInvInit, PoolInvariant, PTL DEF Spec

\* With a single reserving goroutine no two nodes get the same address,
\* whatever releases and queries run beside it (cidr.go:63-98).
THEOREM NoDoubleGrantWhenSerial ==
  ASSUME SerialGrants
  PROVE  Spec => []NoDoubleGrant
  <1>1. GrantInv => NoDoubleGrant
    BY DEF GrantInv
  <1>2. Spec => []GrantInv
    BY SerialGrants, GrantInvariant
  <1>3. QED
    BY <1>1, <1>2, PTL

\* The grant of GetFreeIp and the write of MarkIpUsed are the allocations of
\* IpAllocator, the start of a release is its release; all else is invisible.
THEOREM PoolImplementsAllocator ==
  ASSUME SerialGrants
  PROVE  Spec => AllocatorSpec
  <1> USE DEF Allocator!Next, Allocator!Allocate, Allocator!Release
  <1>1. Init => Allocator!Init
    BY DEF Init, Allocator!Init
  <1>2. PoolInv /\ GrantInv /\ [Next]_vars => [Allocator!Next]_lease
    <2> SUFFICES ASSUME PoolInv, GrantInv, Next PROVE [Allocator!Next]_lease
      BY DEF vars
    <2>1. ASSUME NEW p \in Procs, Grant(p) \/ MarkUsed(p) PROVE [Allocator!Next]_lease
      <3>1. node[p] \in Nodes /\ cand[p] \in Net /\ lease[node[p]] = NoIp
        BY <2>1 DEF Grant, MarkUsed, At, PoolInv, CallInv, GrantInv
      <3>2. \A m \in Nodes : lease[m] # cand[p]
        BY <2>1, <3>1, AddrAssumption DEF Grant, MarkUsed, At, GrantInv, LeasesAreUsed
      <3>3. lease' = [lease EXCEPT ![node[p]] = cand[p]]
        BY <2>1 DEF Grant, MarkUsed
      <3>4. QED
        BY <3>1, <3>2, <3>3
    <2>2. ASSUME NEW p \in Procs, Step(p), ~Grant(p), ~MarkUsed(p) PROVE lease' = lease
      BY <2>2 DEF Step, EnterFreeIps, BeginScan, EndScan, Ping, CheckIp, LockPool,
           DrainReaders, MarkUnused
    <2>3. ASSUME NEW p \in Procs, NEW n \in Nodes, CallMarkIpUnused(p, n)
          PROVE  [Allocator!Next]_lease
      BY <2>3 DEF CallMarkIpUnused
    <2>4. ASSUME NEW p \in Procs, NewCall(p) PROVE [Allocator!Next]_lease
      BY <2>3, <2>4 DEF NewCall, CallFreeIps, CallGetFreeIp, CallMarkIpUsed
    <2>5. QED
      BY <2>1, <2>2, <2>4 DEF Next, MapRace
  <1>3. Spec => []GrantInv
    BY SerialGrants, GrantInvariant
  <1>4. QED
    BY <1>1, <1>2, <1>3, PoolInvariant, PTL DEF Spec, AllocatorSpec, Allocator!Spec

-----------------------------------------------------------------------------
(***************************************************************************)
(* Any number of reserving goroutines.                                     *)
(***************************************************************************)
\* While the map is written under the write lock no GetFreeIp is between its
\* look at the map and its store: it would have a read lock.
LEMMA NoOfferDuringWrite ==
  ASSUME PoolInv, NEW p \in Procs, pc[p] = "write", NEW q \in Granters
  PROVE  Offer(q) = {}
  <1>1. q \in Procs /\ holds[q] = 0
    BY DEF PoolInv, MutexInv, Procs
  <1>2. pc[q] \in {"scanning", "ping", "storing"} => q \notin queued /\ ReadLocks(q) # 0
    BY <1>1 DEF PoolInv, MutexInv, ReadLocks
  <1>3. QED
    BY <1>1, <1>2 DEF PoolInv, MutexInv, Offer

\* The look of GetFreeIp is its scan, the store under the read lock is what it
\* takes; the writes of MarkIpUsed and MarkIpUnused find no call in between.
\* However many goroutines reserve at once, an address is given twice only by
\* calls of GetFreeIp that were under way together (cidr.go:63-98).
THEOREM PoolIsShared == Spec => SharedSpec
  <1> DEFINE offer == [p \in Granters |-> Offer(p)]
  <1>1. Init => Shared!Init
    BY DEF Init, Shared!Init, Offer, Procs
  <1>2. PoolInv /\ [Next]_vars => [Shared!Next]_<<used, offer>>
    <2> SUFFICES ASSUME PoolInv, Next PROVE [Shared!Next]_<<used, offer>>
      BY DEF vars, Offer
    <2>1. ASSUME NEW p \in Procs, NewCall(p) PROVE UNCHANGED <<used, offer>>
      <3>1. /\ pc[p] = "idle" /\ UNCHANGED <<used, snap>>
            /\ \E l \in Labels \ {"scanning", "ping", "storing"} : pc' = [pc EXCEPT ![p] = l]
            /\ \E m \in Methods : op' = [op EXCEPT ![p] = m]
            /\ \E ip : cand' = [cand EXCEPT ![p] = ip]
        BY <2>1 DEF NewCall, CallFreeIps, CallGetFreeIp, CallMarkIpUnused, CallMarkIpUsed,
             Call, At, Goto, Labels, Methods
      <3>2. \A q \in Granters : Offer(q)' = Offer(q)
        BY <3>1 DEF Offer, PoolInv, TypeOK, CallInv, Procs
      <3>3. QED
        BY <3>1, <3>2
    <2>2. ASSUME NEW p \in Procs, BeginScan(p) PROVE [Shared!Next]_<<used, offer>>
      <3>1. UNCHANGED <<used, op, cand>> /\ pc[p] = "scan"
            /\ pc' = [pc EXCEPT ![p] = "scanning"] /\ snap' = [snap EXCEPT ![p] = Hosts \ used]
        BY <2>2 DEF BeginScan, At, Goto
      <3>2. CASE op[p] = "get"
        <4>1. p \in Granters /\ offer[p] = {}
          BY <3>1, <3>2 DEF PoolInv, CallInv, Offer
        <4>2. offer' = [offer EXCEPT ![p] = Hosts \ used]
          BY <3>1, <3>2, <4>1 DEF Offer, PoolInv, TypeOK, Procs
        <4>3. QED
          BY <3>1, <4>1, <4>2, AddrAssumption DEF Shared!Next, Shared!Look
      <3>3. CASE op[p] # "get"
        BY <3>1, <3>3 DEF Offer, PoolInv, TypeOK, Procs
      <3>4. QED
        BY <3>2, <3>3
    <2>3. ASSUME NEW p \in Procs, EndScan(p) \/ Ping(p) PROVE [Shared!Next]_<<used, offer>>
      <3>1. UNCHANGED used /\ \A q \in Granters : q # p => Offer(q)' = Offer(q)
        BY <2>3 DEF EndScan, Ping, Goto, Return, Offer, PoolInv, TypeOK, Procs
      <3>2. CASE p \in Granters
        <4>1. Offer(p)' \subseteq Offer(p)
          BY <2>3 DEF EndScan, Ping, ScanResults, At, Goto, Return, Offer, PoolInv, TypeOK, CallInv
        <4>2. offer' = [offer EXCEPT ![p] = Offer(p)']
          BY <3>1, <3>2
        <4>3. QED
          BY <3>1, <3>2, <4>1, <4>2 DEF Shared!Next, Shared!Narrow
      <3>3. CASE p \notin Granters
        BY <3>1, <3>3
      <3>4. QED
        BY <3>2, <3>3
    <2>4. ASSUME NEW p \in Procs, Grant(p) PROVE [Shared!Next]_<<used, offer>>
      <3>1. p \in Granters /\ offer[p] = {cand[p]} /\ used' = used \cup {cand[p]}
        BY <2>4 DEF Grant, At, PoolInv, CallInv, Offer
      <3>2. offer' = [offer EXCEPT ![p] = {}]
        BY <2>4, <3>1 DEF Grant, Goto, Return, Offer, PoolInv, TypeOK, Procs
      <3>3. QED
        BY <3>1, <3>2 DEF Shared!Next, Shared!Take
    <2>5. ASSUME NEW p \in Procs, MarkUsed(p) \/ MarkUnused(p)
          PROVE  [Shared!Next]_<<used, offer>>
      <3>1. \A q \in Granters : offer[q] = {}
        BY <2>5, NoOfferDuringWrite DEF MarkUsed, MarkUnused, At
      <3>2. used' \in SUBSET Net
        BY <2>5 DEF MarkUsed, MarkUnused, At, PoolInv, TypeOK, CallInv
      <3>3. \A q \in Granters : Offer(q)' = Offer(q)
        BY <2>5 DEF MarkUsed, MarkUnused, At, Goto, Return, Offer, PoolInv, TypeOK, Procs
      <3>4. QED
        BY <3>1, <3>2, <3>3 DEF Shared!Next, Shared!Write
    <2>6. ASSUME NEW p \in Procs,
                 EnterFreeIps(p) \/ CheckIp(p) \/ LockPool(p) \/ DrainReaders(p)
          PROVE  UNCHANGED <<used, offer>>
      BY <2>6 DEF EnterFreeIps, CheckIp, LockPool, DrainReaders, At, Goto, Return, locals,
           Offer, PoolInv, TypeOK, CallInv, Procs
    <2>7. CASE MapRace
      BY <2>7 DEF MapRace, locals, Offer
    <2>8. QED
      BY <2>1, <2>2, <2>3, <2>4, <2>5, <2>6, <2>7 DEF Next, Step
  <1>3. QED
    BY <1>1, <1>2, PoolInvariant, PTL DEF Spec, SharedSpec, Shared!Spec, Shared!vars

=============================================================================
