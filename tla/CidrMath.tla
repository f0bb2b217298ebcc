------------------------------ MODULE CidrMath ------------------------------
(***************************************************************************)
(* The arithmetic of service/netutil/cidr.go: the addresses of a network,  *)
(* its subnets, its neighbours and the overlap check, on addresses of      *)
(* Bytes bytes of ByteBits bits (the code: 4 or 16 bytes of 8) and integer *)
(* arguments of WordBits bits (the code: 64).                              *)
(*                                                                         *)
(* A network is what net.ParseCIDR returns: the base address is masked and *)
(* as long as the mask.  Addresses of 16 bytes are those outside           *)
(* ::ffff:0:0/96, which checkIPv4 would shorten.  A function that can      *)
(* return an error returns {}, and {result} otherwise.                     *)
(*                                                                         *)
(* AllIps of the address pool walks with Inc; the other functions have no  *)
(* caller in the repository yet.                                           *)
(***************************************************************************)
EXTENDS Binary, Sequences, FiniteSets, FiniteSetsExt

CONSTANTS Bytes, ByteBits, WordBits,
          MaxSubnets  \* bound on the list given to VerifyNoOverlap

ASSUME SizeAssumption ==
  Bytes \in Nat \ {0} /\ ByteBits \in Nat \ {0} /\ WordBits \in Nat \ {0} /\ MaxSubnets \in Nat

Width == Bytes * ByteBits
Radix == pow2[ByteBits]
Space == pow2[Width]
Address == [1..Bytes -> 0..(Radix - 1)]

\* The values of an argument of type int.
Word == pow2[WordBits]
IntArg == -pow2[WordBits - 1]..(pow2[WordBits - 1] - 1)

-----------------------------------------------------------------------------
(* Conversions and the net package *)

ipToInt(ip) ==
  LET val[j \in 0..Bytes] == IF j = 0 THEN 0 ELSE val[j - 1] * Radix + ip[j] IN val[Bytes]

\* The front is padded with zero bytes.
intToIP(n) == [j \in 1..Bytes |-> (n \div pow2[ByteBits * (Bytes - j)]) % Radix]

Mask(ip, len) == LET h == pow2[Width - len] IN intToIP((ipToInt(ip) \div h) * h)

Network == {[ip |-> Mask(ip, len), len |-> len] : ip \in Address, len \in 0..Width}

Contains(net, ip) == Mask(ip, net.len) = net.ip

Zero == [j \in 1..Bytes |-> 0]

\* Slip: the number is not shifted to its place.
insertNumAtEnd(ip, num, prefixLen) == intToIP(Or(ipToInt(ip), num, Width))
\* A negative number, which only Subnet lets through and only if it is small
\* beside the network, has ones in all the bits of the address: the result is
\* the number itself, without its sign.
insertNumIntoIP(ip, num, prefixLen) ==
  LET shifted == num * pow2[Width - prefixLen]
  IN intToIP(IF num < 0 THEN -shifted ELSE Or(ipToInt(ip), shifted, Width))

-----------------------------------------------------------------------------
(* Counting *)

\* A byte counts up when all the bytes behind it have turned to 0.
Inc(ip) == [j \in 1..Bytes |->
              IF \A k \in (j + 1)..Bytes : ip[k] = Radix - 1 THEN (ip[j] + 1) % Radix ELSE ip[j]]

\* A byte counts down when all the bytes behind it were 0.
Dec(ip) == [j \in 1..Bytes |->
              IF \A k \in (j + 1)..Bytes : ip[k] = 0 THEN (ip[j] - 1) % Radix ELSE ip[j]]

\* The addresses the loop of hosts visits: Inc from the first one until it
\* leaves the network, or for ever (here: once around and one further).
Walk(net) ==
  LET at[k \in 0..Space] == IF k = 0 THEN net.ip ELSE Inc(at[k - 1])
      outside == {k \in 0..Space : ~Contains(net, at[k])}
      n == IF outside = {} THEN Space + 1 ELSE Min(outside)
  IN [k \in 1..n |-> at[k - 1]]

HostsEnd(net) == Len(Walk(net)) <= Space

\* Slip: of two addresses the first is kept.
hostsKeepFirst(net) == LET ips == Walk(net) IN
  IF Len(ips) = 1 THEN ips
  ELSE IF Len(ips) = 2 THEN <<ips[1]>>
  ELSE SubSeq(ips, 2, Len(ips) - 1)
\* What AllIps returns, if the loop ends.
hosts(net) == LET ips == Walk(net) IN
  IF Len(ips) = 1 THEN ips
  ELSE IF Len(ips) = 2 THEN <<ips[2]>>
  ELSE SubSeq(ips, 2, Len(ips) - 1)

-----------------------------------------------------------------------------
(* Subnets, hosts and neighbours *)

\* Slip: accepts one number too many.
SubnetOneMore(base, newBits, num) ==
  LET len == base.len + newBits IN
  IF len > Width \/ num % Word > (pow2[newBits] % Word) THEN {}
  ELSE {[ip |-> insertNumIntoIP(base.ip, num, len), len |-> len]}
\* The conversion to uint64 makes a negative num a huge one, and the largest
\* number the largest of uint64 when newBits is as wide as that.
\* newBits are additional bits (cidr.go:125): that the code does not refuse
\* negative ones, and then returns an address that is not masked, is left out.
Subnet(base, newBits, num) ==
  LET len == base.len + newBits
      maxNetNum == ((pow2[newBits] % Word) - 1) % Word IN
  IF len > Width \/ num % Word > maxNetNum THEN {}
  ELSE {[ip |-> insertNumIntoIP(base.ip, num, len), len |-> len]}

\* Slip: -1 is not taken off, so the last host is the one but last.
HostFromEnd(base, num) ==
  LET maxHostNum == pow2[Width - base.len] - 1
      n == IF num < 0 THEN -num ELSE num IN
  IF n > maxHostNum THEN {}
  ELSE {insertNumIntoIP(base.ip, IF num < 0 THEN maxHostNum - n ELSE n, Width)}
\* A negative num counts from the last address.
Host(base, num) ==
  LET maxHostNum == pow2[Width - base.len] - 1
      n == IF num < 0 THEN -num - 1 ELSE num IN
  IF n > maxHostNum THEN {}
  ELSE {insertNumIntoIP(base.ip, IF num < 0 THEN maxHostNum - n ELSE n, Width)}

\* A prefix as long as the address gives the same address twice.
AddressRange(net) ==
  [first |-> net.ip, last |-> intToIP(Or(pow2[Width - net.len] - 1, ipToInt(net.ip), Width))]

\* Slip: starts behind the given network, whatever size is asked for.
NextSubnetUnmasked(net, prefixLen) ==
  LET last == Inc(AddressRange(net).last)
  IN [net |-> [ip |-> Mask(last, prefixLen), len |-> prefixLen], rolled |-> last = Zero]
NextSubnet(net, prefixLen) ==
  LET currentLast == AddressRange(net).last
      currentSubnet == [ip |-> Mask(currentLast, prefixLen), len |-> prefixLen]
      last == Inc(AddressRange(currentSubnet).last)
  IN [net |-> [ip |-> Mask(last, prefixLen), len |-> prefixLen], rolled |-> last = Zero]

PreviousSubnet(net, prefixLen) ==
  [net |-> [ip |-> Mask(Dec(net.ip), prefixLen), len |-> prefixLen], rolled |-> net.ip = Zero]

\* Slip: compares each pair once only, from the side of the first.
VerifyNoOverlapOneSided(subnets, block) ==
  \A i \in DOMAIN subnets :
    LET range(k) == AddressRange(subnets[k]) IN
    /\ Contains(block, range(i).first) /\ Contains(block, range(i).last)
    /\ \A j \in DOMAIN subnets : j > i =>
         ~Contains(subnets[i], range(j).first) /\ ~Contains(subnets[i], range(j).last)
\* TRUE: no error.
VerifyNoOverlap(subnets, block) ==
  \A i \in DOMAIN subnets :
    LET range(k) == AddressRange(subnets[k]) IN
    /\ Contains(block, range(i).first) /\ Contains(block, range(i).last)
    /\ \A j \in DOMAIN subnets \ {i} :
         ~Contains(subnets[i], range(j).first) /\ ~Contains(subnets[i], range(j).last)

-----------------------------------------------------------------------------
(* A user of the package: divides, visits neighbours and collects subnets *)

VARIABLES network,  \* the network in hand
          plan      \* the subnets collected so far

vars == <<network, plan>>

Init == network \in Network /\ plan = <<>>

\* Subnets for every number of additional bits.
Divide == \E newBits \in 0..Width, num \in IntArg :
  \E sub \in Subnet(network, newBits, num) : network' = sub /\ UNCHANGED plan

GoNext == \E prefixLen \in 0..Width :
  network' = NextSubnet(network, prefixLen).net /\ UNCHANGED plan

GoPrevious == \E prefixLen \in 0..Width :
  network' = PreviousSubnet(network, prefixLen).net /\ UNCHANGED plan

Collect == Len(plan) < MaxSubnets /\ plan' = Append(plan, network) /\ UNCHANGED network

Next == Divide \/ GoNext \/ GoPrevious \/ Collect

Spec == Init /\ [][Next]_vars

-----------------------------------------------------------------------------
(* The reference: sets of numbers *)

Numbers(net) == LET first == ipToInt(net.ip) IN first..(first + pow2[Width - net.len] - 1)

\* Every network in hand or in the plan is one.
TypeOK == network \in Network /\ plan \in UNION {[1..n -> Network] : n \in 0..MaxSubnets}

\* AllIps lists the addresses of a network in order, without the first and the
\* last when there are more than two, and without the first of two; it ends
\* for every network but the whole address space, at whose end Inc starts over.
HostsAreInner ==
  LET all == Numbers(network)  n == Cardinality(all)  ips == hosts(network)
      inner == IF n = 1 THEN all ELSE IF n = 2 THEN {Max(all)} ELSE all \ {Min(all), Max(all)}
  IN /\ HostsEnd(network) <=> network.len > 0
     /\ network.len > 0 =>
          /\ {ipToInt(ips[k]) : k \in DOMAIN ips} = inner
          /\ \A k \in 1..(Len(ips) - 1) : ipToInt(ips[k]) < ipToInt(ips[k + 1])

\* The numbered subnets of a network partition it: Subnet gives 2^newBits
\* disjoint networks that cover it, and refuses every other number, as long as
\* there are fewer of them than values of uint64; if there are more, the
\* numbers that are not negative still give disjoint parts of the network.
SubnetsPartition ==
  \A newBits \in 0..(Width - network.len) :
    LET subs == [num \in IntArg |-> Subnet(network, newBits, num)]
        valid == {num \in IntArg : 0 <= num /\ num < pow2[newBits]}
        parts == UNION {subs[num] : num \in valid}
    IN /\ \A num \in valid : Cardinality(subs[num]) = 1
       /\ parts \subseteq Network
       /\ UNION {Numbers(s) : s \in parts} \subseteq Numbers(network)
       /\ \A i, j \in valid : i # j =>
            \A s \in subs[i], t \in subs[j] : Numbers(s) \cap Numbers(t) = {}
       /\ newBits < WordBits =>
            /\ \A num \in IntArg \ valid : subs[num] = {}
            /\ Numbers(network) \subseteq UNION {Numbers(s) : s \in parts}

\* Host(net, n) is the n-th address of the network, Host(net, -n) the n-th from
\* its end, and an error for a number the network does not have.
HostCounts ==
  LET all == Numbers(network)  n == Cardinality(all) IN
  \A num \in (-n - 1)..n :
    {ipToInt(ip) : ip \in Host(network, num)} =
      IF num \in 0..(n - 1) THEN {Min(all) + num}
      ELSE IF num \in -n..-1 THEN {Max(all) + 1 + num} ELSE {}

\* The next subnet of any size begins at the first boundary of that size behind
\* the network, overlaps it only after a roll over, which is reported exactly
\* when there is no room left, and the previous subnet of the same size leads
\* back to the block that holds the end of the network.
NextIsAdjacent ==
  \A prefixLen \in 0..Width :
    LET next == NextSubnet(network, prefixLen)
        back == PreviousSubnet(next.net, prefixLen)
        size == pow2[Width - prefixLen]
        boundary == (Max(Numbers(network)) \div size + 1) * size
    IN /\ Min(Numbers(next.net)) = boundary % Space
       /\ next.rolled <=> boundary = Space
       /\ ~next.rolled => Numbers(next.net) \cap Numbers(network) = {}
       /\ Max(Numbers(network)) \in Numbers(back.net) /\ (back.rolled <=> next.rolled)

\* The overlap check accepts a list exactly if all its subnets lie in the block
\* and no two of them share an address, also when one lies inside another.
VerdictIsExact ==
  VerifyNoOverlap(plan, network) <=>
    /\ \A i \in DOMAIN plan : Numbers(plan[i]) \subseteq Numbers(network)
    /\ \A i, j \in DOMAIN plan : i # j => Numbers(plan[i]) \cap Numbers(plan[j]) = {}
=============================================================================
