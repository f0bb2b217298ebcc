SPECIFICATION Spec
CONSTANTS
  Bytes = 2
  ByteBits = 2
  WordBits = 3
  MaxSubnets = 2
INVARIANTS TypeOK HostsAreInner SubnetsPartition HostCounts NextIsAdjacent VerdictIsExact
