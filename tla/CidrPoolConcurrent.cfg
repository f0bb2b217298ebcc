SPECIFICATION Spec
CONSTANTS
  Granters = {g1, g2}
  Markers = {m1}
  Releasers = {r1}
  Readers = {q1}
  Nodes = {n1, n2, n3}
  Addrs = {a1, a2, net}
  Net = {a1, a2, net}
  Hosts = {a1, a2}
  DefIp = net
  NoIp = NoIp
  NoNode = NoNode
  NoProc = NoProc
INVARIANTS PoolInv
PROPERTIES NoReleaseUnderRLock NestedDeadlockIsForever SharedSpec
CHECK_DEADLOCK FALSE
