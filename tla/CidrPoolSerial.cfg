SPECIFICATION FairSpec
CONSTANTS
  Granters = {g1}
  Markers = {g1}
  Releasers = {r1, r2}
  Readers = {q1}
  Nodes = {n1, n2, n3}
  Addrs = {a1, a2, net, out}
  Net = {a1, a2, net}
  Hosts = {a1, a2}
  DefIp = net
  NoIp = NoIp
  NoNode = NoNode
  NoProc = NoProc
INVARIANTS NoDoubleGrant
PROPERTIES AllocatorSpec CallsReturnOrHang
CHECK_DEADLOCK FALSE
