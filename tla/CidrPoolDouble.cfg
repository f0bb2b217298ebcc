SPECIFICATION Spec
CONSTANTS
  Granters = {g1, g2}
  Markers = {}
  Releasers = {}
  Readers = {}
  Nodes = {n1, n2}
  Addrs = {a1, a2}
  Net = {a1, a2}
  Hosts = {a1, a2}
  DefIp = a1
  NoIp = NoIp
  NoNode = NoNode
  NoProc = NoProc
INVARIANTS NoDoubleGrant

CHECK_DEADLOCK FALSE
