SPECIFICATION FairSpec
CONSTANTS
  Granters = {g1}
  Markers = {}
  Releasers = {r1}
  Readers = {}
  Nodes = {n1, n2}
  Addrs = {a1, a2}
  Net = {a1, a2}
  Hosts = {a1, a2}
  DefIp = a1
  NoIp = NoIp
  NoNode = NoNode
  NoProc = NoProc
PROPERTIES CallsReturn
CHECK_DEADLOCK FALSE
