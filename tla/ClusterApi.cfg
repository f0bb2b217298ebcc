SPECIFICATION FairSpec
CONSTANTS
  Masters = {m}
  Workers = {w, f}
  Controllers = {k}
  Members = {m, w, k}
  Own = {w}
  Self = Self
  Clients = {a, b}
  Reporters = {r}
  Locals = {l, q}
  Careless = {a}
  Ips = {ip1, ip2}
  NoIp = NoIp
  Casts <- ViewOrPool
INVARIANTS TypeOK AddressClashHasCause LeakHasCause StartMeetsOnlyOpenRequests GhostsHaveCause
PROPERTIES NodeSeen PoolSpec
CHECK_DEADLOCK FALSE
