SPECIFICATION Spec
CONSTANTS
  Absent = Absent
  Ips = {ip1, ip2}
  NoIp = NoIp
  FileConfigs <- OneConfig
  Requests <- AllRequests
INVARIANTS RunningOnlyWhenReady
