SPECIFICATION FairSpec
CONSTANTS
  Absent = Absent
  Ips = {ip1, ip2}
  NoIp = NoIp
  FileConfigs <- FewConfigs
  Requests <- AllRequests
PROPERTIES InstallStartsNode
