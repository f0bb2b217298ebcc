SPECIFICATION FairSpec
CONSTANTS
  Absent = Absent
  Ips = {ip1, ip2}
  NoIp = NoIp
  FileConfigs <- AllConfigs
  Requests <- AllRequests
INVARIANTS TypeOK RunningNodesAreProvisioned CrashesAreKnown ResubmittingTogglesNodes
PROPERTIES FailedStartKeepsNoAddress FailedStartFreesItsNodes StartConcludes SetupRequestHonoured
