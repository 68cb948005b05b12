SPECIFICATION FairSpec
CONSTANTS
  Job = {j1}
  Key = {k1}
  NoKey = NoKey
  UServers = {}
  TServers = {t1}
  UServersBack = {v1}
  TServersBack = {}
  FirstServer = t1
  FirstBack = v1
  EarlyTimeout = 1
  BackTimeout = 1
  Timeout = 3
  BindFaults = {v1}
PROPERTIES
  KeepsPromise
  JobsEnd
CHECK_DEADLOCK FALSE
