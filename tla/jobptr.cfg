SPECIFICATION Spec
CONSTANTS
  Job = {j1}
  Key = {k1}
  NoKey = NoKey
  UServers = {u1}
  TServers = {t1}
  UServersBack = {v1}
  TServersBack = {}
  FirstServer = u1
  FirstBack = v1
  EarlyTimeout = 1
  BackTimeout = 1
  Timeout = 2
  BindFaults = {}
INVARIANTS
  JobPtrValid
CHECK_DEADLOCK FALSE
