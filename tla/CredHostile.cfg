SPECIFICATION FairSpec
CONSTANTS
  app1 = app1
  app2 = app2
  helper = helper
  app = app
  git = git
  Caller <- MCTwo
  ProcOf <- MCProcOf
  NoOne = NoOne
  StaleAfter = 1
  WaitTimeout = 2
  MaxHold = 2
  Rotating = TRUE
  Faults = {"disk_fault"}
  MaxIssued = 3
  MaxCrashes = 1
INVARIANTS
  SessionNotStranded
PROPERTIES
  DiskNeverRegresses
  CallReturns
