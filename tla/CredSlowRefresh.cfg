SPECIFICATION FairSpec
CONSTANTS
  app1 = app1
  app2 = app2
  helper = helper
  app = app
  git = git
  Caller <- MCTwo
  ProcOf <- MCProcOf
  NoOne = NoOne
  StaleAfter = 1
  WaitTimeout = 2
  MaxHold = 2
  Rotating = TRUE
  Faults = {}
  MaxIssued = 3
  MaxCrashes = 0
PROPERTIES
  RejectionIsGenuine
