SPECIFICATION Spec
CONSTANTS
  app1 = app1
  app2 = app2
  helper = helper
  app = app
  git = git
  Caller <- MCThree
  ProcOf <- MCProcOf
  NoOne = NoOne
  StaleAfter = 1
  WaitTimeout = 2
  MaxHold = 1
  Rotating = TRUE
  Faults = {"login", "logout", "revoke", "lost_reply"}
  MaxIssued = 3
  MaxCrashes = 0
INVARIANTS
  TypeOK
  LockExclusive
PROPERTIES
  RejectionIsGenuine
SYMMETRY Threads
