SPECIFICATION FairSpec
CONSTANTS
  MaxVer = 1
  Slots = {1}
  Refreshes = {1, 2}
  Uses = {{"stage", "stageAll"}, {"commit", "merge", "generate"}, {"push", "pull", "clear"},
          {"discard", "switch", "checkout", "createBranch"}, {"undo"}}
INVARIANTS
  TypeOK
  FlagsHaveCalls
PROPERTIES
  TypedTextKept
  EveryChangeShown
CHECK_DEADLOCK FALSE
