SPECIFICATION FairSpec
CONSTANTS
  Products = {"P", "Q"}
  Files = {"f", "g"}
  Loads = {1, 2}
  Runs = {1, 2}
  Batches = {1, 2}
  Ticks = {1, 2}
  MaxOut = 1
  Downloads = {1, 2}
  MaxEvents = 3
  Models = {"small", "large"}
  Procs = {1, 2}
  Queries = {1}
  Versions = 4
  Alters = {2}
  Values = {"a", "b"}
  MaxLaunches = 3
  MaxErrors = 2
  Repos = {1, 2}
  Ticker = 1
  Others = {2}
  MaxToken = 2
  MaxEdits = 1
  Deploys = {1, 2}
  MaxPolls = 2
  MaxLoads = 2
  MaxLeaves = 1
INVARIANTS
  TypeOK
  DiffMatches
  NoStuckTask
  
  DoneMeansStaged
  OllamaStopped
  SchemaComplete
  StartsAgain
  TableFollows
  ToldOnce
PROPERTIES
  TaskSettles
  DownloadSettles
  HasModel
  CardSettles
  MigratesOnce
  SyncSettles
  DeployTold
  DeploySettles
CHECK_DEADLOCK FALSE
