CONSTANTS
  Parts = {"cache", "daemon", "models", "records"}
  f = f
  Main = Main
  None = None
  Versions = {1, 2}
  Blocks = 3
  Inodes = {11, 12, 13, 14, 15}
  Expectable <- SmallExpectable
  Ids <- SmallIds
  Revisions = {"r1", "r2"}
  Aliases = {"latest"}
  Declared <- SmallDeclared
  Pulls = {"p1", "p2", "p3"}
  MaxEpoch = 5
  ChannelSize = 2
  MaxRecords = 6
  Threads = {t1, t2}
  Keys <- SmallKeys
  Weight <- SmallWeight
  Context = 1
  Capacity = 5
  Storage = 5
  Measured = {0, 1}
  MaxLoads = 2
SPECIFICATION OperationsSpec
SYMMETRY Symmetry
CHECK_DEADLOCK FALSE
INVARIANTS
  FetchedIsWhole
  DaemonIsConsistent
  BudgetsHold
  RetiredIsDrained
  RecordsAreAccounted
