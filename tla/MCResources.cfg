CONSTANTS
  Parts = {"responses", "unsynced", "contexts", "declared", "compacted", "frontier"}
  None = None
  Ids = {r1, r2, r3}
  Workers = {w1, w2}
  Retention = 2
  Transient = 1
  LineageLimit = 2
  MaxTime = 2
  MaxRevision = 1
  Few = 2
  ContextIds = {c1}
  BlockTokens = 2
  Targets = {1}
  Declarations = 3
  Rate = 2
  Window = 2
  UpdatedBound <- SmallUpdated
  DeclaredBound <- SmallDeclared
  a = a
  b = b
  space = space
  lead = lead
  cont = cont
SPECIFICATION Spec
SYMMETRY Symmetry
CHECK_DEADLOCK FALSE
INVARIANTS
  ResponsesAreKept
  NativeFollows
  RateHolds
  CompactionSettles
  TextIsExact
PROPERTIES
  NothingIsOverwritten
