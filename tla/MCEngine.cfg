CONSTANTS
  Sessions = {s1, s2}
  Prompts <- SmallPrompts
  Sampled = {0}
  MaxTokens = {0, 2}
  BlockSize = 2
  Chunk = 1
  SpillCapacity = 4
  Transitions = {t1, t2}
  Root = Root
  NoHandle = NoHandle
  Garbled = Garbled
  Token = {0, 1}
  MaxLen = 2
  MaxMappings = 2
  MaxHandles = 2
  Parts = {"native", "mapped", "physical"}
SPECIFICATION EngineSpec
SYMMETRY Symmetry
CHECK_DEADLOCK FALSE
INVARIANTS
  ExactContinuation
  MappingsRestorable
  TablesAreCurrent
PROPERTIES
  ImplementsMappings
