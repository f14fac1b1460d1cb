CONSTANTS
  Parts = {"tokens", "store", "epochs"}
  Components = {"required"}
  Epoch = {"e1"}
  Token = {a, b}
  MaxLen = 2
  MaxContexts = 2
  MaxRevision = 1
  MaxPrepared = 2
SPECIFICATION Spec
SYMMETRY Symmetry
CHECK_DEADLOCK FALSE
INVARIANTS
  KeysAreOfTokens
  StoreIsConsistent
PROPERTIES
  SequencesImplementPlain
