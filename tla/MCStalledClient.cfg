CONSTANTS
  Tasks = {1, 2, 3}
  Limits = {1, 2, 3}
  Jobs = {j1, j2}
  Flows = {standard, interactive}
  FlowOf <- SmallFlowOf
  SlotOf <- OneSlot
  ClassOf <- SmallClassOf
  Weight <- SmallWeight
  PromotionRounds = 1
  Charges = {1, 2}
  Floor <- SmallFloor
  Requests = {r1, r2}
  StreamBuffer = 2
  MaxDeltas = 4
  j1 = j1
  j2 = j2
  s1 = s1
  s2 = s2
  standard = standard
  interactive = interactive
  Root = Root
  NoHandle = NoHandle
  Garbled = Garbled
  None = None
  Parts = {"stream"}
SPECIFICATION FairSpec
CHECK_DEADLOCK FALSE
PROPERTIES
  StoppedRequestEnds
