CONSTANTS
  r1 = r1
  r2 = r2
  r3 = r3
  u1 = u1
  Requests = {r1, r3, u1}
  Updates = {u1}
  Bytes <- SmallBytes
  Limits = {1, 2}
  RequestBytes = 2
  QueueCount = 2
  QueueBytes = 3
  PermitLimits = {1, 2, 3}
  SlotOf <- OneSlot
  ClassOf <- OneStandard
  Weight <- EvenWeight
  PromotionRounds = 1
  Charges = {1}
  Floor = 0
  None = None
SPECIFICATION TurnsSpec
PROPERTIES
  PromotionIsFifo
  CancelledNeverStarts
  NobodyWaitsForever
