CONSTANTS
  r1 = r1
  r2 = r2
  r3 = r3
  u1 = u1
  Requests = {r1, r2, r3, u1}
  Updates = {u1}
  Bytes <- SmallBytes
  Limits = {1, 2}
  RequestBytes = 2
  QueueCount = 2
  QueueBytes = 3
SPECIFICATION Spec
INVARIANTS
  AccountsExact
  TurnsAreKept
