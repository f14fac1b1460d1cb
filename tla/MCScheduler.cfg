CONSTANTS
  a = a
  b = b
  c = c
  m1 = m1
  m2 = m2
  f1 = f1
  f2 = f2
  Sessions = {a, b, c}
  Slots = {m1, m2}
  Flows = {f1, f2}
  SlotOf <- SlotOfSession
  FlowOf <- FlowOfSession
  MaxQuanta = 2
SPECIFICATION MCSpec
INVARIANTS
  OneOwner
  WaitingIsExact
  NoLostWakeup
  Backpressure
  TerminalIsLast
PROPERTIES
  CancelWins
  RecvReturns
  ShutdownCompletes
