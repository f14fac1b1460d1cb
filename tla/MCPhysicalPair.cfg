CONSTANTS
  c1 = c1
  c2 = c2
  t1 = t1
  t2 = t2
  g1 = g1
  MaxReps = 3
  Contexts = {c1, c2}
  Transitions = {t1}
  Growths = {g1}
  GrowthSizes = {1}
  MappingOf <- PairMapping
  ComponentOf <- PairComponent
  Masks = {{"kv", "swa"}}
  BytesOf <- Sizes
  Reuse <- NoReuse
  DeviceBytes = 3
  HostBytes = 1
SYMMETRY Symmetry
SPECIFICATION Spec
INVARIANTS
  TiersHold
  CountsAreExact
PROPERTIES
  OwnedCopiesStay
