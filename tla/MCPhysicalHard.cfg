CONSTANTS
  c1 = c1
  c2 = c2
  t1 = t1
  t2 = t2
  g1 = g1
  MaxReps = 2
  Contexts = {c1, c2}
  Transitions = {t1, t2}
  Growths = {g1}
  GrowthSizes = {1}
  MappingOf <- SingleMapping
  ComponentOf <- SingleComponent
  Masks = {{"kv"}}
  BytesOf <- Sizes
  Reuse <- NoReuse
  DeviceBytes = 3
  HostBytes = 2
SYMMETRY Symmetry
SPECIFICATION Spec
INVARIANTS
  HardAdmission
