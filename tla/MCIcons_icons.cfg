SPECIFICATION Spec
CONSTANTS
  NoRow = NoRow
  Workers = {w1, w2}
  Consumers = {d1, d2}
  Owners = {o1, o2}
  Files = {f1, f2}
  Names = {n1, n2}
  Versions <- FirstVersions
  Failures = {"storage", "broker", "crash"}
  MaxDeliveries = 1
SYMMETRY Symmetry
INVARIANTS IconTypeOK NamesUnique ShownIconStored
PROPERTIES OldIconOutlivesConversion SettledStaysSettled BoardSpec
