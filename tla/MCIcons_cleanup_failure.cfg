SPECIFICATION Spec
CONSTANTS
  NoRow = NoRow
  Workers = {w1}
  Consumers = {d1}
  Owners = {o1}
  Files = {f1, f2}
  Names = {n1}
  Versions <- FirstVersions
  Failures = {"storage"}
  MaxDeliveries = 1
INVARIANTS ConvertedNotFailed
