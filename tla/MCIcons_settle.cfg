SPECIFICATION FairSpec
CONSTANTS
  NoRow = NoRow
  Workers = {w1}
  Consumers = {d1, d2}
  Owners = {o1}
  Files = {f1, f2}
  Names = {n1}
  Versions <- FirstVersions
  Failures = {"storage"}
  MaxDeliveries = 2
INVARIANTS ShownIconStored
PROPERTIES UploadsSettle
