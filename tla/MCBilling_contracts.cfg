SPECIFICATION Spec
CONSTANTS
  c1 = c1
  c2 = c2
  p1 = p1
  p2 = p2
  bob = bob
  NoRow = NoRow
  Projects = {p1}
  Workers = {w1, w2}
  Users = {alice}
  Admins = {alice}
  Editors <- Nobody
  Months <- OneMonth
  DaysPerMonth = 2
  SettlementIds = {s1}
  RecordIds = {r1}
  ContractIds = {c1, c2}
  IdempotencyKeys = {k1}
  Versions <- TwoVersions
  Operations <- ContractOperations
  InitialContracts <- MCNoContract
  RequestPeriods <- AllPeriods
  RecordStatuses = {"CONFIRMED"}
  ContractStatuses = {"ACTIVE", "INACTIVE"}
SYMMETRY ContractSymmetry
INVARIANTS ContractPeriodsDisjoint LockedRowsCurrent DeadlocksInPairs
PROPERTIES NoLostUpdate
