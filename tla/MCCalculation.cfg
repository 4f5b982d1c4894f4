SPECIFICATION CallsSpec
CONSTANTS
  Instants <- MCInstants
  MaxBreaks = 3
  Rules <- MCRules
  Minutes <- MCMinutes
  Conditions <- MCConditions
  Null = Null
  Rates <- MCRates
INVARIANTS BreaksAcceptedAsASet MinutesAccountForTime BilledInUnits SavedContractsAreComplete MoreMinutesNeverPayLess TotalExactToTheYen
