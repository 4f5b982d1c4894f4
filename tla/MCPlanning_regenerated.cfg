SPECIFICATION Spec
CONSTANTS
  t1 = t1
  alice = alice
  bob = bob
  p1 = p1
  Tokyo = Tokyo
  Utc = Utc
  NoRow = NoRow
  Workers = {w1}
  Users = {alice, bob}
  Owners = {alice}
  Admins = {alice}
  Editors <- Oneself
  Projects = {p1}
  TemplateIds = {t1}
  ScheduleIds = {s1, s2}
  DayLength = 8
  Zones = {Tokyo}
  Offset <- MCOffset
  FirstZone = Tokyo
  TemplateForms <- EarlyForms
  Times <- DayTimes
  Ranges <- SomeDays
  TemplateChoices <- AllTemplates
  SectionChoices <- ProfileOrAll
  Versions <- FirstVersion
  Operations <- GenerateOperations
  MaxItems = 50
  MaxDays = 100
  MaxCandidates = 300
  MaxGenerations = 1
INVARIANTS GeneratedOnce
