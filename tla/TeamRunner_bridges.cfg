SPECIFICATION Spec
CONSTANTS
  builder = builder
  reviewer = reviewer
  c1 = c1
  null = null
  Roles <- BothRoles
  Builder = builder
  Clients <- NoClients
  Null = null
  MaxEvents = 5
  MaxInputs = 2
  MaxSessions = 2
INVARIANTS TypeOK LabelsAgree AcceptedWorkRan
PROPERTIES TakeoverIsolated
