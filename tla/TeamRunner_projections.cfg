SPECIFICATION Spec
CONSTANTS
  builder = builder
  reviewer = reviewer
  c1 = c1
  null = null
  Roles <- OneRole
  Builder = builder
  Clients <- OneClient
  Null = null
  MaxEvents = 5
  MaxInputs = 1
  MaxSessions = 2
INVARIANTS ClientLogContiguous
