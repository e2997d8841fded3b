SPECIFICATION Spec
CONSTANTS
  builder = builder
  reviewer = reviewer
  s1 = s1
  s2 = s2
  null = null
  Null = null
  Sessions <- TwoSessions
  Roles <- BothRoles
  Attended <- Nobody
  MaxProposals = 2
  MaxConns = 2
  MaxFrames = 1
  MaxCrashes = 0
  MaxFlips = 0
SYMMETRY Symmetric
PROPERTIES KeepsContract VacancyAdvances
CHECK_DEADLOCK FALSE
