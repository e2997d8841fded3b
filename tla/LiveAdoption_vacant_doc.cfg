SPECIFICATION Spec
CONSTANTS
  builder = builder
  reviewer = reviewer
  s1 = s1
  s2 = s2
  null = null
  Null = null
  Sessions <- TwoSessions
  Roles <- OneRole
  Attended <- Nobody
  MaxProposals = 2
  MaxConns = 2
  MaxFrames = 1
  MaxCrashes = 0
  MaxFlips = 0
INVARIANTS VacantRoleReplaceable
SYMMETRY Symmetric
CHECK_DEADLOCK FALSE
