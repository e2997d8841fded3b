SPECIFICATION Spec
CONSTANTS
  builder = builder
  reviewer = reviewer
  s1 = s1
  s2 = s2
  null = null
  Null = null
  Sessions <- OneSession
  Roles <- OneRole
  Attended <- OneSession
  MaxProposals = 1
  MaxConns = 3
  MaxFrames = 1
  MaxCrashes = 1
  MaxFlips = 1
INVARIANTS TypeOK RecoverableByPi TakeoverCarried LeaseIsEarned
CHECK_DEADLOCK FALSE
