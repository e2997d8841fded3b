SPECIFICATION FairSpec
CONSTANTS
  SessionLimit = 1
  LeaseTicks = 2
  MaxReconnects = 2
  MaxInstances = 2
  MaxAttempts = 3
  PublishQueue = 2
  Budget <- GatewayBudget
INVARIANTS TypeOK RevisionIdentifiesProjection ClearedStaysCleared
PROPERTIES PanelConverges RegistryConverges
CHECK_DEADLOCK FALSE
