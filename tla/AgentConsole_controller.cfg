SPECIFICATION FairConsoleSpec
CONSTANTS
  MaxEvents = 2
  MaxSessions = 2
  PanelQueue = 1
  Budget <- ControllerBudget
INVARIANTS ConsoleTypeOK PanelAgrees HiddenStaysHidden
PROPERTIES Settles
CHECK_DEADLOCK FALSE
