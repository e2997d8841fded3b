------------------------- MODULE MC_AgentConsole ----------------------------
EXTENDS AgentConsole

ControllerBudget ==
  [loss |-> 1, connect |-> 1, shell |-> 1, reload |-> 1, replace |-> 1, press |-> 1, all |-> 2]
=============================================================================
