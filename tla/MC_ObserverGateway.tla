------------------------ MODULE MC_ObserverGateway --------------------------
EXTENDS ObserverGateway

\* One thing happens from outside, of whatever kind.
GatewayBudget ==
  [cut |-> 1, refuse |-> 1, stall |-> 2, shell |-> 1, listen |-> 1, reload |-> 1, control |-> 1,
   flip |-> 1, restart |-> 1, all |-> 1]
=============================================================================
