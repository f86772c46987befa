\* Broadcasts and unicasts in five networks.
CONSTANTS
  Network <- MCNetwork
  Broadcast = Broadcast
  Plan <- MCPlan
SPECIFICATION FairSpec
INVARIANT HeardAtMostOnce
PROPERTY EveryoneHears
CHECK_DEADLOCK FALSE
