\* A broadcast in a triangle one of whose domains is three routers wide.
CONSTANTS
  Network <- MCLongTriangleNetwork
  Broadcast = Broadcast
  Plan <- MCLongTrianglePlan
SPECIFICATION FairSpec
INVARIANT HeardAtMostOnce
CHECK_DEADLOCK FALSE
