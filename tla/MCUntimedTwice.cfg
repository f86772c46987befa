\* Two broadcasts of one NIC in the chain of three 2x2 meshes.
CONSTANTS
  Network <- MCTwiceNetwork
  Broadcast = Broadcast
  Plan <- MCTwicePlan
SPECIFICATION FairSpec
PROPERTY EveryoneHears
CHECK_DEADLOCK FALSE
