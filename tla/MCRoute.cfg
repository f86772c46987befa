\* A packet from every router to every endpoint of every topology.
CONSTANTS
  Topology <- MCTopology
SPECIFICATION Spec
INVARIANT ShortestRoute
PROPERTY ArrivesAtDest
CHECK_DEADLOCK FALSE
