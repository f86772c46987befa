\* Two virtual networks, of which the packets use one or both.
CONSTANTS
  NumVns = 2
  OutBuf = 5
  InBuf = 1
  RtrBuf = 2
  Workload <- Workloads
SPECIFICATION FairSpec
INVARIANTS
  TypeOK
  SpaceExact
  StampExactOnOneVn
  CreditsExact
PROPERTIES
  NeverSleepsForever
  CreditsComeBack
CHECK_DEADLOCK FALSE
