\* The stamps with two virtual networks.
CONSTANTS
  NumVns = 2
  OutBuf = 5
  InBuf = 1
  RtrBuf = 2
  Workload <- Workloads
SPECIFICATION FairSpec
INVARIANT HeadStampExact
CHECK_DEADLOCK FALSE
