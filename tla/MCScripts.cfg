\* Every simulation script, call by call, and the memory systems' first and last
\* blocks.
CONSTANTS
  Scripts  <- MCScripts
  Capacity <- MCCapacity
  Margin   = 80
SPECIFICATION Spec
INVARIANTS
  LinksPaired
  PortsWired
  NoDoubleLinks
  PeersCovered
  AllConnected
  NetworksAgree
  OneHome
  HomeBelowLastStripe
  DirectoryOneMemory
CHECK_DEADLOCK FALSE
