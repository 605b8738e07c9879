\* A worker, three ads, a pool that runs out of nodes in the last maps.
CONSTANTS
  Ads = {1, 2, 3}
  Contents <- SomeContents
  Nodes = 8
  Tables = 4
  Wants = {1, 2}
  MaxFaults = 2
SPECIFICATION FairSpec
INVARIANTS
  OnlyEligible
  PoolWhole
  NotTwiceInARow
  AbortNeedsLoss
PROPERTIES
  ConnectionRecovers
CHECK_DEADLOCK FALSE
