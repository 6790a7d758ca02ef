SPECIFICATION FairSpec
CONSTANTS
  k1 = k1
  k2 = k2
  k3 = k3
  w1 = w1
  w2 = w2
  Workers <- MCWorkers
  Brand <- MCBrand
  Members <- MCOneBatch
  N = 1
  Planned = 1
  Estimate = 3
  Usage = 1
  TokenCap = 6
  CallCap = 5
  MaxFaults = 1
PROPERTIES
  RunCloses
CHECK_DEADLOCK FALSE
