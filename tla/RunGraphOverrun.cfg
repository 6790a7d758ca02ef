SPECIFICATION Spec
CONSTANTS
  k1 = k1
  k2 = k2
  k3 = k3
  w1 = w1
  w2 = w2
  Workers <- MCWorkers
  Brand <- MCBrand
  Members <- MCMembers
  N = 2
  Planned = 1
  Estimate = 3
  Usage = 4
  TokenCap = 9
  CallCap = 4
  MaxFaults = 1
SYMMETRY Symmetry
INVARIANT
  WithinBudget
CHECK_DEADLOCK FALSE
