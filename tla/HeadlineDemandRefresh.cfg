SPECIFICATION Spec
CONSTANTS
  Workers = {w1}
  Material = {m1, m2}
  Target = {v1, v2}
  MaxRuns = 2
  MaxRequests = 1
  MaxFaults = 1
SYMMETRY Renaming
INVARIANT RefreshUnderWay
CHECK_DEADLOCK FALSE
