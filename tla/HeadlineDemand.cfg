SPECIFICATION Spec
CONSTANTS
  Workers = {w1}
  Material = {m1, m2}
  Target = {v1, v2}
  MaxRuns = 3
  MaxRequests = 1
  MaxFaults = 1
SYMMETRY Renaming
INVARIANT TypeOK
PROPERTIES SuppressedWasConcluded ConcludedIsSuppressed
CHECK_DEADLOCK FALSE
