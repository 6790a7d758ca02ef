SPECIFICATION Spec
CONSTANTS
  Harvests = 4
  Failures = 2
INVARIANTS
  NoneForgotten
PROPERTIES
  NeverGoesBack
CHECK_DEADLOCK FALSE
