SPECIFICATION Spec
CONSTANTS
  Workers = {w1}
  Brand = {k1}
  Cycles = 2
  Cadence = 1
  Expiry = 1
  Shaping = TRUE
  MaxFaults = 0
PROPERTIES
  StoryKept
CHECK_DEADLOCK FALSE
