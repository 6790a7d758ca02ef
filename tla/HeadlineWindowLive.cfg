SPECIFICATION FairSpec
CONSTANTS
  Workers = {w1, w2}
  Brand = {k1}
  Cycles = 2
  Cadence = 1
  Expiry = 2
  Shaping = TRUE
  MaxFaults = 1
PROPERTIES
  SlotMovesOn
CHECK_DEADLOCK FALSE
