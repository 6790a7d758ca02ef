SPECIFICATION Spec
CONSTANTS
  Workers = {w1, w2}
  Brand = {k1}
  Cycles = 5
  Cadence = 2
  Expiry = 2
  Shaping = TRUE
  MaxFaults = 2
SYMMETRY Symmetry
INVARIANTS
  TypeOK
  InFlightIsAttached
  RunsAreSpaced
PROPERTIES
  VisibleAdvances
  HeldCarriesLastGood
  StoryLostOnlyByShaping
CHECK_DEADLOCK FALSE
