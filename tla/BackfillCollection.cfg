CONSTANTS
  old = old
  new = new
  harvest = harvest
  Backfillers = {old, new}
  Lives = {harvest}
  NoOne = NoOne
  MaxTicks = 1
  NumScopes = 2
  Pages <- MCPages
  MaxRuns = 3
  MaxRequests = 3
  RunRequests = 2
  MaxHindrances = 2

SPECIFICATION Spec

SYMMETRY Symmetry

INVARIANTS
  TypeOK
  StoredUpToCursor
  SpendWithinAllowance
  PaidAgainOnlyAfterLoss
  CompletedIsDrained
  LiveWaitsForOnePage

CHECK_DEADLOCK FALSE
