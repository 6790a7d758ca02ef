CONSTANTS
  old = old
  new = new
  Workers = {old, new}
  NoOne = NoOne
  r1 = r1
  Requests = {r1}
  Transports = {"direct"}
  MaxGroups = 1
  Slice = 2
  MaxAttempts = 2
  Concurrency = 1
  Deferring = TRUE
  MaxHindrances = 2

SPECIFICATION FairSpec

PROPERTY PauseDrains

CHECK_DEADLOCK FALSE
