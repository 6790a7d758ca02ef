CONSTANTS
  old = old
  new = new
  Workers = {new}
  NoOne = NoOne
  r1 = r1
  Requests = {r1}
  Transports = {"direct"}
  MaxGroups = 3
  Slice = 2
  MaxAttempts = 3
  Concurrency = 1
  Deferring = TRUE
  MaxHindrances = 3

SPECIFICATION FairSpec

PROPERTY SentIsSettled

CHECK_DEADLOCK FALSE
