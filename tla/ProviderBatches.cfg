CONSTANTS
  old = old
  new = new
  r1 = r1
  Workers = {old, new}
  NoOne = NoOne
  Requests = {r1}
  Transports = {"batch", "direct"}
  MaxGroups = 2
  Slice = 1
  MaxAttempts = 2
  Concurrency = 1
  Deferring = TRUE
  MaxHindrances = 2

SPECIFICATION FairSpec

INVARIANTS
  TypeOK
  SpendsOnce

PROPERTIES
  KeepsPromise
  SafeMeansQuiet
  SentIsSettled

CHECK_DEADLOCK FALSE
