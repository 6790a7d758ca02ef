SPECIFICATION FairSpec
CONSTANTS
  hung = hung
  redelivered = redelivered
  next = next
  Workers <- MCWorkers
  Lease = 2
  MaxLag = 1
  Horizon = 3
INVARIANTS
  TypeOK
  OneSender
PROPERTIES
  KeepsPromise
  SentIsSettled
CHECK_DEADLOCK FALSE
