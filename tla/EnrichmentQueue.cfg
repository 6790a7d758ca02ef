SPECIFICATION FairSpec
CONSTANTS
  slow = slow
  prompt = prompt
  Workers <- MCWorkers
  NoOne = NoOne
  Gone = Gone
  MaxAttempts = 1
  MaxHindrances = 2
INVARIANTS
  TypeOK
  FailedWasTried
  DispatchesBounded
  SucceededIsPublished
  PublisherNotReplaced
PROPERTIES
  SettledForGood
  ExhaustedEnds
