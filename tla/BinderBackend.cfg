\* Three starts of the service, a pipe with room for two batches of one event.
SPECIFICATION FairSpec
CONSTANTS
  MaxIncarnations = 3
  MaxFailures = 2
  MaxPosted = 2
  MaxLocks = 4
  PipeCapacity = 3
INVARIANTS
  OnePoll
  AwakeForEvents
  LossNoticed
PROPERTIES
  EndsAfterLoss
  Connects
CHECK_DEADLOCK FALSE
