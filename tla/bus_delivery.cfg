SPECIFICATION FairSpec
CONSTANTS
  Publishers = {p1}
  Channels = {a,b}
  Capacity = 2
  TTL = 1
  MaxEvents = 3
  MaxTime = 2
CHECK_DEADLOCK FALSE
INVARIANTS
  TypeOK
  KeepingUpMissesNothing
  StreamStartsAtSubscription
  PublisherOrderKept
PROPERTY PublishNeverBlocks
