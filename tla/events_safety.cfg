SPECIFICATION FairSpec
CONSTANTS
  created = created
  merged = merged
  obj = obj
  workers = workers
  None = None
  Publisher = {p1, p2}
  Type = {created, merged}
  PartitionKey = {obj}
  Group = {workers}
  Wanted <- AllWanted
  Batches <- AllBatches
  Capacity = 2
  MaxAttempts = 2
  MaxPublished = 3
  MaxSubs = 2
INVARIANTS
  DeliveredOnceInOrder
PROPERTIES
  PublishEnds
CHECK_DEADLOCK FALSE
