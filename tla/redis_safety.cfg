CONSTANTS
  p1 = p1
  p2 = p2
  None = None
  Process <- Processes
  Type = {"created", "updated"}
  Group = {"workers"}
  Program <- Mixed
  Batches <- Published
  Count = 2
  MaxAttempts = 2
  MaxPublished = 2
  MaxFaults = 1
SPECIFICATION RedisSpec
INVARIANTS
  
  ReadInOrder

  
CHECK_DEADLOCK FALSE
