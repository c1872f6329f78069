\* In a browser and without a DOM; when all is done, the clock stops.
CONSTANTS
  MaxTasks = 3
  Timeout <- MCTimeout
  Delay <- MCDelay
  Continuations <- MCContinuations
  HostKind = {"dom", "node"}
  MaxTime = 2
  FrameLength = 2
  MaxMessages = 1
SPECIFICATION FairSpec
INVARIANTS
  TypeOK
  HeapSorts
  ScheduledIsServed
  
PROPERTIES
  ExpiredTasksDoNotYield
  ImplementsTaskPool
  
CHECK_DEADLOCK FALSE
