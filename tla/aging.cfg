\* Two tasks in get(), three requests, a LOW one that ages past a HIGH one.
CONSTANTS
  r1 = r1
  r2 = r2
  r3 = r3
  a = a
  b = b
  Requests = {r1, r2, r3}
  APIs <- TwoAPIs
  Api <- Apis
  InitialPriority <- Mixed
  PriorityDecay = 50
  AgingFactor = 50
  MaxSize = 3
  Getters = {1, 2}
  MaxTime = 3
  MaxPuts = 4
SPECIFICATION FairSpec
INVARIANTS TypeOK NoLostWakeUp DepthsAccurate
PROPERTIES BoundedOvertaking OvertakesOnlyWorse ImplementsDeadlines GettersServed
