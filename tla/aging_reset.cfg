\* One API whose bucket holds one token, two workers, two LOW requests first.
CONSTANTS
  r1 = r1
  r2 = r2
  r3 = r3
  a = a
  b = b
  Requests = {r1, r2, r3}
  APIs <- TwoAPIs
  Api <- SameApi
  InitialPriority <- LowLowHigh
  PriorityDecay = 50
  AgingFactor = 50
  MaxSize = 3
  Getters = {}
  MaxTime = 4
  MaxPuts = 6
  WorkerCount = 2
  Capacity = 1
SPECIFICATION DispatchSpec
PROPERTY BeatsFreshHighs
CHECK_DEADLOCK FALSE
