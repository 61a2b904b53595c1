\* Fair schedules: API a runs dry, one worker, one stop() and a restart, room
\* in the queue for every request, and a caller that may give up.
CONSTANTS
  r1 = r1
  r2 = r2
  r3 = r3
  a = a
  b = b
  global = global
  NoRequest = NoRequest
  Requests = {r1, r2}
  APIs <- TwoAPIs
  Global = global
  Api <- SharedApi
  Keys <- TwoKeys
  Key <- SharedKey
  InitialPriority <- MixedPriority
  RequestRetries <- SomeRetry
  PolicyRetries <- PolicyOne
  Capacity <- OneToken
  Dry = {a}
  QueueMaxSize = 2
  DropThreshold = 2
  WorkerCount = 1
  Cancellers = {r1}
  MaxStops = 1
  FailureThreshold = 1
  HalfOpenMaxProbes = 1
  SuccessThreshold = 1
  PriorityDecay = 5
SPECIFICATION FairSpec
INVARIANTS NothingLost
PROPERTIES EventuallyResolved StopCompletes
CHECK_DEADLOCK FALSE
