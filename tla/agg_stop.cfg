\* One stop() at any moment and a restart after it; two calls of one API.
CONSTANTS
  r1 = r1
  r2 = r2
  a = a
  global = global
  NoRequest = NoRequest
  Requests = {r1, r2}
  APIs <- OneApi
  Global = global
  Api <- SameApi
  Keys <- TwoKeys
  Key <- OwnKey
  InitialPriority <- MixedPriority
  RequestRetries <- OneRetry
  PolicyRetries <- PolicyOne
  Capacity <- OneToken
  Dry = {}
  QueueMaxSize = 1
  DropThreshold = 1
  WorkerCount = 2
  Cancellers = {r2}
  MaxStops = 1
  FailureThreshold = 1
  HalfOpenMaxProbes = 1
  SuccessThreshold = 2
  PriorityDecay = 5
  Watched = a
SPECIFICATION BreakersSpec
INVARIANTS WithinLimits SingleCarrier PermitAccounting
PROPERTIES StopSettles ImplementsCounts ImplementsPromise ImplementsProbes
CHECK_DEADLOCK FALSE
