\* A queue of one entry and requests that meet an empty bucket.
CONSTANTS
  r1 = r1
  r2 = r2
  r3 = r3
  a = a
  b = b
  global = global
  NoRequest = NoRequest
  Requests = {r2, r3}
  APIs <- TwoAPIs
  Global = global
  Api <- SharedApi
  Keys <- TwoKeys
  Key <- SharedKey
  InitialPriority <- MixedPriority
  RequestRetries <- SomeRetry
  PolicyRetries <- PolicyOne
  Capacity <- OneToken
  Dry = {}
  QueueMaxSize = 1
  DropThreshold = 1
  WorkerCount = 2
  Cancellers = {}
  MaxStops = 0
  FailureThreshold = 2
  HalfOpenMaxProbes = 1
  SuccessThreshold = 1
  PriorityDecay = 5
SPECIFICATION Spec
PROPERTY PutBackReturns
CHECK_DEADLOCK FALSE
