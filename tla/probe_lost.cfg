\* One API whose calls fail until its circuit opens.
CONSTANTS
  r1 = r1
  r2 = r2
  r3 = r3
  a = a
  b = b
  global = global
  NoRequest = NoRequest
  Requests = {r1}
  APIs <- TwoAPIs
  Global = global
  Api <- SharedApi
  Keys <- TwoKeys
  Key <- SharedKey
  InitialPriority <- MixedPriority
  RequestRetries <- SomeRetry
  PolicyRetries <- PolicyOne
  Capacity <- OneToken
  Dry = {}
  QueueMaxSize = 3
  DropThreshold = 2
  WorkerCount = 2
  Cancellers = {}
  MaxStops = 0
  FailureThreshold = 1
  HalfOpenMaxProbes = 1
  SuccessThreshold = 1
  PriorityDecay = 5
SPECIFICATION Spec
INVARIANT ProbesReport
CHECK_DEADLOCK FALSE
