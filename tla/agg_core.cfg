\* Life cycle without stop: two APIs, a shared key, cancellation, retries, a
\* queue that is full for one of three requests.
CONSTANTS
  r1 = r1
  r2 = r2
  r3 = r3
  a = a
  b = b
  global = global
  NoRequest = NoRequest
  Requests = {r1, r2, r3}
  APIs <- TwoAPIs
  Global = global
  Api <- SharedApi
  Keys <- TwoKeys
  Key <- SharedKey
  InitialPriority <- MixedPriority
  RequestRetries <- SomeRetry
  PolicyRetries <- PolicyOne
  Capacity <- OneToken
  Dry = {}
  QueueMaxSize = 2
  DropThreshold = 2
  WorkerCount = 2
  Cancellers = {r1}
  MaxStops = 0
  FailureThreshold = 2
  HalfOpenMaxProbes = 1
  SuccessThreshold = 1
  PriorityDecay = 5
SPECIFICATION Spec
INVARIANTS TypeOK SingleCarrier Coalesced DedupDrains PermitAccounting CallBudget
PROPERTIES FuturesFinal ImplementsPromise
