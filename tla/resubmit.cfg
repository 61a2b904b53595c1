\* Three submissions of one object that may be retried twice, one stop().
CONSTANTS
  c1 = c1
  c2 = c2
  c3 = c3
  None = None
  Callers = {c1, c2, c3}
  InitialPriority = 50
  PriorityDecay = 5
  MaxRetries = 2
  PolicyRetries = 3
  MaxStops = 1
SPECIFICATION FairSpec
INVARIANTS TypeOK NeverStranded UpstreamBudget
PROPERTY Resolved
CHECK_DEADLOCK FALSE
