\* Three overlapping calls, two failures open, two successes close, two probes.
CONSTANTS
  c1 = c1
  c2 = c2
  c3 = c3
  Calls = {c1, c2, c3}
  FailureThreshold = 2
  HalfOpenMaxProbes = 2
  SuccessThreshold = 2
SPECIFICATION FairSpec
INVARIANTS TypeOK ProbeSlots
PROPERTIES ImplementsAutomaton RecoversFromOpen
