\* Two APIs over one global bucket, one of them throttled by a window of five.
CONSTANTS
  a = a
  b = b
  global = global
  APIs <- TwoAPIs
  Global = global
  Unit = 2
  Capacity <- Capacities
  BaseRate <- Rates
  GlobalRate = 1
  Enabled = {a}
  Scale = 3
  MinFactor = 1
  MaxFactor = 3
  DownNum = 1
  DownDen = 2
  UpNum = 2
  UpDen = 1
  ErrorWindow = 5
  HighPercent = 30
  LowPercent = 5
  MaxTime = 3
SPECIFICATION FairSpec
INVARIANTS TypeOK FactorInForce Budget
PROPERTIES ImplementsFluid ImplementsCounts RateRecovers
