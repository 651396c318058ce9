SPECIFICATION RateSpec
CONSTANTS
  Period = 2
  Threshold = 2
  NumberOfPeriods = 3
  MaxInstant = 14
INVARIANTS
  RecoversWithinTwice
PROPERTY
  BurstReported
\* The bound of the clock stops the model.
CHECK_DEADLOCK FALSE
