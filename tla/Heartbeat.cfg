SPECIFICATION Spec
CONSTANTS
  Runs = {r1, r2}
  Rate = 1
  MaxDelay = 0
  DbFaults = TRUE
  BeatIds = {1, 2, 3, 4}
  NoRow = NoRow
  NoBeat = NoBeat
  Nobody = Nobody
  MaxTime = 5
  MaxIncarnation = 2
INVARIANTS
  OneActiveRun
  OneHolder
PROPERTY
  ImplementsLease
SYMMETRY Symmetry
\* The bound of the clock stops the model.
CHECK_DEADLOCK FALSE
