SPECIFICATION Spec
CONSTANTS
  Importers = {i1}
  Replicas = {s1, s2}
  Concurrency = 1
  Slots = {1, 2}
  Beats = {b1, b2, b3, b4}
  Requests = {"delete", "force"}
  Checking = {}
  Timely = TRUE
  Prompt = FALSE
  DbFaults = FALSE
  Ages = 0
  MaxCrashes = 1
  NoRow = NoRow
  NoBeat = NoBeat
  Never = Never
  Nobody = Nobody
INVARIANTS
  ConcurrencyLimit
  StateTruth
PROPERTY
  HeartKeepsRow
SYMMETRY Symmetry
