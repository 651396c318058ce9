SPECIFICATION FairSpec
CONSTANTS
  Importers = {i1, i2}
  Replicas = {s1}
  Concurrency = 1
  Slots = {1}
  Beats = {b1, b2, b3}
  Requests = {}
  Checking = {i1}
  Timely = TRUE
  Prompt = TRUE
  DbFaults = FALSE
  Ages = 2
  MaxCrashes = 1
  NoRow = NoRow
  NoBeat = NoBeat
  Never = Never
  Nobody = Nobody
PROPERTY
  NoStarvation
