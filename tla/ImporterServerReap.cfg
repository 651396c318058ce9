SPECIFICATION EndlessSpec
CONSTANTS
  Importers = {i1}
  Replicas = {s1}
  Concurrency = 1
  Slots = {1}
  Beats = {b1, b2, b3, b4}
  Requests = {"enable", "delete", "create"}
  Checking = {i1}
  Timely = FALSE
  Prompt = FALSE
  DbFaults = TRUE
  Ages = 0
  MaxCrashes = 0
  NoRow = NoRow
  NoBeat = NoBeat
  Never = Never
  Nobody = Nobody
PROPERTIES
  AbandonedReaped
  UnwantedCancelled
