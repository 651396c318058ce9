SPECIFICATION Spec
CONSTANTS
  Docs = {d1, d2}
  Kinds = {"http", "git", "quay", "nvd", "cwe", "clearly"}
  MaxClock = 2
  MaxDisturbances = 2
INVARIANTS NothingMissed
PROPERTIES Converges
