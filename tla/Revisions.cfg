SPECIFICATION MCSpec
CONSTANTS
  Clients = {c1, c2}
  Configs = {k1, k2}
  MaxRevision = 4
  NoRow = NoRow
  Editors = {e1, e2}
  Readers = {e1}
  SbomIds = {s1, s2}
  GroupIds = {g1, g2}
  Keys = {red, green}
  MaxSbomRevision = 3
  Tabs = {t1, t2}
  Values = {v1, v2}
  MaxSets = 4
  NoPreference = NoPreference
SYMMETRY Symmetry
INVARIANTS
  CollisionJustified
PROPERTIES
  NoLostUpdate RequestsWhole NoLostAssignment NoLostPreference
