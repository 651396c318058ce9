SPECIFICATION Spec
CONSTANTS
  Groups = {g1, g2, g3, g4}
  Clients = {c1, c2}
  SerialMoves = TRUE
  AnySpelling = FALSE
  Root = Root
  Absent = Absent
INVARIANTS
  TypeOK
  Acyclic
