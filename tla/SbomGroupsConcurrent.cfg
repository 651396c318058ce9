SPECIFICATION Spec
CONSTANTS
  Groups = {g1, g2}
  Clients = {c1, c2}
  SerialMoves = FALSE
  AnySpelling = FALSE
  Root = Root
  Absent = Absent
INVARIANT
  Acyclic
