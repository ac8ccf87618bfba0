SPECIFICATION Spec
CONSTANTS
  Nodes = {n1, n2, n3, n4}
  MaxLines = 2
  MaxTyped = 2
  Capacity = 1
  MaxLeaves = 1
INVARIANTS
  TypeOK
  LinksMatch
PROPERTIES
  IsChat
SYMMETRY Symmetry
