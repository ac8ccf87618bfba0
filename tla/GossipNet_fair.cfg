SPECIFICATION FairSpec
CONSTANTS
  Nodes = {n1, n2, n3}
  MaxLines = 2
  MaxTyped = 2
  Capacity = 2
  MaxLeaves = 0
PROPERTIES
  ReachesEveryone
