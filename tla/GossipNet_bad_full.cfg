SPECIFICATION FairSpec
CONSTANTS
  Nodes = {n1, n2}
  MaxLines = 2
  MaxTyped = 2
  Capacity = 1
  MaxLeaves = 0
PROPERTIES
  ReachesEveryone
