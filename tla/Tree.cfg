SPECIFICATION Spec
CONSTANTS
  Paths <- MCPaths
  Hidden = {2}
  Systems <- MCSystems
  MaxDepths <- MCMaxDepths
  MaxChanges = 2
  MaxFailures = 1
INVARIANTS
  TypeOK
  Preorder
  FailuresContained
