\* Four schemas in every combination of the shapes below, one operation each.
SPECIFICATION Spec
CONSTANTS
  Node <- MCNode
  Documents <- MCDocuments
  Operations <- MCOperations
  Reserved <- MCReserved
  Values <- MCValues
  Depth <- MCDepth
INVARIANTS
  TypeOK
  WalkMakesATree
  RequestsAccepted
  ExactWithoutLoss
CHECK_DEADLOCK FALSE
