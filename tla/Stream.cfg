CONSTANTS
  ValRange = 8
  IdxRange = 4
  MaxRows = 3
SPECIFICATION FairSpec
INVARIANTS
  StreamContract
  EvaluatesTheMatrix
PROPERTY
  RunCompletes
