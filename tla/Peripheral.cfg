CONSTANTS
  ValRange = 4
  IdxRange = 5
  MaxC = 2
  WordBits = 1
  Requests <- PeripheralRequests
SPECIFICATION FairSpec
INVARIANTS
  ValidIsCurrent
PROPERTIES
  FixedLatency
  CompletionNotLost
  RefusalIsSilent
  OneServicePerResponse
  AnswersAreTheMatrix
  KeepsThePromise
  TransformEnds
