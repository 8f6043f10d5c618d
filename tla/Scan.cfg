CONSTANTS
  ValRange = 4
  Idx = {0, 1, 2}
  Lanes <- MCLanes
  Contexts <- MCContexts
SPECIFICATION FairSpec
INVARIANTS
  PassIsAPermutation
  PassOfOneMatrix
  PinsContract
PROPERTIES
  IncompletePassIsMarked
  PassEnds
