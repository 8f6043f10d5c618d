CONSTANTS
  ValRange = 8
  WordRange = 8
  BenchRows = {1, 2, 3, 4, 5, 6, 7}
  BenchSeeds <- MCSeeds
SPECIFICATION FairWalkSpec
INVARIANTS
  WalkIsAffine
PROPERTIES
  DerivationEnds
