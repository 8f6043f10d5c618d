CONSTANTS
  ValRange = 4
  WordRange = 4
  Rows = {3}
  Seeds <- MCTwoSeeds
  CtrlWords <- MCPlainWords
  ShuffledInputs <- MCOneShuffled
SPECIFICATION Spec
INVARIANTS
  SeedIsLoaded
