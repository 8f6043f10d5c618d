CONSTANTS
  ValRange = 4
  WordRange = 4
  Rows = {0, 1, 3}
  Seeds <- MCRedrawSeed
  CtrlWords <- MCWords
  ShuffledInputs <- MCOneShuffled
SPECIFICATION Spec
INVARIANTS
  ReadyPairIsOfTheRow
  PassFollowsItsSource
  AbortedIsReported
PROPERTIES
  AccessesAreSafe
