CONSTANTS
  LEAD = 2
  BANK_N_MAX = 3
  Rows = {1, 3, 4}
  Seeds <- MCSeeds
  CtrlWords <- MCWords
SPECIFICATION FairWindowSpec
INVARIANTS
  PassIsPermutation
  WindowContract
PROPERTIES
  ReadinessReturns
