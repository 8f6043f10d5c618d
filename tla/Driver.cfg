CONSTANTS
  ValRange = 4
  IdxRange = 4
  MAX_C = 2
  WordLanes = 1
  ReservedWords = 3
  Loads <- MCLoads
  Latencies = {0, 4}
  POLL_MARGIN = 1
SPECIFICATION Spec
INVARIANTS
  LoadTellsTheTruth
  HandlerIsHarmless
PROPERTIES
  LoadedIsRequested
