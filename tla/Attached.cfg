CONSTANTS
  ValRange = 4
  Lanes <- MCLanes
  Contexts <- MCContexts
  Sources <- MCSources
SPECIFICATION SimulateSpec
INVARIANTS
  OutputsAgree
  PinsAgree
  Conservation
