CONSTANTS
  ValRange = 4
  IdxRange = 4
  MAX_C = 2
  WordLanes = 1
  ReservedWords = 3
  Values = {3, 6}
  Counts = {1, 3}
  Queries = {1}
  Latencies = {0, 2}
  Jobs <- MCJobs
SPECIFICATION ClientSpec
INVARIANTS
  DeviceContract
  ClientSucceeds
