SPECIFICATION FairSpec
CONSTANTS
  k1 = k1
  k2 = k2
  Keys = {k1, k2}
  ModelKeys = {k1}
  Updates <- MCUpdates
  Requests <- MCRequests
  Callers = {c1}
  Configs <- MCConfigs
  max_batch_size = 2
  MaxTasks = 2
PROPERTY VolatileCatchesUp
