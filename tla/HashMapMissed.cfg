SPECIFICATION UsesSpec
CONSTANTS
  k1 = k1
  k2 = k2
  k3 = k3
  k4 = k4
  v1 = v1
  v2 = v2
  Keys = {k1, k2, k3, k4}
  Values = {v1, v2}
  NoValue = NoValue
  Requests <- MCRequests
  Inserts <- MCInserts
  num_partitions = 2
  Hash <- MCHash
  max_batch_size = 2
  overflow_margin = 2
  overflow_resolution_margin = 1
  Policies = {"EvictRandom", "EvictLeastUsed", "EvictOldest"}
  SlotsPerPage = 1
  MaxAccess = 1
  MaxClock = 1
PROPERTY MissedIsAbsent
