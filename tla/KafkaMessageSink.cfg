SPECIFICATION FairSpec
CONSTANTS
  k1 = k1
  k2 = k2
  k3 = k3
  Keys = {k1, k2, k3}
  Posts <- MCPosts
  num_partitions = 2
  Hash <- MCHash
  Buffers = {b1, b2}
  NoBuffer = NoBuffer
  Capacity = 2
  SpuriousWakeups = TRUE
  MaxPosts = 2
  MaxFailures = 1
INVARIANTS IInv LogInOrder
PROPERTIES FlushIsBarrier CallsReturn
CHECK_DEADLOCK FALSE
