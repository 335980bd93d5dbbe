SPECIFICATION Spec
CONSTANTS
  k1 = k1
  k2 = k2
  k3 = k3
  Keys = {k1, k2, k3}
  empty_key = empty_key
  Versions = {1, 2}
  NoVector = NoVector
  Batches <- MCBatches
  Streams = {t1, t2}
  capacity_in_set = 2
  set_associativity = 2
  warp_size = 1
  SetHash <- MCSetHash
  SlabHash <- MCSlabHash
  MaxGlobalCounter = 2
INVARIANT IInv
PROPERTIES EvictsLeastRecentlyUsed MapSpec
SYMMETRY StreamSymmetry
