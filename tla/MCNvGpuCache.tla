----------------------------- MODULE MCNvGpuCache -----------------------------
(* Three keys compete for the two slots of set 0 (two slabs of one slot),   *)
(* two of them starting at slab 1; set 1 stays empty.                       *)
EXTENDS NvGpuCache, TLC

CONSTANTS k1, k2, k3

MCSetHash == k1 :> 0 @@ k2 :> 2 @@ k3 :> 4
MCSlabHash == k1 :> 0 @@ k2 :> 1 @@ k3 :> 3
MCBatches == {<<k1, k2>>, <<k3>>}
StreamSymmetry == Permutations(Streams)
===============================================================================
