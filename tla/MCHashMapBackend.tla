---------------------------- MODULE MCHashMapBackend ----------------------------
(* With two partitions, all keys but k3 share partition 0, which takes no  *)
(* more than two of them.                                                  *)
EXTENDS HashMapUses, TLC

CONSTANTS k1, k2, k3, k4, v1, v2

MCHash == [k \in Keys |-> IF k = k3 THEN 1 ELSE 2]
MCRequests == {<<k1>>, <<k2, k3>>}
MCInserts == {[keys |-> <<k1>>, values |-> <<v1>>], [keys |-> <<k1>>, values |-> <<v2>>],
              [keys |-> <<k3, k2, k4>>, values |-> <<v1, v2, v1>>]}
===============================================================================
