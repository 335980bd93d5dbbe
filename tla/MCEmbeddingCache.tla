--------------------------- MODULE MCEmbeddingCache ---------------------------
(* A request with a repeated key; thresholds that allow, and that rule out, *)
(* asynchronous insertion; two callers and a failing server, or one caller  *)
(* and refreshes, the server failing or not.                                *)
EXTENDS EmbeddingCache, TLC

CONSTANTS k1, k2, c1, c2, b1, b2

MCRequests == {<<k1, k2, k1>>}
MCUpdates == [k \in Keys |-> IF k = k1 THEN 1 ELSE 0]
MCDeployments ==
  {[callers |-> {c1, c2}, blocks |-> {b1, b2}, thresholds |-> {50, 101},
    refreshed |-> FALSE, updates |-> MCUpdates, failures |-> 1],
   [callers |-> {c1}, blocks |-> {b1, b2}, thresholds |-> {50},
    refreshed |-> TRUE, updates |-> MCUpdates, failures |-> 0],
   [callers |-> {c1}, blocks |-> {b1, b2}, thresholds |-> {101},
    refreshed |-> TRUE, updates |-> MCUpdates, failures |-> 1]}
===============================================================================
