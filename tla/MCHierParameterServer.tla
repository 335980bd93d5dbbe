------------------------ MODULE MCHierParameterServer ------------------------
(* k1 is in the model file, k2 first appears with an update.               *)
EXTENDS HierParameterServer, TLC

CONSTANTS k1, k2

MCUpdates == <<k1, k2, k1>>
MCRequests == {<<k1, k2>>}
Databases(v, p, b, i) == [volatile |-> v, persistent |-> p, cache_missed_embeddings |-> b,
                          initialize |-> i]
MCConfigs == {Databases(TRUE, TRUE, TRUE, {"volatile", "persistent"}),
              Databases(TRUE, TRUE, FALSE, {"persistent"})}
             \cup {Databases(b, ~b, FALSE, {"volatile", "persistent"}) : b \in BOOLEAN}
             \cup {Databases(FALSE, FALSE, FALSE, {})}
===============================================================================
