----------------------------- MODULE HashMapUses -----------------------------
(***************************************************************************)
(* The use that callers have made of the keys of a HashMapBackend, as they *)
(* can tell it from their inserts and from the results of their fetches.   *)
(* What resolve_overflow_ evicts is compared with it; the statistics in    *)
(* the payloads, from which resolve_overflow_ decides, play no part here.  *)
(***************************************************************************)
EXTENDS HashMapBackend

VARIABLES uses,   \* key -> how it has been used since it was last written
          met     \* the keys found since the lock was last held exclusively

use_vars == <<vars, uses, met>>

Unused(time) == [hits |-> 0, periods |-> 0, since |-> time, at |-> time]

UsesInit == /\ Init
            /\ uses = [k \in Keys |-> Unused(0)]
            /\ met = {}

(* The positions that a fetch has filled in, in this step. *)
Filled == IF result' # result /\ result'.op = "fetch" /\ table = "ready"
          THEN {result'.indices[j] : j \in DOMAIN result'.indices} \ result'.missed
          ELSE {}

(* The keys that an insert has written, in this step. *)
JustWritten == {call.keys[pos'[p] - 1] : p \in {p \in Parts : batch_size'[p] = batch_size[p] + 1}}

(* A period is the time between two exclusive holders of the lock.  For a  *)
(* key: how often it was found, and in how many periods; when it was last  *)
(* used, and when the period began that it was last used in.               *)
Found(k, times) ==
  CASE overflow_policy = "EvictLeastUsed" ->
         [uses[k] EXCEPT !.hits = @ + times, !.periods = IF k \in met THEN @ ELSE @ + 1]
    [] overflow_policy = "EvictOldest" ->
         [uses[k] EXCEPT !.since = settled.time, !.at = clock]
    [] OTHER -> uses[k]

Note ==
  LET filled == Filled
      written == JustWritten
      Times(k) == Cardinality({i \in filled : result'.keys[i] = k})
  IN  /\ uses' = [k \in Keys |-> IF k \in written THEN Unused(clock)
                                 ELSE IF k \notin entries'[PartOf(k)] THEN Unused(0)
                                 ELSE IF Times(k) > 0 THEN Found(k, Times(k))
                                 ELSE uses[k]]
      /\ met' = IF overflow_policy = "EvictLeastUsed" /\ UNCHANGED <<entries, insertion>>
                THEN met \cup {result'.keys[i] : i \in filled} ELSE {}

UsesNext ==
  /\ Next
  /\ Note
  /\ Cardinality(UNION {{<<k, n>> : n \in 1 .. uses'[k].hits} : k \in Keys}) <= MaxAccess

UsesSpec == UsesInit /\ [][UsesNext]_use_vars
FairUsesSpec == UsesSpec /\ WF_vars(InsertStep)

-------------------------------------------------------------------------------
(* A key that is stored: its payload has counted at most the times it was  *)
(* found and at least the periods, and its time lies in the last period in *)
(* which it was used.                                                      *)
Tracked(k) ==
  /\ overflow_policy = "EvictLeastUsed" =>
       /\ uses[k].periods <= access_count[k] /\ access_count[k] <= uses[k].hits
       /\ call = NoCall => IF k \in met THEN uses[k].periods <= settled.count[k] + 1
                                        ELSE uses[k].periods <= settled.count[k]
  /\ overflow_policy = "EvictOldest" =>
       uses[k].since <= last_access[k] /\ last_access[k] <= uses[k].at

UsesInv ==
  /\ uses \in [Keys -> [hits : Nat, periods : Nat, since : Nat, at : Nat]]
  /\ settled.time <= clock
  /\ Locked => call.keys # <<>>
  /\ \A k \in Keys : k \in entries[PartOf(k)] => Tracked(k)

(* Fetches that run side by side may lose the accesses they note, which    *)
(* hash_map_backend_detail.hpp ignores "because insignificant in           *)
(* practice".  An overflow then still removes no key that was found in     *)
(* more periods than a key that stays was found at all (EvictLeastUsed),   *)
(* and none that was last used in a period that began after the last use   *)
(* of a key that stays (EvictOldest).                                      *)
EvictsUnused ==
  [][\A p \in Parts : part_pc[p] = "overflow" =>
       \A j \in entries[p] \ entries'[p], k \in entries'[p] :
         CASE overflow_policy = "EvictLeastUsed" -> uses[j].periods <= uses[k].hits
           [] overflow_policy = "EvictOldest" -> uses[j].since <= uses[k].at
           [] OTHER -> TRUE]_use_vars
===============================================================================
