---------------------------- MODULE HashMapBackend ----------------------------
(***************************************************************************)
(* HashMapBackend (src/hps/hash_map_backend.cpp), the volatile database in *)
(* CPU memory, for one table.  A table is an array of partitions; a        *)
(* partition maps keys to slots of the value pages it has allocated.       *)
(*                                                                         *)
(* insert and evict hold read_write_guard_ exclusively.  insert works on   *)
(* its partitions in parallel, batch by batch, so that the steps of the    *)
(* partitions interleave; no other call sees the table in between.         *)
(* contains, fetch and the dumps share the lock, and only update the       *)
(* access statistics: each of them is one step.  Those updates are not     *)
(* synchronised, so that a fetch may overwrite what the fetches beside it  *)
(* have noted since the lock was last held exclusively.                    *)
(***************************************************************************)
EXTENDS Naturals, Sequences, FiniteSets

CONSTANTS Keys, Values, NoValue,
          Requests,          \* the key sequences that callers ask for
          Inserts,           \* the keys and values that callers insert
          num_partitions, Hash,
          max_batch_size, overflow_margin, overflow_resolution_margin,
          Policies,          \* possible overflow_policies
          SlotsPerPage,      \* allocation_rate / stride
          MaxAccess,         \* bound on the accesses
          MaxClock           \* bound on the time

ASSUME HashMapAssumption ==
  /\ NoValue \notin Values
  /\ IsFiniteSet(Keys)
  /\ Requests \subseteq Seq(Keys)
  /\ Inserts \subseteq [keys : Seq(Keys), values : Seq(Values)]
  /\ \A r \in Inserts : Len(r.values) = Len(r.keys)
  /\ num_partitions \in Nat \ {0}
  /\ Hash \in [Keys -> Nat]
  /\ max_batch_size \in Nat \ {0}
  /\ overflow_margin \in Nat \ {0}
  /\ overflow_resolution_margin \in Nat
  /\ SlotsPerPage \in Nat \ {0}
  /\ Policies \subseteq {"EvictRandom", "EvictLeastUsed", "EvictOldest"}

Parts == 0 .. num_partitions - 1
PartOf(k) == Hash[k] % num_partitions   \* HCTR_HPS_KEY_TO_PART_INDEX_

VARIABLES overflow_policy,  \* a DatabaseOverflowPolicy_t
          table,        \* "absent", "blank" (no partitions yet) or "ready"
          entries,      \* part -> the keys it holds
          slot,         \* key -> the slot its payload points to
          access_count, \* key -> payload.access_count
          last_access,  \* key -> payload.last_access
          settled,      \* the counts and the time when the lock was last exclusive
          num_slots,    \* part -> slots in all of its value_pages
          value_slots,  \* part -> the free ones
          memory,       \* part -> contents of its slots
          clock,        \* std::time
          call,         \* the insert that is executed
          part_pc,      \* part -> where the insert is
          pos,          \* part -> next position in the keys of the insert
          batch_size,   \* part -> keys inserted in this batch
          result        \* of the last call that returned

content == <<overflow_policy, table, entries, slot, num_slots, value_slots, memory>>
stats == <<access_count, last_access>>
insertion == <<call, part_pc, pos, batch_size>>
vars == <<content, stats, settled, clock, insertion, result>>

NoCall == [keys |-> <<>>, values |-> <<>>, num_inserts |-> 0]
NoResult == [op |-> "none"]

Stored == [k \in Keys |-> IF k \in entries[PartOf(k)] THEN memory[PartOf(k)][slot[k]] ELSE NoValue]

Init ==
  /\ overflow_policy \in Policies
  /\ table = "absent"
  /\ entries = [p \in Parts |-> {}]
  /\ slot = [k \in Keys |-> 0]
  /\ access_count = [k \in Keys |-> 0]
  /\ last_access = [k \in Keys |-> 0]
  /\ settled = [count |-> [k \in Keys |-> 0], time |-> 0]
  /\ num_slots = [p \in Parts |-> 0]
  /\ value_slots = [p \in Parts |-> {}]
  /\ memory = [p \in Parts |-> <<>>]
  /\ clock = 0
  /\ call = NoCall
  /\ part_pc = [p \in Parts |-> "done"]
  /\ pos = [p \in Parts |-> 1]
  /\ batch_size = [p \in Parts |-> 0]
  /\ result = NoResult

(* A call begins when no insert holds the lock and the result of the      *)
(* previous call has been taken.                                           *)
Locked == \E p \in Parts : part_pc[p] # "done"
Unlocked == ~Locked /\ call = NoCall /\ result = NoResult

(* The exclusive holder releases the lock: all fetches from here on see    *)
(* what it has left.                                                       *)
Release == settled' = [count |-> access_count', time |-> clock]

Return == /\ result # NoResult
          /\ result' = NoResult
          /\ UNCHANGED <<content, stats, settled, clock, insertion>>

(* Only EvictOldest looks at the time. *)
Tick == /\ overflow_policy = "EvictOldest"
        /\ clock < MaxClock
        /\ clock' = clock + 1
        /\ UNCHANGED <<content, stats, settled, insertion, result>>

-------------------------------------------------------------------------------
(* insert *)

(* A single pair concerns only its own partition; otherwise every          *)
(* partition goes through all of the keys.                                 *)
Insert(keys, values) ==
  /\ Unlocked
  /\ keys # <<>>
  /\ table' = "ready"
  /\ call' = [keys |-> keys, values |-> values, num_inserts |-> 0]
  /\ part_pc' = [p \in Parts |-> IF Len(keys) = 1 /\ p # PartOf(keys[1])
                                 THEN "done" ELSE "check"]
  /\ pos' = [p \in Parts |-> 1]
  /\ batch_size' = [p \in Parts |-> 0]
  /\ UNCHANGED <<overflow_policy, entries, slot, num_slots, value_slots, memory, stats,
                 settled, clock, result>>

(* Without any pairs the table is still created. *)
InsertNothing ==
  /\ Unlocked
  /\ table' = "ready"
  /\ result' = [op |-> "insert", num_inserts |-> 0]
  /\ UNCHANGED <<overflow_policy, entries, slot, num_slots, value_slots, memory, stats,
                 clock, insertion>>
  /\ Release

(* HCTR_CHECK rejects the value size of the first insert into a table,     *)
(* after try_emplace has created the table.                                *)
InsertRejected ==
  /\ Unlocked
  /\ table = "absent"
  /\ table' = "blank"
  /\ UNCHANGED <<overflow_policy, entries, slot, num_slots, value_slots, memory, stats,
                 clock, insertion, result>>
  /\ Release

(* Head of the loop over the batches. *)
InsertCheck(p) ==
  /\ part_pc[p] = "check"
  /\ part_pc' = [part_pc EXCEPT ![p] =
       IF pos[p] > Len(call.keys) THEN "done"
       ELSE IF Cardinality(entries[p]) >= overflow_margin THEN "overflow"
       ELSE "batch"]
  /\ batch_size' = [batch_size EXCEPT ![p] = 0]
  /\ UNCHANGED <<content, stats, settled, clock, call, pos, result>>

(* HCTR_HPS_HASH_MAP_EVICT_K_: the slots go back to the free list. *)
EraseMutant(ks) ==
  /\ entries' = [p \in Parts |-> entries[p] \ ks]
  /\ UNCHANGED <<value_slots, slot, access_count, last_access>>

Erase(ks) ==
  /\ entries' = [p \in Parts |-> entries[p] \ ks]
  /\ value_slots' = [p \in Parts |-> value_slots[p] \cup {slot[k] : k \in entries[p] \cap ks}]
  /\ slot' = [k \in Keys |-> IF k \in ks THEN 0 ELSE slot[k]]
  /\ access_count' = [k \in Keys |-> IF k \in ks THEN 0 ELSE access_count[k]]
  /\ last_access' = [k \in Keys |-> IF k \in ks THEN 0 ELSE last_access[k]]

(* Which keys a batch of resolve_overflow_ may consist of. *)
Precedes(j, k) == CASE overflow_policy = "EvictRandom" -> TRUE
                    [] overflow_policy = "EvictLeastUsed" -> access_count[j] <= access_count[k]
                    [] overflow_policy = "EvictOldest" -> last_access[j] <= last_access[k]

Victims(p) == {ks \in SUBSET entries[p] :
                 /\ \/ Cardinality(ks) = max_batch_size
                    \/ Cardinality(ks) < max_batch_size /\ ks = entries[p]
                 /\ \A j \in ks, k \in entries[p] \ ks : Precedes(j, k)}

(* One batch of resolve_overflow_.  The normalisation that follows the     *)
(* EvictLeastUsed batches only changes a local copy of the counts.         *)
ResolveOverflow(p) ==
  /\ part_pc[p] = "overflow"
  /\ \E ks \in Victims(p) :
       LET rest == entries[p] \ ks
       IN  /\ Erase(ks)
           /\ part_pc' = [part_pc EXCEPT ![p] =
                IF Cardinality(rest) <= overflow_resolution_margin THEN "batch" ELSE "overflow"]
  /\ UNCHANGED <<overflow_policy, table, num_slots, memory, settled, clock, call, pos,
                 batch_size, result>>

(* The slots of the partition, and the free ones, after a page has been    *)
(* allocated, if one is needed.                                            *)
Grown(p) == IF value_slots[p] # {} THEN num_slots[p] ELSE num_slots[p] + SlotsPerPage
SlotsWithPage(p) == IF value_slots[p] # {} THEN value_slots[p] ELSE num_slots[p] + 1 .. Grown(p)

InsertIntoSlot(p, k, v) ==
  /\ \E s \in SlotsWithPage(p) :
       /\ slot' = [slot EXCEPT ![k] = s]
       /\ value_slots' = [value_slots EXCEPT ![p] = SlotsWithPage(p) \ {s}]
       /\ memory' = [memory EXCEPT ![p] =
            [i \in 1 .. Grown(p) |-> IF i = s THEN v
                                     ELSE IF i \in DOMAIN @ THEN @[i] ELSE NoValue]]
  /\ num_slots' = [num_slots EXCEPT ![p] = Grown(p)]
  /\ entries' = [entries EXCEPT ![p] = @ \cup {k}]

OverwriteMutant(p, k, v) ==
  /\ memory' = [memory EXCEPT ![p][(slot[k] % num_slots[p]) + 1] = v]
  /\ UNCHANGED <<entries, slot, num_slots, value_slots>>

Overwrite(p, k, v) ==
  /\ memory' = [memory EXCEPT ![p][slot[k]] = v]
  /\ UNCHANGED <<entries, slot, num_slots, value_slots>>

(* The policy decides which of the statistics exist.  A hit at each of the *)
(* given positions of keys counts as an access.  The count is read, raised *)
(* and written back, and the time is read well before it is written, while *)
(* other fetches do the same: what was read may be as old as the last      *)
(* exclusive holder of the lock.                                           *)
UsedMutant(keys, positions) == UNCHANGED <<access_count, last_access>>

Used(keys, positions) ==
  LET found == {keys[i] : i \in positions}
      Counts(k) == settled.count[k] + 1 ..
                     access_count[k] + Cardinality({i \in positions : keys[i] = k})
  IN  /\ IF overflow_policy = "EvictLeastUsed"
         THEN \E c \in [found -> UNION {Counts(k) : k \in found}] :
                /\ \A k \in found : c[k] \in Counts(k)
                /\ access_count' = [k \in Keys |-> IF k \in found THEN c[k] ELSE access_count[k]]
         ELSE UNCHANGED access_count
      /\ IF overflow_policy = "EvictOldest"
         THEN \E now \in [found -> settled.time .. clock] :
                last_access' = [k \in Keys |-> IF k \in found THEN now[k] ELSE last_access[k]]
         ELSE UNCHANGED last_access

Written(k) ==
  /\ access_count' = [access_count EXCEPT ![k] = 0]
  /\ last_access' = [last_access EXCEPT ![k] =
                       IF overflow_policy = "EvictOldest" THEN clock ELSE @]

(* HCTR_HPS_HASH_MAP_INSERT_IMPL_ for the next key of the partition. *)
InsertKey(p) ==
  /\ part_pc[p] = "batch"
  /\ \E i \in pos[p] .. Len(call.keys) :
       LET k == call.keys[i]
       IN  /\ PartOf(k) = p
           /\ \A j \in pos[p] .. i - 1 : PartOf(call.keys[j]) # p
           /\ pos' = [pos EXCEPT ![p] = i + 1]
           /\ \/ /\ k \in entries[p]
                 /\ Overwrite(p, k, call.values[i])
                 /\ UNCHANGED call
              \/ /\ k \notin entries[p]
                 /\ InsertIntoSlot(p, k, call.values[i])
                 /\ call' = [call EXCEPT !.num_inserts = @ + 1]
           /\ Written(k)
  /\ batch_size' = [batch_size EXCEPT ![p] = @ + 1]
  /\ part_pc' = [part_pc EXCEPT ![p] =
                   IF batch_size[p] + 1 >= max_batch_size THEN "check" ELSE "batch"]
  /\ UNCHANGED <<overflow_policy, table, settled, clock, result>>

(* No key is left for this partition. *)
InsertScannedMutant(p) ==
  /\ part_pc[p] = "batch"
  /\ \A i \in pos[p] .. Len(call.keys) : PartOf(call.keys[i]) # p
  /\ part_pc' = [part_pc EXCEPT ![p] = "check"]
  /\ UNCHANGED <<content, stats, settled, clock, call, pos, batch_size, result>>

InsertScanned(p) ==
  /\ part_pc[p] = "batch"
  /\ \A i \in pos[p] .. Len(call.keys) : PartOf(call.keys[i]) # p
  /\ pos' = [pos EXCEPT ![p] = Len(call.keys) + 1]
  /\ part_pc' = [part_pc EXCEPT ![p] = "check"]
  /\ UNCHANGED <<content, stats, settled, clock, call, batch_size, result>>

InsertReturns ==
  /\ call # NoCall /\ ~Locked
  /\ result' = [op |-> "insert", num_inserts |-> call.num_inserts]
  /\ call' = NoCall
  /\ pos' = [p \in Parts |-> 1]
  /\ batch_size' = [p \in Parts |-> 0]
  /\ UNCHANGED <<content, stats, clock, part_pc>>
  /\ Release

-------------------------------------------------------------------------------
(* fetch, in both forms: the caller wants the values of keys[i] for the    *)
(* positions i in indices (all positions, in the direct form).             *)

Positions(keys) == [i \in 1 .. Len(keys) |-> i]

(* The partition that is searched for the j-th index.  With a single index *)
(* the code takes the partition of the first key, whatever the index is.   *)
SearchedMutant(keys, indices, j) == PartOf(keys[1])

Searched(keys, indices, j) ==
  IF Len(indices) = 1 THEN PartOf(keys[1]) ELSE PartOf(keys[indices[j]])

(* Its rank among the indices that the same partition serves.              *)
Rank(keys, indices, j) ==
  Cardinality({i \in 1 .. j : Searched(keys, indices, i) = Searched(keys, indices, j)})

(* The time budget is checked before each batch of a partition; once it is *)
(* exceeded, the rest of the partition's indices are reported as missed.   *)
FetchResult(keys, indices, batches) ==
  LET n == Len(indices)
      Part(j) == Searched(keys, indices, j)
      skipped == {j \in 1 .. n : Rank(keys, indices, j) > batches[Part(j)] * max_batch_size}
      hits == {j \in 1 .. n \ skipped : keys[indices[j]] \in entries[Part(j)]}
  IN  [op |-> "fetch", keys |-> keys, indices |-> indices,
       skipped |-> {indices[j] : j \in skipped},
       missed |-> {indices[j] : j \in 1 .. n \ hits},
       values |-> [i \in DOMAIN keys |->
                     IF \E j \in hits : indices[j] = i
                     THEN memory[PartOf(keys[i])][slot[keys[i]]] ELSE NoValue],
       hit_count |-> Cardinality(hits)]

Fetch(keys, indices) ==
  /\ Unlocked /\ indices # <<>>
  /\ table = "ready"
  /\ \A k \in Keys : access_count[k] < MaxAccess
  /\ \E batches \in [Parts -> 0 .. Len(indices)] :
       /\ result' = FetchResult(keys, indices, batches)
       /\ Used(keys, {indices[j] : j \in DOMAIN indices} \ result'.missed)
  /\ UNCHANGED <<content, settled, clock, insertion>>

(* Base::fetch: there is no such table, every key is missed. *)
FetchAbsent(keys, indices) ==
  /\ Unlocked /\ indices # <<>>
  /\ table = "absent"
  /\ result' = [op |-> "fetch", keys |-> keys, indices |-> indices, skipped |-> {},
                missed |-> {indices[j] : j \in DOMAIN indices},
                values |-> [i \in DOMAIN keys |-> NoValue], hit_count |-> 0]
  /\ UNCHANGED <<content, stats, settled, clock, insertion>>

(* A table without partitions: nothing is searched and nothing is missed.  *)
FetchBlank(keys, indices) ==
  /\ Unlocked /\ Len(indices) > 1
  /\ table = "blank"
  /\ result' = [op |-> "fetch", keys |-> keys, indices |-> indices, skipped |-> {}, missed |-> {},
                values |-> [i \in DOMAIN keys |-> NoValue], hit_count |-> Len(indices)]
  /\ UNCHANGED <<content, stats, settled, clock, insertion>>

(* The partition of a single key, to be fetched, looked for or evicted, is *)
(* computed modulo the number of partitions: if that is zero, the process  *)
(* ends, and with it the table.                                            *)
DivideByZero(keys) ==
  /\ Unlocked /\ Len(keys) = 1
  /\ table = "blank"
  /\ table' = "absent"
  /\ result' = [op |-> "crash"]
  /\ UNCHANGED <<overflow_policy, entries, slot, num_slots, value_slots, memory, stats,
                 settled, clock, insertion>>

(* contains counts the keys that are there.  Out of time, it stops in a    *)
(* table of several partitions, and does not stop otherwise.               *)
Contains(keys) ==
  /\ Unlocked /\ keys # <<>>
  /\ table = "blank" => Len(keys) > 1
  /\ \E batches \in [Parts -> 0 .. Len(keys)] :
       LET Counted(j) == \/ Len(keys) = 1 \/ num_partitions = 1
                         \/ Rank(keys, Positions(keys), j) <= batches[PartOf(keys[j])] * max_batch_size
       IN  result' = [op |-> "contains", keys |-> keys,
                      hit_count |-> Cardinality({j \in DOMAIN keys :
                                      Counted(j) /\ keys[j] \in entries[PartOf(keys[j])]})]
  /\ UNCHANGED <<content, stats, settled, clock, insertion>>

(* dump_bin and dump_sst write out what is there. *)
Dump ==
  /\ Unlocked
  /\ result' = [op |-> "dump",
                pairs |-> UNION {{<<k, memory[p][slot[k]]>> : k \in entries[p]} : p \in Parts}]
  /\ UNCHANGED <<content, stats, settled, clock, insertion>>

-------------------------------------------------------------------------------
(* evict *)

EvictKeys(keys) ==
  /\ Unlocked /\ table # "absent" /\ keys # <<>>
  /\ table = "blank" => Len(keys) > 1
  /\ Erase({keys[i] : i \in DOMAIN keys})
  /\ Release
  /\ UNCHANGED <<overflow_policy, table, num_slots, memory, clock, insertion, result>>

EvictTable ==
  /\ Unlocked /\ table # "absent"
  /\ table' = "absent"
  /\ entries' = [p \in Parts |-> {}]
  /\ num_slots' = [p \in Parts |-> 0]
  /\ value_slots' = [p \in Parts |-> {}]
  /\ memory' = [p \in Parts |-> <<>>]
  /\ slot' = [k \in Keys |-> 0]
  /\ access_count' = [k \in Keys |-> 0]
  /\ last_access' = [k \in Keys |-> 0]
  /\ Release
  /\ UNCHANGED <<overflow_policy, clock, insertion, result>>

InsertStep == \/ \E p \in Parts : \/ InsertCheck(p) \/ ResolveOverflow(p)
                                  \/ InsertKey(p) \/ InsertScanned(p)
              \/ InsertReturns

Read(keys) == \/ \E n \in 1 .. Len(keys) :
                    LET indices == [j \in 1 .. Len(keys) + 1 - n |-> n + j - 1]
                    IN  \/ Fetch(keys, indices) \/ FetchAbsent(keys, indices)
                        \/ FetchBlank(keys, indices) \/ DivideByZero(indices)
              \/ Contains(keys)

Next == \/ Tick \/ Return \/ InsertStep \/ InsertNothing \/ InsertRejected \/ Dump \/ EvictTable
        \/ \E r \in Inserts : Insert(r.keys, r.values)
        \/ \E keys \in Requests : Read(keys) \/ EvictKeys(keys) \/ DivideByZero(keys)

Spec == Init /\ [][Next]_vars

(* An insert that has begun goes on; nobody has to call. *)
FairSpec == Spec /\ WF_vars(InsertStep)

-------------------------------------------------------------------------------
TypeOK ==
  /\ overflow_policy \in Policies
  /\ table \in {"absent", "blank", "ready"}
  /\ entries \in [Parts -> SUBSET Keys]
  /\ slot \in [Keys -> Nat]
  /\ access_count \in [Keys -> Nat]
  /\ last_access \in [Keys -> Nat]
  /\ settled \in [count : [Keys -> Nat], time : Nat]
  /\ num_slots \in [Parts -> Nat]
  /\ value_slots \in [Parts -> SUBSET Nat]
  /\ DOMAIN memory = Parts
  /\ \A p \in Parts : memory[p] \in [1 .. num_slots[p] -> Values \cup {NoValue}]
  /\ clock \in Nat
  /\ call \in [keys : Seq(Keys), values : Seq(Values), num_inserts : Nat]
  /\ DOMAIN call.values = DOMAIN call.keys
  /\ part_pc \in [Parts -> {"check", "overflow", "batch", "done"}]
  /\ pos \in [Parts -> Nat \ {0}]
  /\ batch_size \in [Parts -> Nat]

(* Every slot of a value page has exactly one owner: one key of the        *)
(* partition, which has put a value there, or the free list.               *)
PartOwned(p) ==
  /\ value_slots[p] \subseteq 1 .. num_slots[p]
  /\ \A k \in entries[p] : /\ PartOf(k) = p
                           /\ slot[k] \in 1 .. num_slots[p] \ value_slots[p]
                           /\ memory[p][slot[k]] \in Values
  /\ \A j, k \in entries[p] : slot[j] = slot[k] => j = k
  /\ Cardinality(entries[p]) + Cardinality(value_slots[p]) = num_slots[p]

(* No two keys share their value, and no slot is lost or handed out twice, *)
(* however inserts, overflows and evictions follow one another.            *)
SlotsOwned == \A p \in Parts : PartOwned(p)

(* overflow_margin is checked before each batch: a partition is below it   *)
(* when a batch begins, and exceeds it by less than one batch.             *)
OverflowBounded ==
  \A p \in Parts :
    /\ Cardinality(entries[p]) < overflow_margin + max_batch_size
    /\ part_pc[p] = "batch" => Cardinality(entries[p]) < overflow_margin + batch_size[p]
    /\ part_pc[p] \in {"overflow", "batch"} => batch_size[p] < max_batch_size

(* Only the statistics of the policy are kept. *)
StatsOfPolicy ==
  /\ overflow_policy # "EvictLeastUsed" => \A k \in Keys : access_count[k] = 0
  /\ overflow_policy # "EvictOldest" => \A k \in Keys : last_access[k] = 0

(* The running insert is to give the value v to the key k. *)
Given(k, v) == \E i \in DOMAIN call.keys : call.keys[i] = k /\ call.values[i] = v

(* A partition that is done has gone through its keys, and a key that it   *)
(* has gone through has a value it was given, or has been evicted again.   *)
InsertProgress ==
  \A i \in DOMAIN call.keys :
    LET k == call.keys[i]
    IN  /\ part_pc[PartOf(k)] = "done" => i < pos[PartOf(k)]
        /\ i < pos[PartOf(k)] => Stored[k] = NoValue \/ Given(k, Stored[k])

(* The partitions, their slots and the insert under way stay consistent,   *)
(* and no partition outgrows its margin.                                   *)
IInv == TypeOK /\ SlotsOwned /\ OverflowBounded /\ StatsOfPolicy /\ InsertProgress

(* The value of a key changes only because a running insert writes that    *)
(* very value to that key; everything else leaves it alone or removes it.  *)
(* When the insert returns, each of its keys has a value it was given, or  *)
(* has been evicted again by a later batch of the same insert.             *)
InsertsWrite ==
  [][/\ \A k \in Keys : Stored'[k] \notin {Stored[k], NoValue} => Given(k, Stored'[k])
     /\ (call # NoCall /\ call' = NoCall) =>
          \A i \in DOMAIN call.keys :
            LET k == call.keys[i] IN Stored[k] = NoValue \/ Given(k, Stored[k])]_vars

(* A direct fetch of a table with partitions fills in the stored value of  *)
(* an index or reports the index as missed, never both and never neither;  *)
(* it misses only what is not there or what it had no time for.            *)
FetchIsExact ==
  [][result' # result /\ result'.op = "fetch" /\ table = "ready"
     /\ result'.indices = Positions(result'.keys) =>
       LET r == result'
       IN  /\ r.missed = {i \in DOMAIN r.keys : Stored[r.keys[i]] = NoValue} \cup r.skipped
           /\ \A i \in DOMAIN r.keys \ r.missed : r.values[i] = Stored[r.keys[i]]
           /\ r.hit_count + Cardinality(r.missed) = Len(r.keys)]_vars

(* Every insert returns: resolve_overflow_ reaches its target, and the     *)
(* scan for keys of a partition reaches the end of the keys.               *)
InsertTerminates == call # NoCall ~> call = NoCall

(* include/hps/database_backend.hpp:160 says of on_miss: called for every  *)
(* key that was not present in this database.  Hence fetch, when it is in  *)
(* time, should report missing keys and no other ones.                     *)
MissedIsAbsent ==
  [][result' # result /\ result'.op = "fetch" /\ result'.skipped = {} /\ table = "ready" =>
       \A i \in {result'.indices[j] : j \in DOMAIN result'.indices} :
         i \in result'.missed <=> Stored[result'.keys[i]] = NoValue]_vars
===============================================================================
