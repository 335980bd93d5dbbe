------------------------------ MODULE NvGpuCache ------------------------------
(***************************************************************************)
(* gpu_cache::gpu_cache (gpu_cache/src/nv_gpu_cache.cu): a set-associative *)
(* cache in GPU memory.  A key may be in any slab of its slab set; probing *)
(* starts at the slab the key hashes to and goes round the set.            *)
(*                                                                         *)
(* A kernel locks the set of a key, works on that key, and unlocks the     *)
(* set.  All accesses to the slots of a set happen under its lock, so the  *)
(* work on one key is one step; the keys of a batch are worked on in any   *)
(* order, interleaved with the kernels of other streams.  The kernel that  *)
(* increments global_counter precedes get_kernel in the same stream and is *)
(* part of the launch.                                                     *)
(***************************************************************************)
EXTENDS Naturals, Sequences, FiniteSets

CONSTANTS Keys, empty_key,
          Versions,           \* a vector is <<key it belongs to, version>>
          NoVector,           \* contents of memory that was never written
          Batches, Streams,
          capacity_in_set, set_associativity, warp_size,
          SetHash, SlabHash,  \* set_hasher::hash, slab_hasher::hash
          MaxGlobalCounter    \* bound on the number of queries

ASSUME CacheAssumption ==
  /\ empty_key \notin Keys
  /\ NoVector \notin Keys \X Versions
  /\ Batches \subseteq Seq(Keys)
  /\ capacity_in_set \in Nat \ {0}
  /\ set_associativity \in Nat \ {0}
  /\ warp_size \in Nat \ {0}
  /\ SetHash \in [Keys -> Nat]
  /\ SlabHash \in [Keys -> Nat]

Vectors == Keys \X Versions
Sets == 0 .. capacity_in_set - 1
Slabs == 0 .. set_associativity - 1
Lanes == 0 .. warp_size - 1
Slots == Sets \X Slabs \X Lanes
Distances == Slabs   \* of a slab from the one a key hashes to

VARIABLES keys,            \* keys_
          vals,            \* vals_
          slot_counter,    \* slot_counter_
          global_counter,  \* global_counter_
          call             \* the kernel each stream executes (see CacheMap)

vars == <<keys, vals, slot_counter, global_counter, call>>

SetOf(k) == SetHash[k] % capacity_in_set
SlabAt(k, d) == ((SlabHash[k] % set_associativity) + d) % set_associativity
Slot(k, d, l) == <<SetOf(k), SlabAt(k, d), l>>

(* Callers pass the vectors of the keys, all of the same version. *)
Writes(batch) == {[i \in 1 .. Len(batch) |-> <<batch[i], n>>] : n \in Versions}

(* The map that the slots represent. *)
Content == [k \in Keys |-> IF \E s \in Slots : keys[s] = k
                           THEN vals[CHOOSE s \in Slots : keys[s] = k]
                           ELSE NoVector]

Map == INSTANCE CacheMap WITH content <- Content

Init ==
  /\ keys = [s \in Slots |-> empty_key]
  /\ vals = [s \in Slots |-> NoVector]
  /\ slot_counter = [s \in Slots |-> 0]
  /\ global_counter = 0
  /\ call = [t \in Streams |-> Map!NoCall]

-------------------------------------------------------------------------------
(* Probing.  It stops at the first slab that holds the key or a free slot. *)

Holds(k, d, x) == \E l \in Lanes : keys[Slot(k, d, l)] = x
Stops(k, d) == Holds(k, d, k) \/ Holds(k, d, empty_key)
StopsAt(k, d) == Stops(k, d) /\ \A e \in Distances : e < d => ~Stops(k, e)
Exhausted(k) == \A d \in Distances : ~Stops(k, d)

(* __ffs of the ballot: the first lane of the slab that reads x. *)
FirstLane(k, d, x, l) == /\ keys[Slot(k, d, l)] = x
                         /\ \A m \in Lanes : m < l => keys[Slot(k, d, m)] # x

FoundAt(k, s) == \E d \in Distances, l \in Lanes :
                   StopsAt(k, d) /\ FirstLane(k, d, k, l) /\ s = Slot(k, d, l)

FreeAtMutant(k, s) == \E d \in Distances, l \in Lanes :
                        /\ \A e \in Distances : ~Holds(k, e, k)
                        /\ FirstLane(k, d, empty_key, l) /\ s = Slot(k, d, l)

FreeAt(k, s) == \E d \in Distances, l \in Lanes :
                  /\ StopsAt(k, d) /\ ~Holds(k, d, k)
                  /\ FirstLane(k, d, empty_key, l) /\ s = Slot(k, d, l)

NotFound(k) == Exhausted(k) \/ \E s \in Slots : FreeAt(k, s)

(* The slot with the smallest counter; among equals the one in the nearest *)
(* slab, then in the lowest lane.                                          *)
Older(k, d, l, e, m) ==
  LET x == slot_counter[Slot(k, d, l)]
      y == slot_counter[Slot(k, e, m)]
  IN  x < y \/ (x = y /\ (d < e \/ (d = e /\ l <= m)))

LeastRecentMutant(k, s) == s = Slot(k, 0, 0)

LeastRecent(k, s) == \E d \in Distances, l \in Lanes :
                       /\ s = Slot(k, d, l)
                       /\ \A e \in Distances, m \in Lanes : Older(k, d, l, e, m)

Touch(s) == slot_counter' = [slot_counter EXCEPT ![s] = global_counter]

Finish(t, c) == call' = [call EXCEPT ![t] = c]

-------------------------------------------------------------------------------
(* Launching a kernel.  An empty batch launches nothing. *)

Query(t, batch) ==
  /\ call[t].todo = {}
  /\ global_counter < MaxGlobalCounter
  /\ global_counter' = IF batch = <<>> THEN global_counter ELSE global_counter + 1
  /\ Finish(t, Map!QueryCall(batch))
  /\ UNCHANGED <<keys, vals, slot_counter>>

Replace(t, batch, vectors) ==
  /\ call[t].todo = {}
  /\ Finish(t, Map!ReplaceCall(batch, vectors))
  /\ UNCHANGED <<keys, vals, slot_counter, global_counter>>

Update(t, batch, vectors) ==
  /\ call[t].todo = {}
  /\ Finish(t, Map!UpdateCall(batch, vectors))
  /\ UNCHANGED <<keys, vals, slot_counter, global_counter>>

(* An invalid range dumps nothing. *)
Dump(t, start_set_index, end_set_index) ==
  /\ call[t].todo = {}
  /\ start_set_index < capacity_in_set
  /\ start_set_index < end_set_index /\ end_set_index <= capacity_in_set
  /\ Finish(t, Map!DumpCall(start_set_index .. end_set_index - 1))
  /\ UNCHANGED <<keys, vals, slot_counter, global_counter>>

(* The kernels, for one key (one set, for Dump). *)

GetKernel(t, i) ==
  LET k == call[t].keys[i]
  IN  /\ call[t].op = "query"
      /\ \/ \E s \in Slots : /\ FoundAt(k, s)
                             /\ Touch(s)
                             /\ Finish(t, Map!Hit(call[t], i, vals[s]))
         \/ /\ NotFound(k)
            /\ Finish(t, Map!Miss(call[t], i))
            /\ UNCHANGED slot_counter
      /\ UNCHANGED <<keys, vals, global_counter>>

Write(s, k, v) == /\ keys' = [keys EXCEPT ![s] = k]
                  /\ vals' = [vals EXCEPT ![s] = v]
                  /\ Touch(s)

InsertReplaceKernelMutant(t, i) ==
  LET k == call[t].keys[i]
  IN  /\ call[t].op = "replace"
      /\ \/ \E s \in Slots : FoundAt(k, s) /\ Write(s, k, call[t].vectors[i])
         \/ \E s \in Slots : FreeAt(k, s) /\ Write(s, k, call[t].vectors[i])
         \/ /\ Exhausted(k)
            /\ \E s \in Slots : LeastRecent(k, s) /\ Write(s, k, call[t].vectors[i])
      /\ Finish(t, Map!Done(call[t], i))
      /\ UNCHANGED global_counter

InsertReplaceKernel(t, i) ==
  LET k == call[t].keys[i]
  IN  /\ call[t].op = "replace"
      /\ \/ \E s \in Slots : FoundAt(k, s) /\ Touch(s) /\ UNCHANGED <<keys, vals>>
         \/ \E s \in Slots : FreeAt(k, s) /\ Write(s, k, call[t].vectors[i])
         \/ /\ Exhausted(k)
            /\ \E s \in Slots : LeastRecent(k, s) /\ Write(s, k, call[t].vectors[i])
      /\ Finish(t, Map!Done(call[t], i))
      /\ UNCHANGED global_counter

UpdateKernel(t, i) ==
  LET k == call[t].keys[i]
  IN  /\ call[t].op = "update"
      /\ \/ \E s \in Slots : /\ FoundAt(k, s)
                             /\ vals' = [vals EXCEPT ![s] = call[t].vectors[i]]
         \/ NotFound(k) /\ UNCHANGED vals
      /\ Finish(t, Map!Done(call[t], i))
      /\ UNCHANGED <<keys, slot_counter, global_counter>>

DumpKernel(t, set) ==
  LET occupied == {s \in {set} \X Slabs \X Lanes : keys[s] # empty_key}
  IN  /\ call[t].op = "dump"
      /\ Finish(t, [call[t] EXCEPT !.todo = @ \ {set},
                                   !.dumped = @ \cup {keys[s] : s \in occupied},
                                   !.d_dump_counter = @ + Cardinality(occupied)])
      /\ UNCHANGED <<keys, vals, slot_counter, global_counter>>

Launch(t) ==
  \/ \E b \in Batches : Query(t, b)
  \/ \E b \in Batches : \E v \in Writes(b) : Replace(t, b, v) \/ Update(t, b, v)
  \/ \E i \in Sets, j \in Sets : Dump(t, i, j + 1)

Kernel(t) == \E i \in call[t].todo : \/ GetKernel(t, i) \/ InsertReplaceKernel(t, i)
                                     \/ UpdateKernel(t, i) \/ DumpKernel(t, i)

Next == \E t \in Streams : Launch(t) \/ Kernel(t)

Spec == Init /\ [][Next]_vars

-------------------------------------------------------------------------------
Calls ==
  [op : {"none", "query", "replace", "update", "dump"},
   keys : Batches \cup {<<>>}, vectors : Seq(Vectors), todo : SUBSET Nat,
   values : Seq(Vectors \cup {NoVector}), missing : SUBSET Nat,
   dumped : SUBSET Keys, d_dump_counter : Nat]

TypeOK ==
  /\ keys \in [Slots -> Keys \cup {empty_key}]
  /\ vals \in [Slots -> Vectors \cup {NoVector}]
  /\ slot_counter \in [Slots -> Nat]
  /\ global_counter \in Nat
  /\ call \in [Streams -> Calls]

(* What is left to do of a call is within its batch or its sets, and its   *)
(* buffers have the length of the batch.                                   *)
Fits(c) ==
  /\ c.op = "none" => c.todo = {}
  /\ c.op \in {"query", "replace", "update"} => c.todo \subseteq DOMAIN c.keys
  /\ c.op = "query" => DOMAIN c.values = DOMAIN c.keys
  /\ c.op \in {"replace", "update"} => DOMAIN c.vectors = DOMAIN c.keys
  /\ c.op = "dump" => c.todo \subseteq Sets

(* A key occupies at most one slot, although the streams insert it         *)
(* concurrently and a batch may name it twice.                             *)
UniqueKeys == \A r, s \in Slots : keys[r] = keys[s] /\ keys[r] # empty_key => r = s

(* What makes it right to stop probing at a free slot: a key is in its own *)
(* set, and every slab nearer to where it hashes is full.  Replacement     *)
(* keeps this true because slots are never emptied.                        *)
Reachable ==
  \A k \in Keys, s \in Slots : keys[s] = k =>
    \E d \in Distances, l \in Lanes :
      /\ s = Slot(k, d, l)
      /\ \A e \in Distances : e < d => ~Holds(k, e, empty_key)

(* A slot holds a vector of the key it holds, and so does every result of  *)
(* a query: keys_ and vals_ never come apart.                              *)
OfKeys(c) ==
  /\ c.op \in {"replace", "update"} => \A i \in DOMAIN c.keys : c.vectors[i] \in {c.keys[i]} \X Versions
  /\ c.op = "query" => \A i \in DOMAIN c.keys \ (c.todo \cup c.missing) :
                         c.values[i] \in {c.keys[i]} \X Versions

VectorOfKey ==
  /\ \A s \in Slots : keys[s] # empty_key => vals[s] \in {keys[s]} \X Versions
  /\ \A t \in Streams : OfKeys(call[t])

(* Probing finds every key, in the one slot that it has, and with a vector *)
(* of that key.                                                            *)
IInv == TypeOK /\ UniqueKeys /\ Reachable /\ VectorOfKey /\ \A t \in Streams : Fits(call[t])

(* A key gives way only when its set is full, and then it is one that was  *)
(* used no later than any other key of the set: in particular a key that a *)
(* query found stays while older ones can go.                              *)
EvictsLeastRecentlyUsed ==
  [][\A s \in Slots : keys'[s] # keys[s] /\ keys[s] # empty_key =>
       \A r \in Slots : r[1] = s[1] =>
         keys[r] # empty_key /\ slot_counter[s] <= slot_counter[r]]_vars

(* The slots implement a map: probing finds exactly the keys that are      *)
(* stored, Replace adds without overwriting, Update writes only what is    *)
(* there, and Dump lists the contents of its sets.                         *)
MapSpec == Map!Spec
===============================================================================
