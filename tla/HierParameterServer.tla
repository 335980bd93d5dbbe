-------------------------- MODULE HierParameterServer --------------------------
(***************************************************************************)
(* HierParameterServer (src/hps/hier_parameter_server.cpp) for one         *)
(* embedding table: the start-up, lookups that go through a volatile and a *)
(* persistent database, the asynchronous elevation of missed embeddings,   *)
(* and the updates that two Kafka sources deliver to the databases.        *)
(*                                                                         *)
(* Each database call is one step, because the backend locks for its       *)
(* duration (HashMapBackend) or writes a batch at once (RocksDBBackend);   *)
(* RocksDB reads are one step per key.  The Kafka sources deliver the      *)
(* updates in order and retry a batch until the callback returns true      *)
(* (KafkaMessageSource).  A vector knows the key and version it is for.    *)
(***************************************************************************)
EXTENDS Naturals, Sequences, FiniteSets

CONSTANTS Keys, ModelKeys,   \* all keys, and those of the sparse model file
          Updates,           \* the update messages: a sequence of keys
          Requests, Callers, \* key sequences to look up, inference threads
          Configs,           \* the configurations of the server
          max_batch_size,    \* of the Kafka sources
          MaxTasks           \* bound on the waiting elevations

(* Which databases there are, which of them initialize_after_startup, and  *)
(* volatile_db_cache_missed_embeddings_.                                   *)
Config == [volatile : BOOLEAN, persistent : BOOLEAN, cache_missed_embeddings : BOOLEAN,
           initialize : SUBSET {"volatile", "persistent"}]

ASSUME ServerAssumption ==
  /\ ModelKeys \subseteq Keys
  /\ Updates \in Seq(Keys)
  /\ Requests \subseteq Seq(Keys)
  /\ Configs \subseteq Config
  /\ max_batch_size \in Nat \ {0}

(* Version 0 is in the model file, version n comes with the n-th update.   *)
Vector == [key : Keys, version : 0 .. Len(Updates)]
Vec(k, n) == [key |-> k, version |-> n]
Absent == [absent |-> TRUE]       \* not in the database
Default == [default |-> TRUE]     \* default_vec_value
Garbage == [garbage |-> TRUE]     \* what h_vectors holds before the lookup

VARIABLES config,      \* see Config
          phase,       \* of update_database_per_model
          volatile, persistent,   \* key -> its vector in volatile_db_, persistent_db_
          volatile_pos, persistent_pos,  \* updates that were acknowledged
          volatile_batch,   \* last update of the batch in delivery, or 0
          calls,       \* caller -> its lookup
          tasks,       \* of volatile_db_async_inserter_
          present      \* caller -> keys in the persistent database at the call

databases == <<volatile, persistent>>
updating == <<volatile_pos, persistent_pos, volatile_batch>>
vars == <<config, phase, databases, updating, calls, tasks, present>>

NoLookup == [pc |-> "idle", keys |-> <<>>, vectors |-> <<>>, indices |-> <<>>, next |-> 1]

Init ==
  /\ config \in Configs
  /\ phase = "volatile"
  /\ volatile = [k \in Keys |-> Absent]
  /\ persistent = [k \in Keys |-> Absent]
  /\ volatile_pos = 0 /\ persistent_pos = 0 /\ volatile_batch = 0
  /\ calls = [c \in Callers |-> NoLookup]
  /\ tasks = <<>>
  /\ present = [c \in Callers |-> {}]

(* insert: the pairs are written in order, so that the last one counts.    *)
Inserted(db, ks, vecs) ==
  [k \in Keys |-> IF \E i \in DOMAIN ks : ks[i] = k
                  THEN vecs[CHOOSE i \in DOMAIN ks :
                              ks[i] = k /\ \A j \in i + 1 .. Len(ks) : ks[j] # k]
                  ELSE db[k]]

-------------------------------------------------------------------------------
(* update_database_per_model: all keys go to the volatile database, then   *)
(* all keys go to the persistent one, then the Kafka sources are engaged.  *)

LoadVolatile ==
  /\ phase = "volatile"
  /\ volatile' = IF config.volatile /\ "volatile" \in config.initialize
                 THEN [k \in Keys |-> IF k \in ModelKeys THEN Vec(k, 0) ELSE volatile[k]]
                 ELSE volatile
  /\ phase' = "persistent"
  /\ UNCHANGED <<config, persistent, updating, calls, tasks, present>>

LoadPersistent ==
  /\ phase = "persistent"
  /\ persistent' = IF config.persistent /\ "persistent" \in config.initialize
                   THEN [k \in Keys |-> IF k \in ModelKeys THEN Vec(k, 0) ELSE persistent[k]]
                   ELSE persistent
  /\ phase' = "serve"
  /\ UNCHANGED <<config, volatile, updating, calls, tasks, present>>

(* An insert of other keys into the same partition of the volatile         *)
(* database makes it overflow, and evicts this one.                        *)
Overflow(k) ==
  /\ volatile[k] # Absent
  /\ volatile' = [volatile EXCEPT ![k] = Absent]
  /\ UNCHANGED <<config, phase, persistent, updating, calls, tasks, present>>

-------------------------------------------------------------------------------
(* lookup *)

Lookup(c, keys) ==
  /\ phase = "serve"
  /\ calls[c].pc = "idle"
  /\ calls' = [calls EXCEPT ![c] =
       [pc |-> IF config.volatile THEN "volatile"
               ELSE IF config.persistent THEN "persistent" ELSE "done",
        keys |-> keys,
        vectors |-> [i \in DOMAIN keys |->
                       IF config.volatile \/ config.persistent THEN Garbage ELSE Default],
        indices |-> IF config.volatile THEN <<>> ELSE [i \in DOMAIN keys |-> i],
        next |-> 1]]
  /\ present' = [present EXCEPT ![c] = {k \in Keys : persistent[k] # Absent}]
  /\ UNCHANGED <<config, phase, databases, updating, tasks>>

(* The direct fetch.  Its misses go on to the persistent database, if      *)
(* there is one, and are filled with the default otherwise.                *)
FetchVolatile(c) ==
  /\ calls[c].pc = "volatile"
  /\ LET keys == calls[c].keys
         missed == SelectSeq([i \in DOMAIN keys |-> i], LAMBDA i : volatile[keys[i]] = Absent)
     IN  calls' = [calls EXCEPT
           ![c].vectors = [i \in DOMAIN keys |->
              IF volatile[keys[i]] # Absent THEN volatile[keys[i]]
              ELSE IF config.persistent THEN @[i] ELSE Default],
           ![c].indices = missed,
           ![c].pc = IF config.persistent /\ missed # <<>> THEN "persistent" ELSE "done"]
  /\ UNCHANGED <<config, phase, databases, updating, tasks, present>>

(* The fetch of one of the missed keys, with the default for a miss.       *)
FetchPersistentMutant(c) ==
  /\ calls[c].pc = "persistent"
  /\ LET index == calls[c].indices[calls[c].next]
         key == calls[c].keys[index]
     IN  calls' = [calls EXCEPT
           ![c].vectors[index] = IF persistent[key] # Absent /\ calls[c].next < Len(calls[c].indices)
                                  THEN persistent[key] ELSE Default,
           ![c].next = @ + 1,
           ![c].pc = IF calls[c].next < Len(calls[c].indices) THEN "persistent" ELSE "elevate"]
  /\ UNCHANGED <<config, phase, databases, updating, tasks, present>>

FetchPersistent(c) ==
  /\ calls[c].pc = "persistent"
  /\ LET index == calls[c].indices[calls[c].next]
         key == calls[c].keys[index]
     IN  calls' = [calls EXCEPT
           ![c].vectors[index] = IF persistent[key] # Absent THEN persistent[key] ELSE Default,
           ![c].next = @ + 1,
           ![c].pc = IF calls[c].next < Len(calls[c].indices) THEN "persistent" ELSE "elevate"]
  /\ UNCHANGED <<config, phase, databases, updating, tasks, present>>

(* All missed keys are elevated, with what has been found for them.        *)
Elevation(call) ==
  [keys |-> [i \in DOMAIN call.indices |-> call.keys[call.indices[i]]],
   vectors |-> [i \in DOMAIN call.indices |-> call.vectors[call.indices[i]]]]

SubmitElevation(c) ==
  /\ calls[c].pc = "elevate"
  /\ IF config.volatile /\ config.cache_missed_embeddings
     THEN Len(tasks) < MaxTasks /\ tasks' = Append(tasks, Elevation(calls[c]))
     ELSE UNCHANGED tasks
  /\ calls' = [calls EXCEPT ![c].pc = "done"]
  /\ UNCHANGED <<config, phase, databases, updating, present>>

Return(c) ==
  /\ calls[c].pc = "done"
  /\ calls' = [calls EXCEPT ![c] = NoLookup]
  /\ present' = [present EXCEPT ![c] = {}]
  /\ UNCHANGED <<config, phase, databases, updating, tasks>>

(* The single worker of volatile_db_async_inserter_. *)
Elevate ==
  /\ tasks # <<>>
  /\ volatile' = Inserted(volatile, Head(tasks).keys, Head(tasks).vectors)
  /\ tasks' = Tail(tasks)
  /\ UNCHANGED <<config, phase, persistent, updating, calls, present>>

-------------------------------------------------------------------------------
(* The callbacks of the Kafka sources. *)

BatchEnds(pos) == {n \in pos + 1 .. Len(Updates) : n <= pos + max_batch_size}
BatchKeys(pos, n) == SubSeq(Updates, pos + 1, n)
BatchVectors(pos, n) == [i \in 1 .. n - pos |-> Vec(Updates[pos + i], pos + i)]

VolatileReceive ==
  /\ phase = "serve" /\ config.volatile
  /\ volatile_batch = 0
  /\ volatile_batch' \in BatchEnds(volatile_pos)
  /\ UNCHANGED <<config, phase, databases, volatile_pos, persistent_pos, calls, tasks, present>>

(* insert_fn returns the number of keys that were new as a bool: a batch   *)
(* of which no key is new is delivered again.                              *)
Acknowledged(db, ks) == \E i \in DOMAIN ks : db[ks[i]] = Absent

VolatileDeliverMutant ==
  /\ volatile_batch # 0
  /\ LET ks == BatchKeys(volatile_pos, volatile_batch)
     IN  volatile' = [k \in Keys |-> IF volatile[k] # Absent THEN volatile[k]
                        ELSE Inserted(volatile, ks, BatchVectors(volatile_pos, volatile_batch))[k]]
  /\ volatile_pos' = volatile_batch
  /\ volatile_batch' = 0
  /\ UNCHANGED <<config, phase, persistent, persistent_pos, calls, tasks, present>>

VolatileDeliver ==
  /\ volatile_batch # 0
  /\ LET ks == BatchKeys(volatile_pos, volatile_batch)
     IN  /\ volatile' = Inserted(volatile, ks, BatchVectors(volatile_pos, volatile_batch))
         /\ IF Acknowledged(volatile, ks)
            THEN volatile_pos' = volatile_batch /\ volatile_batch' = 0
            ELSE UNCHANGED <<volatile_pos, volatile_batch>>
  /\ UNCHANGED <<config, phase, persistent, persistent_pos, calls, tasks, present>>

(* RocksDBBackend::insert counts every pair, so its batch is acknowledged. *)
PersistentDeliverMutant ==
  /\ phase = "serve" /\ config.persistent
  /\ \E n \in BatchEnds(persistent_pos) :
       /\ persistent' = [k \in Keys |-> IF persistent[k] = Absent THEN Absent
            ELSE Inserted(persistent, BatchKeys(persistent_pos, n), BatchVectors(persistent_pos, n))[k]]
       /\ persistent_pos' = n
  /\ UNCHANGED <<config, phase, volatile, volatile_pos, volatile_batch, calls, tasks, present>>

PersistentDeliver ==
  /\ phase = "serve" /\ config.persistent
  /\ \E n \in BatchEnds(persistent_pos) :
       /\ persistent' = Inserted(persistent, BatchKeys(persistent_pos, n),
                                 BatchVectors(persistent_pos, n))
       /\ persistent_pos' = n
  /\ UNCHANGED <<config, phase, volatile, volatile_pos, volatile_batch, calls, tasks, present>>

Startup == LoadVolatile \/ LoadPersistent
LookupStep(c) == FetchVolatile(c) \/ FetchPersistent(c) \/ SubmitElevation(c) \/ Return(c)

Next == \/ Startup \/ Elevate
        \/ VolatileReceive \/ VolatileDeliver \/ PersistentDeliver
        \/ \E k \in Keys : Overflow(k)
        \/ \E c \in Callers : LookupStep(c) \/ \E keys \in Requests : Lookup(c, keys)

Spec == Init /\ [][Next]_vars

(* The startup and the thread that applies updates to the persistent       *)
(* database go on with their work.  Nothing else has to happen.            *)
PersistentFairSpec == Spec /\ WF_vars(Startup) /\ WF_vars(PersistentDeliver)

(* Threads that have work go on with it.  Nothing forces an overflow, nor  *)
(* anybody to call.                                                        *)
FairSpec == /\ Spec
            /\ WF_vars(Startup) /\ WF_vars(Elevate)
            /\ WF_vars(VolatileReceive) /\ WF_vars(VolatileDeliver)
            /\ WF_vars(PersistentDeliver)
            /\ \A c \in Callers : WF_vars(LookupStep(c))

-------------------------------------------------------------------------------
TypeOK ==
  /\ config \in Config
  /\ phase \in {"volatile", "persistent", "serve"}
  /\ volatile_pos \in 0 .. Len(Updates) /\ persistent_pos \in 0 .. Len(Updates)
  /\ volatile_batch \in 0 .. Len(Updates)
  /\ \A c \in Callers : calls[c].pc \in {"idle", "volatile", "persistent", "elevate", "done"}

(* No vector ends up under the wrong key: neither in a database, through   *)
(* the compressed indices of an elevation, nor in the result of a lookup,  *)
(* which also leaves no vector as it was.                                  *)
For(k, vec) == vec = Default \/ \E n \in 0 .. Len(Updates) : vec = Vec(k, n)

VectorsOfKeys ==
  /\ \A k \in Keys : /\ volatile[k] = Absent \/ For(k, volatile[k])
                     /\ persistent[k] = Absent \/ For(k, persistent[k])
  /\ \A c \in Callers : calls[c].pc = "done" =>
       \A i \in DOMAIN calls[c].keys : For(calls[c].keys[i], calls[c].vectors[i])

(* A key that is in the persistent database when a lookup begins does not  *)
(* get the default vector, unless the volatile database says so.           *)
DefaultIfMissing ==
  \A c \in Callers : calls[c].pc = "done" =>
    \A j \in DOMAIN calls[c].indices :
      LET i == calls[c].indices[j]
      IN  (config.persistent /\ calls[c].vectors[i] = Default) => calls[c].keys[i] \notin present[c]

(* Databases and results hold vectors of the right keys at any time, and a *)
(* lookup resorts to the default only for keys that were not there.        *)
IInv == TypeOK /\ VectorsOfKeys /\ DefaultIfMissing

Newest(k, n) == CHOOSE m \in 0 .. n : /\ m > 0 => Updates[m] = k
                                      /\ \A j \in m + 1 .. n : Updates[j] # k

(* Without elevations the volatile database has, of the keys it holds, the *)
(* newest version among the updates delivered to it.                       *)
VolatileFresh ==
  ~config.cache_missed_embeddings =>
    \A k \in Keys : volatile[k] = Absent
      \/ \E n \in {volatile_pos} \cup ({volatile_batch} \ {0}) : volatile[k] = Vec(k, Newest(k, n))

(* Once all updates are published, the persistent database gets the newest *)
(* version of every updated key, and keeps it.                             *)
PersistentCatchesUp ==
  config.persistent ~>
    [](\A n \in DOMAIN Updates :
         persistent[Updates[n]] = Vec(Updates[n], Newest(Updates[n], Len(Updates))))

(* What the comment of KafkaMessageSource::run promises of a receiver that *)
(* has stored a batch, for the volatile database: the next batch follows.  *)
VolatileCatchesUp == config.volatile ~> volatile_pos = Len(Updates)
===============================================================================
