---------------------------- MODULE EmbeddingCache ----------------------------
(***************************************************************************)
(* EmbeddingCache (src/hps/embedding_cache.cpp) for one embedding table,   *)
(* with the memory pool its lookups take their workspace from              *)
(* (include/hps/memory_pool.hpp) and the refresh of the cache by           *)
(* HierParameterServer::refresh_embedding_cache.  The GPU cache itself is  *)
(* CacheMap: its calls work key by key while other streams do the same.    *)
(*                                                                         *)
(* The databases are one map, `server', that changes with online updates;  *)
(* a lookup in them is one step.  A vector knows its key and its version.  *)
(***************************************************************************)
EXTENDS Naturals, Sequences, FiniteSets, SequencesExt

CONSTANTS Keys, Requests,        \* keys, and the key sequences to look up
          Callers,               \* inference threads, each with a stream
          Blocks,                \* number_of_worker_buffers_in_pool
          Deployments            \* the callers and blocks of an instance, its possible
                                 \* hit_rate_thresholds in percent, whether someone calls
                                 \* refresh_embedding_cache, and bounds on the online
                                 \* updates of a key and on failing lookups

None == [none |-> TRUE]
Default == [default |-> TRUE]

ASSUME CacheAssumption ==
  /\ Requests \subseteq Seq(Keys)
  /\ IsFiniteSet(Blocks) /\ None \notin Blocks
  /\ Deployments \subseteq [callers : SUBSET Callers, blocks : SUBSET Blocks, thresholds : SUBSET Nat,
                             refreshed : BOOLEAN, updates : [Keys -> Nat], failures : Nat]

VARIABLES deployment, use_gpu_embedding_cache, hit_rate_threshold,  \* the configuration
          content, call,   \* of the GPU cache: see CacheMap
          server,          \* key -> its version in the databases
          header,          \* _pHeader: the list of unused blocks
          workspace,       \* block -> what its buffers hold
          lookups,         \* caller -> its lookup
          tasks,           \* blocks whose insertion is submitted to insert_workers_
          inserting,       \* block of the insertion that holds stream_mutex_, or None
          refreshing,      \* the keys and vectors of refresh_buffer
          lost             \* blocks that no one will free

config == <<deployment, use_gpu_embedding_cache, hit_rate_threshold>>
cache == <<content, call>>
insertion == <<tasks, inserting>>
vars == <<config, cache, server, header, workspace, lookups, insertion, refreshing, lost>>

Vector == [key : Keys, version : UNION {0 .. d.updates[k] : d \in Deployments, k \in Keys}]
SetOf(k) == 1
Streams == Callers \cup {"insert", "refresh"}
Writes(batch) == [1 .. Len(batch) -> Vector]
Cache == INSTANCE CacheMap WITH NoVector <- None, Batches <- Requests, Sets <- {1}

NoLookup == [pc |-> "idle", keys |-> <<>>, block |-> None, vectors |-> <<>>]
NoWork == [unique |-> <<>>, hit |-> <<>>, missing |-> <<>>, missing_vectors |-> <<>>]
NoRefresh == [pc |-> "idle", keys |-> <<>>, vectors |-> <<>>]

Init ==
  /\ deployment \in Deployments
  /\ use_gpu_embedding_cache \in BOOLEAN
  /\ hit_rate_threshold \in deployment.thresholds
  /\ Cache!Init
  /\ server = [k \in Keys |-> 0]
  /\ header = SetToSeq(deployment.blocks)
  /\ workspace = [b \in Blocks |-> NoWork]
  /\ lookups = [c \in Callers |-> NoLookup]
  /\ tasks = {} /\ inserting = None
  /\ refreshing = NoRefresh
  /\ lost = {}

(* HierParameterServer::lookup *)
FromServer(ks) == [i \in DOMAIN ks |-> [key |-> ks[i], version |-> server[ks[i]]]]

(* An online update reaches the databases. *)
OnlineUpdate(k) ==
  /\ server[k] < deployment.updates[k]
  /\ server' = [server EXCEPT ![k] = @ + 1]
  /\ UNCHANGED <<config, cache, header, workspace, lookups, insertion, refreshing, lost>>

-------------------------------------------------------------------------------
(* MemoryPool *)

AllocMemory(b) == header # <<>> /\ b = Head(header) /\ header' = Tail(header)

(* The block becomes the head of the list; the model forgets its contents. *)
FreeMemory(b) ==
  /\ header' = <<b>> \o header
  /\ workspace' = [workspace EXCEPT ![b] = NoWork]

-------------------------------------------------------------------------------
(* lookup *)

(* The unique op: each key once, in the order of their first occurrence,   *)
(* and for each position of the input the place of its key.                *)
Unique(ks) ==
  LET first == SelectSeq([i \in DOMAIN ks |-> i],
                         LAMBDA i : \A j \in 1 .. i - 1 : ks[j] # ks[i])
  IN  [n \in DOMAIN first |-> ks[first[n]]]
OutputIndex(ks, i) == CHOOSE n \in DOMAIN Unique(ks) : Unique(ks)[n] = ks[i]

(* The lookup spins until the pool has a block.  It copies its keys to the *)
(* workspace, deduplicates them, and queries the cache for them.           *)
Lookup(c, keys) ==
  /\ lookups[c].pc = "idle"
  /\ \E b \in Blocks :
       /\ AllocMemory(b)
       /\ lookups' = [lookups EXCEPT ![c] =
            [NoLookup EXCEPT !.pc = IF use_gpu_embedding_cache THEN "query" ELSE "direct",
                             !.keys = keys, !.block = b]]
       /\ workspace' = [workspace EXCEPT ![b].unique =
            IF use_gpu_embedding_cache THEN Unique(keys) ELSE keys]
  /\ call' = IF use_gpu_embedding_cache
             THEN [call EXCEPT ![c] = Cache!QueryCall(Unique(keys))] ELSE call
  /\ UNCHANGED <<config, content, server, insertion, refreshing, lost>>

(* Without a GPU cache the vectors come from the databases. *)
LookupDirect(c) ==
  LET b == lookups[c].block
  IN  /\ lookups[c].pc = "direct"
      /\ lookups' = [lookups EXCEPT ![c].vectors = FromServer(workspace[b].unique),
                                    ![c].pc = "done", ![c].block = None]
      /\ FreeMemory(b)
      /\ UNCHANGED <<config, cache, server, insertion, refreshing, lost>>

(* One key of a call in the GPU cache. *)
CacheStep(t) ==
  /\ \E i \in call[t].todo : \/ Cache!QueryKey(t, i) \/ Cache!ReplaceKey(t, i)
                             \/ Cache!UpdateKey(t, i) \/ Cache!DumpSet(t, i)
  /\ UNCHANGED <<config, server, header, workspace, lookups, insertion, refreshing, lost>>

HitRateReached(work) ==
  LET length == Len(work.unique)
      missing == Len(work.missing)
  IN  length = 0 \/ (length - missing) * 100 >= hit_rate_threshold * length

(* The end of the query: the block holds what was found and what is missing. *)
Queried(c) ==
  [workspace[lookups[c].block] EXCEPT !.hit = call[c].values,
     !.missing = SetToSortSeq(call[c].missing, LAMBDA i, j : i < j)]

AtEndOfQuery(c) == lookups[c].pc = "query" /\ call[c].todo = {}

MissingKeysMutant(work) == [n \in DOMAIN work.missing |-> work.unique[n]]

MissingKeys(work) == [n \in DOMAIN work.missing |-> work.unique[work.missing[n]]]

(* insert_embedding_cache: the vectors of the missing keys are looked up,  *)
(* copied to the workspace and handed to the cache.                        *)
InsertEmbeddingCache(t, b, work) ==
  LET vectors == FromServer(MissingKeys(work))
  IN  /\ workspace' = [workspace EXCEPT ![b] = [work EXCEPT !.missing_vectors = vectors]]
      /\ call' = [call EXCEPT ![t] = IF vectors = <<>> THEN Cache!NoCall
                                     ELSE Cache!ReplaceCall(MissingKeys(work), vectors)]

(* Synchronous insertion. *)
LookupServer(c) ==
  /\ AtEndOfQuery(c) /\ ~HitRateReached(Queried(c))
  /\ InsertEmbeddingCache(c, lookups[c].block, Queried(c))
  /\ lookups' = [lookups EXCEPT ![c].pc = "merge"]
  /\ UNCHANGED <<config, content, server, header, insertion, refreshing, lost>>

(* An exception leaves the lookup; no one frees its block. *)
LookupThrows(c) ==
  /\ \/ AtEndOfQuery(c) /\ ~HitRateReached(Queried(c))
     \/ lookups[c].pc = "direct"
  /\ Cardinality(lost) < deployment.failures
  /\ lost' = lost \cup {lookups[c].block}
  /\ lookups' = [lookups EXCEPT ![c] = NoLookup]
  /\ call' = [call EXCEPT ![c] = Cache!NoCall]
  /\ UNCHANGED <<config, content, server, header, workspace, insertion, refreshing>>

(* merge_emb_vec_async and fill_default_emb_vec_async, then decompression. *)
Merged(work) ==
  [n \in DOMAIN work.unique |->
     IF \E m \in DOMAIN work.missing : work.missing[m] = n
     THEN work.missing_vectors[CHOOSE m \in DOMAIN work.missing : work.missing[m] = n]
     ELSE work.hit[n]]
Filled(work) ==
  [n \in DOMAIN work.unique |->
     IF \E m \in DOMAIN work.missing : work.missing[m] = n THEN Default ELSE work.hit[n]]
Decompressed(c, vectors) ==
  [i \in DOMAIN lookups[c].keys |-> vectors[OutputIndex(lookups[c].keys, i)]]

LookupMerge(c) ==
  LET b == lookups[c].block
  IN  /\ lookups[c].pc = "merge" /\ call[c].todo = {}
      /\ lookups' = [lookups EXCEPT ![c].vectors = Decompressed(c, Merged(workspace[b])),
                                    ![c].pc = "done", ![c].block = None]
      /\ FreeMemory(b)
      /\ UNCHANGED <<config, cache, server, insertion, refreshing, lost>>

(* Asynchronous insertion: the task keeps the block. *)
LookupFillMutant(c) ==
  LET b == lookups[c].block
  IN  /\ AtEndOfQuery(c) /\ HitRateReached(Queried(c))
      /\ lookups' = [lookups EXCEPT ![c].vectors = Decompressed(c, Filled(Queried(c))),
                                    ![c].pc = "done", ![c].block = None]
      /\ workspace' = [workspace EXCEPT ![b] = Queried(c)]
      /\ call' = [call EXCEPT ![c] = Cache!NoCall]
      /\ tasks' = tasks \cup {b}
      /\ header' = <<b>> \o header
      /\ UNCHANGED <<config, content, server, inserting, refreshing, lost>>

LookupFill(c) ==
  LET b == lookups[c].block
  IN  /\ AtEndOfQuery(c) /\ HitRateReached(Queried(c))
      /\ lookups' = [lookups EXCEPT ![c].vectors = Decompressed(c, Filled(Queried(c))),
                                    ![c].pc = "done", ![c].block = None]
      /\ workspace' = [workspace EXCEPT ![b] = Queried(c)]
      /\ call' = [call EXCEPT ![c] = Cache!NoCall]
      /\ tasks' = tasks \cup {b}
      /\ UNCHANGED <<config, content, server, header, inserting, refreshing, lost>>

Return(c) ==
  /\ lookups[c].pc = "done"
  /\ lookups' = [lookups EXCEPT ![c] = NoLookup]
  /\ UNCHANGED <<config, cache, server, header, workspace, insertion, refreshing, lost>>

-------------------------------------------------------------------------------
(* parameter_server_insert_thread_func_: the tasks of all workers, one at  *)
(* a time under stream_mutex_.                                             *)

InsertBegin(b) ==
  /\ inserting = None /\ b \in tasks
  /\ tasks' = tasks \ {b}
  /\ inserting' = b
  /\ InsertEmbeddingCache("insert", b, workspace[b])
  /\ UNCHANGED <<config, content, server, header, lookups, refreshing, lost>>

InsertEndMutant ==
  /\ inserting # None /\ call["insert"].todo = {}
  /\ tasks' = tasks \cup {inserting}
  /\ inserting' = None
  /\ UNCHANGED <<config, cache, server, header, workspace, lookups, refreshing, lost>>

InsertEnd ==
  /\ inserting # None /\ call["insert"].todo = {}
  /\ FreeMemory(inserting)
  /\ inserting' = None
  /\ UNCHANGED <<config, cache, server, lookups, tasks, refreshing, lost>>

(* The lookup in the databases fails.  The handler frees the block after a *)
(* std::runtime_error; a DatabaseBackendError, which is not one, goes past *)
(* the handler to a future that nobody reads.                              *)
InsertThrows(b) ==
  /\ inserting = None /\ b \in tasks
  /\ deployment.failures > 0
  /\ tasks' = tasks \ {b}
  /\ \/ FreeMemory(b) /\ UNCHANGED lost
     \/ /\ Cardinality(lost) < deployment.failures
        /\ lost' = lost \cup {b}
        /\ UNCHANGED <<header, workspace>>
  /\ UNCHANGED <<config, cache, server, lookups, inserting, refreshing>>

-------------------------------------------------------------------------------
(* refresh_embedding_cache; the default is one refresh buffer, so one      *)
(* refresh at a time.  The cache is a single stride of the refresh: all    *)
(* its sets are dumped at once.                                            *)

RefreshDump ==
  /\ deployment.refreshed /\ use_gpu_embedding_cache
  /\ refreshing.pc = "idle"
  /\ refreshing' = [refreshing EXCEPT !.pc = "dump"]
  /\ call' = [call EXCEPT !["refresh"] = Cache!DumpCall({1})]
  /\ UNCHANGED <<config, content, server, header, workspace, lookups, insertion, lost>>

RefreshLookup ==
  LET ks == SetToSeq(call["refresh"].dumped)
  IN  /\ refreshing.pc = "dump" /\ call["refresh"].todo = {}
      /\ refreshing' = [pc |-> "lookup", keys |-> ks, vectors |-> FromServer(ks)]
      /\ call' = [call EXCEPT !["refresh"] = Cache!NoCall]
      /\ UNCHANGED <<config, content, server, header, workspace, lookups, insertion, lost>>

(* An exception leaves the refresh, and no one frees the refresh buffer:   *)
(* the next refresh waits for it for ever.                                 *)
RefreshThrows ==
  /\ refreshing.pc = "dump" /\ call["refresh"].todo = {}
  /\ deployment.failures > 0
  /\ refreshing' = [NoRefresh EXCEPT !.pc = "lost"]
  /\ call' = [call EXCEPT !["refresh"] = Cache!NoCall]
  /\ UNCHANGED <<config, content, server, header, workspace, lookups, insertion, lost>>

RefreshUpdateMutant ==
  /\ refreshing.pc = "lookup"
  /\ refreshing' = [refreshing EXCEPT !.pc = "update"]
  /\ call' = [call EXCEPT !["refresh"] = IF refreshing.keys = <<>> THEN Cache!NoCall
                ELSE Cache!ReplaceCall(refreshing.keys, refreshing.vectors)]
  /\ UNCHANGED <<config, content, server, header, workspace, lookups, insertion, lost>>

RefreshUpdate ==
  /\ refreshing.pc = "lookup"
  /\ refreshing' = [refreshing EXCEPT !.pc = "update"]
  /\ call' = [call EXCEPT !["refresh"] = IF refreshing.keys = <<>> THEN Cache!NoCall
                ELSE Cache!UpdateCall(refreshing.keys, refreshing.vectors)]
  /\ UNCHANGED <<config, content, server, header, workspace, lookups, insertion, lost>>

RefreshEnd ==
  /\ refreshing.pc = "update" /\ call["refresh"].todo = {}
  /\ refreshing' = NoRefresh
  /\ UNCHANGED <<config, cache, server, header, workspace, lookups, insertion, lost>>

-------------------------------------------------------------------------------
LookupStep(c) == \/ LookupDirect(c) \/ LookupServer(c) \/ LookupMerge(c)
                 \/ LookupFill(c) \/ Return(c) \/ CacheStep(c)
InsertStep == (\E b \in Blocks : InsertBegin(b)) \/ InsertEnd \/ CacheStep("insert")
RefreshStep == \/ RefreshDump \/ RefreshLookup \/ RefreshUpdate \/ RefreshEnd
               \/ CacheStep("refresh")

Next == \/ \E k \in Keys : OnlineUpdate(k)
        \/ \E c \in deployment.callers : \/ LookupStep(c) \/ LookupThrows(c)
                                         \/ \E keys \in Requests : Lookup(c, keys)
        \/ InsertStep \/ (\E b \in Blocks : InsertThrows(b))
        \/ RefreshStep \/ RefreshThrows

Spec == Init /\ [][Next]_vars

(* As long as a thread or a kernel that is under way can go on, one of     *)
(* them does, and the cache is refreshed again and again.  Nobody has to   *)
(* call lookup, and nothing has to fail.                                   *)
FairSpec == /\ Spec
            /\ WF_vars((\E c \in Callers : LookupStep(c)) \/ InsertStep)
            /\ WF_vars(RefreshStep)

-------------------------------------------------------------------------------
TypeOK ==
  /\ deployment \in Deployments
  /\ use_gpu_embedding_cache \in BOOLEAN /\ hit_rate_threshold \in deployment.thresholds
  /\ DOMAIN server = Keys /\ \A k \in Keys : server[k] \in 0 .. deployment.updates[k]
  /\ header \in Seq(Blocks)
  /\ DOMAIN lookups = Callers
  /\ \A c \in Callers : /\ DOMAIN lookups[c] = {"pc", "keys", "block", "vectors"}
                        /\ lookups[c].pc \in {"idle", "direct", "query", "merge", "done"}
                        /\ lookups[c].block \in Blocks \cup {None}
                        /\ lookups[c].block # None <=> lookups[c].pc \in {"direct", "query", "merge"}
  /\ tasks \subseteq Blocks /\ inserting \in Blocks \cup {None} /\ lost \subseteq Blocks

(* Every block of the pool has one place: the list of unused ones, one     *)
(* lookup, one insertion, or it was lost to an exception.                  *)
Unused(b) == \E i \in DOMAIN header : header[i] = b
Held(b) == \E c \in Callers : lookups[c].block = b

BlocksExclusive ==
  /\ \A i, j \in DOMAIN header : header[i] = header[j] => i = j
  /\ \A c, d \in Callers : lookups[c].block = lookups[d].block /\ c # d => lookups[c].block = None
  /\ \A b \in Blocks :
       /\ Unused(b) => ~Held(b)
       /\ Unused(b) \/ Held(b) => b \notin tasks
       /\ Unused(b) \/ Held(b) \/ b \in tasks => b # inserting
       /\ Unused(b) \/ Held(b) \/ b \in tasks \/ b = inserting => b \notin lost
       /\ b \in deployment.blocks <=> Unused(b) \/ Held(b) \/ b \in tasks \/ b = inserting \/ b \in lost

(* No two users of the memory pool ever work in the same block, and no     *)
(* block disappears but with an exception.                                 *)
IInv == TypeOK /\ BlocksExclusive

OfKey(v, k) == v \in Vector /\ v.key = k /\ v.version <= server[k]

(* The cache holds vectors of its keys that the databases once held.  A    *)
(* lookup returns for each of its positions a vector of that position's    *)
(* key, through deduplication, merge and decompression, or the default;    *)
(* the default only if the threshold can be reached with a key missing.    *)
LookupOfKeys ==
  /\ \A k \in Keys : content[k] = None \/ OfKey(content[k], k)
  /\ \A c \in Callers : lookups[c].pc = "done" =>
       /\ DOMAIN lookups[c].vectors = DOMAIN lookups[c].keys
       /\ \A i \in DOMAIN lookups[c].keys :
            \/ OfKey(lookups[c].vectors[i], lookups[c].keys[i])
            \/ /\ lookups[c].vectors[i] = Default
               /\ use_gpu_embedding_cache /\ hit_rate_threshold < 100

(* The pool does not stay empty unless exceptions have taken all blocks.   *)
PoolRefills == header = <<>> ~> (header # <<>> \/ lost = deployment.blocks)

(* When the online updates are over the refreshes leave no stale vector in *)
(* the cache, whatever insertions are under way, unless an exception has   *)
(* taken the refresh buffer.                                               *)
BecomesFresh ==
  deployment.refreshed =>
    <>[](\/ refreshing.pc = "lost"
         \/ \A k \in Keys : content[k] = None \/ content[k].version = server[k])
===============================================================================
