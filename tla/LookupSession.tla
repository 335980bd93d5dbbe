----------------------------- MODULE LookupSession -----------------------------
(***************************************************************************)
(* LookupSession (src/hps/lookup_session.cpp) with fused embedding tables: *)
(* the lookups of the original tables of one fused table, which run on the *)
(* threads of table_fusion_thread_pool_ (or on threads the caller joins),  *)
(* are packed into one lookup by the thread of the last table.             *)
(*                                                                         *)
(* An iteration is one call of the multi-table lookup: it submits a task   *)
(* per table and awaits them all.  The pool has a thread for each table.   *)
(* Keys are <<table, iteration, position>>, vectors are named by the keys  *)
(* they are for, and the fused table (EmbeddingCache) maps each key of its *)
(* input to the vector at the same place.                                  *)
(***************************************************************************)
EXTENDS Naturals, Sequences, FiniteSets

CONSTANTS NumTables,       \* original tables of the fused table
          MaxKeys,         \* bound on num_keys
          MaxIterations,   \* bound on the calls
          Word             \* size_t arithmetic is modulo Word

ASSUME SessionAssumption ==
  /\ NumTables \in Nat \ {0}
  /\ MaxKeys \in Nat /\ MaxIterations \in Nat
  /\ Word \in Nat /\ Word > NumTables * (MaxIterations + 1)

Tables == 1 .. NumTables
Last == NumTables

VARIABLES counter,      \* counter_for_each_fused_table_
          num_keys,     \* table -> num_keys_of_original_tables_for_each_fused_table_
          key_buffer,   \* table -> what original_key_buffers_for_each_fused_table_ points to
          vectors,      \* table -> contents of the caller's d_vectors
          pc,           \* table -> where its task is
          iteration,    \* the number of calls so far
          asked,        \* table -> the keys of its current lookup
          failed        \* whether a wait timed out or a fused lookup threw

session_vars == <<counter, num_keys, key_buffer, vectors, pc, iteration, asked, failed>>

SessionInit ==
  /\ counter = NumTables
  /\ num_keys = [t \in Tables |-> 0]
  /\ key_buffer = [t \in Tables |-> <<>>]
  /\ vectors = [t \in Tables |-> <<>>]
  /\ pc = [t \in Tables |-> "returned"]
  /\ iteration = 0
  /\ asked = [t \in Tables |-> <<>>]
  /\ failed = FALSE

KeysOf(t, n, i) == [j \in 1 .. n |-> <<t, i, j>>]

(* The caller submits a lookup for each table, with new output buffers.    *)
Lookup(lengths) ==
  /\ iteration < MaxIterations
  /\ \A t \in Tables : pc[t] = "returned"
  /\ iteration' = iteration + 1
  /\ asked' = [t \in Tables |-> KeysOf(t, lengths[t], iteration + 1)]
  /\ pc' = [t \in Tables |-> "submitted"]
  /\ vectors' = [t \in Tables |-> <<>>]
  /\ UNCHANGED <<counter, num_keys, key_buffer, failed>>

(* The first critical section.  Only the last table's thread goes on.      *)
Register(t) ==
  /\ pc[t] = "submitted"
  /\ counter' = (counter + (Word - 1)) % Word
  /\ num_keys' = [num_keys EXCEPT ![t] = Len(asked[t])]
  /\ key_buffer' = [key_buffer EXCEPT ![t] = asked[t]]
  /\ pc' = [pc EXCEPT ![t] = IF t = Last THEN "waiting" ELSE "returned"]
  /\ UNCHANGED <<vectors, iteration, asked, failed>>

(* key_buffer_offset_for_each_fused_table_ of idx, in keys *)
Offset[idx \in 0 .. NumTables] == IF idx = 0 THEN 0 ELSE Offset[idx - 1] + num_keys[idx]

(* The keys of all tables are copied to their offsets in one buffer, and   *)
(* the vectors are copied back from there.                                 *)
FusedKeys ==
  [p \in 1 .. Offset[NumTables] |->
     LET t == CHOOSE t \in Tables : Offset[t - 1] < p /\ p <= Offset[t]
     IN  key_buffer[t][p - Offset[t - 1]]]

FusedVectorsMutant(t) == [j \in 1 .. num_keys[t] |-> FusedKeys[j]]

FusedVectors(t) == [j \in 1 .. num_keys[t] |-> FusedKeys[Offset[t - 1] + j]]

(* The second critical section, when all tables have registered.           *)
FusedLookup ==
  /\ pc[Last] = "waiting" /\ counter = 0
  /\ vectors' = [t \in Tables |-> FusedVectors(t)]
  /\ counter' = NumTables
  /\ pc' = [pc EXCEPT ![Last] = "returned"]
  /\ UNCHANGED <<num_keys, key_buffer, iteration, asked, failed>>

(* An exception leaves the critical section with the counter at zero.      *)
FusedLookupThrows ==
  /\ pc[Last] = "waiting" /\ counter = 0
  /\ pc' = [pc EXCEPT ![Last] = "returned"]
  /\ failed' = TRUE
  /\ UNCHANGED <<counter, num_keys, key_buffer, vectors, iteration, asked>>

(* wait_for gives up after wait_duration_; the counter stays as it is.     *)
TimeoutResetMutant ==
  /\ pc[Last] = "waiting" /\ counter # 0
  /\ counter' = NumTables
  /\ pc' = [pc EXCEPT ![Last] = "returned"]
  /\ failed' = TRUE
  /\ UNCHANGED <<num_keys, key_buffer, vectors, iteration, asked>>

TimeoutRangeMutant ==
  /\ pc[Last] = "waiting" /\ counter \in 1 .. NumTables
  /\ pc' = [pc EXCEPT ![Last] = "returned"]
  /\ failed' = TRUE
  /\ UNCHANGED <<counter, num_keys, key_buffer, vectors, iteration, asked>>

Timeout ==
  /\ pc[Last] = "waiting" /\ counter # 0
  /\ pc' = [pc EXCEPT ![Last] = "returned"]
  /\ failed' = TRUE
  /\ UNCHANGED <<counter, num_keys, key_buffer, vectors, iteration, asked>>

WaitReturns == FusedLookup \/ FusedLookupThrows \/ Timeout

SessionNext == \/ \E lengths \in [Tables -> 0 .. MaxKeys] : Lookup(lengths)
        \/ \E t \in Tables : Register(t)
        \/ WaitReturns

SessionSpec == SessionInit /\ [][SessionNext]_session_vars

(* Every task has a thread of the pool, and a wait ends.                   *)
SessionFairSpec == SessionSpec /\ (\A t \in Tables : WF_session_vars(Register(t))) /\ WF_session_vars(WaitReturns)

-------------------------------------------------------------------------------
SessionTypeOK ==
  /\ counter \in 0 .. Word - 1
  /\ pc \in [Tables -> {"submitted", "waiting", "returned"}]
  /\ \A t \in Tables \ {Last} : pc[t] # "waiting"
  /\ iteration \in 0 .. MaxIterations
  /\ failed \in BOOLEAN
  /\ num_keys \in [Tables -> Nat]
  /\ asked \in [Tables -> Seq(Tables \X Nat \X Nat)]
  /\ key_buffer \in [Tables -> Seq(Tables \X Nat \X Nat)]

(* Until a wait fails, the counter says how many tables are missing, and   *)
(* the last thread does not leave before the others are there.             *)
Arrived == {t \in Tables : pc[t] # "submitted"}
Over == \A t \in Tables : pc[t] = "returned"

CounterCounts ==
  ~failed => /\ pc[Last] = "returned" => Over
             /\ counter = IF Over THEN NumTables ELSE NumTables - Cardinality(Arrived)

(* After a wait has failed the counter is never again that of a complete   *)
(* iteration: it reaches zero with the late tables of the iteration that   *)
(* failed, whose last thread is gone, and is below zero from then on.      *)
CounterSpent ==
  failed => \/ pc[Last] = "returned" /\ counter = NumTables - Cardinality(Arrived)
            \/ counter = 0 /\ Arrived = {}
            \/ counter # 0 /\ Word - counter <= NumTables * iteration + Cardinality(Arrived)

(* A table that has registered has put its current keys, and their number, *)
(* where the last one finds them.                                          *)
BuffersCurrent == \A t \in Arrived : key_buffer[t] = asked[t] /\ num_keys[t] = Len(asked[t])

(* When a call returns without a failure, each table has the vectors of    *)
(* the keys it asked for, from the right part of the fused buffer.         *)
ResultsDelivered == (Over /\ ~failed) => vectors = asked

(* What the thread of the last table can rely on: a counter of zero, when  *)
(* it finds one, and the buffers.                                          *)
Counting == SessionTypeOK /\ CounterCounts /\ CounterSpent /\ BuffersCurrent

(* The counter, the buffers and the results that the last thread leaves    *)
(* the others are consistent in every state, failures included.            *)
SessionIInv == Counting /\ ResultsDelivered

(* A fused lookup never packs keys of different iterations, not even after *)
(* a timeout whose late tables have registered since.                      *)
NeverMixes == [][vectors' # vectors /\ iteration' = iteration => key_buffer = asked]_session_vars

(* Every call returns. *)
CallsReturn == (iteration > 0) ~> Over
===============================================================================
