------------------------------- MODULE CacheMap -------------------------------
(***************************************************************************)
(* What gpu_cache_api (gpu_cache/include/gpu_cache_api.hpp) promises its   *)
(* callers: a map from keys to vectors that forgets keys only to make room *)
(* for others.  A call works on a batch, one key at a time in any order,   *)
(* while the calls of other streams do the same.                           *)
(***************************************************************************)
EXTENDS Naturals, Sequences, FiniteSets

CONSTANTS Keys, NoVector,
          Batches,       \* the sequences of keys that callers pass
          Writes(_),     \* the sequences of vectors they pass with a batch
          Streams,       \* CUDA streams; each has at most one call under way
          Sets,          \* the parts that Dump can name
          SetOf(_)       \* the set a key lives in

VARIABLES content,       \* key -> its vector, or NoVector
          call           \* the call each stream is working on

vars == <<content, call>>

Indices(batch) == 1 .. Len(batch)

(* A call: the operation, its arguments, what it has yet to do, and what   *)
(* it has written to its output buffers so far.  A call without outputs is *)
(* forgotten when it is over.                                              *)
Call(op, batch, vectors, todo, values) ==
  [op |-> op, keys |-> batch, vectors |-> vectors, todo |-> todo,
   values |-> values, missing |-> {}, dumped |-> {}, d_dump_counter |-> 0]

NoCall == Call("none", <<>>, <<>>, {}, <<>>)
QueryCall(batch) ==
  Call("query", batch, <<>>, Indices(batch), [i \in Indices(batch) |-> NoVector])
ReplaceCall(batch, vectors) == Call("replace", batch, vectors, Indices(batch), <<>>)
UpdateCall(batch, vectors) == Call("update", batch, vectors, Indices(batch), <<>>)
DumpCall(sets) == Call("dump", <<>>, <<>>, sets, <<>>)

Hit(c, i, v) == [c EXCEPT !.todo = @ \ {i}, !.values[i] = v]
Miss(c, i)   == [c EXCEPT !.todo = @ \ {i}, !.missing = @ \cup {i}]
Done(c, i)   == IF c.todo = {i} THEN NoCall ELSE [c EXCEPT !.todo = @ \ {i}]
Dumped(c, set, ks) == [c EXCEPT !.todo = @ \ {set}, !.dumped = @ \cup ks,
                                !.d_dump_counter = @ + Cardinality(ks)]

Init == content = [k \in Keys |-> NoVector] /\ call = [t \in Streams |-> NoCall]

Launch(t) ==
  /\ call[t].todo = {}
  /\ \/ \E b \in Batches : call' = [call EXCEPT ![t] = QueryCall(b)]
     \/ \E b \in Batches : \E v \in Writes(b) :
          \/ call' = [call EXCEPT ![t] = ReplaceCall(b, v)]
          \/ call' = [call EXCEPT ![t] = UpdateCall(b, v)]
     \/ \E sets \in SUBSET Sets : call' = [call EXCEPT ![t] = DumpCall(sets)]
  /\ UNCHANGED content

QueryKey(t, i) ==
  LET k == call[t].keys[i]
  IN  /\ call[t].op = "query" /\ i \in call[t].todo
      /\ call' = [call EXCEPT ![t] = IF content[k] # NoVector
                                     THEN Hit(@, i, content[k]) ELSE Miss(@, i)]
      /\ UNCHANGED content

(* A key that is there keeps its vector.  One that is not there is added,  *)
(* possibly in the place of another one of its set.                        *)
ReplaceKey(t, i) ==
  LET k == call[t].keys[i]
  IN  /\ call[t].op = "replace" /\ i \in call[t].todo
      /\ \/ content[k] # NoVector /\ UNCHANGED content
         \/ /\ content[k] = NoVector
            /\ \/ content' = [content EXCEPT ![k] = call[t].vectors[i]]
               \/ \E victim \in Keys \ {k} :
                    /\ SetOf(victim) = SetOf(k)
                    /\ content' = [content EXCEPT ![k] = call[t].vectors[i],
                                                  ![victim] = NoVector]
      /\ call' = [call EXCEPT ![t] = Done(@, i)]

(* Update touches only keys that are there. *)
UpdateKey(t, i) ==
  LET k == call[t].keys[i]
  IN  /\ call[t].op = "update" /\ i \in call[t].todo
      /\ content' = IF content[k] = NoVector THEN content
                    ELSE [content EXCEPT ![k] = call[t].vectors[i]]
      /\ call' = [call EXCEPT ![t] = Done(@, i)]

DumpSet(t, set) ==
  /\ call[t].op = "dump" /\ set \in call[t].todo
  /\ call' = [call EXCEPT ![t] =
                Dumped(@, set, {k \in Keys : SetOf(k) = set /\ content[k] # NoVector})]
  /\ UNCHANGED content

Next == \E t \in Streams :
          \/ Launch(t)
          \/ \E i \in call[t].todo : \/ QueryKey(t, i) \/ ReplaceKey(t, i)
                                     \/ UpdateKey(t, i) \/ DumpSet(t, i)

Spec == Init /\ [][Next]_vars
===============================================================================
