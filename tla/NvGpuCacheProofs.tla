--------------------------- MODULE NvGpuCacheProofs ---------------------------
(***************************************************************************)
(* Theorems about NvGpuCache, for any number of sets, slabs and lanes, any *)
(* hash functions, and any number of streams.                              *)
(***************************************************************************)
EXTENDS NvGpuCache, FiniteSetTheorems, TLAPS

-------------------------------------------------------------------------------
(* The way round the slabs of a set. *)

LEMMA SlabAtValue ==
  ASSUME NEW k \in Keys, NEW d \in Distances
  PROVE  LET h == SlabHash[k] % set_associativity
         IN  /\ h \in Slabs
             /\ SlabAt(k, d) = IF h + d < set_associativity THEN h + d ELSE h + d - set_associativity
<1> DEFINE h == SlabHash[k] % set_associativity
<1>1. SlabHash[k] \in Nat /\ set_associativity \in Nat \ {0}
  BY CacheAssumption
<1>2. h \in Slabs
  BY <1>1 DEF Slabs
<1> HIDE DEF h
<1>3. (h + d) % set_associativity = IF h + d < set_associativity THEN h + d ELSE h + d - set_associativity
  BY <1>1, <1>2 DEF Slabs, Distances
<1> QED
  BY <1>2, <1>3 DEF SlabAt, h

(* Probing visits every slab of the set exactly once. *)
LEMMA SlabAtBijective ==
  ASSUME NEW k \in Keys
  PROVE  /\ \A d \in Distances : SlabAt(k, d) \in Slabs
         /\ \A d, e \in Distances : SlabAt(k, d) = SlabAt(k, e) => d = e
         /\ \A b \in Slabs : \E d \in Distances : SlabAt(k, d) = b
<1> DEFINE h == SlabHash[k] % set_associativity
<1>1. /\ set_associativity \in Nat \ {0}
      /\ \A d \in Distances : /\ h \in Slabs
                              /\ SlabAt(k, d) = IF h + d < set_associativity THEN h + d
                                                ELSE h + d - set_associativity
  BY SlabAtValue, CacheAssumption
<1> HIDE DEF h
<1>2. /\ \A d \in Distances : SlabAt(k, d) \in Slabs
      /\ \A d, e \in Distances : SlabAt(k, d) = SlabAt(k, e) => d = e
  BY <1>1 DEF Slabs, Distances
<1>3. ASSUME NEW b \in Slabs PROVE \E d \in Distances : SlabAt(k, d) = b
  <2>0. h \in Slabs
    BY <1>1, 0 \in Distances DEF Distances, Slabs
  <2> DEFINE x == IF b >= h THEN b - h ELSE b - h + set_associativity
  <2>1. x \in Distances
    BY <2>0, <1>1 DEF Slabs, Distances
  <2>2. SlabAt(k, x) = b
    BY <2>0, <2>1, <1>1 DEF Slabs, Distances
  <2> QED
    BY <2>1, <2>2
<1> QED
  BY <1>2, <1>3

(* The slots that a key may be in are those of its set. *)
LEMMA SlotsOfKey ==
  ASSUME NEW k \in Keys
  PROVE  /\ SetOf(k) \in Sets
         /\ \A d \in Distances, l \in Lanes : Slot(k, d, l) \in Slots /\ Slot(k, d, l)[1] = SetOf(k)
         /\ \A d, e \in Distances : \A l, m \in Lanes :
              Slot(k, d, l) = Slot(k, e, m) => d = e /\ l = m
         /\ \A r \in Slots : r[1] = SetOf(k) => \E d \in Distances, l \in Lanes : r = Slot(k, d, l)
<1>1. SetOf(k) \in Sets
  BY CacheAssumption DEF SetOf, Sets
<1>2. ASSUME NEW r \in Slots, r[1] = SetOf(k)
      PROVE  \E d \in Distances, l \in Lanes : r = Slot(k, d, l)
  <2>1. r[2] \in Slabs /\ r[3] \in Lanes /\ r = <<r[1], r[2], r[3]>>
    BY DEF Slots
  <2>2. PICK d \in Distances : SlabAt(k, d) = r[2]
    BY <2>1, SlabAtBijective
  <2> QED
    BY <2>1, <2>2, <1>2 DEF Slot
<1>3. \A d \in Distances, l \in Lanes : Slot(k, d, l) \in Slots /\ Slot(k, d, l)[1] = SetOf(k)
  BY <1>1, SlabAtBijective DEF Slot, Slots
<1>4. \A d, e \in Distances : \A l, m \in Lanes : Slot(k, d, l) = Slot(k, e, m) => d = e /\ l = m
  BY SlabAtBijective DEF Slot
<1> QED
  BY <1>1, <1>2, <1>3, <1>4

-------------------------------------------------------------------------------
(* Probing. *)

(* The part of the invariant that probing relies on. *)
KeysOK == keys \in [Slots -> Keys \cup {empty_key}] /\ UniqueKeys /\ Reachable

Absent(k) == \A r \in Slots : keys[r] # k

(* A slot in which a key may be put: nothing nearer to its hash is free. *)
Suitable(k, s) ==
  \E d \in Distances, l \in Lanes :
    /\ s = Slot(k, d, l)
    /\ \A e \in Distances : e < d => ~Holds(k, e, empty_key)

LEMMA FoundIsThere ==
  ASSUME NEW k \in Keys, NEW s, FoundAt(k, s)
  PROVE  s \in Slots /\ keys[s] = k
  BY SlotsOfKey DEF FoundAt, FirstLane

(* The key is not behind the slab at which probing stops. *)
LEMMA FreeIsSuitable ==
  ASSUME KeysOK, NEW k \in Keys, NEW s, FreeAt(k, s)
  PROVE  s \in Slots /\ keys[s] = empty_key /\ Absent(k) /\ Suitable(k, s)
<1>1. PICK d \in Distances, l \in Lanes :
        /\ StopsAt(k, d) /\ ~Holds(k, d, k)
        /\ FirstLane(k, d, empty_key, l) /\ s = Slot(k, d, l)
  BY DEF FreeAt
<1>2. s \in Slots /\ keys[s] = empty_key
  BY <1>1, SlotsOfKey DEF FirstLane
<1>3. Suitable(k, s)
  BY <1>1 DEF Suitable, StopsAt, Stops
<1>4. Absent(k)
  <2> SUFFICES ASSUME NEW r \in Slots, keys[r] = k PROVE FALSE
    BY DEF Absent
  <2>1. PICK e \in Distances, m \in Lanes :
          r = Slot(k, e, m) /\ \A f \in Distances : f < e => ~Holds(k, f, empty_key)
    BY DEF KeysOK, Reachable
  <2>2. Holds(k, e, k)
    BY <2>1 DEF Holds
  <2>3. ~(e < d)
    BY <2>2, <1>1 DEF StopsAt, Stops
  <2>4. ~(d < e)
    BY <2>1, <1>1 DEF StopsAt, Stops
  <2>5. d = e
    BY <2>3, <2>4 DEF Distances, Slabs
  <2> QED
    BY <2>2, <2>5, <1>1
<1> QED
  BY <1>2, <1>3, <1>4

LEMMA ExhaustedIsAbsent ==
  ASSUME KeysOK, NEW k \in Keys, Exhausted(k)
  PROVE  Absent(k)
<1> SUFFICES ASSUME NEW r \in Slots, keys[r] = k PROVE FALSE
  BY DEF Absent
<1>1. PICK e \in Distances, m \in Lanes : r = Slot(k, e, m)
  BY DEF KeysOK, Reachable
<1> QED
  BY <1>1 DEF Exhausted, Stops, Holds

LEMMA LeastRecentIsSuitable ==
  ASSUME NEW k \in Keys, Exhausted(k), NEW s, LeastRecent(k, s)
  PROVE  s \in Slots /\ s[1] = SetOf(k) /\ Suitable(k, s)
  BY SlotsOfKey DEF LeastRecent, Exhausted, Stops, Suitable

LEMMA NotFoundIsAbsent ==
  ASSUME KeysOK, NEW k \in Keys, NotFound(k)
  PROVE  Absent(k)
  BY FreeIsSuitable, ExhaustedIsAbsent DEF NotFound

(* Putting an absent key into a suitable slot, free or not. *)
LEMMA WriteKeepsKeys ==
  ASSUME KeysOK, NEW k \in Keys, Absent(k), NEW s \in Slots, Suitable(k, s),
         keys' = [keys EXCEPT ![s] = k]
  PROVE  KeysOK'
<1>1. /\ keys' \in [Slots -> Keys \cup {empty_key}]
      /\ \A r \in Slots : keys'[r] = IF r = s THEN k ELSE keys[r]
      /\ k # empty_key
  BY CacheAssumption DEF KeysOK
<1>2. UniqueKeys'
  BY <1>1 DEF KeysOK, UniqueKeys, Absent
<1>3. ASSUME NEW j \in Keys, NEW e \in Distances, ~Holds(j, e, empty_key)
      PROVE  ~Holds(j, e, empty_key)'
  BY <1>1, <1>3, SlotsOfKey DEF Holds
<1>4. Reachable'
  <2> SUFFICES ASSUME NEW j \in Keys, NEW r \in Slots, keys'[r] = j
               PROVE  \E d \in Distances, l \in Lanes :
                        /\ r = Slot(j, d, l)
                        /\ \A e \in Distances : e < d => ~Holds(j, e, empty_key)'
    BY DEF Reachable
  <2>1. CASE r = s
    BY <2>1, <1>1, <1>3 DEF Suitable
  <2>2. CASE r # s
    <3>1. PICK d \in Distances, l \in Lanes :
            r = Slot(j, d, l) /\ \A e \in Distances : e < d => ~Holds(j, e, empty_key)
      BY <2>2, <1>1 DEF KeysOK, Reachable
    <3> QED
      BY <3>1, <1>3
  <2> QED
    BY <2>1, <2>2
<1> QED
  BY <1>1, <1>2, <1>4 DEF KeysOK

-------------------------------------------------------------------------------
(* Calls. *)

CallOK(c) == c \in Calls /\ Fits(c) /\ OfKeys(c)

LEMMA CallType ==
  ASSUME NEW op \in {"none", "query", "replace", "update", "dump"}, NEW batch \in Batches \cup {<<>>},
         NEW vectors \in Seq(Vectors), NEW todo \in SUBSET Nat,
         NEW values \in Seq(Vectors \cup {NoVector})
  PROVE  Map!Call(op, batch, vectors, todo, values) \in Calls
  BY DEF Calls, Map!Call

LEMMA EmptySequences ==
  <<>> \in Seq(Vectors) /\ <<>> \in Seq(Vectors \cup {NoVector}) /\ <<>> \in Batches \cup {<<>>}
  OBVIOUS

LEMMA NoCallOK == CallOK(Map!NoCall)
  BY CallType, EmptySequences, Zenon DEF CallOK, Fits, OfKeys, Map!NoCall, Map!Call

LEMMA BatchType ==
  ASSUME NEW batch \in Batches
  PROVE  /\ batch \in Seq(Keys)
         /\ Len(batch) \in Nat
         /\ DOMAIN batch = 1 .. Len(batch)
         /\ Map!Indices(batch) = DOMAIN batch
         /\ Map!Indices(batch) \in SUBSET Nat
         /\ \A i \in DOMAIN batch : batch[i] \in Keys
  BY CacheAssumption DEF Map!Indices

LEMMA QueryCallOK ==
  ASSUME NEW batch \in Batches
  PROVE  CallOK(Map!QueryCall(batch))
<1> DEFINE values == [i \in Map!Indices(batch) |-> NoVector]
           c == Map!Call("query", batch, <<>>, Map!Indices(batch), values)
<1>1. values \in Seq(Vectors \cup {NoVector}) /\ DOMAIN values = DOMAIN batch
  BY BatchType DEF Map!Indices
<1> HIDE DEF values
<1>2. c \in Calls
  BY <1>1, BatchType, EmptySequences, CallType, Zenon
<1>3. Fits(c) /\ OfKeys(c)
  BY Zenon, <1>1, BatchType DEF Fits, OfKeys, Map!Call
<1> QED
  BY <1>2, <1>3 DEF CallOK, Map!QueryCall, values

(* Replace and Update come with the vectors of their keys. *)
LEMMA WritesType ==
  ASSUME NEW batch \in Batches, NEW v \in Writes(batch)
  PROVE  /\ v \in Seq(Vectors) /\ DOMAIN v = DOMAIN batch
         /\ \A i \in DOMAIN batch : v[i] \in {batch[i]} \X Versions
<1>1. PICK n \in Versions : v = [i \in 1 .. Len(batch) |-> <<batch[i], n>>]
  BY DEF Writes
<1>2. \A i \in 1 .. Len(batch) : <<batch[i], n>> \in Vectors
  BY BatchType DEF Vectors
<1> QED
  BY <1>1, <1>2, BatchType

LEMMA WriteCallOK ==
  ASSUME NEW batch \in Batches, NEW v \in Writes(batch)
  PROVE  CallOK(Map!ReplaceCall(batch, v)) /\ CallOK(Map!UpdateCall(batch, v))
<1>1. ASSUME NEW op \in {"replace", "update"}
      PROVE  CallOK(Map!Call(op, batch, v, Map!Indices(batch), <<>>))
  <2> DEFINE c == Map!Call(op, batch, v, Map!Indices(batch), <<>>)
  <2>1. c \in Calls
    BY BatchType, WritesType, EmptySequences, CallType, Zenon
  <2>2. Fits(c) /\ OfKeys(c)
    BY BatchType, WritesType, Zenon DEF Fits, OfKeys, Map!Call
  <2> QED
    BY <2>1, <2>2 DEF CallOK
<1> QED
  BY <1>1 DEF Map!ReplaceCall, Map!UpdateCall

LEMMA DumpCallOK ==
  ASSUME NEW sets \in SUBSET Sets
  PROVE  CallOK(Map!DumpCall(sets))
<1>1. sets \in SUBSET Nat
  BY CacheAssumption DEF Sets
<1>2. Map!DumpCall(sets) \in Calls
  BY <1>1, EmptySequences, CallType, Zenon DEF Map!DumpCall
<1> QED
  BY Zenon, <1>2 DEF CallOK, Fits, OfKeys, Map!DumpCall, Map!Call

LEMMA KeyOfCall ==
  ASSUME NEW c, CallOK(c), c.op \in {"query", "replace", "update"}, NEW i \in c.todo
  PROVE  i \in DOMAIN c.keys /\ c.keys[i] \in Keys
<1>1. i \in DOMAIN c.keys
  BY DEF CallOK, Fits
<1>2. c.keys \in Batches
  BY <1>1 DEF CallOK, Calls
<1> QED
  BY <1>1, <1>2, BatchType

LEMMA HitOK ==
  ASSUME NEW c, CallOK(c), c.op = "query", NEW i \in c.todo, NEW v \in {c.keys[i]} \X Versions
  PROVE  CallOK(Map!Hit(c, i, v))
<1> DEFINE h == Map!Hit(c, i, v)
<1>1. v \in Vectors /\ i \in DOMAIN c.values /\ c.values \in Seq(Vectors \cup {NoVector})
  BY KeyOfCall, Zenon DEF Vectors, CallOK, Fits, Calls
<1>2. /\ h.op = "query" /\ h.keys = c.keys /\ h.todo = c.todo \ {i} /\ h.missing = c.missing
      /\ h.values = [c.values EXCEPT ![i] = v]
  BY DEF Map!Hit, CallOK, Calls
<1>3. h.values \in Seq(Vectors \cup {NoVector}) /\ DOMAIN h.values = DOMAIN c.values
  BY <1>1, <1>2
<1>4. h \in Calls
  BY <1>3, Zenon DEF Map!Hit, CallOK, Calls
<1>5. Fits(h)
  BY <1>2, <1>3 DEF CallOK, Fits
<1>6. OfKeys(h)
  BY Zenon, <1>1, <1>2 DEF CallOK, OfKeys, Fits
<1> QED
  BY <1>4, <1>5, <1>6 DEF CallOK

LEMMA MissOK ==
  ASSUME NEW c, CallOK(c), c.op = "query", NEW i \in c.todo
  PROVE  CallOK(Map!Miss(c, i))
  BY Zenon DEF CallOK, Calls, Fits, OfKeys, Map!Miss

LEMMA DoneOK ==
  ASSUME NEW c, CallOK(c), c.op \in {"replace", "update"}, NEW i \in c.todo
  PROVE  CallOK(Map!Done(c, i))
<1>1. CASE c.todo = {i}
  BY <1>1, NoCallOK DEF Map!Done
<1>2. CASE c.todo # {i}
  BY <1>2, Zenon DEF CallOK, Calls, Fits, OfKeys, Map!Done
<1> QED
  BY <1>1, <1>2

LEMMA DumpedOK ==
  ASSUME NEW c, CallOK(c), c.op = "dump", NEW set \in c.todo, NEW ks \in SUBSET Keys, NEW n \in Nat
  PROVE  CallOK([c EXCEPT !.todo = @ \ {set}, !.dumped = @ \cup ks, !.d_dump_counter = @ + n])
<1> DEFINE d == [c EXCEPT !.todo = @ \ {set}, !.dumped = @ \cup ks, !.d_dump_counter = @ + n]
<1>1. d \in Calls
  <2>1. /\ c \in Calls /\ c.todo \ {set} \in SUBSET Nat /\ c.dumped \cup ks \in SUBSET Keys
        /\ c.d_dump_counter + n \in Nat
    BY DEF CallOK, Calls
  <2>2. ASSUME NEW x \in SUBSET Nat, NEW y \in SUBSET Keys, NEW z \in Nat
        PROVE  [c EXCEPT !.todo = x, !.dumped = y, !.d_dump_counter = z] \in Calls
    BY <2>1, Zenon DEF Calls
  <2> QED
    BY <2>1, <2>2, Zenon
<1>2. d.op = "dump" /\ d.todo = c.todo \ {set}
  BY DEF CallOK, Calls
<1> HIDE DEF d
<1>3. Fits(d) /\ OfKeys(d)
  BY <1>2 DEF CallOK, Fits, OfKeys
<1> QED
  BY <1>1, <1>3 DEF CallOK, d

-------------------------------------------------------------------------------
(* The steps preserve the invariant. *)

SlotsOK ==
  /\ KeysOK
  /\ vals \in [Slots -> Vectors \cup {NoVector}]
  /\ \A s \in Slots : keys[s] # empty_key => vals[s] \in {keys[s]} \X Versions
  /\ slot_counter \in [Slots -> Nat] /\ global_counter \in Nat
CallsOK == call \in [Streams -> Calls] /\ \A t \in Streams : CallOK(call[t])

LEMMA InvariantParts == IInv <=> SlotsOK /\ CallsOK
  BY DEF IInv, TypeOK, SlotsOK, KeysOK, CallsOK, CallOK, VectorOfKey

LEMMA InvariantPartsPrime == IInv' <=> SlotsOK' /\ CallsOK'
  BY DEF IInv, TypeOK, SlotsOK, KeysOK, CallsOK, CallOK, VectorOfKey, UniqueKeys, Reachable,
    Holds, Fits, OfKeys, Calls

LEMMA InitIInv == Init => IInv
<1> SUFFICES ASSUME Init PROVE SlotsOK /\ CallsOK
  BY InvariantParts
<1>1. KeysOK
  <2>1. keys \in [Slots -> Keys \cup {empty_key}] /\ \A s \in Slots : keys[s] = empty_key
    BY DEF Init
  <2> QED
    BY <2>1, CacheAssumption DEF KeysOK, UniqueKeys, Reachable
<1>2. CallsOK
  BY NoCallOK DEF Init, CallsOK, CallOK
<1> QED
  BY Zenon, <1>1, <1>2 DEF Init, SlotsOK

LEMMA FinishOK ==
  ASSUME CallsOK, NEW t \in Streams, NEW c, CallOK(c), Finish(t, c)
  PROVE  CallsOK'
<1>1. call' \in [Streams -> Calls] /\ \A u \in Streams : call'[u] = IF u = t THEN c ELSE call[u]
  BY DEF CallsOK, CallOK, Finish
<1>2. ASSUME NEW u \in Streams PROVE CallOK(call'[u])
  BY <1>1 DEF CallsOK
<1> QED
  BY Zenon, <1>1, <1>2 DEF CallsOK, CallOK, Fits, OfKeys

LEMMA SlotsStay ==
  ASSUME SlotsOK, UNCHANGED <<keys, vals>>, slot_counter' \in [Slots -> Nat], global_counter' \in Nat
  PROVE  SlotsOK'
  BY DEF SlotsOK, KeysOK, UniqueKeys, Reachable, Holds

LEMMA TouchType ==
  ASSUME SlotsOK, NEW s \in Slots, Touch(s)
  PROVE  slot_counter' \in [Slots -> Nat]
  BY DEF SlotsOK, Touch

LEMMA LaunchKeepsIInv ==
  ASSUME IInv, NEW t \in Streams, Launch(t)
  PROVE  IInv'
<1>0. SlotsOK /\ CallsOK
  BY InvariantParts
<1>1. UNCHANGED <<keys, vals, slot_counter>> /\ global_counter' \in Nat
  BY <1>0 DEF Launch, Query, Replace, Update, Dump, SlotsOK
<1>2. SlotsOK'
  BY <1>0, <1>1, SlotsStay DEF SlotsOK
<1>3. \E c : CallOK(c) /\ Finish(t, c)
  <2>1. CASE \E b \in Batches : Query(t, b)
    BY <2>1, QueryCallOK DEF Query
  <2>2. CASE \E b \in Batches : \E v \in Writes(b) : Replace(t, b, v) \/ Update(t, b, v)
    BY <2>2, WriteCallOK DEF Replace, Update
  <2>3. ASSUME NEW i \in Sets, NEW j \in Sets, Dump(t, i, j + 1)
        PROVE  \E c : CallOK(c) /\ Finish(t, c)
    <3>1. i .. (j + 1) - 1 \in SUBSET Sets
      BY <2>3, CacheAssumption DEF Sets
    <3> QED
      BY <2>3, <3>1, DumpCallOK, Zenon DEF Dump
  <2> QED
    BY <2>1, <2>2, <2>3 DEF Launch
<1> QED
  BY <1>0, <1>2, <1>3, FinishOK, InvariantPartsPrime

LEMMA GetKernelKeepsIInv ==
  ASSUME IInv, NEW t \in Streams, NEW i \in call[t].todo, GetKernel(t, i)
  PROVE  IInv'
<1> DEFINE k == call[t].keys[i]
<1>0. SlotsOK /\ CallsOK /\ CallOK(call[t])
  BY InvariantParts DEF CallsOK
<1>1. call[t].op = "query" /\ UNCHANGED <<keys, vals, global_counter>>
  BY Zenon DEF GetKernel
<1>2. k \in Keys
  BY <1>0, <1>1, KeyOfCall
<1>3. CASE \E s \in Slots : FoundAt(k, s) /\ Touch(s) /\ Finish(t, Map!Hit(call[t], i, vals[s]))
  <2>1. PICK s \in Slots : FoundAt(k, s) /\ Touch(s) /\ Finish(t, Map!Hit(call[t], i, vals[s]))
    BY Zenon, <1>3
  <2>2. vals[s] \in {k} \X Versions
    BY <2>1, <1>0, <1>2, FoundIsThere, CacheAssumption DEF SlotsOK
  <2>3. CallsOK'
    BY Zenon, <2>1, <2>2, <1>0, <1>1, HitOK, FinishOK
  <2>4. SlotsOK'
    BY Zenon, <2>1, <1>0, <1>1, TouchType, SlotsStay DEF SlotsOK
  <2> QED
    BY <2>3, <2>4, InvariantPartsPrime
<1>4. CASE Finish(t, Map!Miss(call[t], i)) /\ UNCHANGED slot_counter
  <2>1. CallsOK'
    BY Zenon, <1>4, <1>0, <1>1, MissOK, FinishOK
  <2>2. SlotsOK'
    BY Zenon, <1>4, <1>0, <1>1, SlotsStay DEF SlotsOK
  <2> QED
    BY <2>1, <2>2, InvariantPartsPrime
<1> QED
  BY Zenon, <1>3, <1>4 DEF GetKernel

LEMMA UpdateKernelKeepsIInv ==
  ASSUME IInv, NEW t \in Streams, NEW i \in call[t].todo, UpdateKernel(t, i)
  PROVE  IInv'
<1> DEFINE k == call[t].keys[i]
           v == call[t].vectors[i]
<1>0. SlotsOK /\ CallsOK /\ CallOK(call[t])
  BY InvariantParts DEF CallsOK
<1>1. /\ call[t].op = "update" /\ UNCHANGED <<keys, slot_counter, global_counter>>
      /\ Finish(t, Map!Done(call[t], i))
  BY DEF UpdateKernel
<1>2. k \in Keys /\ v \in {k} \X Versions
  BY Zenon, <1>0, <1>1, KeyOfCall DEF CallOK, OfKeys
<1>3. CallsOK'
  BY <1>0, <1>1, DoneOK, FinishOK
<1>4. /\ vals' \in [Slots -> Vectors \cup {NoVector}]
      /\ \A s \in Slots : keys[s] # empty_key => vals'[s] \in {keys[s]} \X Versions
  <2>1. CASE \E s \in Slots : FoundAt(k, s) /\ vals' = [vals EXCEPT ![s] = v]
    BY <2>1, <1>0, <1>2, FoundIsThere DEF SlotsOK, Vectors
  <2>2. CASE UNCHANGED vals
    BY <2>2, <1>0 DEF SlotsOK
  <2> QED
    BY Zenon, <2>1, <2>2 DEF UpdateKernel
<1>5. SlotsOK'
  BY Zenon, <1>0, <1>1, <1>4 DEF SlotsOK, KeysOK, UniqueKeys, Reachable, Holds
<1> QED
  BY <1>3, <1>5, InvariantPartsPrime

LEMMA InsertReplaceKernelKeepsIInv ==
  ASSUME IInv, NEW t \in Streams, NEW i \in call[t].todo, InsertReplaceKernel(t, i)
  PROVE  IInv'
<1> DEFINE k == call[t].keys[i]
           v == call[t].vectors[i]
<1>0. SlotsOK /\ KeysOK /\ CallsOK /\ CallOK(call[t])
  BY Zenon, InvariantParts DEF CallsOK, SlotsOK
<1>1. call[t].op = "replace" /\ UNCHANGED global_counter /\ Finish(t, Map!Done(call[t], i))
  BY Zenon DEF InsertReplaceKernel
<1>2. k \in Keys /\ v \in {k} \X Versions
  BY Zenon, <1>0, <1>1, KeyOfCall DEF CallOK, OfKeys
<1>3. CallsOK'
  BY <1>0, <1>1, DoneOK, FinishOK
<1>4. CASE \E s \in Slots : FoundAt(k, s) /\ Touch(s) /\ UNCHANGED <<keys, vals>>
  BY Zenon, <1>4, <1>0, <1>1, <1>3, TouchType, SlotsStay, InvariantPartsPrime DEF SlotsOK
<1>5. ASSUME NEW s \in Slots, Absent(k), Suitable(k, s), Write(s, k, v)
      PROVE  IInv'
  <2>1. KeysOK'
    BY <1>5, <1>0, <1>2, WriteKeepsKeys, Zenon DEF Write
  <2>2. /\ keys' = [keys EXCEPT ![s] = k] /\ vals' = [vals EXCEPT ![s] = v]
        /\ keys \in [Slots -> Keys \cup {empty_key}]
        /\ slot_counter' \in [Slots -> Nat]
    BY Zenon, <1>5, <1>0, TouchType DEF Write, KeysOK
  <2>3. /\ vals' \in [Slots -> Vectors \cup {NoVector}]
        /\ \A r \in Slots : keys'[r] # empty_key => vals'[r] \in {keys'[r]} \X Versions
    BY Zenon, <2>2, <1>0, <1>2 DEF SlotsOK, Vectors
  <2>4. SlotsOK'
    BY Zenon, <2>1, <2>2, <2>3, <1>0, <1>1 DEF SlotsOK
  <2> QED
    BY <2>4, <1>3, InvariantPartsPrime
<1>6. CASE \E s \in Slots : FreeAt(k, s) /\ Write(s, k, v)
  BY Zenon, <1>6, <1>5, <1>0, <1>2, FreeIsSuitable
<1>7. CASE Exhausted(k) /\ \E s \in Slots : LeastRecent(k, s) /\ Write(s, k, v)
  BY Zenon, <1>7, <1>5, <1>0, <1>2, ExhaustedIsAbsent, LeastRecentIsSuitable
<1> QED
  BY Zenon, <1>4, <1>6, <1>7 DEF InsertReplaceKernel

(* Dump counts the occupied slots of a set, which are as many as its keys. *)
LEMMA SlotsFinite == IsFiniteSet(Slots)
<1> DEFINE S == (Sets \X Slabs) \X Lanes
           f == [x \in S |-> <<x[1][1], x[1][2], x[2]>>]
<1>1. IsFiniteSet(Sets) /\ IsFiniteSet(Slabs) /\ IsFiniteSet(Lanes)
  BY CacheAssumption, FS_Interval DEF Sets, Slabs, Lanes
<1>2. IsFiniteSet(Sets \X Slabs)
  BY <1>1, FS_Product
<1>3. IsFiniteSet(S)
  BY <1>1, <1>2, FS_Product
<1>4. f \in [S -> Slots]
  BY DEF Slots
<1>5. \A s \in Slots : <<<<s[1], s[2]>>, s[3]>> \in S /\ f[<<<<s[1], s[2]>>, s[3]>>] = s
  BY DEF Slots
<1>6. f \in Surjection(S, Slots)
  BY <1>4, <1>5, Zenon DEF Surjection
<1> QED
  BY <1>3, <1>6, FS_Surjection

Occupied(set) == {s \in {set} \X Slabs \X Lanes : keys[s] # empty_key}

LEMMA OccupiedCount ==
  ASSUME KeysOK, NEW set \in Sets
  PROVE  /\ Occupied(set) \subseteq Slots
         /\ {keys[s] : s \in Occupied(set)} \in SUBSET Keys
         /\ Cardinality(Occupied(set)) \in Nat
         /\ Cardinality({keys[s] : s \in Occupied(set)}) = Cardinality(Occupied(set))
<1> DEFINE S == Occupied(set)
           T == {keys[s] : s \in S}
           f == [s \in S |-> keys[s]]
<1>1. S \subseteq Slots
  BY DEF Occupied, Slots
<1>2. T \in SUBSET Keys
  BY <1>1 DEF Occupied, KeysOK
<1>3. IsFiniteSet(S)
  BY <1>1, SlotsFinite, FS_Subset
<1>4. \A r, s \in S : keys[r] = keys[s] => r = s
  BY <1>1 DEF Occupied, KeysOK, UniqueKeys
<1>5. f \in Injection(S, T)
  BY <1>4 DEF Injection, IsInjective
<1>6. f \in Surjection(S, T)
  BY DEF Surjection
<1>7. ExistsBijection(S, T)
  BY Zenon, <1>5, <1>6 DEF ExistsBijection, Bijection
<1>8. Cardinality(T) = Cardinality(S) /\ Cardinality(S) \in Nat
  BY <1>3, <1>7, FS_Bijection, FS_CardinalityType
<1> QED
  BY Zenon, <1>1, <1>2, <1>8

LEMMA DumpKernelKeepsIInv ==
  ASSUME IInv, NEW t \in Streams, NEW set \in call[t].todo, DumpKernel(t, set)
  PROVE  IInv'
<1> DEFINE c == [call[t] EXCEPT !.todo = @ \ {set},
                                !.dumped = @ \cup {keys[s] : s \in Occupied(set)},
                                !.d_dump_counter = @ + Cardinality(Occupied(set))]
<1>0. SlotsOK /\ CallsOK /\ CallOK(call[t])
  BY InvariantParts DEF CallsOK
<1>1. /\ call[t].op = "dump" /\ UNCHANGED <<keys, vals, slot_counter, global_counter>>
      /\ Finish(t, c)
  BY DEF DumpKernel, Occupied
<1>2. set \in Sets
  BY <1>0, <1>1 DEF CallOK, Fits
<1>3. CallOK(c)
  <2>1. /\ Cardinality(Occupied(set)) \in Nat
        /\ {keys[s] : s \in Occupied(set)} \in SUBSET Keys
    BY <1>0, <1>2, OccupiedCount, Zenon DEF SlotsOK
  <2> QED
    BY <2>1, <1>0, <1>1, DumpedOK, Zenon
<1>4. CallsOK'
  BY <1>0, <1>1, <1>3, FinishOK
<1>5. SlotsOK'
  BY <1>0, <1>1, SlotsStay DEF SlotsOK
<1> QED
  BY <1>4, <1>5, InvariantPartsPrime

LEMMA StutterKeepsIInv ==
  ASSUME IInv, UNCHANGED vars
  PROVE  IInv'
<1>1. SlotsOK /\ CallsOK
  BY InvariantParts
<1>2. SlotsOK'
  BY <1>1, SlotsStay DEF SlotsOK, vars
<1>3. CallsOK'
  BY Zenon, <1>1 DEF CallsOK, CallOK, Fits, OfKeys, vars
<1> QED
  BY <1>2, <1>3, InvariantPartsPrime

(* For any geometry of the cache, any hash functions and any interleaving  *)
(* of streams: a key has one slot, probing reaches it, and the slot and    *)
(* the results of queries hold vectors of their keys.                      *)
THEOREM Invariance == Spec => []IInv
<1>1. IInv /\ [Next]_vars => IInv'
  BY Zenon, LaunchKeepsIInv, GetKernelKeepsIInv, InsertReplaceKernelKeepsIInv, UpdateKernelKeepsIInv,
    DumpKernelKeepsIInv, StutterKeepsIInv DEF Next, Kernel
<1> QED
  BY <1>1, InitIInv, PTL DEF Spec

-------------------------------------------------------------------------------
(* Replacement. *)

(* All slots of the victim's set were occupied, and none had been used     *)
(* less recently.                                                          *)
LEMMA VictimIsLeastRecent ==
  ASSUME IInv, NEW k \in Keys, Exhausted(k), NEW s, LeastRecent(k, s),
         NEW r \in Slots, r[1] = s[1]
  PROVE  keys[r] # empty_key /\ slot_counter[s] <= slot_counter[r]
<1>1. s \in Slots /\ s[1] = SetOf(k)
  BY LeastRecentIsSuitable
<1>2. PICK e \in Distances, m \in Lanes : r = Slot(k, e, m)
  BY <1>1, SlotsOfKey
<1>3. keys[r] # empty_key
  BY <1>2 DEF Exhausted, Stops, Holds
<1>4. PICK d \in Distances, l \in Lanes : s = Slot(k, d, l) /\ Older(k, d, l, e, m)
  BY Zenon DEF LeastRecent
<1>5. slot_counter[s] \in Nat /\ slot_counter[r] \in Nat
  BY <1>1 DEF IInv, TypeOK
<1>6. slot_counter[s] <= slot_counter[r]
  BY <1>2, <1>4, <1>5 DEF Older
<1> QED
  BY <1>3, <1>6

(* A key is evicted only from a full set, and is then one that was used no *)
(* later than any other of the set, for any geometry and any streams.      *)
THEOREM EvictionOrder == Spec => EvictsLeastRecentlyUsed
<1> DEFINE Victims == \A s \in Slots : keys'[s] # keys[s] /\ keys[s] # empty_key =>
                        \A r \in Slots : r[1] = s[1] =>
                          keys[r] # empty_key /\ slot_counter[s] <= slot_counter[r]
<1>1. ASSUME IInv, Next PROVE Victims
  <2>1. PICK t \in Streams : Launch(t) \/ Kernel(t)
    BY <1>1 DEF Next
  <2>2. CASE UNCHANGED keys
    BY Zenon, <2>2
  <2>3. ASSUME NEW i \in call[t].todo, InsertReplaceKernel(t, i) PROVE Victims
    <3> DEFINE k == call[t].keys[i]
               v == call[t].vectors[i]
    <3>0. SlotsOK /\ KeysOK /\ CallOK(call[t])
      BY Zenon, <1>1, InvariantParts DEF CallsOK, SlotsOK
    <3>1. k \in Keys
      BY Zenon, <2>3, <3>0, KeyOfCall DEF InsertReplaceKernel
    <3>2. CASE UNCHANGED keys
      BY <3>2
    <3>3. ASSUME NEW s \in Slots, FreeAt(k, s), Write(s, k, v) PROVE Victims
      <4>1. keys[s] = empty_key /\ keys' = [keys EXCEPT ![s] = k]
        BY Zenon, <3>3, <3>0, <3>1, FreeIsSuitable DEF Write
      <4> QED
        BY Zenon, <4>1, <3>0 DEF KeysOK
    <3>4. ASSUME NEW s \in Slots, Exhausted(k), LeastRecent(k, s), Write(s, k, v) PROVE Victims
      <4>1. \A q \in Slots : keys'[q] # keys[q] => q = s
        BY Zenon, <3>4, <3>0 DEF Write, KeysOK
      <4>2. \A r \in Slots : r[1] = s[1] => keys[r] # empty_key /\ slot_counter[s] <= slot_counter[r]
        BY Zenon, <3>4, <1>1, <3>1, VictimIsLeastRecent
      <4> QED
        BY Zenon, <4>1, <4>2
    <3> QED
      BY <2>3, <3>2, <3>3, <3>4 DEF InsertReplaceKernel
  <2> QED
    BY <2>1, <2>2, <2>3, Zenon DEF Launch, Kernel, Query, Replace, Update, Dump, GetKernel, UpdateKernel,
      DumpKernel
<1>2. IInv /\ [Next]_vars => [Victims]_vars
  BY Zenon, <1>1
<1> QED
  BY <1>2, Invariance, PTL DEF Spec, EvictsLeastRecentlyUsed

-------------------------------------------------------------------------------
(* The slots implement the map. *)

ContentOK ==
  \A k \in Keys : /\ \A s \in Slots : keys[s] = k => Content[k] = vals[s] /\ Content[k] # NoVector
                  /\ Absent(k) => Content[k] = NoVector

LEMMA ContentValue == SlotsOK => ContentOK
<1> SUFFICES ASSUME SlotsOK, NEW k \in Keys
             PROVE  /\ \A s \in Slots : keys[s] = k => Content[k] = vals[s] /\ Content[k] # NoVector
                    /\ Absent(k) => Content[k] = NoVector
  BY DEF ContentOK
<1>1. ASSUME NEW s \in Slots, keys[s] = k PROVE Content[k] = vals[s] /\ Content[k] # NoVector
  <2>1. k # empty_key
    BY CacheAssumption
  <2>2. (CHOOSE r \in Slots : keys[r] = k) = s
    BY <1>1, <2>1 DEF SlotsOK, KeysOK, UniqueKeys
  <2>3. Content[k] = vals[s]
    BY <1>1, <2>2, Zenon DEF Content
  <2>4. vals[s] \in Keys \X Versions
    BY <1>1, <2>1 DEF SlotsOK
  <2> QED
    BY <2>3, <2>4, CacheAssumption
<1>2. ASSUME Absent(k) PROVE Content[k] = NoVector
  BY <1>2 DEF Absent, Content
<1> QED
  BY Zenon, <1>1, <1>2

LEMMA ContentValuePrime == SlotsOK' => ContentOK'
  BY ContentValue, PTL

LEMMA ContentStays == UNCHANGED <<keys, vals>> => UNCHANGED Content
  BY DEF Content

LEMMA InitContent == Init => Map!Init
  BY Zenon, CacheAssumption DEF Init, Map!Init, Content

(* The effect of a write on the map: the key gets its vector, and the key  *)
(* that was in the slot, if any, is forgotten.                             *)
LEMMA WriteContent ==
  ASSUME SlotsOK, SlotsOK', NEW k \in Keys, Absent(k), NEW s \in Slots, NEW v, Write(s, k, v)
  PROVE  Content' = [j \in Keys |-> IF j = k THEN v
                                    ELSE IF j = keys[s] THEN NoVector ELSE Content[j]]
<1>1. /\ \A r \in Slots : keys'[r] = IF r = s THEN k ELSE keys[r]
      /\ \A r \in Slots : vals'[r] = IF r = s THEN v ELSE vals[r]
  BY Zenon DEF Write, SlotsOK, KeysOK
<1>2. ContentOK /\ ContentOK'
  BY ContentValue, ContentValuePrime
<1>3. ASSUME NEW j \in Keys
      PROVE  Content'[j] = IF j = k THEN v ELSE IF j = keys[s] THEN NoVector ELSE Content[j]
  <2>1. CASE j = k
    BY Zenon, <2>1, <1>1, <1>2 DEF ContentOK
  <2>2. CASE j # k /\ j = keys[s]
    <3>1. j # empty_key
      BY CacheAssumption
    <3>2. \A r \in Slots : keys'[r] # j
      BY <2>2, <3>1, <1>1 DEF SlotsOK, KeysOK, UniqueKeys
    <3> QED
      BY Zenon, <2>2, <3>2, <1>2 DEF ContentOK, Absent
  <2>3. ASSUME j # k, j # keys[s], NEW r \in Slots, keys[r] = j PROVE Content'[j] = Content[j]
    <3>1. keys'[r] = j /\ vals'[r] = vals[r]
      BY Zenon, <2>3, <1>1
    <3> QED
      BY Zenon, <2>3, <3>1, <1>2 DEF ContentOK
  <2>4. ASSUME j # k, Absent(j) PROVE Content'[j] = Content[j]
    <3>1. \A r \in Slots : keys'[r] # j
      BY <2>4, <1>1 DEF Absent
    <3> QED
      BY Zenon, <2>4, <3>1, <1>2 DEF ContentOK, Absent
  <2> QED
    BY Zenon, <2>1, <2>2, <2>3, <2>4 DEF Absent
<1>4. Content' = [j \in Keys |-> Content'[j]]
  BY DEF Content
<1> QED
  BY <1>3, <1>4

LEMMA LaunchSimulates ==
  ASSUME NEW t \in Streams, Launch(t)
  PROVE  Map!Launch(t)
<1>1. UNCHANGED Content
  BY Zenon, ContentStays DEF Launch, Query, Replace, Update, Dump
<1>2. CASE \E b \in Batches : Query(t, b)
  BY <1>1, <1>2, Zenon DEF Query, Finish, Map!Launch
<1>3. CASE \E b \in Batches : \E v \in Writes(b) : Replace(t, b, v) \/ Update(t, b, v)
  BY Zenon, <1>1, <1>3 DEF Replace, Update, Finish, Map!Launch
<1>4. ASSUME NEW i \in Sets, NEW j \in Sets, Dump(t, i, j + 1) PROVE Map!Launch(t)
  <2>1. i .. (j + 1) - 1 \in SUBSET Sets
    BY <1>4, CacheAssumption DEF Sets
  <2> QED
    BY <1>1, <1>4, <2>1, Zenon DEF Dump, Finish, Map!Launch
<1> QED
  BY <1>2, <1>3, <1>4 DEF Launch

LEMMA GetKernelSimulates ==
  ASSUME IInv, NEW t \in Streams, NEW i \in call[t].todo, GetKernel(t, i)
  PROVE  Map!QueryKey(t, i)
<1> DEFINE k == call[t].keys[i]
<1>0. SlotsOK /\ KeysOK /\ ContentOK /\ CallOK(call[t])
  BY Zenon, InvariantParts, ContentValue DEF CallsOK, SlotsOK
<1>1. call[t].op = "query" /\ UNCHANGED <<keys, vals>>
  BY Zenon DEF GetKernel
<1>2. k \in Keys /\ UNCHANGED Content
  BY <1>0, <1>1, KeyOfCall, ContentStays
<1>3. ASSUME NEW s \in Slots, FoundAt(k, s), Finish(t, Map!Hit(call[t], i, vals[s]))
      PROVE  Map!QueryKey(t, i)
  <2>1. Content[k] = vals[s] /\ Content[k] # NoVector
    BY Zenon, <1>3, <1>0, <1>2, FoundIsThere DEF ContentOK
  <2> QED
    BY Zenon, <2>1, <1>1, <1>2, <1>3 DEF Map!QueryKey, Finish
<1>4. ASSUME NotFound(k), Finish(t, Map!Miss(call[t], i))
      PROVE  Map!QueryKey(t, i)
  <2>1. Content[k] = NoVector
    BY Zenon, <1>4, <1>0, <1>2, NotFoundIsAbsent DEF ContentOK
  <2> QED
    BY Zenon, <2>1, <1>1, <1>2, <1>4 DEF Map!QueryKey, Finish
<1> QED
  BY Zenon, <1>3, <1>4 DEF GetKernel

LEMMA InsertReplaceKernelSimulates ==
  ASSUME IInv, IInv', NEW t \in Streams, NEW i \in call[t].todo, InsertReplaceKernel(t, i)
  PROVE  Map!ReplaceKey(t, i)
<1> DEFINE k == call[t].keys[i]
           v == call[t].vectors[i]
<1>0. SlotsOK /\ SlotsOK' /\ KeysOK /\ ContentOK /\ CallOK(call[t])
  BY Zenon, InvariantParts, InvariantPartsPrime, ContentValue DEF CallsOK, SlotsOK
<1>1. call[t].op = "replace" /\ call' = [call EXCEPT ![t] = Map!Done(@, i)]
  BY Zenon DEF InsertReplaceKernel, Finish
<1>2. k \in Keys /\ k # empty_key
  BY Zenon, <1>0, <1>1, KeyOfCall, CacheAssumption
<1>3. Content = [j \in Keys |-> Content[j]]
  BY Zenon DEF Content
<1>4. ASSUME NEW s \in Slots, FoundAt(k, s), UNCHANGED <<keys, vals>>
      PROVE  Map!ReplaceKey(t, i)
  <2>1. Content[k] # NoVector /\ UNCHANGED Content
    BY <1>4, <1>0, <1>2, FoundIsThere, ContentStays DEF ContentOK
  <2> QED
    BY Zenon, <2>1, <1>1 DEF Map!ReplaceKey
<1>5. ASSUME NEW s \in Slots, FreeAt(k, s), Write(s, k, v)
      PROVE  Map!ReplaceKey(t, i)
  <2>1. Absent(k) /\ keys[s] = empty_key
    BY Zenon, <1>5, <1>0, <1>2, FreeIsSuitable
  <2>2. Content[k] = NoVector
    BY Zenon, <2>1, <1>0, <1>2 DEF ContentOK
  <2>3. Content' = [Content EXCEPT ![k] = v]
    <3>1. \A j \in Keys : j # keys[s]
      BY <2>1, CacheAssumption
    <3> QED
      BY <2>1, <3>1, <1>0, <1>2, <1>3, <1>5, WriteContent, SMTT(30)
  <2> QED
    BY Zenon, <2>2, <2>3, <1>1 DEF Map!ReplaceKey
<1>6. ASSUME NEW s \in Slots, Exhausted(k), LeastRecent(k, s), Write(s, k, v)
      PROVE  Map!ReplaceKey(t, i)
  <2>1. Absent(k) /\ s[1] = SetOf(k)
    BY Zenon, <1>6, <1>0, <1>2, ExhaustedIsAbsent, LeastRecentIsSuitable
  <2>2. Content[k] = NoVector
    BY Zenon, <2>1, <1>0, <1>2 DEF ContentOK
  <2>3. keys[s] \in Keys \ {k}
    BY Zenon, <2>1, <1>0, <1>2, <1>6, VictimIsLeastRecent DEF KeysOK, Absent
  <2>4. SetOf(keys[s]) = SetOf(k)
    BY <2>1, <2>3, <1>0, SlotsOfKey DEF KeysOK, Reachable
  <2>5. Content' = [Content EXCEPT ![k] = v, ![keys[s]] = NoVector]
    BY <2>1, <2>3, <1>0, <1>2, <1>3, <1>6, WriteContent, SMTT(30)
  <2> QED
    BY <2>2, <2>3, <2>4, <2>5, <1>1, Zenon DEF Map!ReplaceKey
<1> QED
  BY Zenon, <1>4, <1>5, <1>6 DEF InsertReplaceKernel

LEMMA UpdateKernelSimulates ==
  ASSUME IInv, IInv', NEW t \in Streams, NEW i \in call[t].todo, UpdateKernel(t, i)
  PROVE  Map!UpdateKey(t, i)
<1> DEFINE k == call[t].keys[i]
           v == call[t].vectors[i]
<1>0. SlotsOK /\ SlotsOK' /\ KeysOK /\ ContentOK /\ ContentOK' /\ CallOK(call[t])
  BY Zenon, InvariantParts, InvariantPartsPrime, ContentValue, ContentValuePrime DEF CallsOK, SlotsOK
<1>1. call[t].op = "update" /\ call' = [call EXCEPT ![t] = Map!Done(@, i)] /\ UNCHANGED keys
  BY Zenon DEF UpdateKernel, Finish
<1>2. k \in Keys /\ k # empty_key
  BY Zenon, <1>0, <1>1, KeyOfCall, CacheAssumption
<1>3. ASSUME NEW s \in Slots, FoundAt(k, s), vals' = [vals EXCEPT ![s] = v]
      PROVE  Map!UpdateKey(t, i)
  <2>1. keys[s] = k
    BY Zenon, <1>2, <1>3, FoundIsThere
  <2>2. Content[k] # NoVector /\ Content'[k] = v
    BY Zenon, <2>1, <1>0, <1>1, <1>2, <1>3 DEF ContentOK, SlotsOK
  <2>3. ASSUME NEW j \in Keys, j # k PROVE Content'[j] = Content[j]
    <3>1. \A r \in Slots : keys[r] = j => vals'[r] = vals[r]
      BY Zenon, <2>1, <2>3, <1>0, <1>3 DEF SlotsOK
    <3>2. CASE \E r \in Slots : keys[r] = j
      BY Zenon, <3>1, <3>2, <1>0, <1>1 DEF ContentOK
    <3>3. CASE \A r \in Slots : keys[r] # j
      BY Zenon, <3>3, <1>0, <1>1 DEF ContentOK, Absent
    <3> QED
      BY Zenon, <3>2, <3>3
  <2>4. Content = [j \in Keys |-> Content[j]] /\ Content' = [j \in Keys |-> Content'[j]]
    BY Zenon DEF Content
  <2>5. Content' = [Content EXCEPT ![k] = v]
    BY Zenon, <2>2, <2>3, <2>4, <1>2
  <2> QED
    BY Zenon, <2>2, <2>5, <1>1 DEF Map!UpdateKey
<1>4. ASSUME NotFound(k), UNCHANGED vals
      PROVE  Map!UpdateKey(t, i)
  <2>1. Content[k] = NoVector
    BY Zenon, <1>4, <1>0, <1>2, NotFoundIsAbsent DEF ContentOK
  <2> QED
    BY Zenon, <2>1, <1>1, <1>4, ContentStays DEF Map!UpdateKey
<1> QED
  BY Zenon, <1>3, <1>4 DEF UpdateKernel

(* The keys in the slots of a set are those of the map that belong to it. *)
LEMMA OccupiedContent ==
  ASSUME SlotsOK, NEW set \in Sets
  PROVE  {keys[s] : s \in Occupied(set)} = {k \in Keys : SetOf(k) = set /\ Content[k] # NoVector}
<1>0. KeysOK /\ ContentOK
  BY Zenon, ContentValue DEF SlotsOK
<1>1. ASSUME NEW s \in Occupied(set)
      PROVE  keys[s] \in Keys /\ SetOf(keys[s]) = set /\ Content[keys[s]] # NoVector
  <2>1. s \in Slots /\ s[1] = set /\ keys[s] # empty_key
    BY DEF Occupied, Slots
  <2>2. keys[s] \in Keys
    BY <2>1, <1>0 DEF KeysOK
  <2>3. SetOf(keys[s]) = set
    BY <2>1, <2>2, <1>0, SlotsOfKey DEF KeysOK, Reachable
  <2> QED
    BY <2>1, <2>2, <2>3, <1>0 DEF ContentOK
<1>2. ASSUME NEW k \in Keys, SetOf(k) = set, Content[k] # NoVector
      PROVE  \E s \in Occupied(set) : keys[s] = k
  <2>1. PICK s \in Slots : keys[s] = k
    BY <1>2, <1>0 DEF ContentOK, Absent
  <2>2. s[1] = set
    BY <2>1, <1>2, <1>0, SlotsOfKey DEF KeysOK, Reachable
  <2>3. s \in {set} \X Slabs \X Lanes
    BY <2>2 DEF Slots
  <2> QED
    BY <2>1, <2>3, CacheAssumption DEF Occupied
<1> QED
  BY <1>1, <1>2

(* The instance of CacheMap has its own name for Cardinality. *)
LEMMA SameCardinality ==
  ASSUME NEW S
  PROVE  Map!Cardinality(S) = Cardinality(S)
  BY DEF Map!Cardinality, Cardinality

LEMMA DumpKernelSimulates ==
  ASSUME IInv, NEW t \in Streams, NEW set \in call[t].todo, DumpKernel(t, set)
  PROVE  Map!DumpSet(t, set)
<1> DEFINE ks == {keys[s] : s \in Occupied(set)}
<1>0. SlotsOK /\ KeysOK /\ CallOK(call[t])
  BY Zenon, InvariantParts DEF CallsOK, SlotsOK
<1>1. /\ call[t].op = "dump" /\ UNCHANGED <<keys, vals>>
      /\ call' = [call EXCEPT ![t] = [call[t] EXCEPT !.todo = @ \ {set}, !.dumped = @ \cup ks,
                                        !.d_dump_counter = @ + Cardinality(Occupied(set))]]
  BY DEF DumpKernel, Finish, Occupied
<1>2. set \in Sets
  BY <1>0, <1>1 DEF CallOK, Fits
<1>3. Cardinality(ks) = Cardinality(Occupied(set))
  BY Zenon, <1>0, <1>2, OccupiedCount
<1>4. ks = {k \in Keys : SetOf(k) = set /\ Content[k] # NoVector}
  BY Zenon, <1>0, <1>2, OccupiedContent
<1> HIDE DEF ks
<1>5. call' = [call EXCEPT ![t] = Map!Dumped(@, set, ks)]
  BY <1>1, <1>3, SameCardinality, Zenon DEF Map!Dumped
<1> QED
  BY <1>1, <1>4, <1>5, ContentStays, Zenon DEF Map!DumpSet

(* The slots and kernels implement CacheMap, for any geometry of the       *)
(* cache, any hash functions and any number of streams.                    *)
THEOREM Refinement == Spec => MapSpec
<1>1. IInv /\ IInv' /\ [Next]_vars => [Map!Next]_(Map!vars)
  <2> SUFFICES ASSUME IInv, IInv', [Next]_vars
               PROVE  Map!Next \/ UNCHANGED Map!vars
    OBVIOUS
  <2>1. CASE UNCHANGED vars
    BY <2>1, ContentStays DEF vars, Map!vars
  <2>2. ASSUME NEW t \in Streams, Launch(t) PROVE Map!Next
    BY Zenon, <2>2, LaunchSimulates DEF Map!Next
  <2>3. ASSUME NEW t \in Streams, NEW i \in call[t].todo,
               \/ GetKernel(t, i) \/ InsertReplaceKernel(t, i)
               \/ UpdateKernel(t, i) \/ DumpKernel(t, i)
        PROVE  Map!Next
    <3>1. Map!QueryKey(t, i) \/ Map!ReplaceKey(t, i) \/ Map!UpdateKey(t, i) \/ Map!DumpSet(t, i)
      BY Zenon, <2>3, GetKernelSimulates, InsertReplaceKernelSimulates, UpdateKernelSimulates,
        DumpKernelSimulates
    <3> QED
      BY Zenon, <3>1 DEF Map!Next
  <2> QED
    BY Zenon, <2>1, <2>2, <2>3 DEF Next, Kernel
<1> QED
  BY <1>1, InitContent, Invariance, PTL DEF Spec, MapSpec, Map!Spec
=============================================================================
