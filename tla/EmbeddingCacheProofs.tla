------------------------ MODULE EmbeddingCacheProofs ------------------------
(***************************************************************************)
(* The blocks of the memory pool that the embedding cache works in have    *)
(* one user at a time, for any number of callers and blocks.               *)
(***************************************************************************)
EXTENDS EmbeddingCache, FiniteSetTheorems, FunctionTheorems, TLAPS

(* The lookup of caller c goes to p, with block x. *)
Moves(c, p, x) ==
  /\ DOMAIN lookups' = Callers
  /\ \A d \in Callers : d # c => lookups'[d] = lookups[d]
  /\ DOMAIN lookups'[c] = {"pc", "keys", "block", "vectors"}
  /\ lookups'[c].pc = p /\ lookups'[c].block = x

Pcs == {"idle", "direct", "query", "merge", "done"}
WithBlock == {"direct", "query", "merge"}

-----------------------------------------------------------------------------
(* The list of unused blocks *)

LEMMA BlockAllocated ==
  ASSUME TypeOK, BlocksExclusive, NEW b, AllocMemory(b)
  PROVE  /\ header' \in Seq(Blocks) /\ b \in Blocks /\ Unused(b)
         /\ \A i, j \in DOMAIN header' : header'[i] = header'[j] => i = j
         /\ \A x : Unused(x)' <=> Unused(x) /\ x # b
<1>1. /\ header \in Seq(Blocks) /\ header # <<>> /\ b = header[1] /\ header' = Tail(header)
  BY DEF TypeOK, AllocMemory
<1>2. /\ Len(header) \in Nat \ {0} /\ DOMAIN header = 1 .. Len(header)
      /\ header' \in Seq(Blocks) /\ DOMAIN header' = 1 .. Len(header) - 1
      /\ \A i \in DOMAIN header' : i + 1 \in DOMAIN header /\ i + 1 # 1 /\ header'[i] = header[i + 1]
      /\ \A i \in DOMAIN header : i # 1 => i - 1 \in DOMAIN header' /\ header'[i - 1] = header[i]
      /\ 1 \in DOMAIN header /\ b \in Blocks
  BY <1>1
<1>3. \A i, j \in DOMAIN header : header[i] = header[j] => i = j
  BY DEF BlocksExclusive
<1>4. \A i, j \in DOMAIN header' : header'[i] = header'[j] => i = j
  <2> SUFFICES ASSUME NEW i \in DOMAIN header', NEW j \in DOMAIN header', header'[i] = header'[j]
               PROVE  i = j
    OBVIOUS
  <2>1. i + 1 = j + 1
    BY <1>2, <1>3
  <2> QED
    BY <2>1, <1>2
<1>5. ASSUME NEW x PROVE Unused(x)' <=> Unused(x) /\ x # b
  <2>1. ASSUME NEW i \in DOMAIN header', header'[i] = x PROVE Unused(x) /\ x # b
    <3>1. i + 1 \in DOMAIN header /\ i + 1 # 1 /\ header[i + 1] = x
      BY <2>1, <1>2
    <3> QED
      BY <3>1, <1>1, <1>2, <1>3 DEF Unused
  <2>2. ASSUME NEW i \in DOMAIN header, header[i] = x, x # b PROVE Unused(x)'
    <3>1. i - 1 \in DOMAIN header' /\ header'[i - 1] = x
      BY <2>2, <1>1, <1>2
    <3> QED
      BY <3>1 DEF Unused
  <2> QED
    BY <2>1, <2>2 DEF Unused
<1> QED
  BY <1>1, <1>2, <1>4, <1>5 DEF Unused

LEMMA BlockFreed ==
  ASSUME TypeOK, BlocksExclusive, NEW b \in Blocks, FreeMemory(b), ~Unused(b)
  PROVE  /\ header' \in Seq(Blocks)
         /\ \A i, j \in DOMAIN header' : header'[i] = header'[j] => i = j
         /\ \A x : Unused(x)' <=> Unused(x) \/ x = b
<1>1. header \in Seq(Blocks) /\ header' = <<b>> \o header
  BY DEF TypeOK, FreeMemory
<1>2. /\ Len(header) \in Nat /\ DOMAIN header = 1 .. Len(header)
      /\ header' \in Seq(Blocks) /\ DOMAIN header' = 1 .. Len(header) + 1
      /\ 1 \in DOMAIN header' /\ header'[1] = b
      /\ \A i \in DOMAIN header' : i # 1 => i - 1 \in DOMAIN header /\ header'[i] = header[i - 1]
      /\ \A i \in DOMAIN header : i + 1 \in DOMAIN header' /\ header'[i + 1] = header[i]
  BY <1>1
<1>3. \A i, j \in DOMAIN header : header[i] = header[j] => i = j
  BY DEF BlocksExclusive
<1>4. \A i \in DOMAIN header : header[i] # b
  BY DEF Unused
<1>5. \A i, j \in DOMAIN header' : header'[i] = header'[j] => i = j
  <2> SUFFICES ASSUME NEW i \in DOMAIN header', NEW j \in DOMAIN header', header'[i] = header'[j]
               PROVE  i = j
    OBVIOUS
  <2>1. CASE i = 1 \/ j = 1
    BY <2>1, <1>2, <1>4
  <2>2. CASE i # 1 /\ j # 1
    <3>1. i - 1 = j - 1
      BY <2>2, <1>2, <1>3
    <3> QED
      BY <3>1, <1>2
  <2> QED
    BY <2>1, <2>2
<1>6. ASSUME NEW x PROVE Unused(x)' <=> Unused(x) \/ x = b
  <2>1. ASSUME NEW i \in DOMAIN header', header'[i] = x PROVE Unused(x) \/ x = b
    <3>1. CASE i = 1
      BY <2>1, <3>1, <1>2
    <3>2. CASE i # 1
      BY <2>1, <3>2, <1>2 DEF Unused
    <3> QED
      BY <3>1, <3>2
  <2>2. ASSUME NEW i \in DOMAIN header, header[i] = x PROVE Unused(x)'
    BY <2>2, <1>2 DEF Unused
  <2>3. ASSUME x = b PROVE Unused(x)'
    BY <2>3, <1>2 DEF Unused
  <2> QED
    BY <2>1, <2>2, <2>3 DEF Unused
<1> QED
  BY <1>2, <1>5, <1>6

-----------------------------------------------------------------------------
(* The blocks of lookups *)

LEMMA LookupMoves ==
  ASSUME TypeOK, BlocksExclusive, NEW c \in Callers, NEW p \in Pcs, NEW x \in Blocks \cup {None},
         Moves(c, p, x), x # None <=> p \in WithBlock,
         x = None \/ x = lookups[c].block \/ ~Held(x)
  PROVE  /\ DOMAIN lookups' = Callers
         /\ \A d \in Callers : /\ DOMAIN lookups'[d] = {"pc", "keys", "block", "vectors"}
                               /\ lookups'[d].pc \in Pcs /\ lookups'[d].block \in Blocks \cup {None}
                               /\ lookups'[d].block # None <=> lookups'[d].pc \in WithBlock
         /\ \A d, e \in Callers : lookups'[d].block = lookups'[e].block /\ d # e => lookups'[d].block = None
         /\ \A b \in Blocks : Held(b)' <=> b = x \/ (Held(b) /\ b # lookups[c].block)
<1>1. \A d \in Callers : /\ DOMAIN lookups'[d] = {"pc", "keys", "block", "vectors"}
                         /\ lookups'[d].pc \in Pcs /\ lookups'[d].block \in Blocks \cup {None}
                         /\ lookups'[d].block # None <=> lookups'[d].pc \in WithBlock
  BY DEF Moves, TypeOK, Pcs, WithBlock
<1>2. \A d, e \in Callers : lookups'[d].block = lookups'[e].block /\ d # e => lookups'[d].block = None
  BY DEF Moves, BlocksExclusive, Held
<1>3. ASSUME NEW b \in Blocks PROVE Held(b)' <=> b = x \/ (Held(b) /\ b # lookups[c].block)
  <2>1. ASSUME NEW d \in Callers, lookups'[d].block = b
        PROVE  b = x \/ (Held(b) /\ b # lookups[c].block)
    <3>1. CASE d = c
      BY <2>1, <3>1 DEF Moves
    <3>2. CASE d # c
      <4>1. lookups[d].block = b
        BY <2>1, <3>2 DEF Moves
      <4>2. b # lookups[c].block
        BY <4>1, <3>2, CacheAssumption DEF BlocksExclusive
      <4> QED
        BY <4>1, <4>2 DEF Held
    <3> QED
      BY <3>1, <3>2
  <2>2. ASSUME b = x PROVE Held(b)'
    BY <2>2 DEF Held, Moves
  <2>3. ASSUME NEW d \in Callers, lookups[d].block = b, b # lookups[c].block PROVE Held(b)'
    <3>1. d # c /\ lookups'[d].block = b
      BY <2>3 DEF Moves
    <3> QED
      BY <3>1 DEF Held
  <2> QED
    BY <2>1, <2>2, <2>3 DEF Held
<1> QED
  BY <1>1, <1>2, <1>3 DEF Moves

-----------------------------------------------------------------------------
(* The list of a finite set has each element once. *)
LEMMA ListOfSet ==
  ASSUME NEW S, IsFiniteSet(S)
  PROVE  /\ SetToSeq(S) \in Seq(S)
         /\ \A i, j \in DOMAIN SetToSeq(S) : SetToSeq(S)[i] = SetToSeq(S)[j] => i = j
         /\ \A b \in S : \E i \in DOMAIN SetToSeq(S) : SetToSeq(S)[i] = b
<1> DEFINE n == Cardinality(S)
           s == SetToSeq(S)
<1>1. n \in Nat /\ ExistsBijection(1 .. n, S)
  BY FS_CardinalityType
<1>2. PICK f : f \in Bijection(1 .. n, S)
  BY <1>1 DEF ExistsBijection
<1>3. f \in [1 .. n -> S] /\ IsInjective(f)
  BY <1>2 DEF Bijection, Injection
<1>4. s \in [1 .. n -> S] /\ IsInjective(s)
  BY <1>3 DEF SetToSeq
<1>5. s \in Surjection(1 .. n, S)
  <2>1. s \in Injection(1 .. n, S)
    BY <1>4 DEF Injection
  <2>2. IsFiniteSet(1 .. n) /\ Cardinality(1 .. n) = n
    BY <1>1, FS_Interval
  <2> HIDE DEF s
  <2> QED
    BY <2>1, <2>2, FS_Injection
<1> HIDE DEF n, s
<1>6. s \in Seq(S) /\ DOMAIN s = 1 .. n
  BY <1>1, <1>4
<1> QED
  BY <1>4, <1>5, <1>6 DEF s, IsInjective, Surjection

LEMMA InitIInv == Init => IInv
<1> SUFFICES ASSUME Init PROVE IInv
  OBVIOUS
<1>1. /\ deployment \in Deployments /\ deployment.blocks \subseteq Blocks
      /\ deployment.updates \in [Keys -> Nat] /\ header = SetToSeq(deployment.blocks)
  BY CacheAssumption DEF Init
<1>2. /\ header \in Seq(deployment.blocks)
      /\ \A i, j \in DOMAIN header : header[i] = header[j] => i = j
      /\ \A b \in deployment.blocks : Unused(b)
  <2>1. IsFiniteSet(deployment.blocks)
    BY <1>1, CacheAssumption, FS_Subset
  <2> QED
    BY <2>1, <1>1, ListOfSet DEF Unused
<1>3. header \in Seq(Blocks) /\ \A b : Unused(b) => b \in deployment.blocks
  BY <1>1, <1>2 DEF Unused
<1>4. TypeOK
  BY <1>1, <1>3 DEF Init, TypeOK, NoLookup
<1>5. \A b \in Blocks : ~Held(b)
  BY CacheAssumption DEF Init, Held, NoLookup
<1>6. BlocksExclusive
  BY <1>2, <1>3, <1>5, CacheAssumption DEF Init, BlocksExclusive, NoLookup
<1> QED
  BY <1>4, <1>6 DEF IInv

-----------------------------------------------------------------------------
(* The steps of a lookup *)

LEMMA LookupKeepsIInv ==
  ASSUME IInv, NEW c \in Callers, NEW keys, Lookup(c, keys)
  PROVE  IInv'
<1> USE DEF IInv
<1>1. PICK b \in Blocks :
        /\ AllocMemory(b)
        /\ lookups' = [lookups EXCEPT ![c] =
             [NoLookup EXCEPT !.pc = IF use_gpu_embedding_cache THEN "query" ELSE "direct",
                              !.keys = keys, !.block = b]]
  BY Zenon DEF Lookup
<1>2. UNCHANGED <<deployment, use_gpu_embedding_cache, hit_rate_threshold, server, tasks, inserting, lost>>
  BY DEF Lookup, config, insertion
<1> DEFINE p == IF use_gpu_embedding_cache THEN "query" ELSE "direct"
<1>3. Moves(c, p, b) /\ p \in Pcs /\ p \in WithBlock
  BY <1>1 DEF Moves, NoLookup, TypeOK, Pcs, WithBlock
<1> HIDE DEF p
<1>4. /\ header' \in Seq(Blocks) /\ Unused(b)
      /\ \A i, j \in DOMAIN header' : header'[i] = header'[j] => i = j
      /\ \A x : Unused(x)' <=> Unused(x) /\ x # b
  BY <1>1, BlockAllocated
<1>5. ~Held(b) /\ b # None /\ lookups[c].block = None
  BY Zenon, <1>4, CacheAssumption DEF BlocksExclusive, Lookup, TypeOK
<1>6. /\ DOMAIN lookups' = Callers
      /\ \A d \in Callers : /\ DOMAIN lookups'[d] = {"pc", "keys", "block", "vectors"}
                            /\ lookups'[d].pc \in Pcs /\ lookups'[d].block \in Blocks \cup {None}
                            /\ lookups'[d].block # None <=> lookups'[d].pc \in WithBlock
      /\ \A d, e \in Callers : lookups'[d].block = lookups'[e].block /\ d # e => lookups'[d].block = None
      /\ \A x \in Blocks : Held(x)' <=> x = b \/ (Held(x) /\ x # lookups[c].block)
  BY <1>3, <1>5, LookupMoves
<1>7. TypeOK'
  BY <1>2, <1>4, <1>6 DEF TypeOK, Pcs, WithBlock
<1>8. BlocksExclusive'
  <2>1. \A x \in Blocks : Held(x)' <=> x = b \/ Held(x)
    BY <1>5, <1>6, CacheAssumption
  <2> QED
    BY <1>2, <1>4, <1>6, <2>1 DEF BlocksExclusive
<1> QED
  BY <1>7, <1>8

(* A lookup that keeps its block, or has none before and after. *)
LEMMA LookupGoesOn ==
  ASSUME IInv, NEW c \in Callers, NEW p \in Pcs, Moves(c, p, lookups[c].block),
         p \in WithBlock <=> lookups[c].pc \in WithBlock,
         UNCHANGED <<deployment, use_gpu_embedding_cache, hit_rate_threshold, server, header, tasks, inserting, lost>>
  PROVE  IInv'
<1> USE DEF IInv
<1>1. lookups[c].block \in Blocks \cup {None} /\ (lookups[c].block # None <=> p \in WithBlock)
  BY DEF TypeOK, WithBlock
<1>2. /\ DOMAIN lookups' = Callers
      /\ \A d \in Callers : /\ DOMAIN lookups'[d] = {"pc", "keys", "block", "vectors"}
                            /\ lookups'[d].pc \in Pcs /\ lookups'[d].block \in Blocks \cup {None}
                            /\ lookups'[d].block # None <=> lookups'[d].pc \in WithBlock
      /\ \A d, e \in Callers : lookups'[d].block = lookups'[e].block /\ d # e => lookups'[d].block = None
      /\ \A x \in Blocks : Held(x)' <=> x = lookups[c].block \/ (Held(x) /\ x # lookups[c].block)
  BY <1>1, LookupMoves
<1>3. TypeOK'
  BY <1>2 DEF TypeOK, Pcs, WithBlock
<1>4. BlocksExclusive'
  <2>1. \A x \in Blocks : Held(x)' <=> Held(x)
    BY <1>2 DEF Held
  <2>2. \A x : Unused(x)' <=> Unused(x)
    BY DEF Unused
  <2> QED
    BY <1>2, <2>1, <2>2 DEF BlocksExclusive
<1> QED
  BY <1>3, <1>4

(* A lookup gives its block away: to the list, to a task, or to no one. *)
LEMMA LookupGivesBlock ==
  ASSUME IInv, NEW c \in Callers, NEW p \in Pcs \ WithBlock, lookups[c].pc \in WithBlock,
         Moves(c, p, None),
         UNCHANGED <<deployment, use_gpu_embedding_cache, hit_rate_threshold, server, inserting>>,
         \/ FreeMemory(lookups[c].block) /\ UNCHANGED <<tasks, lost>>
         \/ tasks' = tasks \cup {lookups[c].block} /\ UNCHANGED <<header, lost>>
         \/ lost' = lost \cup {lookups[c].block} /\ UNCHANGED <<header, tasks>>
  PROVE  IInv'
<1> USE DEF IInv
<1> DEFINE b == lookups[c].block
<1>1. b \in Blocks /\ Held(b)
  BY DEF TypeOK, WithBlock, Held
<1> HIDE DEF b
<1>2. b = lookups[c].block
  BY DEF b
<1>3. /\ DOMAIN lookups' = Callers
      /\ \A d \in Callers : /\ DOMAIN lookups'[d] = {"pc", "keys", "block", "vectors"}
                            /\ lookups'[d].pc \in Pcs /\ lookups'[d].block \in Blocks \cup {None}
                            /\ lookups'[d].block # None <=> lookups'[d].pc \in WithBlock
      /\ \A d, e \in Callers : lookups'[d].block = lookups'[e].block /\ d # e => lookups'[d].block = None
      /\ \A x \in Blocks : Held(x)' <=> x = None \/ (Held(x) /\ x # lookups[c].block)
  BY LookupMoves
<1>4. \A x \in Blocks : Held(x)' <=> Held(x) /\ x # b
  BY <1>2, <1>3, CacheAssumption
<1>5. ~Unused(b) /\ b \notin tasks /\ b # inserting /\ b \notin lost /\ b \in deployment.blocks
  BY <1>1 DEF BlocksExclusive
<1>6. CASE FreeMemory(b) /\ UNCHANGED <<tasks, lost>>
  <2>1. /\ header' \in Seq(Blocks)
        /\ \A i, j \in DOMAIN header' : header'[i] = header'[j] => i = j
        /\ \A x : Unused(x)' <=> Unused(x) \/ x = b
    BY <1>1, <1>5, <1>6, BlockFreed
  <2>2. TypeOK'
    BY <1>3, <1>6, <2>1 DEF TypeOK, Pcs, WithBlock
  <2>3. BlocksExclusive'
    BY <1>3, <1>4, <1>5, <1>6, <2>1 DEF BlocksExclusive
  <2> QED
    BY <2>2, <2>3
<1>7. CASE UNCHANGED header /\ tasks' = tasks \cup {b} /\ UNCHANGED lost
  <2>1. \A x : Unused(x)' <=> Unused(x)
    BY <1>7 DEF Unused
  <2>2. TypeOK'
    BY <1>1, <1>3, <1>7 DEF TypeOK, Pcs, WithBlock
  <2>3. BlocksExclusive'
    BY <1>3, <1>4, <1>5, <1>7, <2>1 DEF BlocksExclusive
  <2> QED
    BY <2>2, <2>3
<1>8. CASE UNCHANGED header /\ lost' = lost \cup {b} /\ UNCHANGED tasks
  <2>1. \A x : Unused(x)' <=> Unused(x)
    BY <1>8 DEF Unused
  <2>2. TypeOK'
    BY <1>1, <1>3, <1>8 DEF TypeOK, Pcs, WithBlock
  <2>3. BlocksExclusive'
    BY <1>3, <1>4, <1>5, <1>8, <2>1 DEF BlocksExclusive
  <2> QED
    BY <2>2, <2>3
<1> QED
  BY <1>2, <1>6, <1>7, <1>8

-----------------------------------------------------------------------------
(* Insertions *)

LEMMA InsertBeginKeepsIInv ==
  ASSUME IInv, NEW b \in Blocks, InsertBegin(b)
  PROVE  IInv'
<1> USE DEF IInv
<1>1. /\ b \in tasks /\ inserting = None /\ tasks' = tasks \ {b} /\ inserting' = b
      /\ UNCHANGED <<deployment, use_gpu_embedding_cache, hit_rate_threshold, server, header, lookups, lost>>
  BY DEF InsertBegin, config
<1>2. TypeOK'
  BY <1>1 DEF TypeOK
<1>3. \A x : (Unused(x)' <=> Unused(x)) /\ (Held(x)' <=> Held(x))
  BY <1>1 DEF Unused, Held
<1>4. BlocksExclusive'
  BY <1>1, <1>3, CacheAssumption DEF BlocksExclusive
<1> QED
  BY <1>2, <1>4

(* The block of an insertion that has ended or failed is freed. *)
LEMMA InsertionOver ==
  ASSUME IInv, NEW b \in Blocks, FreeMemory(b),
         \/ b = inserting /\ inserting' = None /\ UNCHANGED tasks
         \/ b \in tasks /\ tasks' = tasks \ {b} /\ UNCHANGED inserting,
         UNCHANGED <<deployment, use_gpu_embedding_cache, hit_rate_threshold, server, lookups, lost>>
  PROVE  IInv'
<1> USE DEF IInv
<1>1. ~Unused(b) /\ ~Held(b) /\ b \notin lost /\ b \in deployment.blocks
  BY DEF BlocksExclusive
<1>2. /\ header' \in Seq(Blocks)
      /\ \A i, j \in DOMAIN header' : header'[i] = header'[j] => i = j
      /\ \A x : Unused(x)' <=> Unused(x) \/ x = b
  BY <1>1, BlockFreed
<1>3. TypeOK'
  BY <1>2 DEF TypeOK
<1>4. \A x : Held(x)' <=> Held(x)
  BY DEF Held
<1>5. BlocksExclusive'
  BY <1>1, <1>2, <1>4, CacheAssumption DEF BlocksExclusive
<1> QED
  BY <1>3, <1>5

(* No one frees the block of an insertion that fails past the handler. *)
LEMMA InsertionLosesBlock ==
  ASSUME IInv, NEW b \in tasks, tasks' = tasks \ {b}, lost' = lost \cup {b},
         UNCHANGED <<deployment, use_gpu_embedding_cache, hit_rate_threshold, server, header, lookups, inserting>>
  PROVE  IInv'
<1> USE DEF IInv
<1>1. b \in Blocks
  BY DEF TypeOK
<1>2. ~Unused(b) /\ ~Held(b) /\ b # inserting /\ b \in deployment.blocks
  BY <1>1 DEF BlocksExclusive
<1>3. TypeOK'
  BY <1>1 DEF TypeOK
<1>4. \A x : (Unused(x)' <=> Unused(x)) /\ (Held(x)' <=> Held(x))
  BY DEF Unused, Held
<1>5. BlocksExclusive'
  BY <1>1, <1>2, <1>4 DEF BlocksExclusive
<1> QED
  BY <1>3, <1>5

(* Steps of the GPU cache, of refreshes and of the databases. *)
LEMMA BlocksStay ==
  ASSUME IInv, UNCHANGED <<config, header, lookups, insertion, lost>>,
         DOMAIN server' = Keys, \A k \in Keys : server'[k] \in 0 .. deployment.updates[k]
  PROVE  IInv'
<1> USE DEF IInv, config, insertion
<1>1. TypeOK'
  BY DEF TypeOK
<1>2. \A x : (Unused(x)' <=> Unused(x)) /\ (Held(x)' <=> Held(x))
  BY DEF Unused, Held
<1>3. BlocksExclusive'
  BY <1>2 DEF BlocksExclusive
<1> QED
  BY <1>1, <1>3

(***************************************************************************)
(* EmbeddingCache::lookup, the asynchronous insertions and MemoryPool,     *)
(* with any number of callers and blocks, and any exceptions: a block is   *)
(* unused, or works for one lookup or one insertion, and only an exception *)
(* that no handler catches takes one out of use.                           *)
(***************************************************************************)
THEOREM Invariance == Spec => []IInv
<1>1. IInv /\ [Next]_vars => IInv'
  <2> SUFFICES ASSUME IInv, [Next]_vars PROVE IInv'
    OBVIOUS
  <2>1. TypeOK /\ deployment.callers \subseteq Callers /\ deployment.updates \in [Keys -> Nat]
    BY CacheAssumption DEF IInv, TypeOK
  <2>2. UNCHANGED server => DOMAIN server' = Keys /\ \A k \in Keys : server'[k] \in 0 .. deployment.updates[k]
    BY <2>1 DEF TypeOK
  <2>3. CASE UNCHANGED vars
    BY <2>2, <2>3, BlocksStay DEF vars
  <2>4. ASSUME NEW k \in Keys, OnlineUpdate(k) PROVE IInv'
    <3>1. DOMAIN server' = Keys /\ \A x \in Keys : server'[x] \in 0 .. deployment.updates[x]
      BY <2>1, <2>4 DEF OnlineUpdate, TypeOK
    <3> QED
      BY <2>4, <3>1, BlocksStay DEF OnlineUpdate
  <2>5. ASSUME NEW c \in Callers, NEW keys \in Requests, Lookup(c, keys) PROVE IInv'
    BY <2>5, LookupKeepsIInv
  <2>6. ASSUME NEW c \in Callers, LookupDirect(c) \/ LookupMerge(c) PROVE IInv'
    <3>1. /\ Moves(c, "done", None) /\ lookups[c].pc \in WithBlock /\ FreeMemory(lookups[c].block)
          /\ UNCHANGED <<config, server, insertion, lost>>
      BY <2>1, <2>6 DEF LookupDirect, LookupMerge, Moves, TypeOK, WithBlock
    <3> QED
      BY <3>1, LookupGivesBlock DEF Pcs, WithBlock, config, insertion
  <2>7. ASSUME NEW c \in Callers, LookupServer(c) PROVE IInv'
    <3>1. /\ Moves(c, "merge", lookups[c].block) /\ lookups[c].pc \in WithBlock
          /\ UNCHANGED <<config, server, header, insertion, lost>>
      BY <2>1, <2>7 DEF LookupServer, AtEndOfQuery, Moves, TypeOK, WithBlock
    <3> QED
      BY <3>1, LookupGoesOn DEF Pcs, WithBlock, config, insertion
  <2>8. ASSUME NEW c \in Callers, LookupThrows(c) PROVE IInv'
    <3>1. /\ Moves(c, "idle", None) /\ lookups[c].pc \in WithBlock
          /\ lost' = lost \cup {lookups[c].block} /\ UNCHANGED <<config, server, header, insertion>>
      BY <2>1, <2>8 DEF LookupThrows, AtEndOfQuery, Moves, NoLookup, TypeOK, WithBlock
    <3> QED
      BY <3>1, LookupGivesBlock DEF Pcs, WithBlock, config, insertion
  <2>9. ASSUME NEW c \in Callers, LookupFill(c) PROVE IInv'
    <3>1. /\ Moves(c, "done", None) /\ lookups[c].pc \in WithBlock
          /\ tasks' = tasks \cup {lookups[c].block}
          /\ UNCHANGED <<config, server, header, inserting, lost>>
      BY <2>1, <2>9 DEF LookupFill, AtEndOfQuery, Moves, TypeOK, WithBlock
    <3> QED
      BY <3>1, LookupGivesBlock DEF Pcs, WithBlock, config
  <2>10. ASSUME NEW c \in Callers, Return(c) PROVE IInv'
    <3>1. /\ Moves(c, "idle", lookups[c].block) /\ lookups[c].pc \notin WithBlock
          /\ UNCHANGED <<config, server, header, insertion, lost>>
      BY <2>1, <2>10 DEF Return, Moves, NoLookup, TypeOK, WithBlock
    <3> QED
      BY <3>1, LookupGoesOn DEF Pcs, WithBlock, config, insertion
  <2>11. ASSUME NEW t, CacheStep(t) PROVE IInv'
    BY <2>2, <2>11, BlocksStay DEF CacheStep
  <2>12. ASSUME NEW b \in Blocks, InsertBegin(b) PROVE IInv'
    BY <2>12, InsertBeginKeepsIInv
  <2>13. CASE InsertEnd
    BY <2>1, <2>13, InsertionOver DEF InsertEnd, TypeOK, config
  <2>14. ASSUME NEW b \in Blocks, InsertThrows(b) PROVE IInv'
    <3>1. CASE FreeMemory(b) /\ UNCHANGED lost
      BY <2>14, <3>1, InsertionOver DEF InsertThrows, config
    <3>2. CASE lost' = lost \cup {b} /\ UNCHANGED header
      BY <2>14, <3>2, InsertionLosesBlock DEF InsertThrows, config
    <3> QED
      BY <2>14, <3>1, <3>2 DEF InsertThrows
  <2>15. CASE RefreshDump \/ RefreshLookup \/ RefreshUpdate \/ RefreshEnd \/ RefreshThrows
    BY <2>2, <2>15, BlocksStay DEF RefreshDump, RefreshLookup, RefreshUpdate, RefreshEnd, RefreshThrows
  <2> QED
    BY <2>1, <2>3, <2>4, <2>5, <2>6, <2>7, <2>8, <2>9, <2>10, <2>11, <2>12, <2>13, <2>14, <2>15
       DEF Next, LookupStep, InsertStep, RefreshStep
<1> QED
  BY <1>1, InitIInv, PTL DEF Spec
=============================================================================
