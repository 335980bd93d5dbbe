------------------------- MODULE HashMapBackendProofs -------------------------
(***************************************************************************)
(* Proofs about HashMapBackend, for any keys, hash function, batch size,   *)
(* margins, page size and calls: each slot of the value pages has one      *)
(* owner, partitions stay within their bound, inserts write what they were *)
(* given, direct fetches are exact, and what an overflow evicts was used   *)
(* no more than what it keeps, as far as fetches that share the lock can   *)
(* tell.                                                                   *)
(***************************************************************************)
EXTENDS HashMapUses, FiniteSetTheorems, TLAPS

(* Every key has a partition. *)
LEMMA KeyPart == ASSUME NEW k \in Keys PROVE PartOf(k) \in Parts
<1>1. Hash[k] \in Nat /\ num_partitions \in Nat \ {0}
  BY HashMapAssumption
<1>2. Hash[k] % num_partitions \in 0 .. num_partitions - 1
  BY <1>1
<1> QED BY <1>2, Zenon DEF PartOf, Parts

(* The keys of a partition are finitely many. *)
LEMMA FiniteKeys ==
  ASSUME NEW E \in SUBSET Keys
  PROVE  IsFiniteSet(E) /\ Cardinality(E) \in Nat
<1>1. IsFiniteSet(E)
  BY HashMapAssumption, FS_Subset, Zenon
<1> QED BY <1>1, FS_CardinalityType, Zenon

(* So are its free slots. *)
LEMMA FiniteSlots ==
  ASSUME NEW n \in Nat, NEW F \in SUBSET (1 .. n)
  PROVE  IsFiniteSet(F) /\ Cardinality(F) \in Nat
<1>1. 1 \in Int /\ n \in Int
  OBVIOUS
<1>2. IsFiniteSet(1 .. n)
  BY <1>1, FS_Interval, Zenon
<1>3. IsFiniteSet(F)
  BY <1>2, FS_Subset, Zenon
<1> QED BY <1>3, FS_CardinalityType, Zenon

(* The keys E have slots f of their own, which are not among the free F. *)
Apart(E, F, f) == /\ \A k \in E : f[k] \notin F
                  /\ \A j, k \in E : f[j] = f[k] => j = k

Image(f, S) == {f[x] : x \in S}

(* Keys that leave a partition free as many slots as they are. *)
LEMMA MoveSlots ==
  ASSUME NEW E, IsFiniteSet(E), NEW F, IsFiniteSet(F), NEW G \in SUBSET E, NEW f,
         Apart(E, F, f)
  PROVE  Cardinality(E \ G) + Cardinality(F \cup Image(f, G)) = Cardinality(E) + Cardinality(F)
<1> DEFINE S == {f[k] : k \in G}
           g == [k \in G |-> f[k]]
<1>1. IsFiniteSet(G) /\ IsFiniteSet(E \ G)
  BY FS_Subset, E \ G \in SUBSET E, Zenon
<1>2. g \in Bijection(G, S)
  <2>1. g \in [G -> S] /\ (\A a, b \in G : g[a] = g[b] => a = b) /\ \A t \in S : \E a \in G : g[a] = t
    BY DEF Apart
  <2> QED BY <2>1, Zenon DEF Bijection, Injection, Surjection, IsInjective
<1>3. IsFiniteSet(S) /\ Cardinality(S) = Cardinality(G)
  BY <1>1, <1>2, FS_Bijection, Zenon DEF ExistsBijection
<1>4. F \cap S = {}
  BY Zenon DEF Apart
<1>5. Cardinality(F \cup S) = Cardinality(F) + Cardinality(S) - Cardinality(F \cap S)
  BY <1>3, FS_Union, Zenon
<1>6. Cardinality(E \ G) = Cardinality(E) - Cardinality(E \cap G)
  BY <1>1, FS_Difference, Zenon
<1>7. E \cap G = G /\ Cardinality({}) = 0
  BY FS_EmptySet, Zenon
<1>8. /\ Cardinality(E) \in Nat /\ Cardinality(F) \in Nat /\ Cardinality(G) \in Nat
      /\ Cardinality(E \ G) \in Nat
  BY <1>1, FS_CardinalityType, Zenon
<1>9. Cardinality(F \cup S) = Cardinality(F) + Cardinality(G) - 0
  BY <1>3, <1>4, <1>5, <1>7, Zenon
<1>10. Cardinality(E \ G) = Cardinality(E) - Cardinality(G)
  BY <1>6, <1>7, Zenon
<1>11. Cardinality(E \ G) + Cardinality(F \cup S) = Cardinality(E) + Cardinality(F)
  <2> HIDE DEF S
  <2> QED BY <1>8, <1>9, <1>10
<1> QED BY <1>11, Zenon DEF Image

-------------------------------------------------------------------------------
(* What the partitions consist of. *)
ContentOK ==
  /\ entries \in [Parts -> SUBSET Keys]
  /\ slot \in [Keys -> Nat]
  /\ num_slots \in [Parts -> Nat]
  /\ value_slots \in [Parts -> SUBSET Nat]
  /\ DOMAIN memory = Parts
  /\ \A p \in Parts : memory[p] \in [1 .. num_slots[p] -> Values \cup {NoValue}]

(* Erasing keys returns their slots, and leaves the other keys alone. *)
LEMMA EraseOwned ==
  ASSUME ContentOK, SlotsOwned, NEW ks \in SUBSET Keys, Erase(ks),
         num_slots' = num_slots, memory' = memory
  PROVE  /\ ContentOK' /\ SlotsOwned'
         /\ \A k \in Keys : Stored'[k] = IF k \in ks THEN NoValue ELSE Stored[k]
<1>1. ASSUME NEW p \in Parts
      PROVE  /\ entries'[p] = entries[p] \ ks
             /\ value_slots'[p] = value_slots[p] \cup {slot[k] : k \in entries[p] \cap ks}
  BY <1>1, Zenon DEF Erase
<1>2. ASSUME NEW k \in Keys
      PROVE  slot'[k] = IF k \in ks THEN 0 ELSE slot[k]
  BY <1>2, Zenon DEF Erase
<1>3. ContentOK'
  <2>1. entries' \in [Parts -> SUBSET Keys] /\ slot' \in [Keys -> Nat]
    BY DEF ContentOK, Erase
  <2>2. ASSUME NEW p \in Parts PROVE {slot[k] : k \in entries[p] \cap ks} \in SUBSET Nat
    BY <2>2 DEF ContentOK
  <2>3. value_slots' \in [Parts -> SUBSET Nat]
    BY <2>2 DEF ContentOK, Erase
  <2> QED BY <2>1, <2>3, Zenon DEF ContentOK
<1>4. ASSUME NEW p \in Parts
      PROVE  PartOwned(p)'
  <2> DEFINE E == entries[p]
             F == value_slots[p]
             G == E \cap ks
  <2>1. /\ F \in SUBSET (1 .. num_slots[p])
        /\ \A k \in E : /\ PartOf(k) = p
                        /\ slot[k] \in 1 .. num_slots[p] /\ slot[k] \notin F
                        /\ memory[p][slot[k]] \in Values
        /\ \A j, k \in E : slot[j] = slot[k] => j = k
        /\ Cardinality(E) + Cardinality(F) = num_slots[p]
    BY <1>4, Zenon DEF SlotsOwned, PartOwned
  <2>2. E \in SUBSET Keys /\ num_slots[p] \in Nat
    BY <1>4, Zenon DEF ContentOK
  <2>3. IsFiniteSet(E) /\ IsFiniteSet(F)
    BY <2>1, <2>2, FiniteKeys, FiniteSlots, Zenon
  <2>4. G \in SUBSET E /\ E \ G = E \ ks
    BY Zenon
  <2>5. Cardinality(E \ G) + Cardinality(F \cup {slot[k] : k \in G}) = Cardinality(E) + Cardinality(F)
    <3>1. Apart(E, F, slot)
      BY <2>1, Zenon DEF Apart
    <3> HIDE DEF E, F, G
    <3>2. Cardinality(E \ G) + Cardinality(F \cup Image(slot, G)) = Cardinality(E) + Cardinality(F)
      BY <2>3, <2>4, <3>1, MoveSlots, Zenon
    <3> QED BY <3>2, Zenon DEF Image
  <2>6. Cardinality(entries'[p]) + Cardinality(value_slots'[p]) = num_slots'[p]
    BY <1>1, <1>4, <2>1, <2>4, <2>5, Zenon
  <2>7. value_slots'[p] \subseteq 1 .. num_slots'[p]
    <3>1. \A k \in G : slot[k] \in 1 .. num_slots[p]
      BY <2>1, Zenon
    <3>2. F \cup {slot[k] : k \in G} \subseteq 1 .. num_slots[p]
      <4> HIDE DEF F, G
      <4> QED BY <2>1, <3>1, Zenon
    <3>3. value_slots'[p] = F \cup {slot[k] : k \in G}
      BY <1>1, <1>4, Zenon
    <3> QED BY <3>2, <3>3, Zenon
  <2>8. ASSUME NEW k \in entries'[p]
        PROVE  /\ k \in E /\ slot'[k] = slot[k] /\ PartOf(k) = p
               /\ slot'[k] \in 1 .. num_slots'[p] \ value_slots'[p]
               /\ memory'[p][slot'[k]] \in Values
    <3>1. k \in E /\ k \notin ks
      BY <1>1, <1>4, <2>8, Zenon
    <3>2. slot'[k] = slot[k]
      BY <1>2, <2>2, <3>1, Zenon
    <3>3. slot[k] \notin {slot[j] : j \in G}
      BY <2>1, <3>1, Zenon
    <3> QED BY <1>1, <1>4, <2>1, <3>1, <3>2, <3>3, Zenon
  <2>9. \A j, k \in entries'[p] : slot'[j] = slot'[k] => j = k
    BY <2>1, <2>8, Zenon
  <2> QED BY <2>6, <2>7, <2>8, <2>9, Zenon DEF PartOwned, PartOf
<1>5. ASSUME NEW k \in Keys
      PROVE  Stored'[k] = IF k \in ks THEN NoValue ELSE Stored[k]
  <2>1. PartOf(k) \in Parts
    BY <1>5, KeyPart, Zenon
  <2>2. entries'[PartOf(k)] = entries[PartOf(k)] \ ks
    BY <1>1, <2>1, Zenon
  <2>3. Stored'[k] = IF k \in entries'[PartOf(k)] THEN memory[PartOf(k)][slot'[k]] ELSE NoValue
    BY <1>5, Zenon DEF Stored, PartOf
  <2>4. CASE k \in ks
    BY <2>2, <2>3, <2>4, Zenon
  <2>5. CASE k \notin ks
    BY <1>2, <1>5, <2>2, <2>3, <2>5, Zenon DEF Stored
  <2> QED BY <2>4, <2>5, Zenon
<1> QED BY <1>3, <1>4, <1>5, Zenon DEF SlotsOwned, Parts

(* A step gives the value v to k, and leaves the other keys alone. *)
Stores(k, v) == \A j \in Keys : Stored'[j] = IF j = k THEN v ELSE Stored[j]

(* Overwriting the value of a key changes that key only. *)
LEMMA OverwriteOwned ==
  ASSUME ContentOK, SlotsOwned, NEW p \in Parts, NEW k \in entries[p], NEW v \in Values,
         Overwrite(p, k, v)
  PROVE  ContentOK' /\ SlotsOwned' /\ Stores(k, v)
<1>1. /\ entries' = entries /\ slot' = slot /\ num_slots' = num_slots /\ value_slots' = value_slots
      /\ memory' = [memory EXCEPT ![p][slot[k]] = v]
  BY Zenon DEF Overwrite
<1>2. /\ entries[p] \in SUBSET Keys /\ num_slots[p] \in Nat
      /\ memory[p] \in [1 .. num_slots[p] -> Values \cup {NoValue}]
  BY Zenon DEF ContentOK
<1>3. PartOf(k) = p /\ slot[k] \in 1 .. num_slots[p] /\ k \in Keys
  BY <1>2, Zenon DEF SlotsOwned, PartOwned
<1>4. /\ DOMAIN memory' = Parts
      /\ memory'[p] = [memory[p] EXCEPT ![slot[k]] = v]
      /\ \A q \in Parts : q # p => memory'[q] = memory[q]
  BY <1>1 DEF ContentOK
<1>5. /\ memory'[p] \in [1 .. num_slots[p] -> Values \cup {NoValue}]
      /\ memory'[p][slot[k]] = v
      /\ \A i \in 1 .. num_slots[p] : i # slot[k] => memory'[p][i] = memory[p][i]
  BY <1>2, <1>3, <1>4
<1>6. ContentOK'
  <2>1. ASSUME NEW q \in Parts
        PROVE  memory'[q] \in [1 .. num_slots'[q] -> Values \cup {NoValue}]
    BY <1>1, <1>4, <1>5, <2>1, Zenon DEF ContentOK
  <2> QED BY <1>1, <1>4, <2>1, Zenon DEF ContentOK, Parts
<1>7. ASSUME NEW q \in Parts, NEW j \in entries[q]
      PROVE  memory'[q][slot[j]] = IF j = k THEN v ELSE memory[q][slot[j]]
  <2>1. PartOf(j) = q /\ slot[j] \in 1 .. num_slots[q] /\ (q = p /\ slot[j] = slot[k] => j = k)
    BY <1>7, Zenon DEF SlotsOwned, PartOwned
  <2>2. CASE q # p
    <3>1. memory'[q] = memory[q] /\ j # k
      BY <1>3, <1>4, <1>7, <2>1, <2>2, Zenon
    <3> QED BY <3>1, Zenon
  <2>3. CASE q = p /\ j = k
    BY <1>5, <2>3, Zenon
  <2>4. CASE q = p /\ j # k
    BY <1>5, <2>1, <2>4, Zenon
  <2> QED BY <2>2, <2>3, <2>4, Zenon
<1>8. ASSUME NEW q \in Parts PROVE PartOwned(q)'
  <2>1. \A j \in entries[q] : memory[q][slot[j]] \in Values
    BY <1>8, Zenon DEF SlotsOwned, PartOwned
  <2>2. ASSUME NEW j \in entries[q] PROVE memory'[q][slot[j]] \in Values
    <3>1. memory'[q][slot[j]] = IF j = k THEN v ELSE memory[q][slot[j]]
      BY <1>7, <1>8, <2>2, Zenon
    <3> QED BY <2>1, <2>2, <3>1, Zenon
  <2> QED BY <1>1, <1>8, <2>2, Zenon DEF SlotsOwned, PartOwned, PartOf
<1>9. ASSUME NEW j \in Keys
      PROVE  Stored'[j] = IF j = k THEN v ELSE Stored[j]
  <2>1. PartOf(j) \in Parts
    BY <1>9, KeyPart, Zenon
  <2>2. Stored'[j] = IF j \in entries[PartOf(j)] THEN memory'[PartOf(j)][slot[j]] ELSE NoValue
    <3>1. Stored'[j] = IF j \in entries'[PartOf(j)] THEN memory'[PartOf(j)][slot'[j]] ELSE NoValue
      BY <1>9, Zenon DEF Stored, PartOf
    <3> QED BY <1>1, <3>1, Zenon
  <2> QED BY <1>3, <1>7, <1>9, <2>1, <2>2, Zenon DEF Stored
<1> QED BY <1>6, <1>8, <1>9, Zenon DEF SlotsOwned, Parts, Stores

(* A page is allocated when no slot is free; then its slots are. *)
LEMMA PageSlots ==
  ASSUME ContentOK, SlotsOwned, NEW p \in Parts
  PROVE  /\ num_slots[p] \in Nat /\ Grown(p) \in Nat /\ num_slots[p] <= Grown(p)
         /\ SlotsWithPage(p) \in SUBSET (1 .. Grown(p))
         /\ \A k \in entries[p] : slot[k] \in 1 .. num_slots[p] /\ slot[k] \notin SlotsWithPage(p)
         /\ Cardinality(entries[p]) + Cardinality(SlotsWithPage(p)) = Grown(p)
<1>1. num_slots[p] \in Nat /\ SlotsPerPage \in Nat \ {0} /\ entries[p] \in SUBSET Keys
  BY HashMapAssumption, Zenon DEF ContentOK
<1>2. /\ value_slots[p] \in SUBSET (1 .. num_slots[p])
      /\ \A k \in entries[p] : slot[k] \in 1 .. num_slots[p] /\ slot[k] \notin value_slots[p]
      /\ Cardinality(entries[p]) + Cardinality(value_slots[p]) = num_slots[p]
  BY Zenon DEF SlotsOwned, PartOwned
<1>3. CASE value_slots[p] # {}
  <2>1. Grown(p) = num_slots[p] /\ SlotsWithPage(p) = value_slots[p]
    BY <1>3, Zenon DEF Grown, SlotsWithPage
  <2>2. num_slots[p] <= num_slots[p]
    BY <1>1
  <2> QED BY <1>1, <1>2, <2>1, <2>2, Zenon
<1>4. CASE value_slots[p] = {}
  <2> DEFINE n == num_slots[p]
             m == num_slots[p] + SlotsPerPage
  <2>1. Grown(p) = m /\ SlotsWithPage(p) = n + 1 .. m
    BY <1>4, Zenon DEF Grown, SlotsWithPage
  <2>2. /\ m \in Nat /\ n <= m /\ (n + 1 .. m) \in SUBSET (1 .. m)
        /\ n + 1 \in Int /\ m \in Int /\ ~(n + 1 > m)
        /\ \A s \in 1 .. n : s \notin n + 1 .. m
    BY <1>1
  <2>3. Cardinality(n + 1 .. m) = m - (n + 1) + 1
    BY <2>2, FS_Interval, Zenon
  <2>4. Cardinality(entries[p]) \in Nat /\ Cardinality({}) = 0
    BY <1>1, FiniteKeys, FS_EmptySet, Zenon
  <2>5. Cardinality(entries[p]) + 0 = n
    BY <1>2, <1>4, <2>4, Zenon
  <2>6. Cardinality(entries[p]) + Cardinality(n + 1 .. m) = m
    BY <1>1, <2>3, <2>4, <2>5
  <2> HIDE DEF n, m
  <2>7. \A k \in entries[p] : slot[k] \in 1 .. n
    BY <1>2, Zenon DEF n
  <2> QED BY <1>1, <2>1, <2>2, <2>6, <2>7, Zenon DEF n
<1> QED BY <1>3, <1>4, Zenon

(* A new key gets a free slot, and changes no other key. *)
LEMMA InsertOwned ==
  ASSUME ContentOK, SlotsOwned, NEW p \in Parts, NEW k \in Keys, PartOf(k) = p,
         k \notin entries[p], NEW v \in Values, InsertIntoSlot(p, k, v)
  PROVE  ContentOK' /\ SlotsOwned' /\ Stores(k, v)
<1> DEFINE E == entries[p]
           F == SlotsWithPage(p)
           N == Grown(p)
<1>1. PICK s \in F :
        /\ slot' = [slot EXCEPT ![k] = s]
        /\ value_slots' = [value_slots EXCEPT ![p] = F \ {s}]
        /\ memory' = [memory EXCEPT ![p] =
             [i \in 1 .. N |-> IF i = s THEN v
                               ELSE IF i \in DOMAIN @ THEN @[i] ELSE NoValue]]
  BY Zenon DEF InsertIntoSlot
<1>2. /\ num_slots' = [num_slots EXCEPT ![p] = N]
      /\ entries' = [entries EXCEPT ![p] = @ \cup {k}]
  BY Zenon DEF InsertIntoSlot
<1>3. /\ num_slots[p] \in Nat /\ N \in Nat /\ num_slots[p] <= N /\ F \in SUBSET (1 .. N)
      /\ \A j \in E : slot[j] \in 1 .. num_slots[p] /\ slot[j] \notin F
      /\ Cardinality(E) + Cardinality(F) = N
  BY PageSlots, Zenon
<1>4. /\ E \in SUBSET Keys /\ memory[p] \in [1 .. num_slots[p] -> Values \cup {NoValue}]
      /\ DOMAIN memory = Parts
  BY Zenon DEF ContentOK
<1> HIDE DEF E, F, N
<1>5. /\ entries'[p] = E \cup {k} /\ value_slots'[p] = F \ {s} /\ num_slots'[p] = N
      /\ \A q \in Parts : q # p => /\ entries'[q] = entries[q] /\ value_slots'[q] = value_slots[q]
                                   /\ num_slots'[q] = num_slots[q] /\ memory'[q] = memory[q]
      /\ DOMAIN memory' = Parts
      /\ slot'[k] = s /\ \A j \in Keys : j # k => slot'[j] = slot[j]
  BY <1>1, <1>2, <1>4 DEF ContentOK, E
<1>6. memory'[p] = [i \in 1 .. N |-> IF i = s THEN v
                      ELSE IF i \in DOMAIN memory[p] THEN memory[p][i] ELSE NoValue]
  BY <1>1, <1>4
<1>7. /\ memory'[p] \in [1 .. N -> Values \cup {NoValue}]
      /\ memory'[p][s] = v
      /\ \A i \in 1 .. num_slots[p] : i # s => memory'[p][i] = memory[p][i]
  BY <1>3, <1>4, <1>6
<1>8. ContentOK'
  <2>1. ASSUME NEW q \in Parts
        PROVE  /\ entries'[q] \in SUBSET Keys /\ num_slots'[q] \in Nat
               /\ value_slots'[q] \in SUBSET Nat
               /\ memory'[q] \in [1 .. num_slots'[q] -> Values \cup {NoValue}]
    <3>1. CASE q # p
      BY <1>5, <3>1, Zenon DEF ContentOK
    <3>2. CASE q = p
      <4>1. F \ {s} \in SUBSET Nat
        BY <1>3
      <4> QED BY <1>3, <1>4, <1>5, <1>7, <3>2, <4>1, Zenon
    <3> QED BY <3>1, <3>2, Zenon
  <2>2. slot' \in [Keys -> Nat]
    BY <1>1, <1>3 DEF ContentOK
  <2>3. entries' \in [Parts -> SUBSET Keys] /\ num_slots' \in [Parts -> Nat]
        /\ value_slots' \in [Parts -> SUBSET Nat]
    BY <1>1, <1>2, <2>1 DEF ContentOK
  <2> QED BY <1>5, <2>1, <2>2, <2>3, Zenon DEF ContentOK, Parts
<1>9. \A q \in Parts : \A j \in entries[q] : PartOf(j) = q /\ j # k /\ j \in Keys
  <2>1. \A q \in Parts : \A j \in entries[q] : PartOf(j) = q
    BY Zenon DEF SlotsOwned, PartOwned
  <2>2. \A q \in Parts : entries[q] \in SUBSET Keys
    BY Zenon DEF ContentOK
  <2> QED BY <2>1, <2>2, Zenon
<1>10. ASSUME NEW j \in E
       PROVE  /\ slot'[j] = slot[j] /\ slot'[j] \in 1 .. N /\ slot'[j] # s /\ slot'[j] \notin F
              /\ memory'[p][slot'[j]] = memory[p][slot[j]]
  <2>1. slot'[j] = slot[j] /\ slot[j] # s /\ slot[j] \in 1 .. num_slots[p]
    BY <1>3, <1>5, <1>9, <1>10, Zenon DEF E
  <2>2. slot[j] \in 1 .. N
    BY <1>3, <2>1
  <2> QED BY <1>3, <1>7, <1>10, <2>1, <2>2, Zenon
<1>11. PartOwned(p)'
  <2>1. Cardinality(E \cup {k}) + Cardinality(F \ {s}) = N
    <3>1. IsFiniteSet(E) /\ Cardinality(E) \in Nat /\ IsFiniteSet(F) /\ Cardinality(F) \in Nat
      BY <1>3, <1>4, FiniteKeys, FiniteSlots, Zenon
    <3>2. Cardinality(E \cup {k}) = Cardinality(E) + 1
      BY <3>1, FS_AddElement, Zenon DEF E
    <3>3. Cardinality(F \ {s}) = Cardinality(F) - 1
      BY <3>1, FS_RemoveElement, Zenon
    <3> QED BY <1>3, <3>1, <3>2, <3>3
  <2>2. s \in 1 .. N /\ F \ {s} \subseteq 1 .. N
    BY <1>3, Zenon
  <2>3. \A j \in E \cup {k} : /\ PartOf(j) = p
                              /\ slot'[j] \in 1 .. N \ (F \ {s})
                              /\ memory'[p][slot'[j]] \in Values
    <3>1. \A j \in E : PartOf(j) = p /\ memory[p][slot[j]] \in Values
      BY Zenon DEF SlotsOwned, PartOwned, E
    <3>2. \A j \in E : /\ PartOf(j) = p /\ slot'[j] \in 1 .. N /\ slot'[j] \notin F
                       /\ memory'[p][slot'[j]] \in Values
      BY <1>10, <3>1, Zenon
    <3>3. slot'[k] \in 1 .. N /\ slot'[k] \notin F \ {s} /\ memory'[p][slot'[k]] \in Values
      BY <1>5, <1>7, <2>2, Zenon
    <3> QED BY <3>2, <3>3, Zenon
  <2>4. \A i, j \in E \cup {k} : slot'[i] = slot'[j] => i = j
    <3>1. \A i, j \in E : slot[i] = slot[j] => i = j
      BY Zenon DEF SlotsOwned, PartOwned, E
    <3>2. \A i \in E : slot'[i] = slot[i] /\ slot'[i] # slot'[k]
      BY <1>5, <1>10, Zenon
    <3> QED BY <3>1, <3>2, Zenon
  <2> QED BY <1>5, <2>1, <2>2, <2>3, <2>4, Zenon DEF PartOwned, PartOf
<1>12. ASSUME NEW q \in Parts, q # p PROVE PartOwned(q)'
  <2>1. \A j \in entries[q] : slot'[j] = slot[j]
    BY <1>5, <1>9, <1>12, Zenon
  <2>2. /\ entries'[q] = entries[q] /\ value_slots'[q] = value_slots[q]
        /\ num_slots'[q] = num_slots[q] /\ memory'[q] = memory[q]
    BY <1>5, <1>12, Zenon
  <2>3. PartOwned(q)
    BY <1>12, Zenon DEF SlotsOwned
  <2>4. \A j \in entries[q] : /\ PartOf(j) = q /\ slot'[j] \in 1 .. num_slots[q] \ value_slots[q]
                              /\ memory[q][slot'[j]] \in Values
    BY <2>1, <2>3, Zenon DEF PartOwned
  <2>5. \A i, j \in entries[q] : slot'[i] = slot'[j] => i = j
    BY <2>1, <2>3, Zenon DEF PartOwned
  <2> QED BY <2>2, <2>3, <2>4, <2>5, Zenon DEF PartOwned, PartOf
<1>13. ASSUME NEW j \in Keys
       PROVE  Stored'[j] = IF j = k THEN v ELSE Stored[j]
  <2>1. PartOf(j) \in Parts
    BY <1>13, KeyPart, Zenon
  <2>2. Stored'[j] = IF j \in entries'[PartOf(j)] THEN memory'[PartOf(j)][slot'[j]] ELSE NoValue
    BY <1>13, Zenon DEF Stored, PartOf
  <2>3. CASE j = k
    BY <1>5, <1>7, <2>2, <2>3, Zenon
  <2>4. CASE j # k /\ PartOf(j) = p
    <3>1. j \in entries'[p] <=> j \in E
      BY <1>5, <2>4, Zenon
    <3>2. Stored[j] = IF j \in E THEN memory[p][slot[j]] ELSE NoValue
      BY <1>13, <2>4, Zenon DEF Stored, E
    <3> QED BY <1>10, <2>2, <2>4, <3>1, <3>2, Zenon
  <2>5. CASE j # k /\ PartOf(j) # p
    BY <1>5, <1>13, <2>1, <2>2, <2>5, Zenon DEF Stored
  <2> QED BY <2>3, <2>4, <2>5, Zenon
<1> QED BY <1>8, <1>11, <1>12, <1>13, Zenon DEF SlotsOwned, Parts, Stores

-------------------------------------------------------------------------------
(* The parts of the invariant. *)
StatsOK ==
  /\ overflow_policy \in Policies
  /\ access_count \in [Keys -> Nat]
  /\ last_access \in [Keys -> Nat]
  /\ clock \in Nat
  /\ StatsOfPolicy

CallOK ==
  /\ call \in [keys : Seq(Keys), values : Seq(Values), num_inserts : Nat]
  /\ DOMAIN call.values = DOMAIN call.keys
  /\ part_pc \in [Parts -> {"check", "overflow", "batch", "done"}]
  /\ pos \in [Parts -> Nat \ {0}]
  /\ batch_size \in [Parts -> Nat]

Progress(keys, values, S, pc, ps) ==
  \A i \in DOMAIN keys :
    /\ pc[PartOf(keys[i])] = "done" => i < ps[PartOf(keys[i])]
    /\ i < ps[PartOf(keys[i])] =>
         \/ S[keys[i]] = NoValue
         \/ \E j \in DOMAIN keys : keys[j] = keys[i] /\ values[j] = S[keys[i]]

InProgress == Progress(call.keys, call.values, Stored, part_pc, pos)

Tables == {"absent", "blank", "ready"}

SettledOK == settled \in [count : [Keys -> Nat], time : Nat]

LEMMA InvParts ==
  IInv <=> /\ table \in Tables /\ ContentOK /\ SlotsOwned /\ StatsOK /\ CallOK
           /\ OverflowBounded /\ InProgress /\ SettledOK
<1>1. InsertProgress <=> InProgress
  BY Zenon DEF InsertProgress, InProgress, Progress, Given
<1> QED BY <1>1, Zenon DEF IInv, TypeOK, ContentOK, StatsOK, CallOK, Tables, SettledOK

(* What each action is shown to preserve; the settled statistics follow    *)
(* for all of them.                                                        *)
BaseInv == /\ table \in Tables /\ ContentOK /\ SlotsOwned /\ StatsOK /\ CallOK
           /\ OverflowBounded /\ InProgress

LEMMA InvBase == IInv' <=> BaseInv' /\ SettledOK'
<1>1. InsertProgress' <=> InProgress'
  BY Zenon DEF InsertProgress, InProgress, Progress, Given, PartOf
<1> QED BY <1>1, Zenon DEF IInv, TypeOK, ContentOK, StatsOK, CallOK, Tables, SettledOK, Parts, BaseInv

LEMMA InvPartsNext ==
  BaseInv' <=> /\ table' \in Tables /\ ContentOK' /\ SlotsOwned' /\ StatsOK' /\ CallOK'
               /\ OverflowBounded' /\ InProgress'
BY Zenon DEF BaseInv, Tables

LEMMA InProgressNext ==
  InProgress' <=> Progress(call'.keys, call'.values, Stored', part_pc', pos')
BY Zenon DEF InProgress, Progress, PartOf

(* Without a call there is nothing to go through. *)
LEMMA NoCallProgress ==
  ASSUME NEW S, NEW pc, NEW ps
  PROVE  Progress(NoCall.keys, NoCall.values, S, pc, ps)
<1>1. DOMAIN NoCall.keys = {}
  BY DEF NoCall
<1> QED BY <1>1, Zenon DEF Progress

(* Steps that leave the partitions alone leave what is stored alone. *)
LEMMA SameContent ==
  ASSUME ContentOK, SlotsOwned, UNCHANGED <<entries, slot, num_slots, value_slots, memory>>
  PROVE  ContentOK' /\ SlotsOwned' /\ Stored' = Stored
<1>1. ContentOK' /\ Stored' = Stored
  BY Zenon DEF ContentOK, Stored, PartOf, Parts
<1>2. ASSUME NEW p \in Parts PROVE PartOwned(p)'
  BY <1>2, Zenon DEF SlotsOwned, PartOwned, PartOf
<1> QED BY <1>1, <1>2, Zenon DEF SlotsOwned, Parts

LEMMA SameCall ==
  ASSUME CallOK, UNCHANGED insertion
  PROVE  CallOK'
BY Zenon DEF CallOK, insertion, Parts

LEMMA SameStats ==
  ASSUME StatsOK, UNCHANGED <<overflow_policy, stats, clock>>
  PROVE  StatsOK'
BY Zenon DEF StatsOK, stats, StatsOfPolicy

(* A call that changes neither the partitions nor the running insert. *)
LEMMA QuietStep ==
  ASSUME IInv, UNCHANGED <<entries, slot, num_slots, value_slots, memory, insertion>>,
         StatsOK', table' \in Tables
  PROVE  BaseInv'
<1>1. ContentOK' /\ SlotsOwned' /\ Stored' = Stored
  BY InvParts, SameContent, Zenon
<1>2. CallOK'
  BY InvParts, SameCall, Zenon
<1>3. OverflowBounded'
  BY InvParts, Zenon DEF OverflowBounded, insertion, Parts
<1>4. InProgress'
  BY <1>1, InvParts, InProgressNext, Zenon DEF InProgress, insertion
<1> QED BY <1>1, <1>2, <1>3, <1>4, InvPartsNext, Zenon

(* No insert runs when a call begins. *)
LEMMA UnlockedIdle ==
  ASSUME CallOK, Unlocked
  PROVE  call = NoCall /\ \A p \in Parts : part_pc[p] = "done"
BY Zenon DEF Unlocked, Locked

(* Fewer keys after an eviction. *)
LEMMA FewerKeys ==
  ASSUME NEW E \in SUBSET Keys, NEW ks
  PROVE  /\ Cardinality(E \ ks) \in Nat /\ Cardinality(E) \in Nat
         /\ Cardinality(E \ ks) <= Cardinality(E)
<1>1. IsFiniteSet(E) /\ E \ ks \in SUBSET E /\ E \ ks \in SUBSET Keys
  BY FiniteKeys, Zenon
<1> QED BY <1>1, FiniteKeys, FS_Subset, Zenon

(* Erasing resets the statistics of the keys. *)
LEMMA EraseStats ==
  ASSUME StatsOK, NEW ks \in SUBSET Keys, Erase(ks), UNCHANGED <<overflow_policy, clock>>
  PROVE  StatsOK'
<1>1. /\ access_count' = [k \in Keys |-> IF k \in ks THEN 0 ELSE access_count[k]]
      /\ last_access' = [k \in Keys |-> IF k \in ks THEN 0 ELSE last_access[k]]
  BY Zenon DEF Erase
<1>2. access_count' \in [Keys -> Nat] /\ last_access' \in [Keys -> Nat]
  BY <1>1 DEF StatsOK
<1>3. StatsOfPolicy'
  BY <1>1, Zenon DEF StatsOK, StatsOfPolicy
<1> QED BY <1>2, <1>3, Zenon DEF StatsOK

-------------------------------------------------------------------------------
(* insert *)

LEMMA InsertInv ==
  ASSUME IInv, NEW r \in Inserts, Insert(r.keys, r.values)
  PROVE  BaseInv'
<1> DEFINE keys == r.keys
           values == r.values
<1>1. /\ Unlocked /\ table' = "ready"
      /\ call' = [keys |-> keys, values |-> values, num_inserts |-> 0]
      /\ part_pc' = [p \in Parts |-> IF Len(keys) = 1 /\ p # PartOf(keys[1]) THEN "done" ELSE "check"]
      /\ pos' = [p \in Parts |-> 1] /\ batch_size' = [p \in Parts |-> 0]
      /\ UNCHANGED <<overflow_policy, entries, slot, num_slots, value_slots, memory, stats, clock>>
  BY Zenon DEF Insert
<1>2. keys \in Seq(Keys) /\ DOMAIN keys = 1 .. Len(keys) /\ Len(keys) \in Nat
      /\ values \in Seq(Values) /\ DOMAIN values = DOMAIN keys
  BY HashMapAssumption
<1> HIDE DEF keys, values
<1>3. ContentOK' /\ SlotsOwned' /\ Stored' = Stored
  BY <1>1, InvParts, SameContent, Zenon
<1>4. StatsOK'
  BY <1>1, InvParts, SameStats, Zenon
<1>5. call'.keys = keys /\ call'.values = values
  BY <1>1
<1>6. CallOK'
  BY <1>1, <1>2 DEF CallOK
<1>7. OverflowBounded'
  BY <1>1, InvParts DEF OverflowBounded
<1>8. Progress(keys, values, Stored', part_pc', pos')
  <2> SUFFICES ASSUME NEW i \in DOMAIN keys
               PROVE  part_pc'[PartOf(keys[i])] # "done" /\ ~(i < pos'[PartOf(keys[i])])
    BY Zenon DEF Progress
  <2>1. keys[i] \in Keys /\ i \in Nat /\ i >= 1 /\ (Len(keys) = 1 => i = 1)
    BY <1>2
  <2>2. PartOf(keys[i]) \in Parts
    BY <2>1, KeyPart, Zenon
  <2>3. pos'[PartOf(keys[i])] = 1 /\ part_pc'[PartOf(keys[i])] = "check"
    BY <1>1, <2>1, <2>2, Zenon
  <2> QED BY <2>1, <2>3
<1> QED BY <1>1, <1>3, <1>4, <1>5, <1>6, <1>7, <1>8, InProgressNext, InvPartsNext, Zenon DEF Tables

LEMMA InsertCheckInv ==
  ASSUME IInv, NEW p \in Parts, InsertCheck(p)
  PROVE  BaseInv'
<1>1. /\ part_pc[p] = "check"
      /\ part_pc' = [part_pc EXCEPT ![p] =
           IF pos[p] > Len(call.keys) THEN "done"
           ELSE IF Cardinality(entries[p]) >= overflow_margin THEN "overflow"
           ELSE "batch"]
      /\ batch_size' = [batch_size EXCEPT ![p] = 0]
      /\ UNCHANGED <<table, overflow_policy, entries, slot, num_slots, value_slots, memory, stats,
                     clock, call, pos>>
  BY Zenon DEF InsertCheck, content
<1>2. ContentOK' /\ SlotsOwned' /\ Stored' = Stored
  BY <1>1, InvParts, SameContent, Zenon
<1>3. StatsOK'
  BY <1>1, InvParts, SameStats, Zenon
<1>4. CallOK
  BY InvParts, Zenon
<1>5. CallOK'
  BY <1>1, <1>4 DEF CallOK
<1>6. OverflowBounded'
  <2>1. Cardinality(entries[p]) \in Nat /\ max_batch_size \in Nat \ {0} /\ overflow_margin \in Nat
    BY InvParts, FiniteKeys, HashMapAssumption, Zenon DEF ContentOK
  <2>2. /\ part_pc'[p] = "batch" => ~(Cardinality(entries[p]) >= overflow_margin)
        /\ batch_size'[p] = 0
        /\ \A q \in Parts : q # p => part_pc'[q] = part_pc[q] /\ batch_size'[q] = batch_size[q]
    BY <1>1, <1>4, Zenon DEF CallOK
  <2>3. part_pc'[p] = "batch" => Cardinality(entries[p]) < overflow_margin + batch_size'[p]
    BY <2>1, <2>2
  <2>4. batch_size'[p] < max_batch_size
    BY <2>1, <2>2
  <2>5. entries' = entries /\ OverflowBounded
    BY <1>1, InvParts, Zenon
  <2> QED BY <2>2, <2>3, <2>4, <2>5, Zenon DEF OverflowBounded, Parts
<1>7. Progress(call.keys, call.values, Stored, part_pc', pos)
  <2> SUFFICES ASSUME NEW i \in DOMAIN call.keys, part_pc'[PartOf(call.keys[i])] = "done"
               PROVE  i < pos[PartOf(call.keys[i])]
    BY InvParts, Zenon DEF InProgress, Progress
  <2>1. i \in 1 .. Len(call.keys) /\ Len(call.keys) \in Nat /\ call.keys[i] \in Keys
    BY <1>4 DEF CallOK
  <2>2. PartOf(call.keys[i]) \in Parts
    BY <2>1, KeyPart, Zenon
  <2>3. CASE PartOf(call.keys[i]) = p
    <3>1. pos[p] > Len(call.keys)
      BY <1>1, <1>4, <2>3 DEF CallOK
    <3>2. pos[p] \in Nat
      BY <1>4 DEF CallOK
    <3> QED BY <2>1, <2>3, <3>1, <3>2
  <2>4. CASE PartOf(call.keys[i]) # p
    <3>1. part_pc[PartOf(call.keys[i])] = "done"
      BY <1>1, <1>4, <2>2, <2>4, Zenon DEF CallOK
    <3> QED BY <3>1, InvParts, Zenon DEF InProgress, Progress
  <2> QED BY <2>3, <2>4, Zenon
<1> QED BY <1>1, <1>2, <1>3, <1>5, <1>6, <1>7, InvParts, InProgressNext, InvPartsNext, Zenon

LEMMA ResolveOverflowInv ==
  ASSUME IInv, NEW p \in Parts, ResolveOverflow(p)
  PROVE  BaseInv'
<1>1. PICK ks \in Victims(p) :
        /\ Erase(ks)
        /\ part_pc' = [part_pc EXCEPT ![p] =
             IF Cardinality(entries[p] \ ks) <= overflow_resolution_margin
             THEN "batch" ELSE "overflow"]
  BY Zenon DEF ResolveOverflow
<1>2. /\ part_pc[p] = "overflow"
      /\ UNCHANGED <<overflow_policy, table, num_slots, memory, clock, call, pos, batch_size>>
  BY Zenon DEF ResolveOverflow
<1>3. /\ ContentOK /\ SlotsOwned /\ StatsOK /\ CallOK /\ OverflowBounded /\ InProgress
      /\ table \in Tables
  BY InvParts, Zenon
<1>4. /\ entries[p] \in SUBSET Keys /\ ks \in SUBSET entries[p] /\ ks \in SUBSET Keys
      /\ \/ Cardinality(ks) = max_batch_size
         \/ Cardinality(ks) < max_batch_size /\ ks = entries[p]
  BY <1>3, Zenon DEF Victims, ContentOK
<1>5. /\ ContentOK' /\ SlotsOwned'
      /\ \A k \in Keys : Stored'[k] = IF k \in ks THEN NoValue ELSE Stored[k]
  BY <1>1, <1>2, <1>3, <1>4, EraseOwned, Zenon
<1>6. StatsOK'
  BY <1>1, <1>2, <1>3, <1>4, EraseStats, Zenon
<1>7. CallOK'
  BY <1>1, <1>2, <1>3 DEF CallOK
<1>8. \A q \in Parts : entries'[q] = entries[q] \ ks /\ (q # p => part_pc'[q] = part_pc[q])
  BY <1>1, <1>3, Zenon DEF Erase, CallOK
<1>9. ASSUME NEW q \in Parts
      PROVE  /\ Cardinality(entries'[q]) \in Nat /\ Cardinality(entries[q]) \in Nat
             /\ Cardinality(entries'[q]) <= Cardinality(entries[q])
  BY <1>3, <1>8, <1>9, FewerKeys, Zenon DEF ContentOK
<1>10. OverflowBounded'
  <2>1. ASSUME NEW q \in Parts
        PROVE  /\ Cardinality(entries'[q]) < overflow_margin + max_batch_size
               /\ part_pc[q] = "batch" => Cardinality(entries'[q]) < overflow_margin + batch_size[q]
    <3>1. /\ Cardinality(entries[q]) < overflow_margin + max_batch_size
          /\ part_pc[q] = "batch" => Cardinality(entries[q]) < overflow_margin + batch_size[q]
      BY <1>3, <2>1, Zenon DEF OverflowBounded
    <3>2. batch_size[q] \in Nat /\ overflow_margin \in Nat /\ max_batch_size \in Nat
      BY <1>3, <2>1, HashMapAssumption, Zenon DEF CallOK
    <3> QED BY <1>9, <2>1, <3>1, <3>2
  <2>2. Cardinality(entries'[p]) < overflow_margin
    <3>1. Cardinality(entries'[p]) = Cardinality(entries[p]) - Cardinality(ks)
      <4>1. entries[p] \cap ks = ks /\ IsFiniteSet(entries[p])
        BY <1>4, FiniteKeys, Zenon
      <4>2. Cardinality(entries[p] \ ks) = Cardinality(entries[p]) - Cardinality(entries[p] \cap ks)
        BY <4>1, FS_Difference, Zenon
      <4> QED BY <1>8, <4>1, <4>2, Zenon
    <3>2. Cardinality(ks) \in Nat
      BY <1>4, FiniteKeys, Zenon
    <3>3. Cardinality(entries[p]) < overflow_margin + max_batch_size
      BY <1>3, Zenon DEF OverflowBounded
    <3>4. overflow_margin \in Nat \ {0} /\ max_batch_size \in Nat
      BY HashMapAssumption, Zenon
    <3>5. Cardinality(ks) = max_batch_size \/ Cardinality(ks) = Cardinality(entries[p])
      BY <1>4, Zenon
    <3> QED BY <1>9, <3>1, <3>2, <3>3, <3>4, <3>5
  <2>3. Cardinality(entries'[p]) < overflow_margin + batch_size[p]
    <3>1. batch_size[p] \in Nat /\ overflow_margin \in Nat
      BY <1>3, HashMapAssumption, Zenon DEF CallOK
    <3> QED BY <1>9, <2>2, <3>1
  <2>4. batch_size[p] < max_batch_size
    BY <1>2, <1>3, Zenon DEF OverflowBounded
  <2> QED BY <1>2, <1>3, <1>8, <2>1, <2>3, <2>4, Zenon DEF OverflowBounded, Parts
<1>11. Progress(call.keys, call.values, Stored', part_pc', pos)
  <2>1. ASSUME NEW i \in DOMAIN call.keys PROVE call.keys[i] \in Keys
    BY <1>3, <2>1 DEF CallOK
  <2>2. part_pc'[p] # "done"
    BY <1>1, <1>3 DEF CallOK
  <2>3. ASSUME NEW i \in DOMAIN call.keys
        PROVE  /\ part_pc'[PartOf(call.keys[i])] = "done" => part_pc[PartOf(call.keys[i])] = "done"
               /\ Stored'[call.keys[i]] \in {NoValue, Stored[call.keys[i]]}
    BY <1>5, <1>8, <2>1, <2>2, <2>3, KeyPart, Zenon
  <2>4. ASSUME NEW i \in DOMAIN call.keys, i < pos[PartOf(call.keys[i])]
        PROVE  \/ Stored'[call.keys[i]] = NoValue
               \/ \E j \in DOMAIN call.keys :
                    call.keys[j] = call.keys[i] /\ call.values[j] = Stored'[call.keys[i]]
    <3>1. CASE Stored'[call.keys[i]] = Stored[call.keys[i]]
      BY <1>3, <2>4, <3>1, Zenon DEF InProgress, Progress
    <3> QED BY <2>3, <2>4, <3>1, Zenon
  <2>5. ASSUME NEW i \in DOMAIN call.keys, part_pc'[PartOf(call.keys[i])] = "done"
        PROVE  i < pos[PartOf(call.keys[i])]
    BY <1>3, <2>3, <2>5, Zenon DEF InProgress, Progress
  <2> QED BY <2>4, <2>5, Zenon DEF Progress
<1> QED BY <1>2, <1>3, <1>5, <1>6, <1>7, <1>10, <1>11, InProgressNext, InvPartsNext, Zenon

(* What writing the next key of a partition does to what is stored. *)
LEMMA InsertKeyWrites ==
  ASSUME IInv, NEW p \in Parts, InsertKey(p)
  PROVE  \E i \in pos[p] .. Len(call.keys) :
           /\ i \in DOMAIN call.keys /\ call.keys[i] \in Keys /\ PartOf(call.keys[i]) = p
           /\ \A j \in pos[p] .. i - 1 : PartOf(call.keys[j]) # p
           /\ pos' = [pos EXCEPT ![p] = i + 1]
           /\ ContentOK' /\ SlotsOwned'
           /\ \A k \in Keys : Stored'[k] = IF k = call.keys[i] THEN call.values[i] ELSE Stored[k]
           /\ entries' = [entries EXCEPT ![p] = @ \cup {call.keys[i]}]
           /\ call'.keys = call.keys /\ call'.values = call.values /\ call'.num_inserts \in Nat
           /\ call' \in [keys : Seq(Keys), values : Seq(Values), num_inserts : Nat]
           /\ Written(call.keys[i])
<1>1. PICK i \in pos[p] .. Len(call.keys) :
        /\ PartOf(call.keys[i]) = p
        /\ \A j \in pos[p] .. i - 1 : PartOf(call.keys[j]) # p
        /\ pos' = [pos EXCEPT ![p] = i + 1]
        /\ \/ /\ call.keys[i] \in entries[p]
              /\ Overwrite(p, call.keys[i], call.values[i])
              /\ UNCHANGED call
           \/ /\ call.keys[i] \notin entries[p]
              /\ InsertIntoSlot(p, call.keys[i], call.values[i])
              /\ call' = [call EXCEPT !.num_inserts = @ + 1]
        /\ Written(call.keys[i])
  BY Zenon DEF InsertKey
<1>2. ContentOK /\ SlotsOwned /\ CallOK
  BY InvParts, Zenon
<1>3. i \in DOMAIN call.keys /\ call.keys[i] \in Keys /\ call.values[i] \in Values
  <2>1. pos[p] \in Nat \ {0} /\ call.keys \in Seq(Keys) /\ call.values \in Seq(Values)
        /\ DOMAIN call.values = DOMAIN call.keys
    BY <1>2 DEF CallOK
  <2> QED BY <1>1, <2>1
<1>4. CASE call.keys[i] \in entries[p] /\ Overwrite(p, call.keys[i], call.values[i]) /\ UNCHANGED call
  <2>1. /\ ContentOK' /\ SlotsOwned'
        /\ \A k \in Keys : Stored'[k] = IF k = call.keys[i] THEN call.values[i] ELSE Stored[k]
    <3> DEFINE k0 == call.keys[i]
               v0 == call.values[i]
    <3>1. k0 \in entries[p] /\ v0 \in Values /\ Overwrite(p, k0, v0)
      BY <1>3, <1>4, Zenon
    <3> HIDE DEF k0, v0
    <3>2. ContentOK' /\ SlotsOwned' /\ Stores(k0, v0)
      BY <1>2, <3>1, OverwriteOwned, Zenon
    <3> QED BY <3>2, Zenon DEF k0, v0, Stores
  <2>2. entries' = [entries EXCEPT ![p] = @ \cup {call.keys[i]}]
    BY <1>2, <1>4 DEF Overwrite, ContentOK
  <2>3. /\ call'.keys = call.keys /\ call'.values = call.values /\ call'.num_inserts \in Nat
        /\ call' \in [keys : Seq(Keys), values : Seq(Values), num_inserts : Nat]
    BY <1>2, <1>4 DEF CallOK
  <2> QED BY <1>1, <1>3, <2>1, <2>2, <2>3, Zenon
<1>5. CASE /\ call.keys[i] \notin entries[p] /\ InsertIntoSlot(p, call.keys[i], call.values[i])
           /\ call' = [call EXCEPT !.num_inserts = @ + 1]
  <2>1. /\ ContentOK' /\ SlotsOwned'
        /\ \A k \in Keys : Stored'[k] = IF k = call.keys[i] THEN call.values[i] ELSE Stored[k]
    <3> DEFINE k0 == call.keys[i]
               v0 == call.values[i]
    <3>1. /\ k0 \in Keys /\ PartOf(k0) = p /\ k0 \notin entries[p] /\ v0 \in Values
          /\ InsertIntoSlot(p, k0, v0)
      BY <1>1, <1>3, <1>5, Zenon
    <3> HIDE DEF k0, v0
    <3>2. ContentOK' /\ SlotsOwned' /\ Stores(k0, v0)
      BY <1>2, <3>1, InsertOwned, Zenon
    <3> QED BY <3>2, Zenon DEF k0, v0, Stores
  <2>2. entries' = [entries EXCEPT ![p] = @ \cup {call.keys[i]}]
    BY <1>5, Zenon DEF InsertIntoSlot
  <2>3. /\ call'.keys = call.keys /\ call'.values = call.values /\ call'.num_inserts \in Nat
        /\ call' \in [keys : Seq(Keys), values : Seq(Values), num_inserts : Nat]
    <3> DEFINE K == Seq(Keys)
               V == Seq(Values)
    <3>1. call \in [keys : K, values : V, num_inserts : Nat]
      BY <1>2, Zenon DEF CallOK
    <3> HIDE DEF K, V
    <3>2. /\ call'.keys = call.keys /\ call'.values = call.values /\ call'.num_inserts \in Nat
          /\ call' \in [keys : K, values : V, num_inserts : Nat]
      BY <1>5, <3>1
    <3> QED BY <3>2, Zenon DEF K, V
  <2> QED BY <1>1, <1>3, <2>1, <2>2, <2>3, Zenon
<1> QED BY <1>1, <1>4, <1>5, Zenon

LEMMA InsertKeyInv ==
  ASSUME IInv, NEW p \in Parts, InsertKey(p)
  PROVE  BaseInv'
<1>1. PICK i \in pos[p] .. Len(call.keys) :
        /\ i \in DOMAIN call.keys /\ call.keys[i] \in Keys /\ PartOf(call.keys[i]) = p
        /\ \A j \in pos[p] .. i - 1 : PartOf(call.keys[j]) # p
        /\ pos' = [pos EXCEPT ![p] = i + 1]
        /\ ContentOK' /\ SlotsOwned'
        /\ \A k \in Keys : Stored'[k] = IF k = call.keys[i] THEN call.values[i] ELSE Stored[k]
        /\ entries' = [entries EXCEPT ![p] = @ \cup {call.keys[i]}]
        /\ call'.keys = call.keys /\ call'.values = call.values /\ call'.num_inserts \in Nat
        /\ call' \in [keys : Seq(Keys), values : Seq(Values), num_inserts : Nat]
        /\ Written(call.keys[i])
  BY InsertKeyWrites, Zenon
<1>2. /\ part_pc[p] = "batch"
      /\ batch_size' = [batch_size EXCEPT ![p] = @ + 1]
      /\ part_pc' = [part_pc EXCEPT ![p] =
                       IF batch_size[p] + 1 >= max_batch_size THEN "check" ELSE "batch"]
      /\ UNCHANGED <<overflow_policy, table, clock>>
  BY Zenon DEF InsertKey
<1>3. ContentOK /\ StatsOK /\ CallOK /\ OverflowBounded /\ InProgress /\ table \in Tables
  BY InvParts, Zenon
<1>4. /\ pos[p] \in Nat \ {0} /\ batch_size[p] \in Nat /\ i \in Nat
      /\ max_batch_size \in Nat /\ overflow_margin \in Nat
  BY <1>1, <1>3, HashMapAssumption DEF CallOK
<1>5. StatsOK'
  <2>1. /\ access_count' = [access_count EXCEPT ![call.keys[i]] = 0]
        /\ last_access' = [last_access EXCEPT ![call.keys[i]] =
                             IF overflow_policy = "EvictOldest" THEN clock ELSE @]
    BY <1>1, Zenon DEF Written
  <2>2. access_count' \in [Keys -> Nat] /\ last_access' \in [Keys -> Nat]
    BY <1>1, <1>3, <2>1 DEF StatsOK
  <2>3. StatsOfPolicy'
    BY <1>1, <1>2, <1>3, <2>1, Zenon DEF StatsOK, StatsOfPolicy
  <2> QED BY <1>2, <1>3, <2>2, <2>3, Zenon DEF StatsOK
<1>6. CallOK'
  <2>1. /\ part_pc' \in [Parts -> {"check", "overflow", "batch", "done"}]
        /\ pos' \in [Parts -> Nat \ {0}] /\ batch_size' \in [Parts -> Nat]
    BY <1>1, <1>2, <1>3, <1>4 DEF CallOK
  <2> QED BY <1>1, <1>3, <2>1, Zenon DEF CallOK
<1>7. /\ batch_size'[p] = batch_size[p] + 1
      /\ part_pc'[p] = IF batch_size[p] + 1 >= max_batch_size THEN "check" ELSE "batch"
      /\ pos'[p] = i + 1
      /\ entries'[p] = entries[p] \cup {call.keys[i]}
      /\ \A q \in Parts : q # p => /\ part_pc'[q] = part_pc[q] /\ batch_size'[q] = batch_size[q]
                                   /\ pos'[q] = pos[q] /\ entries'[q] = entries[q]
  BY <1>1, <1>2, <1>3, Zenon DEF CallOK, ContentOK
<1>8. OverflowBounded'
  <2>1. /\ Cardinality(entries[p]) \in Nat /\ Cardinality(entries'[p]) \in Nat
        /\ Cardinality(entries'[p]) <= Cardinality(entries[p]) + 1
    <3>1. IsFiniteSet(entries[p]) /\ Cardinality(entries[p]) \in Nat
      BY <1>3, FiniteKeys, Zenon DEF ContentOK
    <3>2. Cardinality(entries'[p]) \in {Cardinality(entries[p]), Cardinality(entries[p]) + 1}
      BY <1>7, <3>1, FS_AddElement, Zenon
    <3> QED BY <3>1, <3>2
  <2>2. /\ Cardinality(entries[p]) < overflow_margin + batch_size[p]
        /\ batch_size[p] < max_batch_size
    BY <1>2, <1>3, Zenon DEF OverflowBounded
  <2>3. /\ Cardinality(entries'[p]) < overflow_margin + max_batch_size
        /\ Cardinality(entries'[p]) < overflow_margin + batch_size'[p]
        /\ part_pc'[p] \in {"overflow", "batch"} => batch_size'[p] < max_batch_size
    BY <1>4, <1>7, <2>1, <2>2
  <2> QED BY <1>3, <1>7, <2>3, Zenon DEF OverflowBounded, Parts
<1>9. Progress(call.keys, call.values, Stored', part_pc', pos')
  <2> SUFFICES ASSUME NEW n \in DOMAIN call.keys
               PROVE  /\ part_pc'[PartOf(call.keys[n])] = "done" => n < pos'[PartOf(call.keys[n])]
                      /\ n < pos'[PartOf(call.keys[n])] =>
                           \/ Stored'[call.keys[n]] = NoValue
                           \/ \E j \in DOMAIN call.keys :
                                call.keys[j] = call.keys[n] /\ call.values[j] = Stored'[call.keys[n]]
    BY Zenon DEF Progress
  <2>1. n \in Nat /\ call.keys[n] \in Keys
    BY <1>3 DEF CallOK
  <2>2. PartOf(call.keys[n]) \in Parts
    BY <2>1, KeyPart, Zenon
  <2>3. part_pc'[p] # "done"
    BY <1>7
  <2>4. part_pc'[PartOf(call.keys[n])] = "done" => n < pos'[PartOf(call.keys[n])]
    BY <1>3, <1>7, <2>2, <2>3, Zenon DEF InProgress, Progress
  <2>5. CASE call.keys[n] = call.keys[i]
    <3>1. Stored'[call.keys[n]] = call.values[i]
      BY <1>1, <2>1, <2>5, Zenon
    <3> QED BY <1>1, <2>4, <2>5, <3>1, Zenon
  <2>6. CASE call.keys[n] # call.keys[i]
    <3>1. Stored'[call.keys[n]] = Stored[call.keys[n]]
      BY <1>1, <2>1, <2>6, Zenon
    <3>2. n < pos'[PartOf(call.keys[n])] => n < pos[PartOf(call.keys[n])]
      <4>1. CASE PartOf(call.keys[n]) # p
        BY <1>7, <2>2, <4>1, Zenon
      <4>2. CASE PartOf(call.keys[n]) = p /\ n < i + 1
        <5>1. n # i
          BY <2>6
        <5>2. n \notin pos[p] .. i - 1
          BY <1>1, <4>2, Zenon
        <5> QED BY <1>4, <2>1, <4>2, <5>1, <5>2
      <4> QED BY <1>7, <4>1, <4>2, Zenon
    <3> QED BY <1>3, <2>4, <3>1, <3>2, Zenon DEF InProgress, Progress
  <2> QED BY <2>5, <2>6, Zenon
<1> QED BY <1>1, <1>2, <1>3, <1>5, <1>6, <1>8, <1>9, InProgressNext, InvPartsNext, Zenon

LEMMA InsertScannedInv ==
  ASSUME IInv, NEW p \in Parts, InsertScanned(p)
  PROVE  BaseInv'
<1>1. /\ part_pc[p] = "batch"
      /\ \A i \in pos[p] .. Len(call.keys) : PartOf(call.keys[i]) # p
      /\ pos' = [pos EXCEPT ![p] = Len(call.keys) + 1]
      /\ part_pc' = [part_pc EXCEPT ![p] = "check"]
      /\ UNCHANGED <<overflow_policy, table, entries, slot, num_slots, value_slots, memory, stats,
                     clock, call, batch_size>>
  BY Zenon DEF InsertScanned, content
<1>2. CallOK /\ OverflowBounded /\ InProgress /\ table \in Tables
  BY InvParts, Zenon
<1>3. ContentOK' /\ SlotsOwned' /\ Stored' = Stored /\ StatsOK'
  BY <1>1, InvParts, SameContent, SameStats, Zenon
<1>4. /\ Len(call.keys) \in Nat /\ DOMAIN call.keys = 1 .. Len(call.keys) /\ pos[p] \in Nat \ {0}
      /\ \A n \in DOMAIN call.keys : call.keys[n] \in Keys
  BY <1>2 DEF CallOK
<1>5. CallOK'
  <2>1. /\ part_pc' \in [Parts -> {"check", "overflow", "batch", "done"}]
        /\ pos' \in [Parts -> Nat \ {0}]
    BY <1>1, <1>2, <1>4 DEF CallOK
  <2> QED BY <1>1, <1>2, <2>1, Zenon DEF CallOK, Parts
<1>6. /\ part_pc'[p] = "check" /\ pos'[p] = Len(call.keys) + 1
      /\ \A q \in Parts : q # p => part_pc'[q] = part_pc[q] /\ pos'[q] = pos[q]
  BY <1>1, <1>2, Zenon DEF CallOK
<1>7. OverflowBounded'
  <2>1. "check" \notin {"overflow", "batch"} /\ "check" # "batch"
    OBVIOUS
  <2> QED BY <1>1, <1>2, <1>6, <2>1, Zenon DEF OverflowBounded, Parts
<1>8. Progress(call.keys, call.values, Stored, part_pc', pos')
  <2>1. ASSUME NEW n \in DOMAIN call.keys, PartOf(call.keys[n]) = p
        PROVE  n < pos[p]
    BY <1>1, <1>4, <2>1
  <2>2. "check" # "done"
    OBVIOUS
  <2> QED BY <1>2, <1>4, <1>6, <2>1, <2>2, KeyPart, Zenon DEF InProgress, Progress
<1> QED BY <1>1, <1>2, <1>3, <1>5, <1>7, <1>8, InProgressNext, InvPartsNext, Zenon

LEMMA InsertReturnsInv ==
  ASSUME IInv, InsertReturns
  PROVE  BaseInv'
<1>1. /\ call' = NoCall /\ pos' = [p \in Parts |-> 1] /\ batch_size' = [p \in Parts |-> 0]
      /\ UNCHANGED <<overflow_policy, table, entries, slot, num_slots, value_slots, memory, stats,
                     clock, part_pc>>
      /\ \A p \in Parts : part_pc[p] = "done"
  BY Zenon DEF InsertReturns, content, Locked
<1>2. CallOK /\ OverflowBounded /\ table \in Tables
  BY InvParts, Zenon
<1>3. ContentOK' /\ SlotsOwned' /\ StatsOK'
  BY <1>1, InvParts, SameContent, SameStats, Zenon
<1>4. CallOK'
  BY <1>1, <1>2 DEF CallOK, NoCall
<1>5. OverflowBounded'
  BY <1>1, <1>2 DEF OverflowBounded
<1>6. InProgress'
  BY <1>1, NoCallProgress, InProgressNext, Zenon
<1> QED BY <1>1, <1>2, <1>3, <1>4, <1>5, <1>6, InvPartsNext, Zenon

-------------------------------------------------------------------------------
(* evict *)

LEMMA EvictKeysInv ==
  ASSUME IInv, NEW keys \in Requests, EvictKeys(keys)
  PROVE  BaseInv' /\ \A k \in Keys : Stored'[k] \in {Stored[k], NoValue}
<1> DEFINE ks == {keys[i] : i \in DOMAIN keys}
<1>1. /\ Unlocked /\ Erase(ks)
      /\ UNCHANGED <<overflow_policy, table, num_slots, memory, clock, insertion>>
  BY Zenon DEF EvictKeys
<1>2. ks \in SUBSET Keys
  <2>1. keys \in Seq(Keys)
    BY HashMapAssumption, Zenon
  <2> QED BY <2>1
<1> HIDE DEF ks
<1>3. ContentOK /\ SlotsOwned /\ StatsOK /\ CallOK /\ OverflowBounded /\ table \in Tables
  BY InvParts, Zenon
<1>4. call = NoCall /\ \A p \in Parts : part_pc[p] = "done"
  BY <1>1, <1>3, UnlockedIdle, Zenon
<1>5. /\ ContentOK' /\ SlotsOwned' /\ StatsOK'
      /\ \A k \in Keys : Stored'[k] = IF k \in ks THEN NoValue ELSE Stored[k]
  BY <1>1, <1>2, <1>3, EraseOwned, EraseStats, Zenon
<1>6. CallOK'
  BY <1>1, <1>3, SameCall, Zenon
<1>7. OverflowBounded'
  <2>1. ASSUME NEW q \in Parts
        PROVE  Cardinality(entries'[q]) < overflow_margin + max_batch_size
    <3>1. entries[q] \in SUBSET Keys /\ entries'[q] = entries[q] \ ks
      BY <1>1, <1>3, <2>1, Zenon DEF ContentOK, Erase
    <3>2. /\ Cardinality(entries'[q]) \in Nat /\ Cardinality(entries[q]) \in Nat
          /\ Cardinality(entries'[q]) <= Cardinality(entries[q])
      BY <3>1, FewerKeys, Zenon
    <3>3. Cardinality(entries[q]) < overflow_margin + max_batch_size
      BY <1>3, <2>1, Zenon DEF OverflowBounded
    <3>4. overflow_margin \in Nat /\ max_batch_size \in Nat
      BY HashMapAssumption, Zenon
    <3> QED BY <3>2, <3>3, <3>4
  <2>2. "done" # "batch" /\ "done" \notin {"overflow", "batch"}
    OBVIOUS
  <2> QED BY <1>1, <1>4, <2>1, <2>2, Zenon DEF OverflowBounded, insertion, Parts
<1>8. InProgress'
  BY <1>1, <1>4, NoCallProgress, InProgressNext, Zenon DEF insertion
<1> QED BY <1>1, <1>3, <1>5, <1>6, <1>7, <1>8, InvPartsNext, Zenon

LEMMA EvictTableInv ==
  ASSUME IInv, EvictTable
  PROVE  BaseInv' /\ \A k \in Keys : Stored'[k] \in {Stored[k], NoValue}
<1>1. /\ Unlocked /\ table' = "absent"
      /\ entries' = [p \in Parts |-> {}] /\ num_slots' = [p \in Parts |-> 0]
      /\ value_slots' = [p \in Parts |-> {}] /\ memory' = [p \in Parts |-> <<>>]
      /\ slot' = [k \in Keys |-> 0]
      /\ access_count' = [k \in Keys |-> 0] /\ last_access' = [k \in Keys |-> 0]
      /\ UNCHANGED <<overflow_policy, clock, insertion>>
  BY Zenon DEF EvictTable
<1>2. StatsOK /\ CallOK /\ OverflowBounded
  BY InvParts, Zenon
<1>3. call = NoCall /\ \A p \in Parts : part_pc[p] = "done"
  BY <1>1, <1>2, UnlockedIdle, Zenon
<1>4. ContentOK'
  BY <1>1 DEF ContentOK
<1>5. SlotsOwned'
  <2>1. ASSUME NEW p \in Parts PROVE PartOwned(p)'
    <3>1. entries'[p] = {} /\ value_slots'[p] = {} /\ num_slots'[p] = 0
      BY <1>1, <2>1, Zenon
    <3>2. Cardinality({}) = 0 /\ 0 + 0 = 0
      BY FS_EmptySet
    <3> QED BY <3>1, <3>2, Zenon DEF PartOwned
  <2> QED BY <2>1, Zenon DEF SlotsOwned, Parts
<1>6. StatsOK'
  BY <1>1, <1>2 DEF StatsOK, StatsOfPolicy
<1>7. CallOK'
  BY <1>1, <1>2, SameCall, Zenon
<1>8. OverflowBounded'
  <2>1. 0 < overflow_margin + max_batch_size
    BY HashMapAssumption
  <2>2. "done" # "batch" /\ "done" \notin {"overflow", "batch"}
    OBVIOUS
  <2>3. \A p \in Parts : entries'[p] = {} /\ part_pc'[p] = "done"
    BY <1>1, <1>3, Zenon DEF insertion
  <2> QED BY <2>1, <2>2, <2>3, FS_EmptySet, Zenon DEF OverflowBounded, Parts
<1>9. InProgress'
  BY <1>1, <1>3, NoCallProgress, InProgressNext, Zenon DEF insertion
<1>10. \A k \in Keys : Stored'[k] = NoValue
  <2>1. \A k \in Keys : entries'[PartOf(k)] = {}
    BY <1>1, KeyPart, Zenon
  <2> QED BY <2>1, Zenon DEF Stored, PartOf
<1> QED BY <1>1, <1>4, <1>5, <1>6, <1>7, <1>8, <1>9, <1>10, InvPartsNext, Zenon DEF Tables

-------------------------------------------------------------------------------
(* The other calls *)

(* The accesses that a fetch counts. *)
LEMMA UsedStats ==
  ASSUME StatsOK, SettledOK, NEW keys, NEW m \in Nat, NEW P \in SUBSET (1 .. m), Used(keys, P),
         UNCHANGED <<overflow_policy, clock>>
  PROVE  StatsOK'
<1> DEFINE found == {keys[i] : i \in P}
           Times(k) == Cardinality({i \in P : keys[i] = k})
           Counts(k) == settled.count[k] + 1 .. access_count[k] + Times(k)
<1>1. ASSUME NEW k \in Keys PROVE Times(k) \in Nat
  BY FiniteSlots, Zenon
<1>2. /\ \/ /\ overflow_policy = "EvictLeastUsed"
            /\ \E c : /\ \A k \in found : c[k] \in Counts(k)
                      /\ access_count' = [k \in Keys |-> IF k \in found THEN c[k] ELSE access_count[k]]
         \/ overflow_policy # "EvictLeastUsed" /\ access_count' = access_count
      /\ \/ /\ overflow_policy = "EvictOldest"
            /\ \E now \in [found -> settled.time .. clock] :
                 last_access' = [k \in Keys |-> IF k \in found THEN now[k] ELSE last_access[k]]
         \/ overflow_policy # "EvictOldest" /\ last_access' = last_access
  BY Zenon DEF Used
<1> HIDE DEF found, Times
<1>3. access_count' \in [Keys -> Nat]
  <2>1. ASSUME NEW c, \A k \in found : c[k] \in Counts(k),
               access_count' = [k \in Keys |-> IF k \in found THEN c[k] ELSE access_count[k]]
        PROVE  access_count' \in [Keys -> Nat]
    <3>1. ASSUME NEW k \in Keys, k \in found PROVE c[k] \in Nat
      BY <1>1, <2>1, <3>1 DEF StatsOK, SettledOK
    <3> QED BY <2>1, <3>1 DEF StatsOK
  <2> QED BY <1>2, <2>1, Zenon DEF StatsOK
<1>4. last_access' \in [Keys -> Nat]
  <2>1. ASSUME NEW now \in [found -> settled.time .. clock],
               last_access' = [k \in Keys |-> IF k \in found THEN now[k] ELSE last_access[k]]
        PROVE  last_access' \in [Keys -> Nat]
    <3>1. ASSUME NEW k \in found PROVE now[k] \in Nat
      BY <2>1, <3>1 DEF StatsOK, SettledOK
    <3> QED BY <2>1, <3>1 DEF StatsOK
  <2> QED BY <1>2, <2>1, Zenon DEF StatsOK
<1>5. StatsOfPolicy'
  BY <1>2, Zenon DEF StatsOK, StatsOfPolicy
<1> QED BY <1>3, <1>4, <1>5, Zenon DEF StatsOK

(* A step that changes neither the partitions nor the running insert. *)
Quiet ==
  /\ UNCHANGED <<overflow_policy, entries, slot, num_slots, value_slots, memory, insertion>>
  /\ StatsOK' /\ table' \in Tables

(* The indices of a fetch are positions of its keys. *)
IndicesFrom(keys, n) == [j \in 1 .. Len(keys) + 1 - n |-> n + j - 1]

LEMMA FetchQuiet ==
  ASSUME IInv, NEW keys \in Requests, NEW n \in 1 .. Len(keys), Fetch(keys, IndicesFrom(keys, n))
  PROVE  Quiet
<1> DEFINE indices == IndicesFrom(keys, n)
           P == {indices[j] : j \in DOMAIN indices}
<1>1. Len(keys) \in Nat
  BY HashMapAssumption
<1>2. P \in SUBSET (1 .. Len(keys))
  BY <1>1 DEF IndicesFrom
<1> HIDE DEF P
<1>3. Used(keys, P \ result'.missed) /\ UNCHANGED <<content, clock, insertion, settled>>
  BY Zenon DEF Fetch, P
<1>4. P \ result'.missed \in SUBSET (1 .. Len(keys))
  BY <1>2, Zenon
<1>5. StatsOK /\ SettledOK /\ table \in Tables
  BY InvParts, Zenon
<1>6. UNCHANGED <<overflow_policy, clock>>
  BY <1>3, Zenon DEF content
<1>7. StatsOK'
  BY <1>1, <1>3, <1>4, <1>5, <1>6, UsedStats, Zenon
<1> QED BY <1>3, <1>5, <1>7, Zenon DEF Quiet, content

LEMMA OtherQuiet ==
  ASSUME IInv
  PROVE  /\ UNCHANGED vars => Quiet
         /\ Tick => Quiet
         /\ Return => Quiet
         /\ Dump => Quiet
         /\ InsertNothing => Quiet
         /\ InsertRejected => Quiet
         /\ \A keys : Contains(keys) => Quiet
         /\ \A keys, indices : FetchAbsent(keys, indices) => Quiet
         /\ \A keys, indices : FetchBlank(keys, indices) => Quiet
         /\ \A keys : DivideByZero(keys) => Quiet
<1>1. StatsOK /\ table \in Tables
  BY InvParts, Zenon
<1>2. ASSUME UNCHANGED <<overflow_policy, entries, slot, num_slots, value_slots, memory, insertion,
                         stats, clock>>, table' \in {table, "absent", "blank", "ready"}
      PROVE  Quiet
  BY <1>1, <1>2, SameStats, Zenon DEF Quiet, Tables
<1>3. ASSUME Tick PROVE Quiet
  <2>1. UNCHANGED <<content, stats, insertion>> /\ clock' = clock + 1
    BY <1>3, Zenon DEF Tick
  <2>2. clock' \in Nat
    BY <1>1, <2>1 DEF StatsOK
  <2> QED BY <1>1, <2>1, <2>2, Zenon DEF Quiet, StatsOK, StatsOfPolicy, content, stats
<1>4. UNCHANGED vars => Quiet
  BY <1>2, Zenon DEF vars, content
<1>5. (Return => Quiet) /\ (Dump => Quiet)
  BY <1>2, Zenon DEF Return, Dump, content
<1>6. (InsertNothing => Quiet) /\ (InsertRejected => Quiet)
  BY <1>2, Zenon DEF InsertNothing, InsertRejected
<1>7. \A keys : Contains(keys) => Quiet
  BY <1>2, Zenon DEF Contains, content
<1>8. \A keys, indices : FetchAbsent(keys, indices) => Quiet
  BY <1>2, Zenon DEF FetchAbsent, content
<1>9. \A keys, indices : FetchBlank(keys, indices) => Quiet
  BY <1>2, Zenon DEF FetchBlank, content
<1>10. \A keys : DivideByZero(keys) => Quiet
  BY <1>2, Zenon DEF DivideByZero
<1> QED BY <1>3, <1>4, <1>5, <1>6, <1>7, <1>8, <1>9, <1>10, Zenon

-------------------------------------------------------------------------------
(* The kinds of steps *)

LEMMA StepKinds ==
  ASSUME IInv, [Next]_vars
  PROVE  \/ Quiet
         \/ \E r \in Inserts : Insert(r.keys, r.values)
         \/ \E p \in Parts : InsertCheck(p) \/ ResolveOverflow(p) \/ InsertKey(p) \/ InsertScanned(p)
         \/ InsertReturns
         \/ \E keys \in Requests : EvictKeys(keys)
         \/ EvictTable
<1>1. ASSUME NEW keys \in Requests, Read(keys) PROVE Quiet
  <2>1. CASE Contains(keys)
    BY <2>1, OtherQuiet, Zenon
  <2>2. ASSUME NEW n \in 1 .. Len(keys),
               \/ Fetch(keys, IndicesFrom(keys, n)) \/ FetchAbsent(keys, IndicesFrom(keys, n))
               \/ FetchBlank(keys, IndicesFrom(keys, n)) \/ DivideByZero(IndicesFrom(keys, n))
        PROVE  Quiet
    BY <1>1, <2>2, FetchQuiet, OtherQuiet, Zenon
  <2> QED BY <1>1, <2>1, <2>2, Zenon DEF Read, IndicesFrom
<1> QED BY <1>1, OtherQuiet, Zenon DEF Next, InsertStep

LEMMA InitInv == Init => IInv
<1> SUFFICES ASSUME Init PROVE IInv
  OBVIOUS
<1>1. ContentOK
  BY DEF Init, ContentOK
<1>2. SlotsOwned
  <2>1. ASSUME NEW p \in Parts PROVE PartOwned(p)
    <3>1. entries[p] = {} /\ value_slots[p] = {} /\ num_slots[p] = 0
      BY <2>1, Zenon DEF Init
    <3>2. Cardinality({}) = 0 /\ 0 + 0 = 0
      BY FS_EmptySet
    <3> QED BY <3>1, <3>2, Zenon DEF PartOwned
  <2> QED BY <2>1, Zenon DEF SlotsOwned
<1>3. StatsOK /\ SettledOK
  BY DEF Init, StatsOK, StatsOfPolicy, SettledOK
<1>4. CallOK
  BY DEF Init, CallOK, NoCall
<1>5. OverflowBounded
  <2>1. 0 < overflow_margin + max_batch_size
    BY HashMapAssumption
  <2>2. "done" # "batch" /\ "done" \notin {"overflow", "batch"}
    OBVIOUS
  <2>3. \A p \in Parts : entries[p] = {} /\ part_pc[p] = "done"
    BY Zenon DEF Init
  <2> QED BY <2>1, <2>2, <2>3, FS_EmptySet, Zenon DEF OverflowBounded
<1>6. InProgress
  BY NoCallProgress, Zenon DEF Init, InProgress
<1> QED BY <1>1, <1>2, <1>3, <1>4, <1>5, <1>6, InvParts, Zenon DEF Init, Tables

(* Only a holder of the exclusive lock settles the statistics. *)
LEMMA SettledKinds ==
  ASSUME [Next]_vars PROVE settled' = settled \/ Release
<1>1. ASSUME NEW keys, Read(keys) PROVE settled' = settled
  BY <1>1, Zenon DEF Read, Fetch, FetchAbsent, FetchBlank, DivideByZero, Contains
<1>2. ASSUME InsertStep PROVE settled' = settled \/ Release
  BY <1>2, Zenon DEF InsertStep, InsertCheck, ResolveOverflow, InsertKey, InsertScanned, InsertReturns
<1>3. ASSUME Tick \/ Return \/ Dump \/ InsertNothing \/ InsertRejected \/ EvictTable \/ UNCHANGED vars
      PROVE  settled' = settled \/ Release
  BY <1>3, Zenon DEF Tick, Return, Dump, InsertNothing, InsertRejected, EvictTable, vars
<1>4. ASSUME NEW keys, EvictKeys(keys) \/ DivideByZero(keys)
      PROVE  settled' = settled \/ Release
  BY <1>4, Zenon DEF EvictKeys, DivideByZero
<1>5. ASSUME NEW r, Insert(r.keys, r.values) PROVE settled' = settled
  BY <1>5, Zenon DEF Insert
<1> QED BY <1>1, <1>2, <1>3, <1>4, <1>5, Zenon DEF Next

LEMMA NextInv == IInv /\ [Next]_vars => IInv'
<1> SUFFICES ASSUME IInv, [Next]_vars PROVE IInv'
  OBVIOUS
<1>1. ASSUME Quiet PROVE BaseInv'
  BY <1>1, QuietStep, Zenon DEF Quiet
<1>2. BaseInv'
  BY <1>1, StepKinds, InsertInv, InsertCheckInv, ResolveOverflowInv, InsertKeyInv,
     InsertScannedInv, InsertReturnsInv, EvictKeysInv, EvictTableInv, Zenon
<1>3. StatsOK /\ SettledOK /\ StatsOK'
  BY <1>2, InvParts, Zenon DEF BaseInv
<1>4. SettledOK'
  <2>1. CASE settled' = settled
    BY <1>3, <2>1, Zenon DEF SettledOK
  <2>2. CASE Release
    BY <1>3, <2>2 DEF SettledOK, StatsOK, Release
  <2> QED BY <2>1, <2>2, SettledKinds, Zenon
<1> QED BY <1>2, <1>4, InvBase, Zenon

(* Whatever calls insert, evict and overflow: each slot of the value pages *)
(* of a partition belongs to one of its keys or is free, and a partition   *)
(* exceeds overflow_margin by less than a batch.                           *)
THEOREM InvariantHolds == Spec => []IInv
<1> QED BY InitInv, NextInv, PTL DEF Spec

-------------------------------------------------------------------------------
(* What is stored *)

LEMMA WritesStep ==
  ASSUME IInv, [Next]_vars
  PROVE  /\ \A k \in Keys : Stored'[k] \notin {Stored[k], NoValue} => Given(k, Stored'[k])
         /\ (call # NoCall /\ call' = NoCall) =>
              \A i \in DOMAIN call.keys :
                LET k == call.keys[i] IN Stored[k] = NoValue \/ Given(k, Stored[k])
<1> DEFINE Kept == \A k \in Keys : Stored'[k] \in {Stored[k], NoValue}
           NotOver == call # NoCall /\ call' = NoCall => DOMAIN call.keys = {}
<1>1. ContentOK /\ SlotsOwned /\ CallOK
  BY InvParts, Zenon
<1>2. CASE Kept /\ NotOver
  BY <1>2, Zenon
<1>3. CASE Quiet
  <2>1. Stored' = Stored /\ call' = call
    BY <1>1, <1>3, SameContent, Zenon DEF Quiet, insertion
  <2> QED BY <1>2, <2>1, Zenon
<1>4. ASSUME NEW r \in Inserts, Insert(r.keys, r.values)
      PROVE  Kept /\ NotOver
  <2>1. Unlocked /\ UNCHANGED <<entries, slot, num_slots, value_slots, memory>>
    BY <1>4, Zenon DEF Insert
  <2>2. Stored' = Stored /\ call = NoCall
    BY <1>1, <2>1, SameContent, UnlockedIdle, Zenon
  <2> QED BY <2>2, Zenon
<1>5. ASSUME NEW p \in Parts, InsertCheck(p) \/ InsertScanned(p)
      PROVE  Kept /\ NotOver
  <2>1. call' = call /\ UNCHANGED <<entries, slot, num_slots, value_slots, memory>>
    BY <1>5, Zenon DEF InsertCheck, InsertScanned, content
  <2>2. Stored' = Stored
    BY <1>1, <2>1, SameContent, Zenon
  <2> QED BY <2>1, <2>2, Zenon
<1>6. ASSUME NEW p \in Parts, ResolveOverflow(p)
      PROVE  Kept /\ NotOver
  <2>1. PICK ks \in Victims(p) : Erase(ks)
    BY <1>6, Zenon DEF ResolveOverflow
  <2>2. num_slots' = num_slots /\ memory' = memory /\ call' = call
    BY <1>6, Zenon DEF ResolveOverflow
  <2>3. ks \in SUBSET Keys
    BY <1>1, <1>6, Zenon DEF Victims, ContentOK
  <2>4. \A k \in Keys : Stored'[k] = IF k \in ks THEN NoValue ELSE Stored[k]
    BY <1>1, <2>1, <2>2, <2>3, EraseOwned, Zenon
  <2> QED BY <2>2, <2>4, Zenon
<1>7. ASSUME NEW p \in Parts, InsertKey(p)
      PROVE  /\ \A k \in Keys : Stored'[k] \notin {Stored[k], NoValue} => Given(k, Stored'[k])
             /\ NotOver
  <2>1. PICK i \in DOMAIN call.keys :
          /\ \A k \in Keys : Stored'[k] = IF k = call.keys[i] THEN call.values[i] ELSE Stored[k]
          /\ call'.keys = call.keys
    BY <1>7, InsertKeyWrites, Zenon
  <2>2. DOMAIN NoCall.keys = {}
    BY DEF NoCall
  <2> QED BY <2>1, <2>2, Zenon DEF Given
<1>8. ASSUME InsertReturns
      PROVE  /\ Kept
             /\ \A i \in DOMAIN call.keys :
                  LET k == call.keys[i] IN Stored[k] = NoValue \/ Given(k, Stored[k])
  <2>1. /\ UNCHANGED <<entries, slot, num_slots, value_slots, memory>>
        /\ \A p \in Parts : part_pc[p] = "done"
    BY <1>8, Zenon DEF InsertReturns, content, Locked
  <2>2. Stored' = Stored
    BY <1>1, <2>1, SameContent, Zenon
  <2>3. \A i \in DOMAIN call.keys : call.keys[i] \in Keys
    BY <1>1 DEF CallOK
  <2>4. InProgress
    BY InvParts, Zenon
  <2> QED BY <2>1, <2>2, <2>3, <2>4, KeyPart, Zenon DEF InProgress, Progress, Given
<1>9. ASSUME (\E keys \in Requests : EvictKeys(keys)) \/ EvictTable
      PROVE  Kept /\ NotOver
  <2>1. call' = call
    BY <1>9, Zenon DEF EvictKeys, EvictTable, insertion
  <2> QED BY <1>9, <2>1, EvictKeysInv, EvictTableInv, Zenon
<1> QED BY <1>2, <1>3, <1>4, <1>5, <1>6, <1>7, <1>8, <1>9, StepKinds, Zenon

(* The value of a key changes only to one that a running insert gives it,  *)
(* and when the insert returns each of its keys has such a value, or none. *)
THEOREM InsertsWriteHolds == Spec => InsertsWrite
<1>1. IInv /\ [Next]_vars =>
        [/\ \A k \in Keys : Stored'[k] \notin {Stored[k], NoValue} => Given(k, Stored'[k])
         /\ (call # NoCall /\ call' = NoCall) =>
              \A i \in DOMAIN call.keys :
                LET k == call.keys[i] IN Stored[k] = NoValue \/ Given(k, Stored[k])]_vars
  BY WritesStep, Zenon
<1> QED BY <1>1, InvariantHolds, PTL DEF Spec, InsertsWrite

-------------------------------------------------------------------------------
(* Direct fetches *)

(* A key is stored exactly if its partition has it. *)
LEMMA StoredExactly ==
  ASSUME ContentOK, SlotsOwned, NEW k \in Keys
  PROVE  /\ Stored[k] = NoValue <=> k \notin entries[PartOf(k)]
         /\ k \in entries[PartOf(k)] => Stored[k] = memory[PartOf(k)][slot[k]]
<1>1. PartOf(k) \in Parts
  BY KeyPart, Zenon
<1>2. k \in entries[PartOf(k)] => memory[PartOf(k)][slot[k]] \in Values
  BY <1>1, Zenon DEF SlotsOwned, PartOwned
<1> QED BY <1>2, HashMapAssumption, Zenon DEF Stored

LEMMA Identical == ASSUME NEW S, NEW f, \A j \in S : f[j] = j PROVE Image(f, S) = S
BY DEF Image

Exact(keys, r) ==
  /\ r.missed = {i \in DOMAIN keys : Stored[keys[i]] = NoValue} \cup r.skipped
  /\ \A i \in DOMAIN keys \ r.missed : r.values[i] = Stored[keys[i]]
  /\ r.hit_count + Cardinality(r.missed) = Len(keys)

LEMMA FetchExact ==
  ASSUME IInv, NEW keys \in Requests, NEW indices, NEW batches,
         NEW r, r = FetchResult(keys, indices, batches), indices = Positions(keys)
  PROVE  Exact(keys, r)
<1> DEFINE L == Len(keys)
           Part(j) == Searched(keys, indices, j)
           S == {j \in 1 .. L : Rank(keys, indices, j) > batches[Part(j)] * max_batch_size}
           H == {j \in 1 .. L \ S : keys[indices[j]] \in entries[Part(j)]}
           H2 == {j \in 1 .. L \ S : keys[j] \in entries[PartOf(keys[j])]}
<1>1. /\ L \in Nat /\ DOMAIN keys = 1 .. L /\ keys \in Seq(Keys)
      /\ \A j \in 1 .. L : keys[j] \in Keys
  BY HashMapAssumption
<1>2. Len(indices) = L /\ \A j \in 1 .. L : indices[j] = j
  BY <1>1 DEF Positions
<1>3. \A j \in 1 .. L : Part(j) = PartOf(keys[j])
  <2>1. ASSUME NEW j \in 1 .. L, L = 1 PROVE j = 1
    BY <2>1
  <2> QED BY <1>2, <2>1, Zenon DEF Searched
<1>4. /\ r.skipped = {indices[j] : j \in S}
      /\ r.missed = {indices[j] : j \in 1 .. L \ H}
      /\ r.values = [i \in DOMAIN keys |->
                       IF \E j \in H : indices[j] = i
                       THEN memory[PartOf(keys[i])][slot[keys[i]]] ELSE NoValue]
      /\ r.hit_count = Cardinality(H)
  <2>1. r = [op |-> "fetch", keys |-> keys, indices |-> indices,
             skipped |-> {indices[j] : j \in S},
             missed |-> {indices[j] : j \in 1 .. L \ H},
             values |-> [i \in DOMAIN keys |->
                           IF \E j \in H : indices[j] = i
                           THEN memory[PartOf(keys[i])][slot[keys[i]]] ELSE NoValue],
             hit_count |-> Cardinality(H)]
    BY <1>2, Zenon DEF FetchResult
  <2> HIDE DEF S, H
  <2> QED BY <2>1
<1>5. H = H2
  BY <1>2, <1>3, Zenon
<1>6. S \subseteq 1 .. L
  BY Zenon
<1> HIDE DEF S, H, Part
<1>7. r.skipped = S /\ r.missed = 1 .. L \ H
  <2>1. r.skipped = S
    <3>1. \A j \in S : indices[j] = j
      BY <1>2, <1>6, Zenon
    <3>2. Image(indices, S) = S
      BY <3>1, Identical, Zenon
    <3> QED BY <1>4, <3>2, Zenon DEF Image
  <2>2. r.missed = 1 .. L \ H
    <3>1. \A j \in 1 .. L \ H : indices[j] = j
      BY <1>2, Zenon
    <3>2. Image(indices, 1 .. L \ H) = 1 .. L \ H
      BY <3>1, Identical, Zenon
    <3> QED BY <1>4, <3>2, Zenon DEF Image
  <2> QED BY <2>1, <2>2, Zenon
<1>8. \A j \in 1 .. L : /\ Stored[keys[j]] = NoValue <=> keys[j] \notin entries[PartOf(keys[j])]
                        /\ keys[j] \in entries[PartOf(keys[j])] =>
                             Stored[keys[j]] = memory[PartOf(keys[j])][slot[keys[j]]]
  BY <1>1, InvParts, StoredExactly, Zenon
<1>9. \A j : j \in H <=> j \in 1 .. L /\ j \notin S /\ keys[j] \in entries[PartOf(keys[j])]
  BY <1>5, Zenon
<1>10. r.missed = {i \in DOMAIN keys : Stored[keys[i]] = NoValue} \cup r.skipped
  BY <1>1, <1>6, <1>7, <1>8, <1>9, Zenon
<1>11. ASSUME NEW i \in DOMAIN keys \ r.missed PROVE r.values[i] = Stored[keys[i]]
  <2>1. i \in 1 .. L /\ i \in H /\ indices[i] = i
    BY <1>1, <1>2, <1>7, <1>11, Zenon
  <2>2. r.values[i] = memory[PartOf(keys[i])][slot[keys[i]]]
    <3>1. r.values[i] = IF \E j \in H : indices[j] = i
                        THEN memory[PartOf(keys[i])][slot[keys[i]]] ELSE NoValue
      BY <1>4, <1>11, Zenon
    <3> QED BY <2>1, <3>1, Zenon
  <2> QED BY <1>8, <1>9, <2>1, <2>2, Zenon
<1>12. r.hit_count + Cardinality(r.missed) = Len(keys)
  <2>1. IsFiniteSet(1 .. L) /\ Cardinality(1 .. L) = L
    <3>1. 1 \in Int /\ L \in Int
      BY <1>1
    <3>2. IsFiniteSet(1 .. L) /\ Cardinality(1 .. L) = IF 1 > L THEN 0 ELSE L - 1 + 1
      BY <3>1, FS_Interval, Zenon
    <3> QED BY <1>1, <3>2
  <2>2. (1 .. L) \cap H = H
    BY <1>9, Zenon
  <2>3. Cardinality(1 .. L \ H) = L - Cardinality(H)
    <3>1. Cardinality(1 .. L \ H) = Cardinality(1 .. L) - Cardinality((1 .. L) \cap H)
      BY <2>1, FS_Difference, Zenon
    <3> QED BY <2>1, <2>2, <3>1, Zenon
  <2>4. Cardinality(H) \in Nat
    BY <1>1, <1>9, FiniteSlots, Zenon
  <2>5. Cardinality(H) + Cardinality(1 .. L \ H) = L
    BY <1>1, <2>3, <2>4
  <2> QED BY <1>4, <1>7, <2>5, Zenon
<1> QED BY <1>10, <1>11, <1>12, Zenon DEF Exact

(* Only fetch answers with the result of a fetch. *)
LEMMA FetchOnly ==
  ASSUME Next, result' # result, result'.op = "fetch", table = "ready"
  PROVE  \E keys \in Requests : \E n \in 1 .. Len(keys) : Fetch(keys, IndicesFrom(keys, n))
<1>1. ~Tick /\ ~InsertRejected /\ ~EvictTable
  BY Zenon DEF Tick, InsertRejected, EvictTable
<1>2. /\ \A keys : ~EvictKeys(keys)
      /\ \A keys, values : ~Insert(keys, values)
      /\ \A p \in Parts : ~InsertCheck(p) /\ ~ResolveOverflow(p) /\ ~InsertKey(p) /\ ~InsertScanned(p)
  BY Zenon DEF EvictKeys, Insert, InsertCheck, ResolveOverflow, InsertKey, InsertScanned
<1>3. ~Return /\ ~InsertReturns /\ ~InsertNothing
  BY DEF Return, NoResult, InsertReturns, InsertNothing
<1>4. ~Dump
  <2> SUFFICES ASSUME Dump PROVE FALSE
    OBVIOUS
  <2>1. PICK pairs : result' = [op |-> "dump", pairs |-> pairs]
    BY Zenon DEF Dump
  <2> QED BY <2>1
<1>5. \A keys : ~Contains(keys)
  <2> SUFFICES ASSUME NEW keys, Contains(keys) PROVE FALSE
    BY Zenon
  <2>1. PICK c : result' = [op |-> "contains", keys |-> keys, hit_count |-> c]
    BY Zenon DEF Contains
  <2> QED BY <2>1
<1>6. \A keys, indices : ~FetchAbsent(keys, indices) /\ ~FetchBlank(keys, indices) /\ ~DivideByZero(keys)
  <2>1. "ready" # "absent" /\ "ready" # "blank"
    OBVIOUS
  <2> QED BY <2>1, Zenon DEF FetchAbsent, FetchBlank, DivideByZero
<1>7. PICK keys \in Requests : Read(keys)
  BY <1>1, <1>2, <1>3, <1>4, <1>6, Zenon DEF Next, InsertStep
<1> QED BY <1>5, <1>6, <1>7, Zenon DEF Read, IndicesFrom

LEMMA FetchStep ==
  ASSUME IInv, Next, result' # result, result'.op = "fetch", table = "ready",
         result'.indices = Positions(result'.keys)
  PROVE  LET r == result'
         IN  /\ r.missed = {i \in DOMAIN r.keys : Stored[r.keys[i]] = NoValue} \cup r.skipped
             /\ \A i \in DOMAIN r.keys \ r.missed : r.values[i] = Stored[r.keys[i]]
             /\ r.hit_count + Cardinality(r.missed) = Len(r.keys)
<1>7. PICK keys \in Requests : \E n \in 1 .. Len(keys) : Fetch(keys, IndicesFrom(keys, n))
  BY FetchOnly, Zenon
<1>8. PICK n \in 1 .. Len(keys) : Fetch(keys, IndicesFrom(keys, n))
  BY <1>7, Zenon
<1> DEFINE indices == IndicesFrom(keys, n)
<1>9. PICK batches : result' = FetchResult(keys, indices, batches)
  BY <1>8, Zenon DEF Fetch
<1> HIDE DEF indices
<1>10. result'.keys = keys /\ result'.indices = indices
  <2>1. PICK skipped, missed, found, count :
          result' = [op |-> "fetch", keys |-> keys, indices |-> indices, skipped |-> skipped,
                     missed |-> missed, values |-> found, hit_count |-> count]
    BY <1>9, Zenon DEF FetchResult
  <2> QED BY <2>1
<1>11. result' = FetchResult(result'.keys, result'.indices, batches) /\ result'.keys \in Requests
  BY <1>9, <1>10, Zenon
<1>12. Exact(result'.keys, result')
  BY <1>11, FetchExact, Zenon
<1> QED BY <1>12, Zenon DEF Exact

(* A direct fetch fills in what is stored or reports the index as missed,  *)
(* and misses only what is absent or what it had no time for.              *)
THEOREM FetchIsExactHolds == Spec => FetchIsExact
<1>1. IInv /\ [Next]_vars =>
        [result' # result /\ result'.op = "fetch" /\ table = "ready"
         /\ result'.indices = Positions(result'.keys) =>
           LET r == result'
           IN  /\ r.missed = {i \in DOMAIN r.keys : Stored[r.keys[i]] = NoValue} \cup r.skipped
               /\ \A i \in DOMAIN r.keys \ r.missed : r.values[i] = Stored[r.keys[i]]
               /\ r.hit_count + Cardinality(r.missed) = Len(r.keys)]_vars
  BY FetchStep, Zenon
<1> QED BY <1>1, InvariantHolds, PTL DEF Spec, FetchIsExact

-------------------------------------------------------------------------------
(* The order of evictions.  What callers see of the use of the keys bounds *)
(* the statistics that an overflow goes by.                                *)

LEMMA EvictsStep ==
  ASSUME IInv, [Next]_vars, NEW p \in Parts, part_pc[p] = "overflow",
         NEW j \in entries[p] \ entries'[p], NEW k \in entries'[p]
  PROVE  /\ j \in entries[p] /\ k \in entries[p]
         /\ PartOf(j) = p /\ PartOf(k) = p /\ j \in Keys /\ k \in Keys
         /\ Precedes(j, k)
<1>1. ContentOK /\ SlotsOwned /\ CallOK /\ StatsOK
  BY InvParts, Zenon
<1>2. entries'[p] # entries[p] /\ ~Unlocked
  BY <1>1, UnlockedIdle, Zenon
<1>3. ~Quiet
  BY <1>2, Zenon DEF Quiet
<1>4. ~InsertReturns /\ ~EvictTable /\ \A keys \in Requests : ~EvictKeys(keys)
  BY <1>2, Zenon DEF InsertReturns, EvictTable, EvictKeys, content
<1>5. \A r \in Inserts : ~Insert(r.keys, r.values)
  BY <1>2, Zenon DEF Insert
<1>6. \A q \in Parts : ~InsertCheck(q) /\ ~InsertScanned(q)
  BY <1>2, Zenon DEF InsertCheck, InsertScanned, content
<1>7. \A q \in Parts : ~InsertKey(q)
  <2> SUFFICES ASSUME NEW q \in Parts, InsertKey(q) PROVE FALSE
    BY Zenon
  <2>1. PICK i \in DOMAIN call.keys : entries' = [entries EXCEPT ![q] = @ \cup {call.keys[i]}]
    BY InsertKeyWrites, Zenon
  <2>2. entries[p] \subseteq entries'[p]
    BY <1>1, <2>1, Zenon DEF ContentOK
  <2> QED BY <2>2, Zenon
<1>8. PICK q \in Parts : ResolveOverflow(q)
  BY <1>3, <1>4, <1>5, <1>6, <1>7, StepKinds, Zenon
<1>9. PICK ks \in Victims(q) : Erase(ks)
  BY <1>8, Zenon DEF ResolveOverflow
<1>10. /\ ks \in SUBSET entries[q]
       /\ \A a \in ks, b \in entries[q] \ ks : Precedes(a, b)
  BY <1>9, Zenon DEF Victims
<1>11. entries'[p] = entries[p] \ ks
  BY <1>9, Zenon DEF Erase
<1>12. p = q
  BY <1>1, <1>10, <1>11, Zenon DEF SlotsOwned, PartOwned
<1>13. Precedes(j, k)
  BY <1>10, <1>11, <1>12, Zenon
<1>14. j \in entries[p] /\ k \in entries[p]
  BY <1>11, Zenon
<1> QED BY <1>1, <1>13, <1>14, Zenon DEF ContentOK, SlotsOwned, PartOwned

-------------------------------------------------------------------------------
(* The history *)

Note1(k) == IF k \in JustWritten THEN Unused(clock)
            ELSE IF k \notin entries'[PartOf(k)] THEN Unused(0)
            ELSE IF Cardinality({i \in Filled : result'.keys[i] = k}) > 0
                 THEN Found(k, Cardinality({i \in Filled : result'.keys[i] = k}))
            ELSE uses[k]

(* A step that is no fetch fills in nothing. *)
LEMMA NothingFilled ==
  ASSUME NEW k, Note, Filled = {}, k \in Keys
  PROVE  /\ k \in entries'[PartOf(k)] /\ k \notin JustWritten => uses'[k] = uses[k]
         /\ k \in JustWritten => uses'[k] = Unused(clock)
         /\ overflow_policy = "EvictLeastUsed" /\ UNCHANGED <<entries, insertion>> => met' = met
<1>1. {i \in Filled : result'.keys[i] = k} = {} /\ {result'.keys[i] : i \in Filled} = {}
  BY Zenon
<1>2. ~(Cardinality({}) > 0)
  BY FS_EmptySet
<1>3. uses'[k] = Note1(k)
  BY Zenon DEF Note, Note1
<1>4. overflow_policy = "EvictLeastUsed" /\ UNCHANGED <<entries, insertion>> =>
        met' = met \cup {result'.keys[i] : i \in Filled}
  BY Zenon DEF Note
<1> QED BY <1>1, <1>2, <1>3, <1>4, Zenon DEF Note1

(* Only an insert that goes on to its next key writes a key. *)
LEMMA WrittenKey ==
  ASSUME IInv, NEW p \in Parts, InsertKey(p)
  PROVE  \E i \in DOMAIN call.keys :
           /\ JustWritten = {call.keys[i]} /\ call.keys[i] \in Keys
           /\ entries' = [entries EXCEPT ![p] = @ \cup {call.keys[i]}]
           /\ Written(call.keys[i]) /\ call'.keys = call.keys
<1>1. PICK i \in pos[p] .. Len(call.keys) :
        /\ i \in DOMAIN call.keys /\ call.keys[i] \in Keys /\ PartOf(call.keys[i]) = p
        /\ pos' = [pos EXCEPT ![p] = i + 1]
        /\ entries' = [entries EXCEPT ![p] = @ \cup {call.keys[i]}]
        /\ call'.keys = call.keys
        /\ Written(call.keys[i])
  BY InsertKeyWrites, Zenon
<1>2. batch_size' = [batch_size EXCEPT ![p] = @ + 1] /\ CallOK
  BY InvParts, Zenon DEF InsertKey
<1>3. /\ batch_size'[p] = batch_size[p] + 1 /\ pos'[p] = i + 1
      /\ \A q \in Parts : q # p => batch_size'[q] = batch_size[q]
  BY <1>1, <1>2, Zenon DEF CallOK
<1>4. \A q \in Parts : batch_size[q] # batch_size[q] + 1
  BY <1>2 DEF CallOK
<1>5. {q \in Parts : batch_size'[q] = batch_size[q] + 1} = {p}
  BY <1>3, <1>4, Zenon
<1>6. pos'[p] - 1 = i
  BY <1>1, <1>2, <1>3 DEF CallOK
<1>7. JustWritten = {call.keys[i]}
  BY <1>5, <1>6, Zenon DEF JustWritten
<1> QED BY <1>1, <1>7, Zenon

LEMMA NothingWritten ==
  ASSUME CallOK, \A q \in Parts : batch_size'[q] \in {0, batch_size[q]}
  PROVE  JustWritten = {}
<1>1. \A q \in Parts : batch_size[q] \in Nat
  BY Zenon DEF CallOK
<1>2. \A q \in Parts : batch_size'[q] # batch_size[q] + 1
  BY <1>1
<1> QED BY <1>2, Zenon DEF JustWritten

(* A key whose statistics and whose use stay the same. *)
LEMMA SameTracked ==
  ASSUME NEW k \in Keys, Tracked(k), StatsOK, uses[k].periods \in Nat, overflow_policy' = overflow_policy,
         access_count'[k] = access_count[k], last_access'[k] = last_access[k],
         uses'[k] = uses[k],
         \/ call'.keys # <<>>
         \/ Release
         \/ /\ call' = call /\ settled' = settled
            /\ overflow_policy = "EvictLeastUsed" => (k \in met' <=> k \in met)
  PROVE  Tracked(k)'
<1>1. CASE overflow_policy # "EvictLeastUsed"
  BY <1>1, Zenon DEF Tracked
<1>2. CASE overflow_policy = "EvictLeastUsed"
  <2>1. /\ uses[k].periods <= access_count[k] /\ access_count[k] <= uses[k].hits
        /\ call = NoCall => IF k \in met THEN uses[k].periods <= settled.count[k] + 1
                                         ELSE uses[k].periods <= settled.count[k]
    BY <1>2, Zenon DEF Tracked
  <2>2. call' = NoCall => IF k \in met' THEN uses[k].periods <= settled'.count[k] + 1
                                         ELSE uses[k].periods <= settled'.count[k]
    <3>1. CASE call'.keys # <<>>
      BY <3>1 DEF NoCall
    <3>2. CASE Release
      <4>1. settled'.count[k] = access_count[k]
        BY <3>2 DEF Release
      <4>2. access_count[k] \in Nat
        BY Zenon DEF StatsOK
      <4> QED BY <2>1, <4>1, <4>2
    <3>3. CASE call' = call /\ settled' = settled /\ (k \in met' <=> k \in met)
      BY <2>1, <3>3, Zenon
    <3> QED BY <1>2, <3>1, <3>2, <3>3, Zenon
  <2> QED BY <1>2, <2>1, <2>2, Zenon DEF Tracked
<1> QED BY <1>1, <1>2, Zenon

(* The counts and times that a fetch may leave for a key it has found. *)
LEMMA FetchNotes ==
  ASSUME IInv, NEW keys \in Requests, NEW n \in 1 .. Len(keys), Fetch(keys, IndicesFrom(keys, n)),
         NEW k \in Keys
  PROVE  LET hits == {i \in Filled : result'.keys[i] = k}
         IN  /\ Cardinality(hits) \in Nat
             /\ hits = {} => access_count'[k] = access_count[k] /\ last_access'[k] = last_access[k]
             /\ hits # {} =>
                  /\ Cardinality(hits) > 0
                  /\ overflow_policy = "EvictLeastUsed" =>
                       access_count'[k] \in settled.count[k] + 1 .. access_count[k] + Cardinality(hits)
                  /\ overflow_policy = "EvictOldest" => last_access'[k] \in settled.time .. clock
<1> DEFINE indices == IndicesFrom(keys, n)
           P == {indices[j] : j \in DOMAIN indices}
           hits == {i \in Filled : result'.keys[i] = k}
<1>1. PICK batches : result' = FetchResult(keys, indices, batches)
  BY Zenon DEF Fetch
<1>2. /\ result = NoResult /\ table = "ready"
      /\ Used(keys, P \ result'.missed)
  BY Zenon DEF Fetch, Unlocked
<1>3. P \in SUBSET (1 .. Len(keys)) /\ Len(keys) \in Nat
  BY HashMapAssumption DEF IndicesFrom
<1> HIDE DEF indices
<1>4. result'.op = "fetch" /\ result'.keys = keys /\ result'.indices = indices
  <2>1. PICK skipped, missed, found, count :
          result' = [op |-> "fetch", keys |-> keys, indices |-> indices, skipped |-> skipped,
                     missed |-> missed, values |-> found, hit_count |-> count]
    BY <1>1, Zenon DEF FetchResult
  <2> QED BY <2>1
<1>5. Filled = P \ result'.missed
  <2>1. result' # result
    BY <1>2, <1>4 DEF NoResult
  <2> QED BY <1>2, <1>4, <2>1, Zenon DEF Filled
<1>6. Filled \in SUBSET (1 .. Len(keys)) /\ hits \in SUBSET (1 .. Len(keys))
  BY <1>3, <1>5, Zenon
<1>7. Cardinality(hits) \in Nat /\ IsFiniteSet(hits)
  BY <1>3, <1>6, FiniteSlots, Zenon
<1> DEFINE found == {keys[i] : i \in Filled}
           Counts(x) == settled.count[x] + 1 .. access_count[x] + Cardinality({i \in Filled : keys[i] = x})
<1>8. /\ \/ /\ overflow_policy = "EvictLeastUsed"
            /\ \E c : /\ \A x \in found : c[x] \in Counts(x)
                      /\ access_count' = [x \in Keys |-> IF x \in found THEN c[x] ELSE access_count[x]]
         \/ overflow_policy # "EvictLeastUsed" /\ access_count' = access_count
      /\ \/ /\ overflow_policy = "EvictOldest"
            /\ \E now \in [found -> settled.time .. clock] :
                 last_access' = [x \in Keys |-> IF x \in found THEN now[x] ELSE last_access[x]]
         \/ overflow_policy # "EvictOldest" /\ last_access' = last_access
  <2>1. Used(keys, Filled)
    BY <1>2, <1>5, Zenon
  <2> QED BY <2>1, Zenon DEF Used
<1>9. k \in found <=> hits # {}
  BY <1>4, Zenon
<1>10. hits = {i \in Filled : keys[i] = k}
  BY <1>4, Zenon
<1> HIDE DEF found, hits, P
<1>11. hits # {} => Cardinality(hits) > 0
  <2>1. hits # {} => Cardinality(hits) # 0
    BY <1>7, FS_EmptySet, Zenon
  <2> QED BY <1>7, <2>1
<1>12. hits = {} => access_count'[k] = access_count[k] /\ last_access'[k] = last_access[k]
  BY <1>8, <1>9, Zenon
<1>13. hits # {} /\ overflow_policy = "EvictLeastUsed" => access_count'[k] \in Counts(k)
  BY <1>8, <1>9, Zenon
<1>14. hits # {} /\ overflow_policy = "EvictOldest" => last_access'[k] \in settled.time .. clock
  BY <1>8, <1>9, Zenon
<1> QED BY <1>7, <1>10, <1>11, <1>12, <1>13, <1>14, Zenon DEF hits

LEMMA CountFields ==
  ASSUME NEW u \in [hits : Nat, periods : Nat, since : Nat, at : Nat], NEW h \in Nat, NEW q \in Nat,
         NEW w, w = [u EXCEPT !.hits = h, !.periods = q]
  PROVE  /\ w.hits = h /\ w.periods = q
         /\ w \in [hits : Nat, periods : Nat, since : Nat, at : Nat]
OBVIOUS

(* A fetch raises both bounds on the statistics of the keys that it finds. *)
LEMMA FetchTracked ==
  ASSUME IInv, UsesInv, Note, NEW keys \in Requests, NEW n \in 1 .. Len(keys),
         Fetch(keys, IndicesFrom(keys, n)), NEW k \in Keys, k \in entries'[PartOf(k)]
  PROVE  Tracked(k)' /\ uses'[k] \in [hits : Nat, periods : Nat, since : Nat, at : Nat]
<1> DEFINE hits == {i \in Filled : result'.keys[i] = k}
<1>1. /\ Cardinality(hits) \in Nat
      /\ hits = {} => access_count'[k] = access_count[k] /\ last_access'[k] = last_access[k]
      /\ hits # {} =>
           /\ Cardinality(hits) > 0
           /\ overflow_policy = "EvictLeastUsed" =>
                access_count'[k] \in settled.count[k] + 1 .. access_count[k] + Cardinality(hits)
           /\ overflow_policy = "EvictOldest" => last_access'[k] \in settled.time .. clock
  BY FetchNotes, Zenon
<1>2. UNCHANGED <<content, settled, clock, insertion>> /\ Unlocked
  BY Zenon DEF Fetch
<1>3. UNCHANGED <<overflow_policy, entries, call, batch_size>>
  BY <1>2, Zenon DEF content, insertion
<1>4. StatsOK /\ CallOK /\ SettledOK /\ call = NoCall
  BY <1>2, InvParts, UnlockedIdle, Zenon
<1>5. JustWritten = {}
  BY <1>3, <1>4, NothingWritten, Zenon
<1>6. k \in entries[PartOf(k)] /\ Tracked(k)
  BY <1>3, Zenon DEF UsesInv
<1>7. uses'[k] = Note1(k)
  BY Zenon DEF Note, Note1
<1>8. overflow_policy = "EvictLeastUsed" =>
        met' = met \cup {result'.keys[i] : i \in Filled}
  BY <1>2, <1>3, Zenon DEF Note
<1>9. /\ uses[k] \in [hits : Nat, periods : Nat, since : Nat, at : Nat]
      /\ access_count[k] \in Nat /\ settled.count[k] \in Nat /\ settled.time \in Nat /\ clock \in Nat
  BY <1>4, Zenon DEF UsesInv, StatsOK, SettledOK
<1>10. CASE hits = {}
  <2>1. uses'[k] = uses[k]
    <3>1. ~(Cardinality({}) > 0)
      BY FS_EmptySet
    <3> QED BY <1>5, <1>7, <1>10, <3>1, Zenon DEF Note1
  <2>2. overflow_policy = "EvictLeastUsed" => (k \in met' <=> k \in met)
    BY <1>8, <1>10, Zenon
  <2>3. uses[k].periods \in Nat
    BY <1>9
  <2>4. Tracked(k)'
    BY <1>1, <1>2, <1>3, <1>4, <1>6, <1>10, <2>1, <2>2, <2>3, SameTracked, Zenon
  <2> QED BY <1>9, <2>1, <2>4, Zenon
<1>11. CASE hits # {}
  <2>1. uses'[k] = Found(k, Cardinality(hits))
    BY <1>1, <1>5, <1>7, <1>11, Zenon DEF Note1
  <2> DEFINE c == Cardinality(hits)
  <2> HIDE DEF hits
  <2>2. CASE overflow_policy = "EvictLeastUsed"
    <3>1. uses'[k] = [uses[k] EXCEPT !.hits = @ + c, !.periods = IF k \in met THEN @ ELSE @ + 1]
      BY <2>1, <2>2 DEF Found
    <3>2. /\ uses'[k].hits = uses[k].hits + c
          /\ uses'[k].periods = IF k \in met THEN uses[k].periods ELSE uses[k].periods + 1
          /\ uses'[k] \in [hits : Nat, periods : Nat, since : Nat, at : Nat]
      <4> DEFINE h == uses[k].hits + c
                 q == IF k \in met THEN uses[k].periods ELSE uses[k].periods + 1
      <4>1. uses[k].hits \in Nat /\ uses[k].periods \in Nat
        BY <1>9
      <4>2. h \in Nat /\ q \in Nat
        BY <1>1, <4>1
      <4>3. uses'[k] = [uses[k] EXCEPT !.hits = h, !.periods = q]
        BY <3>1, Zenon
      <4> HIDE DEF h, q
      <4>4. /\ uses'[k].hits = h /\ uses'[k].periods = q
            /\ uses'[k] \in [hits : Nat, periods : Nat, since : Nat, at : Nat]
        BY <1>9, <4>2, <4>3, CountFields, Zenon
      <4> QED BY <4>4, Zenon DEF h, q
    <3>3. /\ uses[k].periods <= access_count[k] /\ access_count[k] <= uses[k].hits
          /\ IF k \in met THEN uses[k].periods <= settled.count[k] + 1
                          ELSE uses[k].periods <= settled.count[k]
      BY <1>4, <1>6, <2>2, Zenon DEF Tracked
    <3>4. access_count'[k] \in settled.count[k] + 1 .. access_count[k] + c
      BY <1>1, <1>11, <2>2, Zenon
    <3>5. /\ uses'[k].periods <= settled.count[k] + 1
          /\ uses'[k].periods <= access_count'[k] /\ access_count'[k] <= uses'[k].hits
      <4>1. uses[k].periods \in Nat /\ uses[k].hits \in Nat /\ c \in Nat
        BY <1>1, <1>9
      <4>2. access_count'[k] \in Int /\ settled.count[k] + 1 <= access_count'[k]
            /\ access_count'[k] <= access_count[k] + c
        BY <1>9, <3>4, <4>1
      <4>3. uses'[k].periods \in Nat /\ uses'[k].hits = uses[k].hits + c
        BY <3>2
      <4>4. uses'[k].periods <= settled.count[k] + 1
        <5>1. CASE k \in met
          BY <3>2, <3>3, <5>1, Zenon
        <5>2. CASE k \notin met
          <6>1. uses'[k].periods = uses[k].periods + 1 /\ uses[k].periods <= settled.count[k]
            BY <3>2, <3>3, <5>2, Zenon
          <6> QED BY <1>9, <4>1, <6>1
        <5> QED BY <5>1, <5>2, Zenon
      <4>5. access_count[k] <= uses[k].hits
        BY <3>3, Zenon
      <4>6. PICK q \in Nat, s \in Nat, b \in Nat, h \in Nat, d \in Nat, a \in Int :
              /\ q = uses'[k].periods /\ s = settled.count[k] /\ b = access_count[k]
              /\ h = uses[k].hits /\ d = c /\ a = access_count'[k]
        BY <1>9, <4>1, <4>2, <4>3, Zenon
      <4>7. q <= s + 1 /\ s + 1 <= a /\ a <= b + d /\ b <= h
        BY <4>2, <4>4, <4>5, <4>6, Zenon
      <4>8. q <= a /\ a <= h + d
        BY <4>7
      <4> QED BY <4>3, <4>4, <4>6, <4>8, Zenon
    <3>6. k \in met'
      BY <1>8, <1>11, <2>2, Zenon DEF hits
    <3>7. overflow_policy' = "EvictLeastUsed" /\ "EvictLeastUsed" # "EvictOldest" /\ settled' = settled
      BY <1>2, <1>3, <2>2
    <3> QED BY <3>2, <3>5, <3>6, <3>7, Zenon DEF Tracked
  <2>3. CASE overflow_policy = "EvictOldest"
    <3>1. uses'[k] = [uses[k] EXCEPT !.since = settled.time, !.at = clock]
      BY <2>1, <2>3 DEF Found
    <3>2. /\ uses'[k].since = settled.time /\ uses'[k].at = clock
          /\ uses'[k] \in [hits : Nat, periods : Nat, since : Nat, at : Nat]
      BY <1>9, <3>1
    <3>3. settled.time <= last_access'[k] /\ last_access'[k] <= clock
      BY <1>1, <1>9, <1>11, <2>3
    <3>4. overflow_policy' = "EvictOldest" /\ "EvictLeastUsed" # "EvictOldest"
      BY <1>3, <2>3
    <3> QED BY <3>2, <3>3, <3>4, Zenon DEF Tracked
  <2>4. CASE overflow_policy \notin {"EvictLeastUsed", "EvictOldest"}
    <3>1. uses'[k] = uses[k]
      BY <2>1, <2>4, Zenon DEF Found
    <3> QED BY <1>3, <1>9, <2>4, <3>1, Zenon DEF Tracked
  <2> QED BY <2>2, <2>3, <2>4, Zenon
<1> QED BY <1>10, <1>11, Zenon

(* A step other than a fetch keeps the bounds on the statistics of a key   *)
(* that it does not write.                                                 *)
LEMMA OtherTracked ==
  ASSUME IInv, UsesInv, [Next]_vars, Note, Filled = {}, NEW k \in Keys, k \in entries'[PartOf(k)],
         k \notin JustWritten,
         k \in entries[PartOf(k)], overflow_policy' = overflow_policy,
         access_count'[k] = access_count[k], last_access'[k] = last_access[k],
         call'.keys # <<>> \/ Release \/ UNCHANGED <<entries, insertion, settled>>
  PROVE  Tracked(k)'
<1>1. uses'[k] = uses[k]
  BY NothingFilled, Zenon
<1>2. overflow_policy = "EvictLeastUsed" /\ UNCHANGED <<entries, insertion>> => met' = met
  BY NothingFilled, Zenon
<1>3. Tracked(k) /\ StatsOK
  BY InvParts, Zenon DEF UsesInv
<1>4. uses[k].periods \in Nat
  <2>1. uses[k] \in [hits : Nat, periods : Nat, since : Nat, at : Nat]
    BY Zenon DEF UsesInv
  <2> QED BY <2>1
<1>5. UNCHANGED <<entries, insertion, settled>> =>
        /\ call' = call /\ settled' = settled
        /\ overflow_policy = "EvictLeastUsed" => (k \in met' <=> k \in met)
  BY <1>2, Zenon DEF insertion
<1> QED BY <1>1, <1>3, <1>4, <1>5, SameTracked, Zenon

(* Steps that only take or give results, or let time pass. *)
LEMMA IdleKinds ==
  ASSUME [Next]_vars
  PROVE  \/ \E keys \in Requests : \E n \in 1 .. Len(keys) : Fetch(keys, IndicesFrom(keys, n))
         \/ UNCHANGED <<overflow_policy, entries, stats, insertion>> /\ (Release \/ settled' = settled)
         \/ \E r \in Inserts : Insert(r.keys, r.values)
         \/ \E p \in Parts : InsertCheck(p) \/ ResolveOverflow(p) \/ InsertKey(p) \/ InsertScanned(p)
         \/ InsertReturns
         \/ \E keys \in Requests : EvictKeys(keys)
         \/ EvictTable
<1> DEFINE Idle == UNCHANGED <<overflow_policy, entries, stats, insertion>> /\ (Release \/ settled' = settled)
<1>1. ASSUME NEW keys \in Requests, Read(keys)
      PROVE  Idle \/ \E n \in 1 .. Len(keys) : Fetch(keys, IndicesFrom(keys, n))
  <2>1. Contains(keys) => Idle
    BY Zenon DEF Contains, content
  <2>2. \A indices : FetchAbsent(keys, indices) \/ FetchBlank(keys, indices) => Idle
    BY Zenon DEF FetchAbsent, FetchBlank, content
  <2>3. \A indices : DivideByZero(indices) => Idle
    BY Zenon DEF DivideByZero
  <2> HIDE DEF Idle
  <2> QED BY <1>1, <2>1, <2>2, <2>3, Zenon DEF Read, IndicesFrom
<1>2. \A keys : DivideByZero(keys) => Idle
  BY Zenon DEF DivideByZero
<1>3. Tick \/ Return \/ Dump \/ UNCHANGED vars => Idle
  BY Zenon DEF Tick, Return, Dump, vars, content
<1>4. InsertNothing \/ InsertRejected => Idle
  BY Zenon DEF InsertNothing, InsertRejected
<1> HIDE DEF Idle
<1>5. Idle \/ ~Idle
  OBVIOUS
<1>6. CASE Idle
  BY <1>6, Zenon DEF Idle
<1>7. CASE ~Idle
  BY <1>1, <1>2, <1>3, <1>4, <1>7, Zenon DEF Next, InsertStep
<1> QED BY <1>6, <1>7, Zenon

LEMMA UsesStep ==
  ASSUME IInv, UsesInv, UsesNext
  PROVE  UsesInv'
<1>1. Next /\ Note
  BY Zenon DEF UsesNext
<1>2. ContentOK /\ CallOK /\ StatsOK /\ SettledOK
  BY InvParts, Zenon
<1>3. /\ uses \in [Keys -> [hits : Nat, periods : Nat, since : Nat, at : Nat]]
      /\ settled.time <= clock /\ (Locked => call.keys # <<>>)
  BY Zenon DEF UsesInv
<1>4. settled'.time <= clock'
  <2>1. clock' = clock \/ clock' = clock + 1
    BY <1>1, Zenon DEF Next, Tick, Return, InsertStep, InsertCheck, ResolveOverflow, InsertKey,
         InsertScanned, InsertReturns, InsertNothing, InsertRejected, Dump, EvictTable, Insert, Read,
         Fetch, FetchAbsent, FetchBlank, DivideByZero, Contains, EvictKeys
  <2>2. settled'.time = settled.time \/ settled'.time = clock
    <3>1. CASE Release
      BY <3>1 DEF Release
    <3> QED BY <1>1, <3>1, SettledKinds, Zenon
  <2>3. settled.time \in Nat /\ clock \in Nat
    BY <1>2, Zenon DEF SettledOK, StatsOK
  <2> QED BY <1>3, <2>1, <2>2, <2>3
<1>5. ASSUME Filled # {}
      PROVE  \E keys \in Requests : \E n \in 1 .. Len(keys) : Fetch(keys, IndicesFrom(keys, n))
  BY <1>1, <1>5, FetchOnly, Zenon DEF Filled
<1>6. uses' \in [Keys -> [hits : Nat, periods : Nat, since : Nat, at : Nat]]
  <2> DEFINE R == [hits : Nat, periods : Nat, since : Nat, at : Nat]
  <2>1. ASSUME NEW t \in Nat PROVE Unused(t) \in R
    BY <2>1 DEF Unused
  <2> HIDE DEF R
  <2>2. Unused(clock) \in R /\ Unused(0) \in R
    <3>1. clock \in Nat /\ 0 \in Nat
      BY <1>2 DEF StatsOK
    <3> QED BY <2>1, <3>1, Zenon
  <2>3. ASSUME NEW k \in Keys PROVE uses'[k] \in R
    <3>1. uses'[k] = Note1(k)
      BY <1>1, <2>3, Zenon DEF Note, Note1
    <3>2. CASE Filled = {}
      <4>1. {i \in Filled : result'.keys[i] = k} = {} /\ ~(Cardinality({}) > 0)
        <5>1. ~(Cardinality({}) > 0)
          BY FS_EmptySet
        <5> QED BY <3>2, <5>1, Zenon
      <4> QED BY <1>3, <2>2, <2>3, <3>1, <4>1, Zenon DEF Note1, R
    <3>3. CASE Filled # {}
      <4>1. CASE k \in entries'[PartOf(k)]
        BY <1>1, <1>5, <2>3, <3>3, <4>1, FetchTracked, Zenon DEF R
      <4>2. CASE k \notin entries'[PartOf(k)]
        BY <2>2, <3>1, <4>2, Zenon DEF Note1
      <4> QED BY <4>1, <4>2, Zenon
    <3> QED BY <3>2, <3>3, Zenon
  <2>4. uses' = [k \in Keys |-> uses'[k]]
    BY <1>1, Zenon DEF Note
  <2> QED BY <2>3, <2>4, Zenon DEF R
<1> DEFINE Goal == /\ Locked' => call'.keys # <<>>
                   /\ \A k \in Keys : k \in entries'[PartOf(k)] => Tracked(k)'
<1>7. ASSUME Goal PROVE UsesInv'
  <2>1. \A k \in Keys : PartOf(k)' = PartOf(k)
    BY Zenon DEF PartOf
  <2> QED BY <1>4, <1>6, <1>7, <2>1, Zenon DEF UsesInv
<1>8. ASSUME NEW keys \in Requests, NEW n \in 1 .. Len(keys), Fetch(keys, IndicesFrom(keys, n))
      PROVE  Goal
  <2>1. UNCHANGED <<part_pc, call>>
    BY <1>8, Zenon DEF Fetch, insertion
  <2> QED BY <1>1, <1>3, <1>8, <2>1, FetchTracked, Zenon DEF Locked, Parts
<1>9. ASSUME Filled = {}, UNCHANGED <<overflow_policy, entries, stats, insertion>>,
             Release \/ settled' = settled
      PROVE  Goal
  <2>1. UNCHANGED <<part_pc, call, batch_size, access_count, last_access>>
    BY <1>9, Zenon DEF stats, insertion
  <2>2. JustWritten = {}
    BY <1>2, <2>1, NothingWritten, Zenon
  <2> QED BY <1>1, <1>3, <1>9, <2>1, <2>2, OtherTracked, Zenon DEF Locked, Parts
<1>10. ASSUME Filled = {}, NEW r \in Inserts, Insert(r.keys, r.values)
       PROVE  Goal
  <2>1. /\ UNCHANGED <<overflow_policy, entries, stats>> /\ batch_size' = [p \in Parts |-> 0]
        /\ call' = [keys |-> r.keys, values |-> r.values, num_inserts |-> 0] /\ r.keys # <<>>
    BY <1>10, Zenon DEF Insert
  <2>2. call'.keys # <<>>
    BY <2>1
  <2>3. JustWritten = {}
    BY <1>2, <2>1, NothingWritten, Zenon
  <2>4. access_count' = access_count /\ last_access' = last_access
    BY <2>1, Zenon DEF stats
  <2> QED BY <1>1, <1>10, <2>1, <2>2, <2>3, <2>4, OtherTracked, Zenon
<1>11. ASSUME NEW p \in Parts, part_pc[p] # "done" PROVE call.keys # <<>>
  BY <1>3, <1>11, Zenon DEF Locked
<1>12. "check" # "done" /\ "batch" # "done" /\ "overflow" # "done"
  OBVIOUS
<1>13. ASSUME Filled = {}, NEW p \in Parts, InsertCheck(p) \/ InsertScanned(p)
       PROVE  Goal
  <2>1. /\ UNCHANGED <<overflow_policy, entries, access_count, last_access, call>>
        /\ part_pc[p] # "done"
        /\ batch_size' = [batch_size EXCEPT ![p] = 0] \/ batch_size' = batch_size
    BY <1>12, <1>13, Zenon DEF InsertCheck, InsertScanned, content, stats
  <2>2. JustWritten = {}
    BY <1>2, <2>1, NothingWritten, Zenon DEF CallOK
  <2>3. call'.keys # <<>>
    BY <1>11, <1>13, <2>1, Zenon
  <2> QED BY <1>1, <1>13, <2>1, <2>2, <2>3, OtherTracked, Zenon
<1>14. ASSUME Filled = {}, NEW p \in Parts, ResolveOverflow(p)
       PROVE  Goal
  <2>1. PICK ks \in Victims(p) : Erase(ks)
    BY <1>14, Zenon DEF ResolveOverflow
  <2>2. UNCHANGED <<overflow_policy, call, batch_size>> /\ part_pc[p] # "done"
    BY <1>12, <1>14, Zenon DEF ResolveOverflow
  <2>3. JustWritten = {}
    BY <1>2, <2>2, NothingWritten, Zenon
  <2>4. call'.keys # <<>>
    BY <1>11, <1>14, <2>2, Zenon
  <2>5. ASSUME NEW k \in Keys, k \in entries'[PartOf(k)]
        PROVE  /\ k \in entries[PartOf(k)]
               /\ access_count'[k] = access_count[k] /\ last_access'[k] = last_access[k]
    BY <2>1, <2>5, KeyPart, Zenon DEF Erase
  <2> QED BY <1>1, <1>14, <2>2, <2>3, <2>4, <2>5, OtherTracked, Zenon DEF Goal
<1>15. ASSUME Filled = {}, NEW p \in Parts, InsertKey(p)
       PROVE  Goal
  <2>1. PICK i \in DOMAIN call.keys :
           /\ JustWritten = {call.keys[i]} /\ call.keys[i] \in Keys
           /\ entries' = [entries EXCEPT ![p] = @ \cup {call.keys[i]}]
           /\ Written(call.keys[i]) /\ call'.keys = call.keys
    BY <1>15, WrittenKey, Zenon
  <2>2. overflow_policy' = overflow_policy /\ part_pc[p] # "done"
    BY <1>12, <1>15, Zenon DEF InsertKey
  <2>3. call'.keys # <<>>
    BY <1>11, <1>15, <2>1, <2>2, Zenon
  <2>4. /\ access_count' = [access_count EXCEPT ![call.keys[i]] = 0]
        /\ last_access' = [last_access EXCEPT ![call.keys[i]] =
                             IF overflow_policy = "EvictOldest" THEN clock ELSE @]
    BY <2>1, Zenon DEF Written
  <2>5. ASSUME NEW k \in Keys, k \in entries'[PartOf(k)], k # call.keys[i]
        PROVE  Tracked(k)'
    <3>1. k \in entries[PartOf(k)] /\ access_count'[k] = access_count[k]
          /\ last_access'[k] = last_access[k] /\ k \notin JustWritten
      BY <1>2, <2>1, <2>4, <2>5, KeyPart, Zenon DEF ContentOK, StatsOK
    <3> QED BY <1>1, <1>15, <2>2, <2>3, <2>5, <3>1, OtherTracked, Zenon
  <2>6. ASSUME NEW k \in Keys, k = call.keys[i]
        PROVE  Tracked(k)'
    <3>1. uses'[k] = Unused(clock)
      BY <1>1, <1>15, <2>1, <2>6, NothingFilled, Zenon
    <3>2. uses'[k].hits = 0 /\ uses'[k].periods = 0 /\ uses'[k].since = clock /\ uses'[k].at = clock
      BY <3>1 DEF Unused
    <3>3. access_count'[k] = 0 /\ (overflow_policy = "EvictOldest" => last_access'[k] = clock)
      BY <1>2, <2>4, <2>6, Zenon DEF StatsOK
    <3>4. call' # NoCall
      BY <2>3 DEF NoCall
    <3>5. 0 <= 0 /\ clock <= clock
      BY <1>2 DEF StatsOK
    <3> QED BY <2>2, <3>2, <3>3, <3>4, <3>5, Zenon DEF Tracked
  <2> QED BY <2>3, <2>5, <2>6, Zenon
<1>16. ASSUME Filled = {}, InsertReturns
       PROVE  Goal
  <2>1. /\ UNCHANGED <<overflow_policy, entries, access_count, last_access, part_pc>>
        /\ batch_size' = [p \in Parts |-> 0] /\ Release /\ ~Locked
    BY <1>16, Zenon DEF InsertReturns, content, stats
  <2>2. JustWritten = {}
    BY <1>2, <2>1, NothingWritten, Zenon
  <2>3. ~Locked'
    BY <2>1, Zenon DEF Locked, Parts
  <2> QED BY <1>1, <1>16, <2>1, <2>2, <2>3, OtherTracked, Zenon
<1>17. ASSUME Filled = {}, NEW keys \in Requests, EvictKeys(keys)
       PROVE  Goal
  <2> DEFINE ks == {keys[i] : i \in DOMAIN keys}
  <2>1. Erase(ks) /\ UNCHANGED <<overflow_policy, insertion>> /\ Release /\ Unlocked
    BY <1>17, Zenon DEF EvictKeys
  <2> HIDE DEF ks
  <2>2. UNCHANGED <<part_pc, batch_size>> /\ ~Locked
    BY <2>1, Zenon DEF insertion, Unlocked
  <2>3. JustWritten = {}
    BY <1>2, <2>2, NothingWritten, Zenon
  <2>4. ~Locked'
    BY <2>2, Zenon DEF Locked, Parts
  <2>5. ASSUME NEW k \in Keys, k \in entries'[PartOf(k)]
        PROVE  /\ k \in entries[PartOf(k)]
               /\ access_count'[k] = access_count[k] /\ last_access'[k] = last_access[k]
    BY <2>1, <2>5, KeyPart, Zenon DEF Erase
  <2> QED BY <1>1, <1>17, <2>1, <2>3, <2>4, <2>5, OtherTracked, Zenon
<1>18. ASSUME EvictTable PROVE Goal
  <2>1. entries' = [p \in Parts |-> {}] /\ UNCHANGED insertion /\ Unlocked
    BY <1>18, Zenon DEF EvictTable
  <2>2. ~Locked'
    BY <2>1, Zenon DEF insertion, Unlocked, Locked, Parts
  <2> QED BY <2>1, <2>2, KeyPart, Zenon
<1> HIDE DEF Goal
<1>19. CASE Filled # {}
  BY <1>5, <1>7, <1>8, <1>19, Zenon
<1>20. CASE Filled = {}
  <2>1. [Next]_vars
    BY <1>1
  <2> QED BY <1>7, <1>8, <1>9, <1>10, <1>13, <1>14, <1>15, <1>16, <1>17, <1>18, <1>20, <2>1,
             IdleKinds, Zenon
<1> QED BY <1>19, <1>20, Zenon

(* The statistics of a stored key stay between the bounds. *)
LEMMA UsesInvariance == UsesSpec => [](IInv /\ UsesInv)
<1>1. UsesInit => IInv /\ UsesInv
  <2> SUFFICES ASSUME UsesInit PROVE IInv /\ UsesInv
    OBVIOUS
  <2>1. Init /\ uses = [k \in Keys |-> Unused(0)]
    BY Zenon DEF UsesInit
  <2>2. IInv
    BY <2>1, InitInv, Zenon
  <2>3. uses \in [Keys -> [hits : Nat, periods : Nat, since : Nat, at : Nat]]
    BY <2>1 DEF Unused
  <2>4. settled.time <= clock
    BY <2>1 DEF Init
  <2>5. ~Locked /\ \A k \in Keys : k \notin entries[PartOf(k)]
    BY <2>1, KeyPart, Zenon DEF Init, Locked
  <2> QED BY <2>2, <2>3, <2>4, <2>5, Zenon DEF UsesInv
<1>2. IInv /\ UsesInv /\ [UsesNext]_use_vars => (IInv /\ UsesInv)'
  <2> SUFFICES ASSUME IInv, UsesInv, [UsesNext]_use_vars PROVE (IInv /\ UsesInv)'
    OBVIOUS
  <2>1. [Next]_vars
    BY Zenon DEF UsesNext, use_vars
  <2>2. IInv'
    BY <2>1, NextInv, Zenon
  <2>3. CASE UsesNext
    BY <2>2, <2>3, UsesStep, Zenon
  <2>4. CASE UNCHANGED use_vars
    <3>1. UNCHANGED <<uses, met, overflow_policy, access_count, last_access, settled, call, clock, entries,
                      part_pc>>
      BY <2>4, Zenon DEF use_vars, vars, content, stats, insertion
    <3>2. \A k \in Keys : Tracked(k) => Tracked(k)'
      BY <3>1, Zenon DEF Tracked
    <3>3. UsesInv'
      BY <3>1, <3>2, Zenon DEF UsesInv, Locked, PartOf, Parts
    <3> QED BY <2>2, <3>3, Zenon
  <2> QED BY <2>3, <2>4, Zenon
<1> QED BY <1>1, <1>2, PTL DEF UsesSpec

(* Although fetches that share the lock may lose accesses, an overflow     *)
(* removes no key that was found in more periods than a key that stays was *)
(* found at all, and none last used in a period that began after the last  *)
(* use of a key that stays.                                                *)
THEOREM EvictsUnusedHolds == UsesSpec => EvictsUnused
<1>1. ASSUME IInv, UsesInv, [Next]_vars, NEW p \in Parts, part_pc[p] = "overflow",
             NEW j \in entries[p] \ entries'[p], NEW k \in entries'[p]
      PROVE  CASE overflow_policy = "EvictLeastUsed" -> uses[j].periods <= uses[k].hits
               [] overflow_policy = "EvictOldest" -> uses[j].since <= uses[k].at
               [] OTHER -> TRUE
  <2>1. /\ j \in entries[PartOf(j)] /\ k \in entries[PartOf(k)] /\ j \in Keys /\ k \in Keys
        /\ Precedes(j, k)
    BY <1>1, EvictsStep, Zenon
  <2>2. Tracked(j) /\ Tracked(k) /\ StatsOK
    BY <1>1, <2>1, InvParts, Zenon DEF UsesInv
  <2>3. /\ uses[j] \in [hits : Nat, periods : Nat, since : Nat, at : Nat]
        /\ uses[k] \in [hits : Nat, periods : Nat, since : Nat, at : Nat]
        /\ access_count[j] \in Nat /\ access_count[k] \in Nat
        /\ last_access[j] \in Nat /\ last_access[k] \in Nat
    BY <1>1, <2>1, <2>2, Zenon DEF UsesInv, StatsOK
  <2>4. CASE overflow_policy = "EvictLeastUsed"
    <3>1. /\ uses[j].periods <= access_count[j] /\ access_count[j] <= access_count[k]
          /\ access_count[k] <= uses[k].hits
      BY <2>1, <2>2, <2>4 DEF Tracked, Precedes
    <3>2. uses[j].periods <= uses[k].hits
      BY <2>3, <3>1
    <3> QED BY <2>4, <3>2
  <2>5. CASE overflow_policy = "EvictOldest"
    <3>1. /\ uses[j].since <= last_access[j] /\ last_access[j] <= last_access[k]
          /\ last_access[k] <= uses[k].at
      BY <2>1, <2>2, <2>5 DEF Tracked, Precedes
    <3>2. uses[j].since <= uses[k].at
      BY <2>3, <3>1
    <3> QED BY <2>5, <3>2
  <2>6. CASE overflow_policy \notin {"EvictLeastUsed", "EvictOldest"}
    BY <2>6
  <2> QED BY <2>4, <2>5, <2>6, Zenon
<1>2. IInv /\ UsesInv /\ [UsesNext]_use_vars =>
        [\A p \in Parts : part_pc[p] = "overflow" =>
           \A j \in entries[p] \ entries'[p], k \in entries'[p] :
             CASE overflow_policy = "EvictLeastUsed" -> uses[j].periods <= uses[k].hits
               [] overflow_policy = "EvictOldest" -> uses[j].since <= uses[k].at
               [] OTHER -> TRUE]_use_vars
  <2>1. [UsesNext]_use_vars => [Next]_vars
    BY Zenon DEF UsesNext, use_vars
  <2> QED BY <1>1, <2>1, Zenon
<1> QED BY <1>2, UsesInvariance, PTL DEF UsesSpec, EvictsUnused
===============================================================================
