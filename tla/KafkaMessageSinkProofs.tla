------------------------ MODULE KafkaMessageSinkProofs ------------------------
(***************************************************************************)
(* Theorems about KafkaMessageSink: the ownership of the send buffers, for *)
(* any number of buffers, partitions, posts and failures.                  *)
(***************************************************************************)
EXTENDS KafkaMessageSink, TLAPS

LEMMA ElementType ==
  ASSUME NEW R, NEW s \in Seq(R), NEW i \in DOMAIN s
  PROVE  s[i] \in R
  OBVIOUS

LEMMA HeadTailType ==
  ASSUME NEW R, NEW s \in Seq(R), s # <<>>
  PROVE  Head(s) \in R /\ Tail(s) \in Seq(R)
  OBVIOUS

(* Only buffers are transmitted and reported. *)
LEMMA InFlightAreBuffers ==
  ASSUME TypeOK, NEW b, Queued(b) \/ Reported(b)
  PROVE  b \in Buffers /\ b # NoBuffer
<1>1. CASE Queued(b)
  <2>1. PICK p \in Parts : \E i \in DOMAIN outq[p] : outq[p][i] = b
    BY <1>1 DEF Queued
  <2>2. outq[p] \in Seq(Buffers)
    BY DEF TypeOK
  <2> QED
    BY <2>1, <2>2, SinkAssumption
<1>2. CASE Reported(b)
  <2>1. PICK i \in DOMAIN reports : reports[i].buffer = b
    BY <1>2 DEF Reported
  <2>2. reports[i] \in [buffer : Buffers, err : BOOLEAN]
    BY Zenon, <2>1, ElementType DEF TypeOK
  <2> QED
    BY <2>1, <2>2, SinkAssumption
<1> QED
  BY <1>1, <1>2

LEMMA InitOwnership == Init => Ownership
<1> SUFFICES ASSUME Init PROVE Ownership
  OBVIOUS
<1>1. TypeOK
  BY SinkAssumption DEF Init, TypeOK, Parts
<1>2. /\ \A b : ~Queued(b) /\ ~Reported(b)
      /\ \A p \in Parts : DOMAIN outq[p] = {}
      /\ DOMAIN reports = {}
  BY DEF Init, Queued, Reported
<1>3. BuffersExclusive
  BY <1>2, SinkAssumption DEF Init, BuffersExclusive
<1>4. {b \in Buffers : Gone(b)} = {}
  BY DEF Init, Gone
<1>5. BuffersNotLost
  BY <1>4 DEF Init, BuffersNotLost
<1> QED
  BY <1>1, <1>3, <1>5 DEF Ownership

(* Each step keeps the types. *)
LEMMA TypeStep == ASSUME TypeOK, [Next]_vars PROVE TypeOK'
<1> DEFINE Pairs == Nat \X Nat
<1>0. /\ pc \in {"ready", "scan", "acquire", "wait", "flush", "destroyed", "undefined"}
      /\ num_posts \in Nat /\ k \in Nat \ {0}
  BY Zenon DEF TypeOK
<1>1. CASE UNCHANGED vars
  BY Zenon, <1>1 DEF TypeOK, vars, poster, pool, kafka, history
<1>2. ASSUME NEW ks \in Posts, Post(ks) PROVE TypeOK'
  <2>1. 0 \in Parts /\ ks \in Seq(Keys)
    BY SinkAssumption DEF Parts
  <2>2. \A p \in Parts : PairsOf(ks, p, num_posts + 1) \in SUBSET Pairs
    BY <1>0, <2>1 DEF PairsOf
  <2>3. posted' \in [Parts -> SUBSET Pairs]
    <3>1. \A p \in Parts : posted[p] \in SUBSET Pairs
      BY Zenon DEF TypeOK
    <3> QED
      BY <1>2, <2>2, <3>1 DEF Post
  <2>4. pc' \in {"scan", "acquire"} /\ keys' = ks /\ k' = 1 /\ part_index' = 0 /\ num_posts' \in Nat
    BY <1>0, <1>2 DEF Post
  <2>5. UNCHANGED <<payload, memory, send_buffers, event_pc, outq, reports, failed, log>>
    BY Zenon, <1>2 DEF Post, pool, kafka
  <2>6. k' \in Nat \ {0}
    BY <2>4
  <2> QED
    BY Zenon, <2>1, <2>3, <2>4, <2>5, <2>6 DEF TypeOK, Pairs
<1>3. CASE NeedBuffer \/ AcquireWait \/ Flush \/ FlushReturns \/ Notify
  <2>1. /\ pc' \in {"ready", "scan", "acquire", "wait", "flush", "destroyed", "undefined"}
        /\ UNCHANGED <<keys, k, num_posts, payload, memory, send_buffers, part_index, outq, reports,
                       failed, log, posted>>
        /\ event_pc' \in {event_pc, "poll"}
    BY <1>0, <1>3 DEF NeedBuffer, AcquireWait, Flush, FlushReturns, Notify, poster, pool, kafka, history
  <2> QED
    BY Zenon, <2>1 DEF TypeOK
<1>4. CASE AppendPair
  <2>1. PICK i \in Upcoming : /\ memory' = [memory EXCEPT ![payload] = Append(@, <<num_posts, i>>)]
                              /\ k' = i + 1
    BY Zenon, <1>4 DEF AppendPair
  <2>2. i \in Nat /\ <<num_posts, i>> \in Pairs
    BY <1>0, <1>4 DEF Upcoming, Remaining
  <2>3. payload \in Buffers
    BY Zenon, <1>4 DEF TypeOK, AppendPair
  <2>4. memory' \in [Buffers -> Seq(Pairs)]
    BY <2>1, <2>2, <2>3 DEF TypeOK
  <2>5. k' \in Nat \ {0}
    BY <2>1, <2>2
  <2>6. UNCHANGED <<pc, keys, num_posts, payload, send_buffers, part_index, event_pc, outq, reports,
                    failed, log, posted>>
    BY Zenon, <1>4 DEF AppendPair, kafka, history
  <2> QED
    BY Zenon, <2>4, <2>5, <2>6 DEF TypeOK, Pairs
<1>5. CASE Produce
  <2>1. payload \in Buffers
    BY Zenon, <1>5 DEF TypeOK, Produce, MustProduce
  <2>2. outq' \in [Parts -> Seq(Buffers)]
    BY <1>5, <2>1 DEF TypeOK, Produce
  <2>3. /\ payload' = NoBuffer
        /\ UNCHANGED <<pc, keys, k, num_posts, memory, send_buffers, part_index, event_pc, reports,
                       failed, log, posted>>
    BY Zenon, <1>5 DEF Produce, pool, history
  <2> QED
    BY Zenon, <2>2, <2>3 DEF TypeOK
<1>6. CASE ProduceThrows
  <2>1. posted' \in [Parts -> SUBSET Pairs]
    BY <1>6 DEF TypeOK, ProduceThrows
  <2>2. failed' \subseteq Buffers
    BY <1>6 DEF TypeOK, ProduceThrows, MustProduce
  <2>3. /\ payload' = NoBuffer /\ pc' = "ready"
        /\ UNCHANGED <<keys, k, num_posts, memory, send_buffers, part_index, event_pc, outq, reports, log>>
    BY Zenon, <1>6 DEF ProduceThrows, pool, kafka
  <2> QED
    BY Zenon, <2>1, <2>2, <2>3 DEF TypeOK, Pairs
<1>7. CASE NextPart
  <2>1. part_index \in Parts
    BY Zenon DEF TypeOK
  <2>2. part_index' \in Parts /\ k' \in Nat \ {0} /\ pc' \in {pc, "ready"}
    BY <1>7, <2>1, SinkAssumption DEF NextPart, Parts
  <2>3. UNCHANGED <<keys, num_posts, payload, memory, send_buffers, event_pc, outq, reports,
                    failed, log, posted>>
    BY Zenon, <1>7 DEF NextPart, pool, kafka, history
  <2> QED
    BY Zenon, <2>2, <2>3 DEF TypeOK
<1>8. CASE Acquire \/ Wake \/ SpuriousWake
  <2>1. TakeBuffer /\ UNCHANGED <<keys, k, part_index, kafka, history>>
    BY <1>8 DEF Acquire, Wake, SpuriousWake
  <2>2. /\ memory' \in [Buffers -> Seq(Pairs)] /\ send_buffers' \subseteq Buffers
        /\ payload' \in Buffers \cup {NoBuffer} /\ pc' \in {"scan", "undefined"}
    <3>1. CASE UNCHANGED <<pool, payload>> /\ pc' = "undefined"
      BY Zenon, <3>1 DEF TypeOK, pool, Pairs
    <3>2. ASSUME NEW b \in send_buffers, memory' = [memory EXCEPT ![b] = <<>>], payload' = b,
                 send_buffers' = send_buffers \ {b}, pc' = "scan"
          PROVE  /\ memory' \in [Buffers -> Seq(Pairs)] /\ send_buffers' \subseteq Buffers
                 /\ payload' \in Buffers \cup {NoBuffer}
      BY <3>2 DEF TypeOK
    <3> QED
      BY <2>1, <3>1, <3>2 DEF TakeBuffer
  <2> QED
    BY Zenon, <2>1, <2>2 DEF TypeOK, Pairs, kafka, history
<1>9. CASE OnDelivered
  <2>1. reports' \in Seq([buffer : Buffers, err : BOOLEAN]) /\ Head(reports).buffer \in Buffers
    <3>1. reports \in Seq([buffer : Buffers, err : BOOLEAN]) /\ reports # <<>> /\ reports' = Tail(reports)
      BY Zenon, <1>9 DEF TypeOK, OnDelivered
    <3>2. /\ Head(reports) \in [buffer : Buffers, err : BOOLEAN]
          /\ Tail(reports) \in Seq([buffer : Buffers, err : BOOLEAN])
      BY Zenon, <3>1, HeadTailType
    <3> QED
      BY <3>1, <3>2
  <2>2. send_buffers' \subseteq send_buffers \cup {Head(reports).buffer} /\ event_pc' \in {event_pc, "notify"}
    BY <1>9 DEF OnDelivered
  <2>3. UNCHANGED <<pc, keys, k, num_posts, payload, memory, part_index, outq, failed, log, posted>>
    BY Zenon, <1>9 DEF OnDelivered, poster, history
  <2> QED
    BY Zenon, <2>1, <2>2, <2>3 DEF TypeOK
<1>10. ASSUME NEW p \in Parts, outq[p] # <<>>
       PROVE  /\ [outq EXCEPT ![p] = Tail(@)] \in [Parts -> Seq(Buffers)]
              /\ [log EXCEPT ![p] = @ \o memory[Head(outq[p])]] \in [Parts -> Seq(Pairs)]
              /\ \A e \in BOOLEAN : Append(reports, [buffer |-> Head(outq[p]), err |-> e])
                                      \in Seq([buffer : Buffers, err : BOOLEAN])
  <2>0. outq[p] \in Seq(Buffers) /\ log[p] \in Seq(Pairs) /\ memory \in [Buffers -> Seq(Pairs)]
    BY Zenon DEF TypeOK, Pairs
  <2>1. Head(outq[p]) \in Buffers /\ Tail(outq[p]) \in Seq(Buffers)
    BY <1>10, <2>0
  <2>2. log[p] \o memory[Head(outq[p])] \in Seq(Pairs)
    BY <2>0, <2>1
  <2> QED
    BY <2>1, <2>2 DEF TypeOK
<1>11. ASSUME NEW p \in Parts, Transmit(p) PROVE TypeOK'
  <2>1. outq[p] # <<>> /\ FALSE \in BOOLEAN
    BY Zenon, <1>11 DEF Transmit
  <2>2. /\ outq' \in [Parts -> Seq(Buffers)] /\ log' \in [Parts -> Seq(Pairs)]
        /\ reports' \in Seq([buffer : Buffers, err : BOOLEAN])
    BY Zenon, <1>10, <1>11, <2>1 DEF Transmit
  <2> QED
    BY Zenon, <1>11, <2>2 DEF TypeOK, Pairs, Transmit, poster, pool, history
<1>12. ASSUME NEW p \in Parts, GiveUp(p) PROVE TypeOK'
  <2>1. outq[p] # <<>> /\ TRUE \in BOOLEAN
    BY Zenon, <1>12 DEF GiveUp
  <2>2. /\ outq' \in [Parts -> Seq(Buffers)] /\ reports' \in Seq([buffer : Buffers, err : BOOLEAN])
    BY Zenon, <1>10, <1>12, <2>1 DEF GiveUp
  <2>3. log' \in [Parts -> Seq(Pairs)]
    BY Zenon, <1>10, <1>12, <2>1 DEF GiveUp, TypeOK, Pairs
  <2>4. failed' \subseteq Buffers
    <3>1. Head(outq[p]) \in Buffers
      BY Zenon, <2>1, HeadTailType DEF TypeOK
    <3> QED
      BY Zenon, <1>12, <3>1 DEF GiveUp, TypeOK
  <2> QED
    BY Zenon, <1>12, <2>2, <2>3, <2>4 DEF TypeOK, Pairs, GiveUp, poster, pool
<1> QED
  BY Zenon, <1>1, <1>2, <1>3, <1>4, <1>5, <1>6, <1>7, <1>8, <1>9, <1>11, <1>12
     DEF Next, PosterStep, EventStep

(* Steps that leave the buffers where they are. *)
LEMMA BuffersStay ==
  ASSUME Ownership, UNCHANGED <<payload, send_buffers, outq, reports, failed>>,
         TypeOK', pc' # "scan" => payload = NoBuffer
  PROVE  Ownership'
<1>1. BuffersExclusive'
  BY DEF Ownership, BuffersExclusive, Queued, Reported
<1>2. BuffersNotLost'
  BY DEF Ownership, BuffersNotLost, Gone, Queued
<1> QED
  BY <1>1, <1>2 DEF Ownership

(* The payload becomes the last message of its partition. *)
LEMMA ProduceKeepsOwnership ==
  ASSUME Ownership, TypeOK', Produce
  PROVE  Ownership'
<1> USE DEF Ownership
<1>1. /\ payload \in Buffers /\ part_index \in Parts /\ outq \in [Parts -> Seq(Buffers)]
      /\ outq' = [outq EXCEPT ![part_index] = Append(@, payload)] /\ payload' = NoBuffer
      /\ pc' = pc /\ UNCHANGED <<part_index, send_buffers, reports, event_pc, log, failed>>
  BY DEF Produce, MustProduce, TypeOK, pool, history
<1>2. \A p \in Parts :
        /\ outq'[p] \in Seq(Buffers)
        /\ DOMAIN outq'[p] = 1 .. Len(outq'[p]) /\ DOMAIN outq[p] = 1 .. Len(outq[p])
        /\ Len(outq[p]) \in Nat
        /\ Len(outq'[p]) = IF p = part_index THEN Len(outq[p]) + 1 ELSE Len(outq[p])
        /\ \A i \in 1 .. Len(outq[p]) : outq'[p][i] = outq[p][i]
        /\ p = part_index => outq'[p][Len(outq[p]) + 1] = payload
  BY <1>1
<1>3. ASSUME NEW b PROVE Queued(b)' <=> Queued(b) \/ b = payload
  <2>1. ASSUME NEW p \in Parts, NEW i \in DOMAIN outq'[p], outq'[p][i] = b
        PROVE  Queued(b) \/ b = payload
    <3>1. i \in DOMAIN outq[p] \/ (p = part_index /\ i = Len(outq[p]) + 1)
      BY <1>2
    <3> QED
      BY <2>1, <3>1, <1>2 DEF Queued
  <2>2. ASSUME NEW p \in Parts, NEW i \in DOMAIN outq[p], outq[p][i] = b
        PROVE  Queued(b)'
    <3>1. i \in DOMAIN outq'[p] /\ outq'[p][i] = b
      BY <2>2, <1>2
    <3> QED
      BY <3>1 DEF Queued
  <2>3. ASSUME b = payload PROVE Queued(b)'
    <3>1. Len(outq[part_index]) + 1 \in DOMAIN outq'[part_index]
      BY <1>1, <1>2
    <3> QED
      BY <2>3, <3>1, <1>1, <1>2 DEF Queued
  <2> QED
    BY <2>1, <2>2, <2>3 DEF Queued
<1>4. \A b : Reported(b)' <=> Reported(b)
  BY <1>1 DEF Reported
<1>5. ~Queued(payload)
  BY DEF BuffersExclusive
<1>6. \A p, q \in Parts : \A i \in DOMAIN outq'[p], j \in DOMAIN outq'[q] :
        outq'[p][i] = outq'[q][j] => p = q /\ i = j
  <2> SUFFICES ASSUME NEW p \in Parts, NEW q \in Parts,
                      NEW i \in DOMAIN outq'[p], NEW j \in DOMAIN outq'[q],
                      outq'[p][i] = outq'[q][j]
               PROVE  p = q /\ i = j
    OBVIOUS
  <2>1. CASE i \in DOMAIN outq[p] /\ j \in DOMAIN outq[q]
    <3>1. outq[p][i] = outq[q][j]
      BY Zenon, <2>1, <1>2
    <3> QED
      BY <2>1, <3>1 DEF BuffersExclusive
  <2>2. \A r \in Parts : \A n \in DOMAIN outq'[r] :
          n \in DOMAIN outq[r] \/ (r = part_index /\ n = Len(outq[r]) + 1 /\ outq'[r][n] = payload)
    BY <1>2
  <2>3. \A r \in Parts : \A n \in DOMAIN outq[r] : outq'[r][n] # payload
    <3>1. ASSUME NEW r \in Parts, NEW n \in DOMAIN outq[r] PROVE outq'[r][n] = outq[r][n]
      BY Zenon, <1>2
    <3>2. ASSUME NEW r \in Parts, NEW n \in DOMAIN outq[r] PROVE outq[r][n] # payload
      BY <1>5 DEF Queued
    <3> QED
      BY <3>1, <3>2
  <2> QED
    BY <2>1, <2>2, <2>3
<1>7. BuffersExclusive'
  <2>1. NoBuffer \notin Buffers /\ ~Queued(NoBuffer) /\ ~Reported(NoBuffer)
    BY SinkAssumption, InFlightAreBuffers
  <2>2. \A b \in send_buffers' \cup {payload'} : ~Queued(b)' /\ ~Reported(b)'
    BY <1>1, <1>3, <1>4, <2>1 DEF BuffersExclusive
  <2>3. \A b \in Buffers : ~(Queued(b)' /\ Reported(b)')
    BY <1>3, <1>4 DEF BuffersExclusive
  <2>4. payload' \notin send_buffers'
    BY <1>1, <2>1 DEF TypeOK
  <2>5. \A i, j \in DOMAIN reports' : reports'[i].buffer = reports'[j].buffer => i = j
    BY <1>1 DEF BuffersExclusive
  <2> QED
    BY <2>2, <2>3, <2>4, <2>5, <1>6 DEF BuffersExclusive
<1>8. BuffersNotLost'
  <2>1. ASSUME NEW b \in Buffers, Gone(b)' PROVE Gone(b)
    BY <1>1, <1>3, <2>1 DEF Gone
  <2> QED
    BY <1>1, <2>1 DEF BuffersNotLost
<1> QED
  BY <1>7, <1>8

(* The payload is gone with the exception. *)
LEMMA ProduceThrowsKeepsOwnership ==
  ASSUME Ownership, TypeOK', ProduceThrows
  PROVE  Ownership'
<1> USE DEF Ownership
<1>1. /\ payload' = NoBuffer /\ pc' = "ready" /\ failed' = failed \cup {payload}
      /\ UNCHANGED <<part_index, send_buffers, outq, reports, event_pc, log>>
  BY DEF ProduceThrows, pool, kafka
<1>2. \A b : (Queued(b)' <=> Queued(b)) /\ (Reported(b)' <=> Reported(b))
  BY <1>1 DEF Queued, Reported
<1>3. BuffersExclusive'
  <2>1. NoBuffer \notin Buffers /\ ~Queued(NoBuffer) /\ ~Reported(NoBuffer)
    BY SinkAssumption, InFlightAreBuffers
  <2>2. payload' \notin send_buffers' /\ \A b \in send_buffers' \cup {payload'} : ~Queued(b)' /\ ~Reported(b)'
    BY <1>1, <1>2, <2>1 DEF BuffersExclusive, TypeOK
  <2> QED
    BY <1>1, <1>2, <2>2 DEF BuffersExclusive
<1>4. BuffersNotLost'
  <2>1. ASSUME NEW b \in Buffers, Gone(b)' PROVE Gone(b) \/ b = payload
    BY <1>1, <1>2, <2>1 DEF Gone
  <2> QED
    BY <1>1, <2>1 DEF BuffersNotLost
<1> QED
  BY <1>3, <1>4

(* acquire_send_buffer takes a buffer from the pool, or is undefined. *)
LEMMA TakeBufferKeepsOwnership ==
  ASSUME Ownership, TypeOK', pc # "scan", TakeBuffer, UNCHANGED <<part_index, kafka, history>>
  PROVE  Ownership'
<1> USE DEF Ownership
<1>1. UNCHANGED <<part_index, outq, reports, event_pc, log, failed>> /\ payload = NoBuffer
  BY DEF kafka, history, BuffersNotLost
<1>2. CASE pc' = "undefined" /\ UNCHANGED <<pool, payload>>
  BY <1>1, <1>2, BuffersStay DEF pool
<1>3. ASSUME NEW b \in send_buffers, send_buffers' = send_buffers \ {b}, payload' = b, pc' = "scan"
      PROVE  Ownership'
  <2>2. \A x : (Queued(x)' <=> Queued(x)) /\ (Reported(x)' <=> Reported(x))
    BY <1>1 DEF Queued, Reported
  <2>3. BuffersExclusive'
    <3>1. /\ payload' \notin send_buffers'
          /\ \A x \in send_buffers' \cup {payload'} : ~Queued(x)' /\ ~Reported(x)'
      BY <1>3, <2>2 DEF BuffersExclusive
    <3> QED
      BY <3>1, <2>2, <1>1 DEF BuffersExclusive
  <2>4. \A x \in Buffers : Gone(x)' => Gone(x)
    <3>1. ASSUME NEW x \in Buffers, Gone(x)' PROVE Gone(x)
      <4>1. x \notin send_buffers \cup {payload}
        BY <1>1, <1>3, <3>1, SinkAssumption DEF Gone
      <4>2. ~Queued(x)
        BY <2>2, <3>1 DEF Gone
      <4>3. \A i \in DOMAIN reports : reports[i].buffer = x => reports[i].err
        BY <1>1, <3>1 DEF Gone
      <4> QED
        BY <4>1, <4>2, <4>3 DEF Gone
    <3> QED
      BY <3>1
  <2> QED
    BY <2>3, <2>4, <1>1, <1>3 DEF BuffersNotLost
<1> QED
  BY <1>2, <1>3 DEF TakeBuffer

(* The first message of a partition leaves the queue and is reported. *)
LEMMA ReportKeepsOwnership ==
  ASSUME Ownership, TypeOK', NEW p \in Parts, outq[p] # <<>>, NEW err \in BOOLEAN,
         outq' = [outq EXCEPT ![p] = Tail(@)],
         reports' = Append(reports, [buffer |-> Head(outq[p]), err |-> err]),
         failed' = IF err THEN failed \cup {Head(outq[p])} ELSE failed,
         UNCHANGED <<pc, payload, send_buffers, part_index, event_pc>>
  PROVE  Ownership'
<1> USE DEF Ownership
<1> DEFINE x == Head(outq[p])
           n == Len(reports)
<1>1. /\ outq \in [Parts -> Seq(Buffers)] /\ outq[p] \in Seq(Buffers)
      /\ Len(outq[p]) \in Nat \ {0} /\ x = outq[p][1] /\ x \in Buffers
      /\ Tail(outq[p]) \in Seq(Buffers)
  <2>1. outq \in [Parts -> Seq(Buffers)] /\ outq[p] \in Seq(Buffers)
    BY DEF TypeOK
  <2> QED
    BY <2>1
<1>2. /\ reports \in Seq([buffer : Buffers, err : BOOLEAN]) /\ n \in Nat
      /\ [buffer |-> x, err |-> err] \in [buffer : Buffers, err : BOOLEAN]
  BY <1>1 DEF TypeOK
<1>3. /\ reports' \in Seq([buffer : Buffers, err : BOOLEAN])
      /\ DOMAIN reports = 1 .. n /\ DOMAIN reports' = 1 .. n + 1
      /\ \A i \in 1 .. n : reports'[i] = reports[i]
      /\ reports'[n + 1].buffer = x /\ reports'[n + 1].err = err
  BY <1>2
<1>4. \A q \in Parts :
        /\ DOMAIN outq[q] = 1 .. Len(outq[q]) /\ Len(outq[q]) \in Nat
        /\ q # p => outq'[q] = outq[q]
        /\ q = p => /\ DOMAIN outq'[q] = 1 .. Len(outq[q]) - 1
                    /\ \A i \in 1 .. Len(outq[q]) - 1 : outq'[q][i] = outq[q][i + 1]
  BY <1>1
<1>5. Queued(x) /\ ~Reported(x) /\ x \notin send_buffers \cup {payload}
  <2>1. 1 \in DOMAIN outq[p] /\ outq[p][1] = x
    BY <1>1
  <2>2. Queued(x)
    BY <2>1 DEF Queued
  <2> QED
    BY <2>2, <1>1 DEF BuffersExclusive
<1>6. ASSUME NEW b PROVE Reported(b)' <=> Reported(b) \/ b = x
  BY <1>2, <1>3 DEF Reported
<1>7. ASSUME NEW b PROVE Queued(b)' <=> Queued(b) /\ b # x
  <2>1. ASSUME NEW q \in Parts, NEW i \in DOMAIN outq'[q], outq'[q][i] = b
        PROVE  Queued(b) /\ b # x
    <3>1. CASE q # p
      <4>1. i \in DOMAIN outq[q] /\ outq[q][i] = b
        BY <2>1, <3>1, <1>4
      <4>2. 1 \in DOMAIN outq[p] /\ outq[p][1] = x
        BY <1>1
      <4> QED
        BY <3>1, <4>1, <4>2 DEF Queued, BuffersExclusive
    <3>2. CASE q = p
      <4>1. i + 1 \in DOMAIN outq[p] /\ outq[p][i + 1] = b /\ i + 1 # 1
        BY <2>1, <3>2, <1>4
      <4>2. 1 \in DOMAIN outq[p] /\ outq[p][1] = x
        BY <1>1
      <4> QED
        BY <4>1, <4>2 DEF Queued, BuffersExclusive
    <3> QED
      BY <3>1, <3>2
  <2>2. ASSUME NEW q \in Parts, NEW i \in DOMAIN outq[q], outq[q][i] = b, b # x
        PROVE  Queued(b)'
    <3>1. CASE q # p
      <4>1. i \in DOMAIN outq'[q] /\ outq'[q][i] = b
        BY <2>2, <3>1, <1>4
      <4> QED
        BY <4>1 DEF Queued
    <3>2. CASE q = p
      <4>1. i # 1
        BY <2>2, <3>2, <1>1
      <4>2. i - 1 \in DOMAIN outq'[q] /\ outq'[q][i - 1] = b
        BY <2>2, <3>2, <4>1, <1>4
      <4> QED
        BY <4>2 DEF Queued
    <3> QED
      BY <3>1, <3>2
  <2> QED
    BY <2>1, <2>2 DEF Queued
<1>8. \A q, r \in Parts : \A i \in DOMAIN outq'[q], j \in DOMAIN outq'[r] :
        outq'[q][i] = outq'[r][j] => q = r /\ i = j
  <2> SUFFICES ASSUME NEW q \in Parts, NEW r \in Parts,
                      NEW i \in DOMAIN outq'[q], NEW j \in DOMAIN outq'[r],
                      outq'[q][i] = outq'[r][j]
               PROVE  q = r /\ i = j
    OBVIOUS
  <2> DEFINE Old(s, m) == IF s = p THEN m + 1 ELSE m
  <2>1. ASSUME NEW s \in Parts, NEW m \in DOMAIN outq'[s]
        PROVE  Old(s, m) \in DOMAIN outq[s] /\ outq[s][Old(s, m)] = outq'[s][m]
    <3>1. CASE s = p
      BY <3>1, <1>4
    <3>2. CASE s # p
      BY <3>2, <1>4
    <3> QED
      BY Zenon, <3>1, <3>2
  <2>2. q = r /\ Old(q, i) = Old(r, j)
    BY <2>1 DEF BuffersExclusive
  <2> QED
    BY <2>2, <1>4
<1>9. \A i, j \in DOMAIN reports' : reports'[i].buffer = reports'[j].buffer => i = j
  <2>1. \A i \in DOMAIN reports : reports[i].buffer # x
    BY <1>5 DEF Reported
  <2> QED
    BY <2>1, <1>2, <1>3 DEF BuffersExclusive
<1>10. BuffersExclusive'
  <2>1. \A b \in send_buffers' \cup {payload'} : ~Queued(b)' /\ ~Reported(b)'
    BY <1>5, <1>6, <1>7 DEF BuffersExclusive
  <2>2. \A b \in Buffers : ~(Queued(b)' /\ Reported(b)')
    BY <1>6, <1>7 DEF BuffersExclusive
  <2> QED
    BY Zenon, <2>1, <2>2, <1>8, <1>9 DEF BuffersExclusive
<1>11. BuffersNotLost'
  <2>1. ASSUME NEW b \in Buffers, Gone(b)' PROVE Gone(b) \/ (err /\ b = x)
    BY <2>1, <1>2, <1>3, <1>7 DEF Gone
  <2> QED
    BY <2>1 DEF BuffersNotLost
<1> QED
  BY <1>10, <1>11

(* A served report returns its buffer, unless the message failed. *)
LEMMA OnDeliveredKeepsOwnership ==
  ASSUME Ownership, TypeOK', OnDelivered
  PROVE  Ownership'
<1> USE DEF Ownership
<1> DEFINE x == reports[1].buffer
           n == Len(reports)
<1>1. /\ UNCHANGED <<pc, part_index, payload, outq, log, failed>>
      /\ event_pc' \in {"poll", "notify"}
      /\ send_buffers' = IF reports[1].err THEN send_buffers ELSE send_buffers \cup {x}
  BY DEF OnDelivered, poster, history, TypeOK
<1>2. /\ n \in Nat \ {0} /\ DOMAIN reports = 1 .. n /\ 1 \in DOMAIN reports
      /\ DOMAIN reports' = 1 .. n - 1
      /\ \A i \in 1 .. n - 1 : reports'[i] = reports[i + 1] /\ i + 1 \in DOMAIN reports /\ i + 1 # 1
      /\ \A i \in DOMAIN reports : i # 1 => i - 1 \in DOMAIN reports' /\ reports'[i - 1] = reports[i]
      /\ reports' \in Seq([buffer : Buffers, err : BOOLEAN])
  <2> DEFINE R == [buffer : Buffers, err : BOOLEAN]
  <2>1. reports \in Seq(R) /\ reports # <<>> /\ reports' = Tail(reports) /\ reports' \in Seq(R)
    BY DEF OnDelivered, TypeOK
  <2> HIDE DEF R
  <2>2. /\ n \in Nat \ {0} /\ DOMAIN reports = 1 .. n /\ DOMAIN reports' = 1 .. n - 1
        /\ \A i \in 1 .. n - 1 : reports'[i] = reports[i + 1]
    BY <2>1
  <2>3. \A i \in 2 .. n : reports'[i - 1] = reports[i]
    BY <2>2
  <2> QED
    BY <2>1, <2>2, <2>3 DEF R
<1>3. x \in Buffers /\ Reported(x)
  <2>1. reports[1] \in [buffer : Buffers, err : BOOLEAN]
    BY Zenon, <1>2, ElementType DEF TypeOK
  <2> QED
    BY <2>1, <1>2 DEF Reported
<1>4. ASSUME NEW b PROVE Queued(b)' <=> Queued(b)
  BY <1>1 DEF Queued
<1>5. ASSUME NEW b PROVE Reported(b)' <=> Reported(b) /\ b # x
  <2>1. ASSUME NEW i \in DOMAIN reports', reports'[i].buffer = b PROVE Reported(b) /\ b # x
    <3>1. i + 1 \in DOMAIN reports /\ i + 1 # 1 /\ reports[i + 1].buffer = b
      BY <2>1, <1>2
    <3>2. Reported(b)
      BY <3>1 DEF Reported
    <3>3. b # x
      BY <3>1, <1>2 DEF BuffersExclusive
    <3> QED
      BY <3>2, <3>3
  <2>2. ASSUME NEW i \in DOMAIN reports, reports[i].buffer = b, b # x PROVE Reported(b)'
    BY <2>2, <1>2 DEF Reported
  <2> QED
    BY <2>1, <2>2 DEF Reported
<1>6. BuffersExclusive'
  <2>1. x # payload /\ ~Queued(x)
    BY <1>3 DEF BuffersExclusive
  <2>2. payload' \notin send_buffers'
    BY <1>1, <2>1 DEF BuffersExclusive
  <2>3. \A b \in send_buffers' \cup {payload'} : ~Queued(b)' /\ ~Reported(b)'
    BY <1>1, <1>4, <1>5, <2>1 DEF BuffersExclusive
  <2>4. \A b \in Buffers : ~(Queued(b)' /\ Reported(b)')
    BY <1>4, <1>5 DEF BuffersExclusive
  <2>5. \A i, j \in DOMAIN reports' : reports'[i].buffer = reports'[j].buffer => i = j
    <3> SUFFICES ASSUME NEW i \in DOMAIN reports', NEW j \in DOMAIN reports',
                        reports'[i].buffer = reports'[j].buffer
                 PROVE  i = j
      OBVIOUS
    <3>1. /\ i + 1 \in DOMAIN reports /\ reports[i + 1] = reports'[i]
          /\ j + 1 \in DOMAIN reports /\ reports[j + 1] = reports'[j]
      BY <1>2
    <3>2. i + 1 = j + 1
      BY <3>1 DEF BuffersExclusive
    <3> QED
      BY <3>2, <1>2
  <2>6. \A p, q \in Parts : \A i \in DOMAIN outq'[p], j \in DOMAIN outq'[q] :
          outq'[p][i] = outq'[q][j] => p = q /\ i = j
    BY <1>1 DEF BuffersExclusive
  <2> QED
    BY <2>2, <2>3, <2>4, <2>5, <2>6 DEF BuffersExclusive
<1>7. BuffersNotLost'
  <2>1. ASSUME NEW b \in Buffers, Gone(b)' PROVE Gone(b)
    <3>1. b \notin send_buffers \cup {payload} /\ ~Queued(b)
      BY <2>1, <1>1, <1>4 DEF Gone
    <3>2. ASSUME NEW i \in DOMAIN reports, reports[i].buffer = b PROVE reports[i].err
      <4>1. CASE i = 1
        BY <4>1, <3>2, <2>1, <1>1 DEF Gone
      <4>2. CASE i # 1
        BY <4>2, <3>2, <2>1, <1>2 DEF Gone
      <4> QED
        BY <4>1, <4>2
    <3> QED
      BY <3>1, <3>2 DEF Gone
  <2> QED
    BY <2>1, <1>1 DEF BuffersNotLost
<1> QED
  BY <1>6, <1>7

LEMMA NextOwnership == ASSUME Ownership, [Next]_vars PROVE Ownership'
<1> USE DEF Ownership
<1>1. TypeOK'
  BY TypeStep
<1>2. ASSUME UNCHANGED <<payload, send_buffers, outq, reports, failed>>,
             pc' # "scan" => payload = NoBuffer
      PROVE  Ownership'
  BY <1>1, <1>2, BuffersStay
<1>3. CASE UNCHANGED vars
  BY <1>2, <1>3 DEF vars, poster, pool, kafka, history, BuffersNotLost
<1>4. ASSUME NEW ks \in Posts, Post(ks) PROVE Ownership'
  BY <1>2, <1>4 DEF Post, pool, kafka, BuffersNotLost
<1>5. CASE NeedBuffer
  BY <1>2, <1>5 DEF NeedBuffer, pool, kafka, history
<1>6. CASE AppendPair
  BY <1>2, <1>6 DEF AppendPair, kafka, history
<1>7. CASE Produce
  BY <1>1, <1>7, ProduceKeepsOwnership
<1>8. CASE ProduceThrows
  BY <1>1, <1>8, ProduceThrowsKeepsOwnership
<1>9. CASE NextPart
  BY <1>2, <1>9 DEF NextPart, pool, kafka, history
<1>10. CASE Acquire \/ Wake \/ SpuriousWake
  BY <1>1, <1>10, TakeBufferKeepsOwnership DEF Acquire, Wake, SpuriousWake
<1>11. CASE AcquireWait
  BY <1>2, <1>11 DEF AcquireWait, pool, kafka, history, BuffersNotLost
<1>12. CASE Flush \/ FlushReturns
  BY <1>2, <1>12 DEF Flush, FlushReturns, pool, kafka, history, BuffersNotLost
<1>13. CASE OnDelivered
  BY <1>1, <1>13, OnDeliveredKeepsOwnership
<1>14. CASE Notify
  BY <1>2, <1>14 DEF Notify, pool, history, BuffersNotLost
<1>15. ASSUME NEW p \in Parts, Transmit(p) PROVE Ownership'
  BY Zenon, <1>1, <1>15, ReportKeepsOwnership DEF Transmit, poster, pool, history
<1>16. ASSUME NEW p \in Parts, GiveUp(p) PROVE Ownership'
  BY Zenon, <1>1, <1>16, ReportKeepsOwnership DEF GiveUp, poster, pool
<1> QED
  BY <1>3, <1>4, <1>5, <1>6, <1>7, <1>8, <1>9, <1>10, <1>11, <1>12, <1>13, <1>14, <1>15, <1>16
     DEF Next, PosterStep, EventStep

-------------------------------------------------------------------------------
(* The order of the pairs. *)

LEMMA AppendInOrder ==
  ASSUME NEW R, NEW s \in Seq(R), NEW x \in R
  PROVE  /\ Values(Append(s, x)) = Values(s) \cup {x}
         /\ InOrder(s) /\ (\A q \in Values(s) : Earlier(q, x)) => InOrder(Append(s, x))
<1> DEFINE n == Len(s)
           e == Append(s, x)
<1>1. /\ DOMAIN s = 1 .. n /\ n \in Nat /\ DOMAIN e = 1 .. n + 1
      /\ e[n + 1] = x /\ \A i \in 1 .. n : e[i] = s[i]
  OBVIOUS
<1> HIDE DEF e, n
<1>2. Values(e) = Values(s) \cup {x}
  BY <1>1 DEF Values
<1>3. ASSUME InOrder(s), \A q \in Values(s) : Earlier(q, x) PROVE InOrder(e)
  <2>1. ASSUME NEW j \in 1 .. n + 1, NEW i \in 1 .. j - 1 PROVE Earlier(e[i], e[j])
    <3>1. CASE j = n + 1
      BY <3>1, <1>1, <1>3 DEF Values
    <3>2. CASE j # n + 1
      BY <3>2, <1>1, <1>3 DEF InOrder
    <3> QED
      BY <3>1, <3>2
  <2> QED
    BY <2>1, <1>1 DEF InOrder
<1> QED
  BY <1>2, <1>3 DEF e

LEMMA ConcatInOrder ==
  ASSUME NEW R, NEW s \in Seq(R), NEW t \in Seq(R)
  PROVE  /\ Values(s \o t) = Values(s) \cup Values(t)
         /\ InOrder(s) /\ InOrder(t) /\ AllEarlier(Values(s), Values(t)) => InOrder(s \o t)
<1> DEFINE n == Len(s)
           m == Len(t)
           e == s \o t
<1>1. /\ DOMAIN s = 1 .. n /\ DOMAIN t = 1 .. m /\ n \in Nat /\ m \in Nat /\ DOMAIN e = 1 .. n + m
      /\ \A i \in 1 .. n : e[i] = s[i]
      /\ \A i \in n + 1 .. n + m : e[i] = t[i - n]
  OBVIOUS
<1> HIDE DEF e, n, m
<1>2. Values(e) = Values(s) \cup Values(t)
  <2>1. ASSUME NEW i \in 1 .. n + m PROVE e[i] \in Values(s) \cup Values(t)
    <3>1. CASE i \in 1 .. n
      BY Zenon, <3>1, <1>1 DEF Values
    <3>2. CASE i \in n + 1 .. n + m
      <4>1. i - n \in 1 .. m
        BY <3>2, <1>1
      <4> QED
        BY Zenon, <4>1, <3>2, <1>1 DEF Values
    <3> QED
      BY <3>1, <3>2, <1>1
  <2>2. ASSUME NEW i \in 1 .. n PROVE s[i] \in Values(e)
    BY <1>1 DEF Values
  <2>3. ASSUME NEW i \in 1 .. m PROVE t[i] \in Values(e)
    <3>1. n + i \in n + 1 .. n + m /\ e[n + i] = t[i]
      BY <1>1
    <3> QED
      BY <3>1, <1>1 DEF Values
  <2> QED
    BY Zenon, <2>1, <2>2, <2>3, <1>1 DEF Values
<1>3. ASSUME InOrder(s), InOrder(t), AllEarlier(Values(s), Values(t)) PROVE InOrder(e)
  <2>1. ASSUME NEW j \in 1 .. n + m, NEW i \in 1 .. j - 1 PROVE Earlier(e[i], e[j])
    <3>1. CASE j \in 1 .. n
      <4>1. i \in 1 .. n /\ e[i] = s[i] /\ e[j] = s[j]
        BY <3>1, <1>1
      <4> QED
        BY Zenon, <3>1, <4>1, <1>1, <1>3 DEF InOrder
    <3>2. CASE j \in n + 1 .. n + m /\ i \in 1 .. n
      <4>1. e[i] \in Values(s)
        BY <3>2, <1>1 DEF Values
      <4>2. e[j] \in Values(t)
        <5>1. j - n \in 1 .. m /\ e[j] = t[j - n]
          BY <3>2, <1>1
        <5> QED
          BY <5>1, <1>1 DEF Values
      <4> QED
        BY <4>1, <4>2, <1>3 DEF AllEarlier
    <3>3. CASE j \in n + 1 .. n + m /\ i \in n + 1 .. n + m
      <4>1. /\ j - n \in 1 .. m /\ i - n \in 1 .. (j - n) - 1
            /\ e[j] = t[j - n] /\ e[i] = t[i - n]
        BY <3>3, <1>1
      <4> QED
        BY Zenon, <4>1, <1>1, <1>3 DEF InOrder
    <3> QED
      BY <3>1, <3>2, <3>3, <1>1
  <2> QED
    BY <2>1, <1>1 DEF InOrder
<1> QED
  BY <1>2, <1>3 DEF e

(* What was taken are pairs of numbers. *)
LEMMA TakenType ==
  ASSUME TypeOK, NEW p \in Parts, NEW q \in Taken(p)
  PROVE  q \in Nat \X Nat /\ q[1] \in Nat /\ q[2] \in Nat
<1>1. ASSUME NEW s \in Seq(Nat \X Nat), q \in Values(s) PROVE q \in Nat \X Nat
  BY <1>1, ElementType DEF Values
<1>2. CASE q \in Values(log[p])
  BY <1>1, <1>2 DEF TypeOK
<1>3. CASE q \in Queue(p)
  <2>1. PICK b \in Values(outq[p]) : q \in Values(memory[b])
    BY <1>3 DEF Queue
  <2>2. b \in Buffers
    BY <2>1, ElementType DEF TypeOK, Values
  <2> QED
    BY <1>1, <2>1, <2>2 DEF TypeOK
<1>4. CASE q \in Filling(p)
  BY <1>1, <1>4 DEF TypeOK, Filling
<1>5. q \in Nat \X Nat
  BY <1>2, <1>3, <1>4 DEF Taken
<1> QED
  BY <1>5

(* Steps that move no pair. *)
LEMMA OrderStays ==
  ASSUME Order, UNCHANGED <<memory, log, outq, payload, part_index, keys, k, num_posts, posted, lost>>,
         Posting' = Posting
  PROVE  Order'
<1>1. \A p \in Parts : /\ Queue(p)' = Queue(p) /\ Filling(p)' = Filling(p) /\ Taken(p)' = Taken(p)
                       /\ ToTake(p)' = ToTake(p)
  BY Zenon DEF Queue, Filling, Taken, ToTake, PairsOf
<1>2. \A p \in Parts : PipelineInOrder(p)'
  BY Zenon, <1>1 DEF Order, PipelineInOrder
<1>3. \A p \in Parts : TakenBefore(p)'
  BY Zenon, <1>1 DEF Order, TakenBefore, PairsOf
<1> QED
  BY Zenon, <1>1, <1>2, <1>3 DEF Order

LEMMA InitOrder == ASSUME Init PROVE Order
<1>1. Values(<<>>) = {} /\ InOrder(<<>>)
  BY DEF Values, InOrder
<1>2. \A p \in Parts : Queue(p) = {} /\ Filling(p) = {} /\ Taken(p) = {}
  BY <1>1 DEF Init, Queue, Filling, Taken
<1>3. \A p \in Parts : PipelineInOrder(p)
  BY <1>1, <1>2 DEF Init, PipelineInOrder, AllEarlier
<1> QED
  BY <1>1, <1>2, <1>3 DEF Init, Order, TakenBefore

(* The buffers of a queue keep what is in them. *)
LEMMA QueueStays ==
  ASSUME NEW p \in Parts, outq'[p] = outq[p], \A b : Queued(b) => memory'[b] = memory[b]
  PROVE  /\ Queue(p)' = Queue(p)
         /\ \A i \in DOMAIN outq[p] : memory'[outq'[p][i]] = memory[outq[p][i]]
<1>1. \A i \in DOMAIN outq[p] : Queued(outq[p][i])
  BY DEF Queued
<1>2. \A b \in Values(outq[p]) : memory'[b] = memory[b]
  BY <1>1 DEF Values
<1>3. Queue(p)' = UNION {Values(memory'[b]) : b \in Values(outq[p])}
  BY DEF Queue
<1>4. Queue(p)' = Queue(p)
  BY <1>2, <1>3 DEF Queue
<1> QED
  BY <1>1, <1>4

(* A new post: its pairs are later than all that were taken before. *)
LEMMA PostOrder == ASSUME Ownership, Order, NEW ks \in Posts, Post(ks) PROVE Order'
<1>1. /\ pc = "ready" /\ pc' \in {"scan", "acquire"} /\ keys' = ks /\ k' = 1 /\ part_index' = 0
      /\ num_posts' = num_posts + 1 /\ payload = NoBuffer /\ payload' = NoBuffer
      /\ posted' = [p \in Parts |-> posted[p] \cup PairsOf(ks, p, num_posts + 1)]
      /\ UNCHANGED <<memory, outq, log, lost>>
  BY DEF Post, pool, kafka, Ownership, BuffersNotLost
<1>2. \A p \in Parts : /\ Queue(p)' = Queue(p) /\ Filling(p)' = {} /\ Filling(p) = {}
                       /\ Taken(p)' = Taken(p)
  BY Zenon, <1>1 DEF Queue, Filling, Taken
<1>3. \A p \in Parts : PipelineInOrder(p)'
  BY Zenon, <1>1, <1>2 DEF Order, PipelineInOrder
<1>4. \A p \in Parts : TakenBefore(p)'
  <2>1. ASSUME NEW p \in Parts, NEW q \in Taken(p) PROVE q[1] \in Nat /\ q[1] < num_posts'
    <3>1. q[1] <= num_posts
      BY Zenon DEF Order, TakenBefore
    <3>2. q[1] \in Nat
      BY TakenType DEF Ownership
    <3> QED
      BY <3>1, <3>2, <1>1 DEF Ownership, TypeOK
  <2>2. ASSUME NEW p \in Parts, NEW q \in Taken(p)'
        PROVE  q[1] <= num_posts' /\ q[1] # num_posts' /\ q \notin Filling(p)'
    <3>1. q[1] \in Nat /\ q[1] < num_posts'
      BY <2>1, <1>2
    <3> QED
      BY <3>1, <1>1, <1>2 DEF Ownership, TypeOK
  <2> QED
    BY Zenon, <2>2 DEF TakenBefore
<1>5. ASSUME NEW p \in Parts PROVE posted'[p] \subseteq Taken(p)' \cup lost' \cup ToTake(p)'
  <2>1. posted[p] \subseteq Taken(p) \cup lost
    BY Zenon, <1>1 DEF Order, ToTake, Posting
  <2>2. PairsOf(ks, p, num_posts + 1) \subseteq ToTake(p)'
    <3>1. ASSUME NEW q \in PairsOf(ks, p, num_posts + 1) PROVE 0 < p \/ (0 = p /\ 1 <= q[2])
      <4>1. PICK i \in DOMAIN ks : q = <<num_posts + 1, i>>
        BY DEF PairsOf
      <4>2. ks \in Seq(Keys)
        BY SinkAssumption
      <4> QED
        BY <4>1, <4>2 DEF Parts
    <3>2. ToTake(p)' = {q \in PairsOf(ks, p, num_posts + 1) : 0 < p \/ (0 = p /\ 1 <= q[2])}
      BY Zenon, <1>1 DEF ToTake, Posting, PairsOf
    <3> QED
      BY <3>1, <3>2
  <2> QED
    BY Zenon, <2>1, <2>2, <1>1, <1>2
<1> QED
  BY Zenon, <1>1, <1>3, <1>4, <1>5 DEF Order

(* The next pair is later than all of its partition that were taken. *)
LEMMA NextIsLater ==
  ASSUME TypeOK, Order, Posting, NEW i \in Nat, k <= i, NEW q \in Taken(part_index)
  PROVE  Earlier(q, <<num_posts, i>>)
<1>1. q[1] \in Nat /\ q[2] \in Nat /\ part_index \in Parts /\ k \in Nat /\ num_posts \in Nat
  BY TakenType DEF TypeOK
<1>2. q[1] <= num_posts /\ (q[1] = num_posts => q[2] < k)
  <2>1. q[1] <= num_posts
    BY Zenon, <1>1 DEF Order, TakenBefore
  <2>2. q[1] = num_posts => part_index < part_index \/ q[2] < k
    BY Zenon, <1>1 DEF Order, TakenBefore
  <2> QED
    BY <2>1, <2>2, <1>1 DEF Parts
<1> QED
  BY <1>1, <1>2 DEF Earlier

(* One pair more in the payload. *)
LEMMA AppendPairOrder == ASSUME Ownership, Order, AppendPair PROVE Order'
<1>1. /\ pc = "scan" /\ payload \in Buffers /\ TypeOK /\ Posting /\ Posting'
      /\ UNCHANGED <<pc, keys, part_index, payload, outq, log, lost, posted, num_posts>>
  BY DEF AppendPair, kafka, history, Ownership, TypeOK, Posting
<1>2. PICK i \in Upcoming : /\ memory' = [memory EXCEPT ![payload] = Append(@, <<num_posts, i>>)]
                            /\ k' = i + 1
  BY Zenon DEF AppendPair
<1>3. /\ i \in Nat /\ k \in Nat /\ k <= i /\ i \in DOMAIN keys /\ PartOf(keys[i]) = part_index
      /\ \A j \in k .. i - 1 : PartOf(keys[j]) # part_index
      /\ part_index \in Parts /\ num_posts \in Nat /\ keys \in Seq(Keys)
  <2>1. k \in Nat \ {0} /\ part_index \in Parts /\ num_posts \in Nat /\ keys \in Seq(Keys)
    BY <1>1 DEF TypeOK
  <2>2. /\ i \in k .. Len(keys) /\ PartOf(keys[i]) = part_index
        /\ \A j \in k .. i - 1 : PartOf(keys[j]) # part_index
    <3>1. i \in Remaining /\ \A j \in Remaining : i <= j
      BY Zenon DEF Upcoming
    <3>2. i \in k .. Len(keys) /\ PartOf(keys[i]) = part_index /\ Len(keys) \in Nat
      BY <3>1, <2>1 DEF Remaining
    <3>3. ASSUME NEW j \in k .. i - 1 PROVE PartOf(keys[j]) # part_index
      <4>1. j \in k .. Len(keys) /\ ~(i <= j)
        BY <3>2, <2>1
      <4> QED
        BY Zenon, <4>1, <3>1 DEF Remaining
    <3> QED
      BY <3>2, <3>3
  <2> QED
    BY <2>1, <2>2
<1>4. PICK pair \in Nat \X Nat : pair = <<num_posts, i>>
  BY Zenon, <1>3
<1>5. \A q \in Taken(part_index) : Earlier(q, pair)
  BY <1>1, <1>4, <1>3, NextIsLater
<1>6. /\ \A b \in Buffers : b # payload => memory'[b] = memory[b]
      /\ memory'[payload] = Append(memory[payload], pair)
      /\ memory[payload] \in Seq(Nat \X Nat)
  BY <1>1, <1>2, <1>4 DEF TypeOK
<1>7. \A b : Queued(b) => memory'[b] = memory[b]
  <2>1. ~Queued(payload)
    BY DEF Ownership, BuffersExclusive
  <2> QED
    BY <2>1, <1>1, <1>6, InFlightAreBuffers
<1>8. Values(memory'[payload]) = Values(memory[payload]) \cup {pair}
  BY <1>6, AppendInOrder
<1>9. \A p \in Parts : p = part_index => /\ Filling(p) = Values(memory[payload])
                                          /\ Filling(p)' = Values(memory'[payload])
  BY <1>1, SinkAssumption DEF Filling
<1>10. \A p \in Parts : p # part_index => Filling(p) = {} /\ Filling(p)' = {}
  BY <1>1 DEF Filling
<1>11. \A p \in Parts : /\ Queue(p)' = Queue(p)
                        /\ \A j \in DOMAIN outq[p] : memory'[outq'[p][j]] = memory[outq[p][j]]
  BY <1>1, <1>7, QueueStays
<1>12. ASSUME NEW b \in Buffers PROVE InOrder(memory'[b])
  <2>1. CASE b = payload
    <3>1. InOrder(memory[payload])
      BY Zenon, <1>1 DEF Order
    <3>2. \A q \in Values(memory[payload]) : Earlier(q, pair)
      BY Zenon, <1>3, <1>5, <1>9 DEF Taken
    <3> QED
      <4>1. InOrder(Append(memory[payload], pair))
        BY Zenon, <3>1, <3>2, <1>6, AppendInOrder
      <4> QED
        BY Zenon, <4>1, <2>1, <1>6
  <2>2. CASE b # payload
    BY Zenon, <2>2, <1>6 DEF Order
  <2> QED
    BY <2>1, <2>2
<1>13. ASSUME NEW p \in Parts PROVE PipelineInOrder(p)'
  <2>1. PipelineInOrder(p)
    BY Zenon DEF Order
  <2>2. /\ InOrder(log'[p])
        /\ \A j \in DOMAIN outq'[p] : \A n \in 1 .. j - 1 : n \in DOMAIN outq[p] =>
             AllEarlier(Values(memory'[outq'[p][n]]), Values(memory'[outq'[p][j]]))
        /\ AllEarlier(Values(log'[p]), Queue(p)')
    BY Zenon, <2>1, <1>1, <1>11 DEF PipelineInOrder
  <2>3. \A j \in DOMAIN outq'[p] : \A n \in 1 .. j - 1 : n \in DOMAIN outq[p]
    BY <1>1 DEF TypeOK
  <2>4. AllEarlier(Values(log'[p]) \cup Queue(p)', Filling(p)')
    <3>1. CASE p = part_index
      <4>1. AllEarlier(Values(log[p]) \cup Queue(p), Filling(p))
        BY Zenon, <2>1 DEF PipelineInOrder
      <4>2. \A q \in Values(log[p]) \cup Queue(p) : Earlier(q, pair)
        BY <3>1, <1>5 DEF Taken
      <4> QED
        BY <3>1, <4>1, <4>2, <1>1, <1>8, <1>9, <1>11 DEF AllEarlier
    <3>2. CASE p # part_index
      BY <3>2, <1>10 DEF AllEarlier
    <3> QED
      BY <3>1, <3>2
  <2> QED
    BY Zenon, <2>2, <2>3, <2>4 DEF PipelineInOrder
<1>14. \A p \in Parts : Taken(p)' = Taken(p) \cup IF p = part_index THEN {pair} ELSE {}
  <2>1. ASSUME NEW p \in Parts, p = part_index PROVE Taken(p)' = Taken(p) \cup {pair}
    BY <2>1, <1>1, <1>8, <1>9, <1>11 DEF Taken
  <2>2. ASSUME NEW p \in Parts, p # part_index PROVE Taken(p)' = Taken(p)
    BY <2>2, <1>1, <1>10, <1>11 DEF Taken
  <2> QED
    BY <2>1, <2>2
<1>15. ASSUME NEW p \in Parts PROVE TakenBefore(p)'
  <2>1. ASSUME NEW q \in Taken(p)
        PROVE  /\ q[1] <= num_posts'
               /\ q[1] = num_posts' => /\ q \in PairsOf(keys', p, num_posts')
                                       /\ Posting' => p < part_index' \/ (p = part_index' /\ q[2] < k')
               /\ q \in Filling(p) => q[1] = num_posts'
    <3>1. /\ q[1] <= num_posts
          /\ q[1] = num_posts => /\ q \in PairsOf(keys, p, num_posts)
                                 /\ p < part_index \/ (p = part_index /\ q[2] < k)
          /\ q \in Filling(p) => q[1] = num_posts
      BY Zenon, <1>1 DEF Order, TakenBefore
    <3>2. q[2] \in Nat /\ (q[2] < k => q[2] < k')
      BY <1>1, <1>2, <1>3, TakenType
    <3> QED
      BY Zenon, <3>1, <3>2, <1>1 DEF PairsOf
  <2>2. p = part_index => /\ pair[1] = num_posts' /\ pair[1] <= num_posts' /\ pair[2] < k'
                          /\ pair \in PairsOf(keys', p, num_posts')
    BY <1>1, <1>2, <1>4, <1>3 DEF PairsOf
  <2>3. \A q \in Filling(p)' : q \in Filling(p) \/ (p = part_index /\ q = pair)
    BY Zenon, <1>8, <1>9, <1>10
  <2>4. \A q \in Taken(p)' : q \in Taken(p) \/ (p = part_index /\ q = pair)
    BY <1>14
  <2>5. \A q \in Filling(p) : q \in Taken(p)
    BY DEF Taken
  <2>6. ASSUME NEW q \in Taken(p)'
        PROVE  /\ q[1] <= num_posts'
               /\ q[1] = num_posts' => /\ q \in PairsOf(keys', p, num_posts')
                                       /\ Posting' => p < part_index' \/ (p = part_index' /\ q[2] < k')
    BY Zenon, <2>1, <2>2, <2>4, <1>1
  <2>7. \A q \in Filling(p)' : q[1] = num_posts'
    BY Zenon, <2>1, <2>2, <2>3, <2>5
  <2> QED
    BY Zenon, <2>6, <2>7 DEF TakenBefore
<1>16. ASSUME NEW p \in Parts PROVE posted'[p] \subseteq Taken(p)' \cup lost' \cup ToTake(p)'
  <2>1. posted[p] \subseteq Taken(p) \cup lost \cup ToTake(p)
    BY Zenon DEF Order
  <2>2. ASSUME NEW q \in ToTake(p), q \notin ToTake(p)' PROVE p = part_index /\ q = pair
    <3>1. /\ q \in PairsOf(keys, p, num_posts) /\ q \in PairsOf(keys', p, num_posts')
          /\ part_index < p \/ (part_index = p /\ k <= q[2])
      BY Zenon, <1>1 DEF ToTake, PairsOf
    <3>2. ~(part_index < p \/ (part_index = p /\ i + 1 <= q[2]))
      BY <3>1, <2>2, <1>1, <1>2 DEF ToTake
    <3>3. PICK j \in DOMAIN keys : q = <<num_posts, j>> /\ PartOf(keys[j]) = p
      BY <3>1 DEF PairsOf
    <3>4. j \in Nat /\ q[2] = j
      BY <3>3, <1>3
    <3>5. p = part_index /\ j \in k .. i
      BY <3>1, <3>2, <3>4, <1>3
    <3> QED
      BY <3>3, <3>5, <1>4, <1>3
  <2> QED
    BY Zenon, <2>1, <2>2, <1>1, <1>14
<1> QED
  BY Zenon, <1>12, <1>13, <1>15, <1>16 DEF Order

(* The pipeline of a partition stays, but for the payload that may go. *)
LEMMA PipelineStays ==
  ASSUME TypeOK, NEW p \in Parts, PipelineInOrder(p), log'[p] = log[p], outq'[p] = outq[p],
         \A b : Queued(b) => memory'[b] = memory[b],
         Filling(p)' = Filling(p) \/ Filling(p)' = {}
  PROVE  PipelineInOrder(p)' /\ Queue(p)' = Queue(p)
<1>1. /\ Queue(p)' = Queue(p)
      /\ \A j \in DOMAIN outq[p] : memory'[outq'[p][j]] = memory[outq[p][j]]
  BY Zenon, QueueStays
<1>2. \A j \in DOMAIN outq'[p] : \A i \in 1 .. j - 1 : i \in DOMAIN outq[p]
  BY DEF TypeOK
<1>3. \A j \in DOMAIN outq'[p] : \A i \in 1 .. j - 1 :
        AllEarlier(Values(memory'[outq'[p][i]]), Values(memory'[outq'[p][j]]))
  BY Zenon, <1>1, <1>2 DEF PipelineInOrder
<1>4. InOrder(log'[p]) /\ AllEarlier(Values(log'[p]), Queue(p)')
  BY Zenon, <1>1 DEF PipelineInOrder
<1>5. AllEarlier(Values(log'[p]) \cup Queue(p)', Filling(p)')
  BY Zenon, <1>1 DEF PipelineInOrder, AllEarlier
<1> QED
  BY Zenon, <1>1, <1>3, <1>4, <1>5 DEF PipelineInOrder

(* What is taken of a partition stays, or part of it is given up. *)
LEMMA TakenStays ==
  ASSUME Order, NEW p \in Parts, Taken(p)' \subseteq Taken(p), Filling(p)' \subseteq Filling(p),
         UNCHANGED <<keys, num_posts, k, part_index>>, Posting' => Posting
  PROVE  TakenBefore(p)'
<1>1. TakenBefore(p) /\ PairsOf(keys, p, num_posts)' = PairsOf(keys, p, num_posts)
  BY Zenon DEF Order, PairsOf
<1> QED
  BY Zenon, <1>1 DEF TakenBefore

(* The payload becomes the end of the queue. *)
LEMMA ProduceOrder == ASSUME Ownership, Order, Produce PROVE Order'
<1>1. /\ pc = "scan" /\ payload \in Buffers /\ TypeOK /\ payload' = NoBuffer /\ payload # NoBuffer
      /\ outq' = [outq EXCEPT ![part_index] = Append(@, payload)]
      /\ UNCHANGED <<pc, keys, k, part_index, memory, log, lost, posted, num_posts>>
  BY DEF Produce, MustProduce, pool, history, Ownership, TypeOK
<1>2. PICK r \in Parts : r = part_index
  BY <1>1 DEF TypeOK
<1>3. PICK n \in Nat : /\ n = Len(outq[r]) /\ DOMAIN outq[r] = 1 .. n /\ DOMAIN outq'[r] = 1 .. n + 1
                       /\ outq'[r][n + 1] = payload /\ \A i \in 1 .. n : outq'[r][i] = outq[r][i]
                       /\ Values(outq'[r]) = Values(outq[r]) \cup {payload}
  <2>1. outq[r] \in Seq(Buffers) /\ outq'[r] = Append(outq[r], payload)
    BY <1>1, <1>2 DEF TypeOK
  <2>2. Values(outq'[r]) = Values(outq[r]) \cup {payload}
    BY <2>1, <1>1, AppendInOrder
  <2> QED
    BY <2>1, <2>2, <1>1
<1>4. \A p \in Parts : p # r => outq'[p] = outq[p]
  BY <1>1, <1>2 DEF TypeOK
<1>5. /\ \A p \in Parts : p # r => Filling(p) = {}
      /\ \A p \in Parts : Filling(p)' = {}
      /\ Filling(r) = Values(memory[payload])
  BY <1>1, <1>2 DEF Filling
<1>6. Queue(r)' = Queue(r) \cup Filling(r)
  <2>1. Queue(r)' = UNION {Values(memory[b]) : b \in Values(outq'[r])}
    BY <1>1 DEF Queue
  <2>2. \A q : q \in Queue(r)' <=> \E b \in Values(outq[r]) \cup {payload} : q \in Values(memory[b])
    BY Zenon, <2>1, <1>3
  <2>3. \A q : q \in Queue(r) <=> \E b \in Values(outq[r]) : q \in Values(memory[b])
    BY DEF Queue
  <2> QED
    BY Zenon, <2>2, <2>3, <1>5
<1>7. \A p \in Parts : p # r => PipelineInOrder(p)' /\ Queue(p)' = Queue(p)
  BY Zenon, <1>1, <1>4, <1>5, PipelineStays DEF Order
<1>8. PipelineInOrder(r)'
  <2>1. PipelineInOrder(r)
    BY DEF Order
  <2>2. ASSUME NEW j \in 1 .. n + 1, NEW i \in 1 .. j - 1
        PROVE  AllEarlier(Values(memory[outq'[r][i]]), Values(memory[outq'[r][j]]))
    <3>1. CASE j = n + 1
      <4>1. i \in DOMAIN outq[r] /\ outq'[r][i] = outq[r][i]
        BY <3>1, <1>3
      <4>2. Values(memory[outq[r][i]]) \subseteq Queue(r)
        <5>1. outq[r][i] \in Values(outq[r])
          BY <4>1 DEF Values
        <5> QED
          BY <5>1 DEF Queue
      <4> QED
        <5>1. Values(memory[outq'[r][j]]) = Filling(r)
          BY <3>1, <1>3, <1>5
        <5>2. AllEarlier(Values(log[r]) \cup Queue(r), Filling(r))
          BY Zenon, <2>1 DEF PipelineInOrder
        <5> QED
          BY Zenon, <4>1, <4>2, <5>1, <5>2 DEF AllEarlier
    <3>2. CASE j \in 1 .. n
      <4>1. j \in DOMAIN outq[r] /\ outq'[r][j] = outq[r][j] /\ outq'[r][i] = outq[r][i]
        BY <3>2, <1>3
      <4> QED
        BY Zenon, <4>1, <2>1 DEF PipelineInOrder
    <3> QED
      BY <3>1, <3>2
  <2>3. InOrder(log[r]) /\ AllEarlier(Values(log[r]), Queue(r)')
    BY Zenon, <2>1, <1>6 DEF PipelineInOrder, AllEarlier
  <2>4. AllEarlier(Values(log[r]) \cup Queue(r)', Filling(r)')
    BY <1>5 DEF AllEarlier
  <2> QED
    BY Zenon, <2>2, <2>3, <2>4, <1>1, <1>3 DEF PipelineInOrder
<1>9. ASSUME NEW p \in Parts PROVE Taken(p)' = Taken(p)
  <2>1. CASE p = r
    BY Zenon, <2>1, <1>1, <1>5, <1>6 DEF Taken
  <2>2. CASE p # r
    BY Zenon, <2>2, <1>1, <1>5, <1>7 DEF Taken
  <2> QED
    BY <2>1, <2>2
<1>10. \A p \in Parts : TakenBefore(p)' /\ ToTake(p)' = ToTake(p)
  <2>1. Posting' = Posting /\ \A p \in Parts : ToTake(p)' = ToTake(p)
    BY Zenon, <1>1 DEF ToTake, PairsOf, Posting
  <2> QED
    BY <2>1, <1>1, <1>5, <1>9, TakenStays
<1> QED
  BY Zenon, <1>1, <1>7, <1>8, <1>9, <1>10 DEF Order

(* The payload is gone, and what is not sent of the post is not posted. *)
LEMMA ProduceThrowsOrder == ASSUME Ownership, Order, ProduceThrows PROVE Order'
<1>1. /\ TypeOK /\ payload' = NoBuffer /\ ~Posting'
      /\ posted' = [p \in Parts |-> posted[p] \ Unsent]
      /\ UNCHANGED <<keys, k, part_index, memory, outq, log, lost, num_posts>>
  BY Zenon DEF ProduceThrows, pool, kafka, Ownership, Posting
<1>2. \A p \in Parts : Filling(p)' = {}
  BY <1>1 DEF Filling
<1>3. \A p \in Parts : PipelineInOrder(p)' /\ Queue(p)' = Queue(p)
  BY Zenon, <1>1, <1>2, PipelineStays DEF Order
<1>4. \A p \in Parts : Taken(p)' = Values(log[p]) \cup Queue(p)
  BY Zenon, <1>1, <1>2, <1>3 DEF Taken
<1>5. \A p \in Parts : TakenBefore(p)'
  <2>1. \A p \in Parts : Taken(p)' \subseteq Taken(p) /\ Filling(p)' \subseteq Filling(p)
    BY Zenon, <1>2, <1>4 DEF Taken
  <2> QED
    BY Zenon, <2>1, <1>1, TakenStays
<1>6. ASSUME NEW p \in Parts, NEW q \in posted'[p] PROVE q \in Taken(p)' \cup lost
  <2>1. q \in Taken(p) \cup lost \cup ToTake(p) /\ q \notin Unsent
    BY Zenon, <1>1 DEF Order
  <2>2. CASE q \in PairsOf(keys, p, num_posts)
    <3>1. PICK i \in DOMAIN keys : q = <<num_posts, i>> /\ PartOf(keys[i]) = p
      BY Zenon, <2>2 DEF PairsOf
    <3>2. q \in lost \/ \E r \in Parts : q \in Values(log[r]) \cup Queue(r)
      BY Zenon, <2>1, <3>1 DEF Unsent
    <3>3. ASSUME NEW r \in Parts, q \in Values(log[r]) \cup Queue(r) PROVE r = p
      <4>1. q \in Taken(r) /\ q[1] = num_posts
        BY Zenon, <3>1, <3>3 DEF Taken
      <4>2. q \in PairsOf(keys, r, num_posts)
        BY Zenon, <4>1 DEF Order, TakenBefore
      <4>3. PICK j \in DOMAIN keys : q = <<num_posts, j>> /\ PartOf(keys[j]) = r
        BY Zenon, <4>2 DEF PairsOf
      <4>4. i = j
        BY <3>1, <4>3
      <4> QED
        BY Zenon, <3>1, <4>3, <4>4
    <3> QED
      BY Zenon, <3>2, <3>3, <1>4
  <2>3. CASE q \in Filling(p)
    <3>1. q \in Taken(p)
      BY <2>3 DEF Taken
    <3>2. q \in PairsOf(keys, p, num_posts)
      BY Zenon, <3>1, <2>3 DEF Order, TakenBefore
    <3> QED
      BY Zenon, <3>2, <2>2
  <2>4. CASE q \in ToTake(p)
    BY Zenon, <2>4, <2>2 DEF ToTake
  <2> QED
    BY Zenon, <2>1, <2>3, <2>4, <1>4 DEF Taken
<1> QED
  BY Zenon, <1>1, <1>3, <1>5, <1>6 DEF Order

(* On to the next partition: of this one no pair is left. *)
LEMMA NextPartOrder == ASSUME Ownership, Order, NextPart PROVE Order'
<1>1. /\ TypeOK /\ pc = "scan" /\ payload = NoBuffer /\ payload' = NoBuffer /\ Remaining = {} /\ k' = 1
      /\ \/ part_index + 1 < num_partitions /\ part_index' = part_index + 1 /\ pc' = "scan"
         \/ ~(part_index + 1 < num_partitions) /\ part_index' = part_index /\ pc' = "ready"
      /\ UNCHANGED <<keys, memory, outq, log, lost, posted, num_posts>>
  BY DEF NextPart, pool, kafka, history, Ownership
<1>2. \A p \in Parts : Filling(p)' = {} /\ Filling(p) = {}
  BY <1>1 DEF Filling
<1>3. \A p \in Parts : PipelineInOrder(p)' /\ Queue(p)' = Queue(p)
  BY Zenon, <1>1, <1>2, PipelineStays DEF Order
<1>4. \A p \in Parts : Taken(p)' = Taken(p) /\ PairsOf(keys, p, num_posts)' = PairsOf(keys, p, num_posts)
  BY Zenon, <1>1, <1>2, <1>3 DEF Taken, PairsOf
<1>5. ASSUME NEW p \in Parts PROVE TakenBefore(p)'
  <2>1. ASSUME NEW q \in Taken(p), q[1] = num_posts, Posting' PROVE p < part_index'
    <3>1. part_index' = part_index + 1 /\ Posting
      BY <1>1, <2>1 DEF Posting
    <3>2. p < part_index \/ p = part_index
      BY Zenon, <2>1, <3>1 DEF Order, TakenBefore
    <3> QED
      BY <3>1, <3>2, <1>1 DEF TypeOK, Parts
  <2>2. TakenBefore(p)
    BY DEF Order
  <2> QED
    BY Zenon, <2>1, <2>2, <1>1, <1>2, <1>4 DEF TakenBefore
<1>6. ASSUME NEW p \in Parts, NEW q \in ToTake(p) PROVE q \in ToTake(p)'
  <2>1. PICK i \in DOMAIN keys : q = <<num_posts, i>> /\ PartOf(keys[i]) = p
    BY DEF ToTake, PairsOf
  <2>2. i \in 1 .. Len(keys) /\ i \in Nat /\ q[2] = i /\ k \in Nat /\ keys \in Seq(Keys)
    BY <2>1, <1>1 DEF TypeOK
  <2>3. part_index < p
    <3>1. part_index < p \/ (part_index = p /\ k <= q[2])
      BY DEF ToTake
    <3>2. k <= i => PartOf(keys[i]) # part_index
      BY <1>1, <2>2 DEF Remaining
    <3> QED
      BY <3>1, <3>2, <2>1, <2>2
  <2>5. part_index + 1 < num_partitions
    BY <2>3, <1>1, SinkAssumption DEF Parts, TypeOK
  <2>6. part_index' = part_index + 1 /\ Posting'
    BY <2>5, <1>1 DEF Posting
  <2>7. part_index' < p \/ (part_index' = p /\ k' <= q[2])
    BY <2>2, <2>3, <2>6, <1>1 DEF Parts, TypeOK
  <2>8. q \in PairsOf(keys, p, num_posts)'
    BY <1>4 DEF ToTake
  <2> QED
    BY Zenon, <2>6, <2>7, <2>8 DEF ToTake
<1>7. ASSUME NEW p \in Parts PROVE posted'[p] \subseteq Taken(p)' \cup lost' \cup ToTake(p)'
  BY Zenon, <1>1, <1>4, <1>6 DEF Order
<1> QED
  BY Zenon, <1>1, <1>3, <1>5, <1>7 DEF Order

(* The buffer that is taken from the pool is emptied. *)
LEMMA TakeBufferOrder ==
  ASSUME Ownership, Order, pc \in {"acquire", "wait"}, TakeBuffer,
         UNCHANGED <<keys, k, part_index, kafka, history>>
  PROVE  Order'
<1>1. /\ TypeOK /\ payload = NoBuffer /\ Posting /\ Posting'
      /\ UNCHANGED <<keys, k, part_index, outq, log, lost, posted, num_posts>>
  BY Zenon DEF TakeBuffer, kafka, history, Ownership, BuffersNotLost, Posting
<1>2. CASE UNCHANGED <<pool, payload>>
  BY Zenon, <1>1, <1>2, OrderStays DEF pool
<1>3. ASSUME NEW b \in send_buffers, memory' = [memory EXCEPT ![b] = <<>>], payload' = b
      PROVE  Order'
  <2>1. /\ b \in Buffers /\ memory'[b] = <<>>
        /\ \A c \in Buffers : c # b => memory'[c] = memory[c]
    BY <1>1, <1>3 DEF TypeOK
  <2>2. \A c : Queued(c) => memory'[c] = memory[c]
    <3>1. ~Queued(b)
      BY <1>3 DEF Ownership, BuffersExclusive
    <3> QED
      BY Zenon, <3>1, <2>1, <1>1, InFlightAreBuffers
  <2>3. InOrder(<<>>) /\ Values(<<>>) = {}
    BY DEF InOrder, Values
  <2>4. \A p \in Parts : Filling(p) = {} /\ Filling(p)' = {}
    BY Zenon, <1>1, <1>3, <2>1, <2>3 DEF Filling
  <2>5. \A c \in Buffers : InOrder(memory'[c])
    BY Zenon, <2>1, <2>3 DEF Order
  <2>6. \A p \in Parts : PipelineInOrder(p)' /\ Queue(p)' = Queue(p)
    BY Zenon, <1>1, <2>2, <2>4, PipelineStays DEF Order
  <2>7. \A p \in Parts : Taken(p)' = Taken(p)
    BY <1>1, <2>4, <2>6 DEF Taken
  <2>8. \A p \in Parts : TakenBefore(p)'
    BY <1>1, <2>4, <2>7, TakenStays
  <2>9. \A p \in Parts : ToTake(p)' = ToTake(p)
    BY Zenon, <1>1 DEF ToTake, PairsOf
  <2> QED
    BY Zenon, <1>1, <2>5, <2>6, <2>7, <2>8, <2>9 DEF Order
<1> QED
  BY <1>2, <1>3 DEF TakeBuffer

LEMMA UnionByIndex ==
  ASSUME NEW f, NEW M, NEW q
  PROVE  q \in UNION {Values(M[b]) : b \in Values(f)} <=> \E i \in DOMAIN f : q \in Values(M[f[i]])
<1>1. \A b : b \in Values(f) <=> \E i \in DOMAIN f : f[i] = b
  BY Zenon DEF Values
<1> QED
  BY <1>1

LEMMA TailByIndex ==
  ASSUME NEW R, NEW f \in Seq(R), NEW m \in Nat, Len(f) = m + 1
  PROVE  /\ DOMAIN f = 1 .. m + 1 /\ DOMAIN Tail(f) = 1 .. m
         /\ \A i \in 1 .. m : Tail(f)[i] = f[i + 1]
  OBVIOUS

(* The head of the queue leaves it: into the log, or it is given up. *)
Sends(r) ==
  /\ outq[r] # <<>> /\ outq' = [outq EXCEPT ![r] = Tail(@)]
  /\ log' \in {log, [log EXCEPT ![r] = @ \o memory[Head(outq[r])]]}
  /\ lost \subseteq lost' /\ (log' = log => Values(memory[Head(outq[r])]) \subseteq lost')
  /\ UNCHANGED <<pc, keys, k, part_index, payload, memory, posted, num_posts>>

LEMMA SendOrder == ASSUME Ownership, Order, NEW r \in Parts, Sends(r) PROVE Order'
<1>a. outq[r] # <<>> /\ outq' = [outq EXCEPT ![r] = Tail(@)]
  BY Zenon DEF Sends
<1>b. /\ log' \in {log, [log EXCEPT ![r] = @ \o memory[Head(outq[r])]]}
      /\ lost \subseteq lost' /\ (log' = log => Values(memory[Head(outq[r])]) \subseteq lost')
  BY Zenon DEF Sends
<1>c. UNCHANGED <<pc, keys, k, part_index, payload, memory, posted, num_posts>>
  BY Zenon DEF Sends
<1>1. TypeOK
  BY Zenon DEF Ownership
<1>2. PICK n \in Nat : /\ DOMAIN outq[r] = 1 .. n + 1 /\ DOMAIN outq'[r] = 1 .. n
                       /\ \A i \in 1 .. n : outq'[r][i] = outq[r][i + 1]
                       /\ Head(outq[r]) = outq[r][1] /\ outq[r][1] \in Buffers
  <2>1. outq[r] \in Seq(Buffers) /\ outq'[r] = Tail(outq[r])
    BY <1>1, <1>a DEF TypeOK
  <2>2. PICK m \in Nat : Len(outq[r]) = m + 1
    <3>1. Len(outq[r]) - 1 \in Nat /\ Len(outq[r]) = (Len(outq[r]) - 1) + 1
      BY <2>1, <1>a
    <3> QED
      BY Zenon, <3>1
  <2>3. /\ DOMAIN outq[r] = 1 .. m + 1 /\ DOMAIN outq'[r] = 1 .. m
        /\ \A i \in 1 .. m : outq'[r][i] = outq[r][i + 1]
    <3>1. /\ DOMAIN outq[r] = 1 .. m + 1 /\ DOMAIN Tail(outq[r]) = 1 .. m
          /\ \A i \in 1 .. m : Tail(outq[r])[i] = outq[r][i + 1]
      BY <2>1, <2>2, TailByIndex
    <3> QED
      BY Zenon, <3>1, <2>1
  <2>4. Head(outq[r]) = outq[r][1] /\ outq[r][1] \in Buffers
    BY <2>1, <2>2
  <2> QED
    BY Zenon, <2>3, <2>4
<1>3. PICK s \in Seq(Nat \X Nat) : s = memory[outq[r][1]]
  BY Zenon, <1>1, <1>2 DEF TypeOK
<1>4. log[r] \in Seq(Nat \X Nat) /\ PipelineInOrder(r) /\ InOrder(s)
  BY Zenon, <1>1, <1>2, <1>3 DEF TypeOK, Order
<1>5. \A p \in Parts : p # r => outq'[p] = outq[p] /\ log'[p] = log[p]
  <2>1. DOMAIN outq = Parts /\ DOMAIN log = Parts
    BY Zenon, <1>1 DEF TypeOK
  <2>2. log' = log \/ log' = [log EXCEPT ![r] = @ \o memory[Head(outq[r])]]
    BY Zenon, <1>b
  <2> QED
    BY Zenon, <2>1, <2>2, <1>a
<1>6. Values(log[r] \o s) = Values(log[r]) \cup Values(s)
  <2>1. log[r] \in Seq(Nat \X Nat) /\ s \in Seq(Nat \X Nat)
    BY Zenon, <1>3, <1>4
  <2> QED
    BY <2>1, ConcatInOrder
<1>7. \/ log'[r] = log[r] /\ Values(s) \subseteq lost'
      \/ log'[r] = log[r] \o s /\ Values(log'[r]) = Values(log[r]) \cup Values(s)
  BY Zenon, <1>1, <1>2, <1>3, <1>6, <1>b DEF TypeOK
<1>8. \A q : q \in Queue(r) <=> \E i \in 1 .. n + 1 : q \in Values(memory[outq[r][i]])
  <2>1. Queue(r) = UNION {Values(memory[b]) : b \in Values(outq[r])}
    BY DEF Queue
  <2>2. \A q : q \in UNION {Values(memory[b]) : b \in Values(outq[r])} <=>
               \E i \in DOMAIN outq[r] : q \in Values(memory[outq[r][i]])
    BY Zenon, UnionByIndex
  <2> QED
    BY Zenon, <2>1, <2>2, <1>2
<1>9. \A q : q \in Queue(r)' <=> \E i \in 1 .. n : q \in Values(memory[outq'[r][i]])
  <2>1. Queue(r)' = UNION {Values(memory[b]) : b \in Values(outq'[r])}
    BY Zenon, <1>c DEF Queue
  <2>2. \A q : q \in UNION {Values(memory[b]) : b \in Values(outq'[r])} <=>
               \E i \in DOMAIN outq'[r] : q \in Values(memory[outq'[r][i]])
    BY Zenon, UnionByIndex
  <2> QED
    BY Zenon, <2>1, <2>2, <1>2
<1>10. \A q : q \in Queue(r) <=> q \in Queue(r)' \cup Values(s)
  <2>3. ASSUME NEW i \in 1 .. n + 1 PROVE i = 1 \/ (i - 1 \in 1 .. n /\ outq'[r][i - 1] = outq[r][i])
    BY <1>2
  <2>4. ASSUME NEW i \in 1 .. n PROVE i + 1 \in 1 .. n + 1 /\ outq'[r][i] = outq[r][i + 1]
    BY <1>2
  <2>5. ASSUME NEW q \in Queue(r) PROVE q \in Queue(r)' \cup Values(s)
    <3>1. PICK i \in 1 .. n + 1 : q \in Values(memory[outq[r][i]])
      BY Zenon, <1>8
    <3> QED
      BY Zenon, <3>1, <2>3, <1>3, <1>9
  <2>6. ASSUME NEW q \in Queue(r)' PROVE q \in Queue(r)
    <3>1. PICK i \in 1 .. n : q \in Values(memory[outq'[r][i]])
      BY Zenon, <1>9
    <3> QED
      BY Zenon, <3>1, <2>4, <1>8
  <2>7. ASSUME NEW q \in Values(s) PROVE q \in Queue(r)
    <3>1. 1 \in 1 .. n + 1
      BY <1>2
    <3> QED
      BY Zenon, <3>1, <1>3, <1>8
  <2> QED
    BY <2>5, <2>6, <2>7
<1>11. \A p \in Parts : Filling(p)' = Filling(p)
  BY Zenon, <1>c DEF Filling
<1>12. \A p \in Parts : p # r => PipelineInOrder(p)' /\ Queue(p)' = Queue(p)
  BY Zenon, <1>1, <1>5, <1>11, PipelineStays, <1>c DEF Order
<1>13. AllEarlier(Values(s), Queue(r)')
  <2>1. ASSUME NEW q \in Queue(r)' PROVE \E i \in 1 .. n : q \in Values(memory[outq[r][i + 1]])
    <3>1. PICK i \in 1 .. n : q \in Values(memory[outq'[r][i]])
      BY Zenon, <1>9
    <3> QED
      BY Zenon, <3>1, <1>2
  <2>2. ASSUME NEW i \in 1 .. n PROVE AllEarlier(Values(s), Values(memory[outq[r][i + 1]]))
    <3>1. i + 1 \in DOMAIN outq[r] /\ 1 \in 1 .. (i + 1) - 1
      BY <1>2
    <3> QED
      BY Zenon, <3>1, <1>3, <1>4 DEF PipelineInOrder
  <2> QED
    BY Zenon, <2>1, <2>2 DEF AllEarlier
<1>14. PipelineInOrder(r)'
  <2>1. Values(s) \subseteq Queue(r) /\ Queue(r)' \subseteq Queue(r)
    BY <1>10
  <2>2. InOrder(log'[r])
    <3>1. AllEarlier(Values(log[r]), Values(s)) /\ InOrder(log[r])
      BY Zenon, <2>1, <1>4 DEF PipelineInOrder, AllEarlier
    <3> QED
      <4>1. InOrder(log[r] \o s)
        BY Zenon, <3>1, <1>3, <1>4, ConcatInOrder
      <4> QED
        BY Zenon, <4>1, <3>1, <1>7
  <2>3. ASSUME NEW j \in DOMAIN outq'[r], NEW i \in 1 .. j - 1
        PROVE  AllEarlier(Values(memory'[outq'[r][i]]), Values(memory'[outq'[r][j]]))
    <3>1. /\ j + 1 \in DOMAIN outq[r] /\ i + 1 \in 1 .. (j + 1) - 1
          /\ outq'[r][i] = outq[r][i + 1] /\ outq'[r][j] = outq[r][j + 1]
      <4>1. j \in 1 .. n
        BY Zenon, <1>2
      <4>2. i \in 1 .. n /\ j + 1 \in 1 .. n + 1 /\ i + 1 \in 1 .. (j + 1) - 1
        BY <4>1
      <4> QED
        BY Zenon, <4>1, <4>2, <1>2
    <3> QED
      BY Zenon, <3>1, <1>4, <1>c DEF PipelineInOrder
  <2>4. AllEarlier(Values(log'[r]), Queue(r)')
    BY Zenon, <2>1, <1>4, <1>7, <1>13 DEF PipelineInOrder, AllEarlier
  <2>5. AllEarlier(Values(log'[r]) \cup Queue(r)', Filling(r)')
    BY Zenon, <2>1, <1>4, <1>7, <1>11 DEF PipelineInOrder, AllEarlier
  <2> QED
    BY Zenon, <2>2, <2>3, <2>4, <2>5 DEF PipelineInOrder
<1>15. \A p \in Parts : Taken(p)' \subseteq Taken(p) /\ Taken(p) \subseteq Taken(p)' \cup lost'
  <2>1. Taken(r)' \subseteq Taken(r) /\ Taken(r) \subseteq Taken(r)' \cup lost'
    BY Zenon, <1>7, <1>10, <1>11 DEF Taken
  <2>2. ASSUME NEW p \in Parts, p # r PROVE Taken(p)' = Taken(p)
    BY Zenon, <2>2, <1>5, <1>11, <1>12 DEF Taken
  <2> QED
    BY <2>1, <2>2
<1>16. \A p \in Parts : TakenBefore(p)'
  <2>1. Posting' => Posting
    BY <1>c DEF Posting
  <2> QED
    BY Zenon, <2>1, <1>11, <1>15, TakenStays, <1>c
<1>17. ASSUME NEW p \in Parts PROVE posted'[p] \subseteq Taken(p)' \cup lost' \cup ToTake(p)'
  <2>1. ToTake(p)' = ToTake(p)
    BY Zenon, <1>c DEF ToTake, PairsOf, Posting
  <2> QED
    <3>1. posted[p] \subseteq Taken(p) \cup lost \cup ToTake(p) /\ posted'[p] = posted[p]
      BY Zenon, <1>c DEF Order
    <3> QED
      BY Zenon, <1>b, <1>15, <2>1, <3>1
<1> QED
  BY Zenon, <1>12, <1>14, <1>16, <1>17, <1>c DEF Order

LEMMA NextOrder == ASSUME Ownership, Order, [Next]_vars PROVE Order'
<1>1. CASE UNCHANGED vars
  BY <1>1, OrderStays DEF vars, poster, pool, kafka, history, Posting
<1>2. ASSUME NEW ks \in Posts, Post(ks) PROVE Order'
  BY Zenon, <1>2, PostOrder
<1>3. CASE NeedBuffer \/ AcquireWait \/ Flush \/ FlushReturns
  BY <1>3, OrderStays
     DEF NeedBuffer, AcquireWait, Flush, FlushReturns, pool, kafka, history, Posting
<1>4. CASE AppendPair \/ Produce \/ ProduceThrows \/ NextPart
  BY <1>4, AppendPairOrder, ProduceOrder, ProduceThrowsOrder, NextPartOrder
<1>5. CASE Acquire \/ Wake \/ SpuriousWake
  BY Zenon, <1>5, TakeBufferOrder DEF Acquire, Wake, SpuriousWake
<1>6. CASE OnDelivered
  BY Zenon, <1>6, OrderStays DEF OnDelivered, poster, history, Posting
<1>7. CASE Notify
  BY <1>7, OrderStays DEF Notify, pool, history, Posting
<1>8. ASSUME NEW p \in Parts, Transmit(p) PROVE Order'
  <2>1. log' # log \/ memory[Head(outq[p])] = <<>>
    <3>1. log' = [log EXCEPT ![p] = @ \o memory[Head(outq[p])]] /\ outq[p] # <<>>
      BY <1>8 DEF Transmit
    <3>2. log[p] \in Seq(Nat \X Nat) /\ log'[p] = log[p] \o memory[Head(outq[p])]
      BY Zenon, <3>1 DEF Ownership, TypeOK
    <3>3. Head(outq[p]) \in Buffers
      <4>1. outq[p] \in Seq(Buffers)
        BY Zenon DEF Ownership, TypeOK
      <4> QED
        BY <3>1, <4>1, HeadTailType
    <3>4. PICK s \in Seq(Nat \X Nat) : s = memory[Head(outq[p])]
      BY Zenon, <3>3 DEF Ownership, TypeOK
    <3>5. Len(log[p] \o s) = Len(log[p]) + Len(s)
      BY <3>2, <3>4
    <3>6. ASSUME log' = log PROVE Len(s) = 0
      <4>1. log[p] = log[p] \o s
        BY Zenon, <3>2, <3>4, <3>6
      <4>2. Len(log[p]) = Len(log[p]) + Len(s)
        BY Zenon, <4>1, <3>5
      <4>3. Len(log[p]) \in Nat /\ Len(s) \in Nat
        BY <3>2
      <4> QED
        BY <4>2, <4>3
    <3> QED
      BY <3>4, <3>6
  <2>2. Values(<<>>) = {}
    BY DEF Values
  <2> QED
    BY Zenon, <2>1, <2>2, <1>8, SendOrder DEF Sends, Transmit, poster, pool, history
<1>9. ASSUME NEW p \in Parts, GiveUp(p) PROVE Order'
  BY Zenon, <1>9, SendOrder DEF Sends, GiveUp, poster, pool
<1> QED
  BY <1>1, <1>2, <1>3, <1>4, <1>5, <1>6, <1>7, <1>8, <1>9 DEF Next, PosterStep, EventStep

(***************************************************************************)
(* KafkaMessageSink (kafka_message.cpp), with any number of posts, send    *)
(* buffers and partitions, and any failures: a buffer that librdkafka      *)
(* reads is neither in the pool nor being filled, and no more buffers are  *)
(* missing for good than messages have failed; no pair is overtaken by     *)
(* another one of its partition, and none is lost on the way.              *)
(***************************************************************************)
THEOREM Invariance == Spec => []IInv
<1>1. Init => IInv
  BY InitOwnership, InitOrder DEF IInv
<1>2. IInv /\ [Next]_vars => IInv'
  BY NextOwnership, NextOrder DEF IInv
<1> QED
  BY <1>1, <1>2, PTL DEF Spec

(***************************************************************************)
(* The log of a partition has its pairs in the order of the posts, none    *)
(* twice, and leaves out only those of messages that were given up.        *)
(***************************************************************************)
THEOREM LogInOrderHolds == Spec => []LogInOrder
<1>1. IInv => LogInOrder
  <2> SUFFICES ASSUME IInv, NEW p \in Parts PROVE
                 /\ InOrder(log[p])
                 /\ \A q \in posted[p], r \in Values(log[p]) :
                      Earlier(q, r) => q \in Values(log[p]) \cup lost
    BY Zenon DEF LogInOrder
  <2>1. /\ TypeOK /\ PipelineInOrder(p) /\ TakenBefore(p)
        /\ posted[p] \subseteq Taken(p) \cup lost \cup ToTake(p)
    BY Zenon DEF IInv, Ownership, Order
  <2>2. ASSUME NEW q \in posted[p], NEW r \in Values(log[p]), Earlier(q, r), q \notin Values(log[p]),
               q \notin lost
        PROVE  FALSE
    <3>1. r \in Taken(p) /\ r[1] \in Nat /\ r[2] \in Nat
      BY Zenon, <2>1, TakenType DEF Taken
    <3>2. CASE q \in Taken(p)
      <4>1. q[1] \in Nat /\ q[2] \in Nat
        BY <3>2, <2>1, TakenType
      <4>2. Earlier(r, q)
        BY Zenon, <3>2, <2>1, <2>2 DEF PipelineInOrder, AllEarlier, Taken
      <4> QED
        BY <2>2, <3>1, <4>1, <4>2 DEF Earlier
    <3>3. CASE q \in ToTake(p)
      <4>1. q \in PairsOf(keys, p, num_posts) /\ Posting
        BY Zenon, <3>3 DEF ToTake
      <4>2. /\ part_index < p \/ (part_index = p /\ k <= q[2])
            /\ q[1] = num_posts /\ q[2] \in Nat /\ num_posts \in Nat /\ k \in Nat /\ part_index \in Nat
            /\ p \in Nat
        BY <3>3, <2>1 DEF ToTake, PairsOf, TypeOK, Parts
      <4>3. /\ r[1] <= num_posts
            /\ r[1] = num_posts => p < part_index \/ (p = part_index /\ r[2] < k)
        BY Zenon, <3>1, <4>1, <2>1 DEF TakenBefore
      <4> QED
        BY <4>2, <4>3, <3>1, <2>2 DEF Earlier
    <3> QED
      BY Zenon, <3>2, <3>3, <2>1, <2>2
  <2> QED
    BY Zenon, <2>1, <2>2 DEF PipelineInOrder
<1> QED
  BY <1>1, Invariance, PTL

(***************************************************************************)
(* flush returns only when every pair that was posted before is in the log *)
(* of its partition, or its message was given up.                          *)
(***************************************************************************)
THEOREM FlushIsBarrierHolds == Spec => FlushIsBarrier
<1>1. ASSUME IInv, Next, pc = "flush", pc' # "flush"
      PROVE  \A p \in Parts : posted[p] \subseteq Values(log[p]) \cup lost
  <2>1. FlushReturns
    BY Zenon, <1>1 DEF Next, PosterStep, EventStep, Post, NeedBuffer, AppendPair, Produce, ProduceThrows,
       NextPart, Acquire, AcquireWait, Wake, SpuriousWake, Flush, OnDelivered, Notify, Transmit, GiveUp,
       poster
  <2>2. ASSUME NEW p \in Parts PROVE Queue(p) = {} /\ Filling(p) = {} /\ ToTake(p) = {}
    <3>1. outq[p] = <<>> /\ payload = NoBuffer /\ ~Posting
      BY <1>1, <2>1 DEF FlushReturns, Outstanding, IInv, Ownership, BuffersNotLost, Posting
    <3>2. Values(<<>>) = {}
      BY DEF Values
    <3> QED
      BY Zenon, <3>1, <3>2 DEF Queue, Filling, ToTake
  <2> QED
    BY Zenon, <1>1, <2>2 DEF IInv, Order, Taken
<1>2. IInv /\ [Next]_vars =>
        [pc = "flush" /\ pc' # "flush" =>
           \A p \in Parts : posted[p] \subseteq Values(log[p]) \cup lost]_vars
  BY <1>1
<1> QED
  BY <1>2, Invariance, PTL DEF Spec, FlushIsBarrier
=============================================================================
