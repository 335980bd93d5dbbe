--------------------- MODULE KafkaMessageSourceOrderProofs ---------------------
(***************************************************************************)
(* Theorems about KafkaMessageSource: the order in which pairs reach the   *)
(* callback, for any topics, partitions, logs and batch sizes.             *)
(***************************************************************************)
EXTENDS KafkaMessageSourceProofs

(* The order in which the callback sees pairs. *)

(* After the callback, the pair of a partition that was applied last is    *)
(* the last one of the buffer; the partitions of other topics keep theirs. *)
LEMMA ApplyLast ==
  ASSUME TypeOK, Reading, NEW t \in Topics, BufferInOrder(t), Apply(t)
  PROVE  /\ applied' \in [Parts -> Place]
         /\ \A p \in Parts :
              \/ /\ applied'[p] = applied[p]
                 /\ \A q \in InBuffer(t) : q.part # p
              \/ /\ applied'[p] \in InBuffer(t) /\ applied'[p].part = p
                 /\ \A q \in InBuffer(t) : q.part = p => ~Before(applied'[p], q)
<1> DEFINE pairs == buffers[t].pairs
<1>1. pairs \in Seq(Pair) /\ Len(pairs) \in Nat /\ DOMAIN pairs = 1 .. Len(pairs)
  BY DEF TypeOK, Buffer
<1>2. PICK last \in [Parts -> 0 .. Len(pairs)] :
        /\ \A p \in Parts : /\ last[p] # 0 => pairs[last[p]].part = p
                            /\ \A i \in last[p] + 1 .. Len(pairs) : pairs[i].part # p
        /\ applied' = [p \in Parts |-> IF last[p] = 0 THEN applied[p] ELSE pairs[last[p]]]
  BY Zenon DEF Apply
<1>3. InBuffer(t) = {pairs[i] : i \in DOMAIN pairs}
  BY DEF InBuffer
<1>a. \A k \in DOMAIN pairs : \A j \in 1 .. k - 1 :
        pairs[j].part = pairs[k].part => Before(pairs[j], pairs[k])
  BY Zenon DEF BufferInOrder
<1> HIDE DEF pairs
<1>4. \A k, j \in DOMAIN pairs : j < k /\ pairs[j].part = pairs[k].part => Before(pairs[j], pairs[k])
  BY <1>1, <1>a
<1>5. ASSUME NEW p \in Parts
      PROVE  \/ /\ applied'[p] = applied[p]
                /\ \A q \in InBuffer(t) : q.part # p
             \/ /\ applied'[p] \in InBuffer(t) /\ applied'[p].part = p
                /\ \A q \in InBuffer(t) : q.part = p => ~Before(applied'[p], q)
  <2>1. CASE last[p] = 0
    <3>1. \A k \in DOMAIN pairs : pairs[k].part # p
      BY <2>1, <1>1, <1>2
    <3>2. applied'[p] = applied[p]
      BY <2>1, <1>2
    <3> QED
      BY <3>1, <3>2, <1>3
  <2>2. CASE last[p] # 0
    <3>1. PICK i \in DOMAIN pairs : /\ i = last[p] /\ pairs[i].part = p /\ applied'[p] = pairs[i]
                                   /\ \A j \in i + 1 .. Len(pairs) : pairs[j].part # p
      <4>1. last[p] \in DOMAIN pairs
        BY <2>2, <1>1, <1>2
      <4> QED
        BY <2>2, <4>1, <1>2
    <3>2. ASSUME NEW k \in DOMAIN pairs, pairs[k].part = p PROVE ~Before(pairs[i], pairs[k])
      <4>1. i \in 1 .. Len(pairs) /\ k \in 1 .. Len(pairs) /\ pairs[i] \in Pair /\ pairs[k] \in Pair
        BY <1>1
      <4>2. k <= i
        BY <3>1, <3>2, <4>1, <1>1
      <4>3. CASE k = i
        BY <4>3, <4>1 DEF Before, Pair
      <4>4. CASE k < i
        <5>1. Before(pairs[k], pairs[i])
          BY <4>4, <3>1, <3>2, <1>4
        <5> QED
          BY <5>1, <4>1 DEF Before, Pair
      <4> QED
        BY <4>1, <4>2, <4>3, <4>4, <1>1
    <3> QED
      BY <3>1, <3>2, <1>3
  <2> QED
    BY <2>1, <2>2
<1>6. applied' \in [Parts -> Place]
  <2>1. InBuffer(t) \subseteq Place
    <3>1. Pair \subseteq Place
      BY DEF Pair, Place
    <3> QED
      BY <3>1, <1>1, <1>3
  <2>2. \A p \in Parts : applied[p] \in Place
    BY DEF Reading
  <2>3. \A p \in Parts : applied'[p] \in Place
    BY <2>1, <2>2, <1>5
  <2> QED
    BY <2>3, <1>2
<1> QED
  BY <1>5, <1>6

(* A pair in a buffer, with its type and what is known of it. *)
LEMMA Waiting ==
  ASSUME TypeOK, NEW t \in Topics, BufferInOrder(t), NEW q \in InBuffer(t)
  PROVE  /\ q \in Pair /\ q.part \in Parts /\ q.offset \in Nat \ {0} /\ q.index \in Nat \ {0}
         /\ TopicOf[q.part] = t
         /\ committed[q.part] <= q.offset /\ q.offset < position[q.part]
         /\ msg.part = q.part => \/ q.offset < msg.offset
                                 \/ q.offset = msg.offset /\ q.index <= msg.copied
<1>1. PICK k \in DOMAIN buffers[t].pairs : q = buffers[t].pairs[k]
  BY DEF InBuffer
<1>2. q \in Pair
  BY <1>1 DEF TypeOK, Buffer
<1>3. q.part \in Parts /\ q.offset \in Nat \ {0} /\ q.index \in Nat \ {0}
  BY <1>2 DEF Pair
<1> QED
  BY Zenon, <1>1, <1>2, <1>3 DEF BufferInOrder

(* What the callback applies leaves no gap, and does not set the receiver  *)
(* back to before the committed offsets.                                   *)
LEMMA ApplyOrder ==
  ASSUME Delivery, Order, NEW t \in Topics, Apply(t), pc # "idle", committed' = committed
  PROVE  NoGap' /\ StaleBounded'
<1>1. received' = received \cup InBuffer(t)
  BY ApplyStep
<1>2. TypeOK /\ BufferInOrder(t)
  BY DEF Delivery, Order
<1>3. ASSUME NEW q \in received', NEW o \in 1 .. q.offset, NEW i \in 1 .. Log[q.part][o].pairs,
             Before(PairAt(q.part, o, i), q)
      PROVE  PairAt(q.part, o, i) \in received'
  <2>1. CASE q \in received
    BY <2>1, <1>1, <1>3 DEF Order, ReceivedInOrder, NoGap
  <2>2. CASE q \in InBuffer(t)
    <3>1. /\ q.part \in Parts /\ q.offset \in Nat /\ q.index \in Nat /\ TopicOf[q.part] = t
          /\ q.offset < position[q.part]
          /\ msg.part = q.part => \/ q.offset < msg.offset
                                  \/ q.offset = msg.offset /\ q.index <= msg.copied
      BY <2>2, <1>2, Waiting
    <3>2. position[q.part] \in Nat /\ o \in 1 .. position[q.part] - 1
      BY <3>1 DEF Delivery, TypeOK
    <3>3. \/ PairAt(q.part, o, i) \in received \cup InBuffer(t)
          \/ msg.part = q.part /\ msg.offset = o /\ i > msg.copied
      BY <3>1, <3>2 DEF Delivery, Accounted
    <3>4. ASSUME msg.part = q.part, msg.offset = o, i > msg.copied PROVE FALSE
      <4>1. i \in Nat /\ msg.copied \in Nat /\ o \in Nat
        <5>1. Log[q.part][o].pairs \in Nat
          BY <3>1, <3>2, Polled DEF Delivery, Message
        <5> QED
          BY <5>1, <3>1 DEF Delivery, TypeOK
      <4>2. o < q.offset \/ (o = q.offset /\ i < q.index)
        BY <1>3 DEF Before, PairAt
      <4> QED
        BY <3>1, <3>4, <4>1, <4>2
    <3> QED
      BY <3>3, <3>4, <1>1
  <2> QED
    BY <2>1, <2>2, <1>1
<1>4. NoGap'
  BY <1>3 DEF NoGap, Before, PairAt
<1>5. StaleBounded'
  <2> SUFFICES ASSUME NEW p \in Parts, NEW o \in 1 .. committed[p] - 1, NEW i \in 1 .. Log[p][o].pairs
               PROVE  ~Before(applied'[p], PairAt(p, o, i))
    BY DEF StaleBounded, Before, PairAt
  <2>1. \/ applied'[p] = applied[p]
        \/ applied'[p] \in InBuffer(t) /\ applied'[p].part = p
    BY <1>2, ApplyLast DEF Order
  <2>2. CASE applied'[p] = applied[p]
    BY <2>2 DEF Order, StaleBounded
  <2>3. CASE applied'[p] \in InBuffer(t) /\ applied'[p].part = p
    <3>1. PICK q \in InBuffer(t) : q = applied'[p] /\ q.part = p
      BY <2>3
    <3>2. committed[p] <= q.offset /\ q.offset \in Nat
      BY <3>1, <1>2, Waiting
    <3>3. committed[p] \in Nat /\ o < committed[p] /\ o \in Nat
      BY DEF Delivery, TypeOK
    <3>4. ~Before(q, PairAt(p, o, i))
      BY <3>2, <3>3 DEF Before, PairAt
    <3> QED
      BY <3>1, <3>4
  <2> QED
    BY <2>1, <2>2, <2>3
<1> QED
  BY <1>4, <1>5

(* The thread is gone, after a last delivery or not. *)
LEMMA ExitOrder ==
  ASSUME Delivery, Order, Exit, committed' = committed, pc # "idle",
         \/ UNCHANGED receiver
         \/ \E t \in Topics : Apply(t)
  PROVE  Order'
<1>1. NoGap' /\ StaleBounded' /\ applied' \in [Parts -> Place]
  <2>1. CASE UNCHANGED receiver
    BY <2>1 DEF receiver, Order, ReceivedInOrder, NoGap, StaleBounded, Reading, Before, PairAt
  <2>2. ASSUME NEW t \in Topics, Apply(t) PROVE NoGap' /\ StaleBounded' /\ applied' \in [Parts -> Place]
    BY <2>2, ApplyOrder, ApplyLast DEF Delivery, Order
  <2> QED
    BY <2>1, <2>2
<1>2. /\ pc' = "idle" /\ \A t \in Topics : buffers'[t] = NoBuffer
  BY DEF Exit
<1>3. \A t \in Topics : buffers'[t].pairs = <<>> /\ buffers'[t].value_size = 0
  BY <1>2 DEF NoBuffer
<1>4. Reading'
  BY <1>1, <1>2, <1>3 DEF Reading
<1>5. \A t \in Topics : BufferInOrder(t)'
  BY <1>3 DEF BufferInOrder
<1>6. AppliedBelow'
  BY <1>2 DEF AppliedBelow
<1>7. OneValueSize'
  BY <1>3 DEF OneValueSize, InBuffer
<1> QED
  BY <1>1, <1>4, <1>5, <1>6, <1>7 DEF Order, ReceivedInOrder

LEMMA SameSettled ==
  ASSUME NEW p \in Parts, NEW o, NEW i, Settled(p, o, i), msg' = msg, applied' = applied,
         \A t \in Topics : buffers'[t].pairs = buffers[t].pairs
  PROVE  Settled(p, o, i)'
<1>1. InBuffer(TopicOf[p])' = InBuffer(TopicOf[p])
  BY SourceAssumption DEF InBuffer
<1> QED
  BY <1>1, Zenon DEF Settled, Before, PairAt

LEMMA KeptBufferOrder ==
  ASSUME NEW t \in Topics, BufferInOrder(t), buffers'[t].pairs = buffers[t].pairs,
         committed' = committed, position' = position, msg' = msg
  PROVE  BufferInOrder(t)'
BY DEF BufferInOrder, Before

(* Steps that leave buffers, the message at hand and the receiver alone.   *)
LEMMA SameOrder ==
  ASSUME Delivery, Order, UNCHANGED <<committed, position, buffers, msg, received, applied>>,
         \/ pc' = pc
         \/ pc = "poll" /\ pc' = "flush"
         \/ pc = "flush" /\ pc' = "poll"
         \/ pc = "full" /\ pc' = "copy"
  PROVE  Order'
<1>1. Reading'
  BY DEF Order, Reading
<1>2. \A t \in Topics : BufferInOrder(t)'
  BY Zenon, KeptBufferOrder DEF Order
<1>3. AppliedBelow'
  <2>1. ASSUME NEW p \in Parts, NEW o \in 1 .. position[p] - 1, NEW i \in 1 .. Log[p][o].pairs,
               pc # "idle"
        PROVE  Settled(p, o, i)'
    BY <2>1, SameSettled DEF Order, AppliedBelow
  <2> QED
    BY <2>1 DEF AppliedBelow
<1>4. ReceivedInOrder' /\ StaleBounded'
  BY DEF Order, ReceivedInOrder, NoGap, OneValueSize, StaleBounded, Before, PairAt, InBuffer, ValueSize
<1> QED
  BY <1>1, <1>2, <1>3, <1>4 DEF Order

(* Reading resumes at the committed offsets, with empty buffers. *)
LEMMA EngageOrder == ASSUME Delivery, Order, Engage PROVE Order'
<1>1. /\ pc = "idle" /\ pc' = "poll" /\ position' = committed
      /\ UNCHANGED <<committed, buffers, msg, received, applied>>
  BY DEF Engage, broker, receiver
<1>2. \A t \in Topics : buffers[t].pairs = <<>>
  BY <1>1 DEF Order, Reading
<1>3. Reading'
  BY <1>1, <1>2 DEF Order, Reading, Delivery, TypeOK
<1>4. \A t \in Topics : BufferInOrder(t)'
  BY <1>1, <1>2 DEF BufferInOrder
<1>5. StaleBounded'
  BY Zenon, <1>1 DEF Order, StaleBounded, Before, PairAt
<1>6. AppliedBelow'
  <2>1. \A p \in Parts : InBuffer(TopicOf[p])' = {}
    BY <1>1, <1>2, SourceAssumption DEF InBuffer
  <2>2. \A p \in Parts : \A o \in 1 .. position'[p] - 1 : \A i \in 1 .. Log[p][o].pairs :
          ~Before(applied'[p], PairAt(p, o, i))
    BY <1>1, <1>5 DEF StaleBounded, Before, PairAt
  <2>3. ASSUME NEW p \in Parts, NEW o \in 1 .. position'[p] - 1, NEW i \in 1 .. Log[p][o].pairs
        PROVE  Settled(p, o, i)'
    BY <2>1, <2>2 DEF Settled, Before, PairAt
  <2> QED
    BY <2>3 DEF AppliedBelow
<1>7. ReceivedInOrder'
  BY <1>1 DEF Order, ReceivedInOrder, NoGap, OneValueSize, Before, PairAt, InBuffer, ValueSize
<1> QED
  BY <1>3, <1>4, <1>5, <1>6, <1>7 DEF Order

(* A buffer keeps its order while only position and msg move on. *)
LEMMA SameBufferOrder ==
  ASSUME TypeOK, NEW t \in Topics, BufferInOrder(t), buffers'[t].pairs = buffers[t].pairs,
         \A q \in InBuffer(t) :
           /\ committed'[q.part] <= q.offset /\ q.offset < position'[q.part]
           /\ msg'.part = q.part => \/ q.offset < msg'.offset
                                    \/ q.offset = msg'.offset /\ q.index <= msg'.copied
  PROVE  BufferInOrder(t)'
<1>1. \A k \in DOMAIN buffers[t].pairs : buffers[t].pairs[k] \in InBuffer(t)
  BY DEF InBuffer
<1> QED
  BY <1>1 DEF BufferInOrder, Before

(* Nothing is applied, committed or put into a buffer. *)
LEMMA SameReceived ==
  ASSUME Order, UNCHANGED <<committed, received, applied>>,
         \A t \in Topics : /\ buffers'[t].pairs = buffers[t].pairs
                           /\ buffers[t].pairs # <<>> => buffers'[t].value_size = buffers[t].value_size
  PROVE  ReceivedInOrder' /\ StaleBounded'
<1>1. NoGap' /\ StaleBounded'
  BY DEF Order, ReceivedInOrder, NoGap, StaleBounded, Before, PairAt
<1>2. OneValueSize'
  BY DEF Order, ReceivedInOrder, OneValueSize, InBuffer, ValueSize
<1> QED
  BY <1>1, <1>2 DEF ReceivedInOrder

LEMMA SkipOrder == ASSUME Delivery, Order, NEW p \in Parts, Skip(p) PROVE Order'
<1>1. /\ pc = "poll" /\ Log[p][position[p]].pairs = 0 /\ position' = [position EXCEPT ![p] = @ + 1]
      /\ UNCHANGED <<committed, pc, buffers, msg, received, applied>>
  BY DEF Skip, broker, receiver
<1>2. /\ position \in [Parts -> Nat \ {0}] /\ committed \in [Parts -> Nat \ {0}] /\ msg = NoMsg
  BY <1>1 DEF Delivery, TypeOK, MessageAtHand
<1>3. /\ \A x \in Parts : position[x] <= position'[x] /\ position'[x] \in Nat
      /\ \A x \in Parts : x # p => position'[x] = position[x]
      /\ position'[p] = position[p] + 1
  BY <1>1, <1>2
<1>4. Reading'
  <2>1. \A x \in Parts : committed[x] <= position[x]
    BY <1>1 DEF Order, Reading
  <2>2. \A x \in Parts : committed'[x] <= position'[x]
    BY <1>1, <1>2, <1>3, <2>1
  <2> QED
    BY <2>2, <1>1 DEF Order, Reading
<1>5. ASSUME NEW t \in Topics PROVE BufferInOrder(t)'
  <2>1. TypeOK /\ BufferInOrder(t)
    BY DEF Delivery, Order
  <2>2. ASSUME NEW q \in InBuffer(t)
        PROVE  /\ committed'[q.part] <= q.offset /\ q.offset < position'[q.part]
               /\ msg'.part # q.part
    BY <2>1, <1>1, <1>2, <1>3, Waiting, SourceAssumption DEF NoMsg
  <2> QED
    BY <2>1, <2>2, <1>1, SameBufferOrder
<1>6. AppliedBelow'
  <2>1. ASSUME NEW x \in Parts, NEW o \in 1 .. position'[x] - 1, NEW i \in 1 .. Log[x][o].pairs
        PROVE  Settled(x, o, i)'
    <3>1. o \in 1 .. position[x] - 1
      BY <1>1, <1>2, <1>3
    <3>2. Settled(x, o, i)
      BY <3>1, <1>1 DEF Order, AppliedBelow
    <3> QED
      BY <3>2, <1>1, SameSettled
  <2> QED
    BY <2>1 DEF AppliedBelow
<1>7. ReceivedInOrder' /\ StaleBounded'
  BY <1>1, SameReceived
<1> QED
  BY <1>4, <1>5, <1>6, <1>7 DEF Order

(* A message is taken up: no buffer holds a pair of it, and the buffer of  *)
(* its topic is of its value size unless it has to be handed over first.   *)
LEMMA ReceiveOrder == ASSUME Delivery, Order, NEW p \in Parts, Receive(p) PROVE Order'
<1> DEFINE m == Log[p][position[p]]
<1>1. /\ pc = "poll" /\ m.pairs > 0 /\ position' = [position EXCEPT ![p] = @ + 1]
      /\ position[p] <= end[p]
      /\ msg' = [part |-> p, offset |-> position[p], copied |-> 0]
      /\ UNCHANGED <<committed, received, applied>>
  BY DEF Receive, broker, receiver
<1>2. /\ position \in [Parts -> Nat \ {0}] /\ committed \in [Parts -> Nat \ {0}] /\ msg = NoMsg
      /\ buffers \in [Topics -> Buffer]
  BY Zenon, <1>1 DEF Delivery, TypeOK, MessageAtHand
<1>3. /\ \A x \in Parts : position[x] <= position'[x] /\ position'[x] \in Nat
      /\ \A x \in Parts : x # p => position'[x] = position[x]
      /\ position'[p] = position[p] + 1
  BY <1>1, <1>2
<1>4. PICK t \in Topics : t = TopicOf[p]
  BY SourceAssumption
<1>5. m \in Message /\ m.value_size \in Nat \ {0}
  <2>1. position[p] \in 1 .. Len(Log[p])
    <3>1. end[p] \in Nat /\ end[p] <= Len(Log[p])
      BY Zenon DEF Delivery, TypeOK
    <3>2. Len(Log[p]) \in Nat
      BY SourceAssumption
    <3>3. position[p] <= end[p] /\ position[p] \in Nat \ {0}
      BY <1>1, <1>2
    <3> QED
      BY <3>1, <3>2, <3>3
  <2> QED
    BY <2>1, Messages DEF Message
<1>6. PICK n \in Nat \ {0} : n = m.value_size
  BY <1>5
<1>7. buffers' = [buffers EXCEPT ![t].value_size = IF @ = 0 THEN n ELSE @]
  BY <1>4, <1>6 DEF Receive
<1>8. pc' = IF buffers'[t].value_size # n THEN "resize" ELSE "copy"
  BY <1>4, <1>6 DEF Receive
<1> HIDE DEF m
<1>9. PICK s \in Nat \ {0} : /\ buffers[t].value_size # 0 => s = buffers[t].value_size
                             /\ buffers' = [buffers EXCEPT ![t] = [buffers[t] EXCEPT !.value_size = s]]
  <2>1. buffers[t].value_size \in Nat
    BY <1>2 DEF Buffer
  <2> QED
    BY Zenon, <2>1, <1>7
<1>10. /\ buffers'[t].value_size = s
       /\ \A u \in Topics : /\ buffers'[u].pairs = buffers[u].pairs
                            /\ u # t => buffers'[u].value_size = buffers[u].value_size
  <2>1. buffers[t] \in Buffer
    BY <1>2
  <2>2. PICK r : r = [buffers[t] EXCEPT !.value_size = s]
    BY Zenon
  <2>3. r.value_size = s /\ r.pairs = buffers[t].pairs
    BY <2>1, <2>2 DEF Buffer
  <2>4. buffers' = [buffers EXCEPT ![t] = r]
    BY <2>2, <1>9
  <2> QED
    BY <2>3, <2>4, <1>2
<1>11. \A u \in Topics : buffers[u].value_size = 0 => buffers[u].pairs = <<>>
  BY Zenon DEF Order, Reading
<1>12. Reading'
  <2>1. \A x \in Parts : committed[x] <= position[x]
    BY Zenon, <1>1 DEF Order, Reading
  <2>2. \A x \in Parts : committed'[x] <= position'[x]
    BY <1>1, <1>2, <1>3, <2>1
  <2>3. \A u \in Topics : buffers'[u].value_size = 0 => buffers'[u].pairs = <<>>
    BY <1>10, <1>11
  <2>4. msg'.part = p /\ msg'.offset = position[p] /\ msg'.copied = 0
    BY <1>1
  <2>5. pc' \in {"resize", "copy"} /\ (pc' = "copy" => s = n)
    BY <1>8, <1>10
  <2>6. applied' \in [Parts -> Place]
    BY Zenon, <1>1 DEF Order, Reading
  <2>7. committed'[msg'.part] <= msg'.offset /\ position'[msg'.part] = msg'.offset + 1
    BY Zenon, <2>1, <2>4, <1>1, <1>3
  <2>8. Log[msg'.part][msg'.offset].pairs > 0 /\ Log[msg'.part][msg'.offset].value_size = n
    BY Zenon, <2>4, <1>1, <1>6 DEF m
  <2>9. buffers'[TopicOf[msg'.part]].value_size = s
    BY Zenon, <2>4, <1>4, <1>10
  <2> QED
    BY Zenon, <2>2, <2>3, <2>4, <2>5, <2>6, <2>7, <2>8, <2>9 DEF Reading
<1>13. ASSUME NEW u \in Topics PROVE BufferInOrder(u)'
  <2>1. TypeOK /\ BufferInOrder(u)
    BY DEF Delivery, Order
  <2>2. ASSUME NEW q \in InBuffer(u)
        PROVE  /\ committed'[q.part] <= q.offset /\ q.offset < position'[q.part]
               /\ msg'.part = q.part => q.offset < msg'.offset
    <3>1. /\ q.part \in Parts /\ q.offset \in Nat /\ committed[q.part] <= q.offset
          /\ q.offset < position[q.part]
      BY Zenon, <2>1, Waiting
    <3>2. msg'.part = p /\ msg'.offset = position[p]
      BY <1>1
    <3> QED
      BY <3>1, <3>2, <1>1, <1>2, <1>3
  <2> QED
    BY Zenon, <2>1, <2>2, <1>10, SameBufferOrder
<1>14. AppliedBelow'
  <2>1. ASSUME NEW x \in Parts, NEW o \in 1 .. position'[x] - 1, NEW i \in 1 .. Log[x][o].pairs
        PROVE  Settled(x, o, i)'
    <3>1. CASE o \in 1 .. position[x] - 1
      <4>1. Settled(x, o, i) /\ msg.part # x
        BY <3>1, <1>1, <1>2, SourceAssumption DEF Order, AppliedBelow, NoMsg
      <4>2. InBuffer(TopicOf[x])' = InBuffer(TopicOf[x])
        BY Zenon, <1>10, SourceAssumption DEF InBuffer
      <4> QED
        BY <4>1, <4>2, <1>1, Zenon DEF Settled, Before, PairAt
    <3>2. CASE ~(o \in 1 .. position[x] - 1)
      <4>1. x = p /\ o = position[p]
        BY <3>2, <1>2, <1>3
      <4>2. i > 0
        OBVIOUS
      <4> QED
        BY Zenon, <4>1, <4>2, <1>1 DEF Settled
    <3> QED
      BY <3>1, <3>2
  <2> QED
    BY <2>1 DEF AppliedBelow
<1>15. ReceivedInOrder' /\ StaleBounded'
  <2>1. ASSUME NEW u \in Topics
        PROVE  /\ buffers'[u].pairs = buffers[u].pairs
               /\ buffers[u].pairs # <<>> => buffers'[u].value_size = buffers[u].value_size
    BY <1>9, <1>10, <1>11
  <2> QED
    BY Zenon, <2>1, <1>1, SameReceived
<1> QED
  BY <1>12, <1>13, <1>14, <1>15 DEF Order

(* Whatever was copied before is not behind what the callback applied last. *)
LEMMA ApplySettled ==
  ASSUME Delivery, Order, NEW t \in Topics, Apply(t),
         NEW p \in Parts, NEW o \in 1 .. position[p] - 1, NEW i \in 1 .. Log[p][o].pairs,
         Settled(p, o, i), ~(msg.part = p /\ msg.offset = o /\ i > msg.copied)
  PROVE  /\ TopicOf[p] # t => applied'[p] = applied[p]
         /\ TopicOf[p] = t => ~Before(applied'[p], PairAt(p, o, i))
<1>1. TypeOK /\ Reading /\ BufferInOrder(t)
  BY DEF Delivery, Order
<1>2. \/ /\ applied'[p] = applied[p]
         /\ \A q \in InBuffer(t) : q.part # p
      \/ /\ applied'[p] \in InBuffer(t) /\ applied'[p].part = p
         /\ \A q \in InBuffer(t) : q.part = p => ~Before(applied'[p], q)
  BY <1>1, ApplyLast
<1>3. CASE TopicOf[p] # t
  <2>1. \A q \in InBuffer(t) : q.part # p
    BY <1>1, <1>3, Waiting
  <2> QED
    BY <2>1, <1>2, <1>3
<1>4. CASE TopicOf[p] = t
  <2>1. CASE PairAt(p, o, i) \in InBuffer(t)
    <3>1. PairAt(p, o, i).part = p
      BY DEF PairAt
    <3> QED
      BY <2>1, <3>1, <1>2, <1>4
  <2>2. CASE /\ ~Before(applied[p], PairAt(p, o, i))
             /\ \A q \in InBuffer(t) : q.part = p => Before(PairAt(p, o, i), q)
    <3>1. CASE applied'[p] = applied[p]
      BY <3>1, <2>2
    <3>2. CASE applied'[p] \in InBuffer(t) /\ applied'[p].part = p
      <4>1. PICK q \in InBuffer(t) : q = applied'[p] /\ q.part = p
        BY <3>2
      <4>2. q.offset \in Nat /\ q.index \in Nat
        BY Zenon, <1>1, Waiting
      <4>3. o \in Nat /\ i \in Nat
        <5>1. Log[p][o] \in Message /\ o \in Nat
          BY <1>1, Polled
        <5> QED
          BY <5>1 DEF Message
      <4>4. Before(PairAt(p, o, i), q)
        BY <4>1, <2>2
      <4>5. ~Before(q, PairAt(p, o, i))
        BY <4>2, <4>3, <4>4 DEF Before, PairAt
      <4> QED
        BY <4>1, <4>5, <1>4
    <3> QED
      BY Zenon, <3>1, <3>2, <1>2
  <2> QED
    BY <2>1, <2>2, <1>4 DEF Settled
<1> QED
  BY Zenon, <1>3, <1>4

LEMMA DeliverOrder == ASSUME Delivery, Order, NEW t \in Topics, Deliver(t) PROVE Order'
<1>1. /\ buffers' = [buffers EXCEPT ![t].pairs = <<>>] /\ Apply(t) /\ pc # "idle"
      /\ UNCHANGED <<committed, position, pc, msg>>
  BY DEF Deliver, Delivering, broker
<1>2. TypeOK /\ Reading /\ BufferInOrder(t)
  BY DEF Delivery, Order
<1>3. buffers \in [Topics -> Buffer]
  BY <1>2 DEF TypeOK
<1>4. /\ buffers'[t].pairs = <<>>
      /\ \A u \in Topics : /\ u # t => buffers'[u].pairs = buffers[u].pairs
                           /\ buffers'[u].value_size = buffers[u].value_size
  <2>1. PICK r : r = [buffers[t] EXCEPT !.pairs = <<>>]
    BY Zenon
  <2>2. r.pairs = <<>> /\ r.value_size = buffers[t].value_size
    BY <2>1, <1>3 DEF Buffer
  <2>3. buffers' = [buffers EXCEPT ![t] = r]
    BY <2>1, <1>1
  <2> QED
    BY Zenon, <2>2, <2>3, <1>3
<1>5. NoGap' /\ StaleBounded' /\ applied' \in [Parts -> Place]
  BY <1>1, <1>2, ApplyOrder, ApplyLast
<1>6. Reading'
  <2>1. \A u \in Topics : buffers'[u].value_size = 0 => buffers'[u].pairs = <<>>
    BY Zenon, <1>2, <1>4 DEF Reading
  <2>2. pc \in {"copy", "full"} =>
          buffers'[TopicOf[msg.part]].value_size = Log[msg.part][msg.offset].value_size
    <3>1. pc \in {"copy", "full"} => TopicOf[msg.part] \in Topics
      BY <1>2, AtHand DEF Delivery
    <3> QED
      BY Zenon, <3>1, <1>2, <1>4 DEF Reading
  <2> QED
    BY Zenon, <2>1, <2>2, <1>1, <1>2, <1>5 DEF Reading
<1>7. ASSUME NEW u \in Topics PROVE BufferInOrder(u)'
  <2>1. CASE u = t
    BY <2>1, <1>4 DEF BufferInOrder
  <2>2. CASE u # t
    <3>1. BufferInOrder(u) /\ buffers'[u].pairs = buffers[u].pairs
      BY <2>2, <1>4 DEF Order
    <3> QED
      BY Zenon, <3>1, <1>1, KeptBufferOrder
  <2> QED
    BY <2>1, <2>2
<1>8. AppliedBelow'
  <2>1. ASSUME NEW p \in Parts, NEW o \in 1 .. position[p] - 1, NEW i \in 1 .. Log[p][o].pairs
        PROVE  Settled(p, o, i)'
    <3>1. Settled(p, o, i)
      BY <1>1 DEF Order, AppliedBelow
    <3>2. CASE msg.part = p /\ msg.offset = o /\ i > msg.copied
      BY <3>2, <1>1 DEF Settled
    <3>3. CASE ~(msg.part = p /\ msg.offset = o /\ i > msg.copied)
      <4>1. /\ TopicOf[p] # t => applied'[p] = applied[p]
            /\ TopicOf[p] = t => ~Before(applied'[p], PairAt(p, o, i))
        BY <3>1, <3>3, <1>1, ApplySettled
      <4>2. CASE TopicOf[p] = t
        <5>1. InBuffer(TopicOf[p])' = {}
          BY <4>2, <1>4 DEF InBuffer
        <5> QED
          BY Zenon, <5>1, <4>1, <4>2 DEF Settled, Before, PairAt
      <4>3. CASE TopicOf[p] # t
        <5>1. InBuffer(TopicOf[p])' = InBuffer(TopicOf[p])
          <6>1. buffers'[TopicOf[p]].pairs = buffers[TopicOf[p]].pairs
            BY Zenon, <4>3, <1>4, SourceAssumption
          <6> QED
            BY Zenon, <6>1 DEF InBuffer
        <5> QED
          BY <5>1, <4>1, <4>3, <3>1, <1>1, Zenon DEF Settled, Before, PairAt
      <4> QED
        BY <4>2, <4>3
    <3> QED
      BY <3>2, <3>3
  <2> QED
    BY <2>1, <1>1 DEF AppliedBelow
<1>9. OneValueSize'
  <2>1. ASSUME NEW u \in Topics PROVE \A q \in InBuffer(u)' : ValueSize(q) = buffers[u].value_size
    <3>1. InBuffer(u)' \subseteq InBuffer(u)
      BY <1>4 DEF InBuffer
    <3> QED
      BY <3>1 DEF Order, ReceivedInOrder, OneValueSize
  <2> QED
    BY <2>1, <1>4 DEF OneValueSize, ValueSize
<1> QED
  BY <1>5, <1>6, <1>7, <1>8, <1>9 DEF Order, ReceivedInOrder

(* A delivery that the callback does not acknowledge, applied or not.      *)
LEMMA DeliverFailsOrder == ASSUME Delivery, Order, NEW t \in Topics, DeliverFails(t) PROVE Order'
<1>1. /\ Apply(t) \/ UNCHANGED receiver
      /\ UNCHANGED <<committed, position>> /\ pc # "idle"
  BY DEF DeliverFails, Delivering, broker
<1>2. CASE terminate
  <2>1. Exit
    BY <1>2 DEF DeliverFails
  <2> QED
    BY <2>1, <1>1, ExitOrder
<1>3. CASE ~terminate /\ UNCHANGED receiver
  <2>1. UNCHANGED <<pc, buffers, msg>>
    BY <1>3 DEF DeliverFails
  <2> QED
    BY <2>1, <1>1, <1>3, SameOrder DEF receiver
<1>4. CASE ~terminate /\ Apply(t)
  <2>1. UNCHANGED <<pc, buffers, msg>>
    BY Zenon, <1>4 DEF DeliverFails
  <2>2. TypeOK /\ Reading /\ BufferInOrder(t)
    BY DEF Delivery, Order
  <2>3. NoGap' /\ StaleBounded' /\ applied' \in [Parts -> Place]
    BY Zenon, <1>1, <1>4, <2>2, ApplyOrder, ApplyLast
  <2>4. Reading'
    BY Zenon, <1>1, <2>1, <2>2, <2>3 DEF Reading
  <2>5. \A u \in Topics : BufferInOrder(u)'
    BY Zenon, <1>1, <2>1, KeptBufferOrder DEF Order
  <2>6. AppliedBelow'
    <3>1. ASSUME NEW p \in Parts, NEW o \in 1 .. position[p] - 1, NEW i \in 1 .. Log[p][o].pairs
          PROVE  Settled(p, o, i)'
      <4>1. Settled(p, o, i)
        BY Zenon, <1>1 DEF Order, AppliedBelow
      <4>2. InBuffer(TopicOf[p])' = InBuffer(TopicOf[p])
        BY Zenon, <2>1 DEF InBuffer
      <4>3. CASE msg.part = p /\ msg.offset = o /\ i > msg.copied
        BY Zenon, <4>3, <2>1 DEF Settled
      <4>4. CASE ~(msg.part = p /\ msg.offset = o /\ i > msg.copied)
        <5>1. /\ TopicOf[p] # t => applied'[p] = applied[p]
              /\ TopicOf[p] = t => ~Before(applied'[p], PairAt(p, o, i))
          BY Zenon, <4>1, <4>4, <1>4, ApplySettled
        <5> QED
          BY <5>1, <4>1, <4>2, <2>1, Zenon DEF Settled, Before, PairAt
      <4> QED
        BY <4>3, <4>4
    <3> QED
      BY <3>1, <1>1 DEF AppliedBelow
  <2>7. OneValueSize'
    BY <2>1 DEF Order, ReceivedInOrder, OneValueSize, InBuffer, ValueSize
  <2> QED
    BY <2>3, <2>4, <2>5, <2>6, <2>7 DEF Order, ReceivedInOrder
<1> QED
  BY <1>1, <1>2, <1>3, <1>4

(* All of the message at hand is copied: forgetting it changes nothing.    *)
LEMMA ForgetSettled ==
  ASSUME TypeOK, NEW p \in Parts, NEW o \in 1 .. position[p] - 1, NEW i \in 1 .. Log[p][o].pairs,
         Settled(p, o, i), applied' = applied,
         \A t \in Topics : buffers'[t].pairs = buffers[t].pairs,
         \/ msg' = msg
         \/ msg' = NoMsg /\ msg.copied = Log[msg.part][msg.offset].pairs
  PROVE  Settled(p, o, i)'
<1>1. CASE msg' = msg
  BY <1>1, SameSettled
<1>2. CASE msg' = NoMsg /\ msg.copied = Log[msg.part][msg.offset].pairs
  <2>1. Log[p][o].pairs \in Nat
    BY Polled DEF Message
  <2>2. ~(msg.part = p /\ msg.offset = o /\ i > msg.copied)
    BY <2>1, <1>2
  <2>3. InBuffer(TopicOf[p])' = InBuffer(TopicOf[p])
    BY Zenon, SourceAssumption DEF InBuffer
  <2> QED
    BY <2>2, <2>3, Zenon DEF Settled, Before, PairAt
<1> QED
  BY Zenon, <1>1, <1>2

(* Offsets are committed behind an empty buffer: all below them is settled, *)
(* and no other buffer holds a pair of these partitions.                   *)
LEMMA CommittedOrder ==
  ASSUME Delivery, Order, NEW t \in Topics, buffers[t].pairs = <<>>, Commit(t), pc # "idle",
         NEW s \in Nat,
         buffers' = [buffers EXCEPT ![t] = [Committed(@) EXCEPT !.value_size = s]],
         UNCHANGED <<position, received, applied>>, pc' \in {"poll", "flush", "copy"},
         pc' = "copy" => /\ pc = "resize" /\ msg' = msg /\ t = TopicOf[msg.part]
                         /\ s = Log[msg.part][msg.offset].value_size,
         \/ msg' = msg
         \/ msg' = NoMsg /\ msg.copied = Log[msg.part][msg.offset].pairs
  PROVE  Order'
<1> DEFINE offsets == buffers[t].next_offsets
<1>1. buffers \in [Topics -> Buffer] /\ buffers[t] \in Buffer /\ offsets \in [Parts -> Nat]
  BY DEF Delivery, TypeOK, Buffer
<1>2. ASSUME NEW p \in Parts
      PROVE  committed'[p] = IF offsets[p] # 0 THEN offsets[p] ELSE committed[p]
  BY DEF Commit
<1>3. ASSUME NEW p \in Parts, offsets[p] # 0
      PROVE  /\ TopicOf[p] = t /\ offsets[p] <= position[p]
             /\ msg.part = p => \/ offsets[p] <= msg.offset
                                \/ msg.copied = Log[p][msg.offset].pairs
  BY <1>3 DEF Delivery, OffsetsRead
<1> HIDE DEF offsets
<1>4. /\ buffers'[t].value_size = s
      /\ \A u \in Topics : /\ buffers'[u].pairs = buffers[u].pairs
                           /\ u # t => buffers'[u].value_size = buffers[u].value_size
  <2>1. PICK b \in Buffer : b = Committed(buffers[t]) /\ b.pairs = buffers[t].pairs
    BY <1>1, WithoutOffsets
  <2>2. PICK r \in Buffer : r = [b EXCEPT !.value_size = s] /\ r.pairs = b.pairs /\ r.value_size = s
    <3>1. [b EXCEPT !.value_size = s].value_size = s
      BY <2>1 DEF Buffer
    <3> QED
      BY Zenon, <3>1, WithValueSize
  <2>3. buffers' = [buffers EXCEPT ![t] = r]
    BY <2>1, <2>2
  <2> QED
    BY <2>1, <2>2, <2>3, <1>1
<1>5. \A p \in Parts : committed[p] \in Nat /\ position[p] \in Nat /\ committed[p] <= position[p]
  BY Zenon DEF Order, Reading, Delivery, TypeOK
<1>6. StaleBounded'
  <2> SUFFICES ASSUME NEW p \in Parts, NEW o \in 1 .. committed'[p] - 1, NEW i \in 1 .. Log[p][o].pairs
               PROVE  ~Before(applied[p], PairAt(p, o, i))
    BY DEF StaleBounded, Before, PairAt
  <2>1. CASE offsets[p] = 0
    BY <2>1, <1>2 DEF Order, StaleBounded
  <2>2. CASE offsets[p] # 0
    <3>1. /\ offsets[p] \in Nat /\ o \in 1 .. offsets[p] - 1 /\ o < offsets[p]
          /\ o \in 1 .. position[p] - 1 /\ o \in Nat
      BY <2>2, <1>1, <1>2, <1>3, <1>5
    <3>2. Settled(p, o, i) /\ Log[p][o].pairs \in Nat
      BY <3>1, Polled DEF Order, AppliedBelow, Delivery, Message
    <3>3. InBuffer(TopicOf[p]) = {}
      BY <2>2, <1>3, EmptyBuffer
    <3>4. ASSUME msg.part = p, msg.offset = o, i > msg.copied PROVE FALSE
      <4>1. offsets[p] <= o \/ msg.copied = Log[p][o].pairs
        BY <1>3, <2>2, <3>4
      <4> QED
        BY <4>1, <3>1, <3>2, <3>4
    <3> QED
      BY <3>2, <3>3, <3>4 DEF Settled
  <2> QED
    BY <2>1, <2>2
<1>7. Reading'
  <2>1. \A p \in Parts : committed'[p] <= position'[p]
    BY <1>2, <1>3, <1>5
  <2>2. \A u \in Topics : buffers'[u].value_size = 0 => buffers'[u].pairs = <<>>
    BY Zenon, <1>4 DEF Order, Reading
  <2>3. applied' \in [Parts -> Place]
    BY DEF Order, Reading
  <2>4. ASSUME pc' = "copy"
        PROVE  /\ committed'[msg'.part] <= msg'.offset /\ position'[msg'.part] = msg'.offset + 1
               /\ buffers'[TopicOf[msg'.part]].value_size = Log[msg'.part][msg'.offset].value_size
    <3>1. /\ pc = "resize" /\ msg' = msg /\ msg.part \in Parts /\ msg.copied = 0
          /\ Log[msg.part][msg.offset].pairs > 0 /\ position[msg.part] = msg.offset + 1
          /\ committed[msg.part] <= msg.offset
      BY Zenon, <2>4, AtHand DEF Delivery, Order, Reading
    <3>2. committed'[msg.part] <= msg.offset
      <4>1. CASE offsets[msg.part] = 0
        BY <4>1, <3>1, <1>2
      <4>2. CASE offsets[msg.part] # 0
        BY <4>2, <3>1, <1>2, <1>3
      <4> QED
        BY <4>1, <4>2
    <3> QED
      BY <3>1, <3>2, <2>4, <1>4
  <2> QED
    BY <2>1, <2>2, <2>3, <2>4 DEF Reading
<1>8. ASSUME NEW u \in Topics PROVE BufferInOrder(u)'
  <2>1. CASE u = t
    BY <2>1, <1>4 DEF BufferInOrder
  <2>2. CASE u # t
    <3>1. TypeOK /\ BufferInOrder(u)
      BY DEF Delivery, Order
    <3>2. ASSUME NEW q \in InBuffer(u)
          PROVE  /\ committed'[q.part] <= q.offset /\ q.offset < position'[q.part]
                 /\ msg'.part = q.part => \/ q.offset < msg'.offset
                                          \/ q.offset = msg'.offset /\ q.index <= msg'.copied
      <4>1. /\ q.part \in Parts /\ TopicOf[q.part] = u
            /\ committed[q.part] <= q.offset /\ q.offset < position[q.part]
            /\ msg.part = q.part => \/ q.offset < msg.offset
                                    \/ q.offset = msg.offset /\ q.index <= msg.copied
        BY <3>1, Waiting
      <4>2. committed'[q.part] = committed[q.part]
        BY <4>1, <2>2, <1>2, <1>3
      <4>3. msg' = msg \/ msg'.part # q.part
        BY <4>1, SourceAssumption DEF NoMsg
      <4> QED
        BY <4>1, <4>2, <4>3
    <3> QED
      BY <3>1, <3>2, <1>4, SameBufferOrder
  <2> QED
    BY <2>1, <2>2
<1>9. AppliedBelow'
  <2>1. ASSUME NEW p \in Parts, NEW o \in 1 .. position[p] - 1, NEW i \in 1 .. Log[p][o].pairs
        PROVE  Settled(p, o, i)'
    <3>1. Settled(p, o, i) /\ TypeOK
      BY DEF Order, AppliedBelow, Delivery
    <3> QED
      BY <3>1, <1>4, ForgetSettled
  <2> QED
    BY <2>1 DEF AppliedBelow
<1>10. ReceivedInOrder'
  <2>1. NoGap'
    BY DEF Order, ReceivedInOrder, NoGap, Before, PairAt
  <2>2. OneValueSize'
    BY <1>4 DEF Order, ReceivedInOrder, OneValueSize, InBuffer, ValueSize
  <2> QED
    BY <2>1, <2>2 DEF ReceivedInOrder
<1> QED
  BY <1>6, <1>7, <1>8, <1>9, <1>10 DEF Order

(* Keeping the value size is a case of changing it. *)
LEMMA SameValueSize ==
  ASSUME NEW r \in Buffer
  PROVE  \E s \in Nat : [Committed(r) EXCEPT !.value_size = s] = Committed(r)
<1>1. Committed(r) \in Buffer
  BY WithoutOffsets
<1>2. ASSUME NEW b \in Buffer PROVE b.value_size \in Nat /\ [b EXCEPT !.value_size = b.value_size] = b
  BY DEF Buffer
<1> QED
  BY <1>1, <1>2

LEMMA FlushedOrder == ASSUME Delivery, Order, NEW t \in Topics, Flushed(t) PROVE Order'
<1>1. /\ pc = "flush" /\ pc' = pc /\ buffers[t].pairs = <<>> /\ Commit(t)
      /\ buffers' = [buffers EXCEPT ![t] = Committed(@)]
      /\ UNCHANGED <<position, msg, received, applied>>
  BY DEF Flushed, receiver
<1>2. PICK s \in Nat : [Committed(buffers[t]) EXCEPT !.value_size = s] = Committed(buffers[t])
  BY SameValueSize DEF Delivery, TypeOK
<1>3. buffers' = [buffers EXCEPT ![t] = [Committed(@) EXCEPT !.value_size = s]]
  BY Zenon, <1>1, <1>2
<1> QED
  BY Zenon, <1>1, <1>3, CommittedOrder

LEMMA ResizedOrder == ASSUME Delivery, Order, Resized PROVE Order'
<1>1. pc = "resize"
  BY DEF Resized
<1>2. PICK t \in Topics : t = TopicOf[msg.part]
  BY <1>1, AtHand DEF Delivery
<1>3. PICK s \in Nat : s = Log[msg.part][msg.offset].value_size
  BY <1>1, AtHand DEF Delivery, Message
<1>4. /\ pc' = "copy" /\ buffers[t].pairs = <<>> /\ Commit(t)
      /\ buffers' = [buffers EXCEPT ![t] = [Committed(@) EXCEPT !.value_size = s]]
      /\ UNCHANGED <<position, msg, received, applied>>
  BY <1>2, <1>3 DEF Resized, receiver
<1> QED
  BY Zenon, <1>1, <1>2, <1>3, <1>4, CommittedOrder

LEMMA IntervalDoneOrder == ASSUME Delivery, Order, IntervalDone PROVE Order'
<1>1. pc = "interval"
  BY DEF IntervalDone
<1>2. PICK t \in Topics : t = TopicOf[msg.part]
  BY <1>1, AtHand DEF Delivery
<1>3. /\ pc' = "poll" /\ msg' = NoMsg /\ buffers[t].pairs = <<>> /\ Commit(t)
      /\ buffers' = [buffers EXCEPT ![t] = Committed(@)]
      /\ UNCHANGED <<position, received, applied>>
  BY Zenon, <1>2 DEF IntervalDone, receiver
<1>4. msg.copied = Log[msg.part][msg.offset].pairs
  BY Zenon, <1>1 DEF Delivery, MessageAtHand
<1>5. PICK s \in Nat : [Committed(buffers[t]) EXCEPT !.value_size = s] = Committed(buffers[t])
  BY SameValueSize DEF Delivery, TypeOK
<1>6. buffers' = [buffers EXCEPT ![t] = [Committed(@) EXCEPT !.value_size = s]]
  BY Zenon, <1>3, <1>5
<1> QED
  BY Zenon, <1>1, <1>3, <1>4, <1>6, CommittedOrder

(* The next pair of the message at hand goes to the end of its buffer: it  *)
(* is behind all that was copied before it.                                *)
LEMMA CopyPairOrder == ASSUME Delivery, Order, CopyPair PROVE Order'
<1>1. /\ pc = "copy" /\ pc' \in {"full", "copy"}
      /\ UNCHANGED <<committed, position, received, applied>>
  BY Zenon DEF CopyPair, broker, receiver
<1>2. /\ msg.part \in Parts /\ msg.offset \in Nat \ {0} /\ msg.copied \in Nat
      /\ msg'.part = msg.part /\ msg'.offset = msg.offset /\ msg'.copied = msg.copied + 1
  BY Zenon, CopyEffect
<1>3. PICK t \in Topics, added \in Pair, e \in Seq(Pair) :
        /\ t = TopicOf[msg.part] /\ added = PairAt(msg.part, msg.offset, msg.copied + 1)
        /\ buffers[t].pairs \in Seq(Pair) /\ e = Append(buffers[t].pairs, added)
        /\ buffers'[t].pairs = e
        /\ \A u \in Topics : /\ u # t => buffers'[u].pairs = buffers[u].pairs
                             /\ buffers'[u].value_size = buffers[u].value_size
  BY CopyEffect, Zenon
<1>4. /\ added.part = msg.part /\ added.offset = msg.offset /\ added.index = msg.copied + 1
      /\ t = TopicOf[msg.part]
  BY Zenon, <1>3 DEF PairAt
<1>5. \A u \in Topics : /\ u # t => buffers'[u].pairs = buffers[u].pairs
                        /\ buffers'[u].value_size = buffers[u].value_size
  BY Zenon, <1>3
<1>6. TypeOK /\ Reading /\ (\A u \in Topics : BufferInOrder(u))
  BY DEF Delivery, Order
<1>7. /\ committed[msg.part] <= msg.offset /\ position[msg.part] = msg.offset + 1
      /\ buffers[t].value_size = Log[msg.part][msg.offset].value_size
      /\ Log[msg.part][msg.offset].value_size # 0
  <2>1. Log[msg.part][msg.offset] \in Message
    BY Zenon, <1>1, AtHand DEF Delivery
  <2> QED
    BY Zenon, <2>1, <1>1, <1>4, <1>6 DEF Reading, Message
<1>8. InBuffer(t)' = InBuffer(t) \cup {added}
  <2>1. Elements(e) = Elements(buffers[t].pairs) \cup {added}
    <3>1. buffers[t].pairs \in Seq(Pair) /\ e = Append(buffers[t].pairs, added)
      BY Zenon, <1>3
    <3> QED
      BY <3>1, Appended
  <2>2. InBuffer(t) = Elements(buffers[t].pairs) /\ InBuffer(t)' = Elements(buffers'[t].pairs)
    BY DEF InBuffer, Elements
  <2>3. buffers'[t].pairs = e
    BY Zenon, <1>3
  <2> QED
    BY Zenon, <2>1, <2>2, <2>3
<1>9. Reading'
  <2>1. \A u \in Topics : buffers'[u].value_size = 0 => buffers'[u].pairs = <<>>
    <3> TAKE u \in Topics
    <3>1. CASE u = t
      BY Zenon, <3>1, <1>5, <1>7
    <3>2. CASE u # t
      BY Zenon, <3>2, <1>5, <1>6 DEF Reading
    <3> QED
      BY <3>1, <3>2
  <2>2. /\ applied' \in [Parts -> Place] /\ \A p \in Parts : committed'[p] <= position'[p]
    BY Zenon, <1>1, <1>6 DEF Reading
  <2>3. buffers'[TopicOf[msg'.part]].value_size = Log[msg'.part][msg'.offset].value_size
    BY Zenon, <1>2, <1>4, <1>5, <1>7
  <2>4. committed'[msg'.part] <= msg'.offset /\ position'[msg'.part] = msg'.offset + 1
    BY Zenon, <1>1, <1>2, <1>7
  <2> QED
    BY Zenon, <2>1, <2>2, <2>3, <2>4, <1>1 DEF Reading
<1>10. ASSUME NEW u \in Topics PROVE BufferInOrder(u)'
  <2>1. ASSUME NEW q \in InBuffer(u)
        PROVE  /\ committed'[q.part] <= q.offset /\ q.offset < position'[q.part]
               /\ msg'.part = q.part => \/ q.offset < msg'.offset
                                        \/ q.offset = msg'.offset /\ q.index <= msg'.copied
    <3>1. /\ q.index \in Nat /\ committed[q.part] <= q.offset /\ q.offset < position[q.part]
          /\ msg.part = q.part => \/ q.offset < msg.offset
                                  \/ q.offset = msg.offset /\ q.index <= msg.copied
      BY Zenon, <1>6, Waiting
    <3> QED
      BY <3>1, <1>1, <1>2
  <2>2. CASE u # t
    BY Zenon, <2>1, <2>2, <1>5, <1>6, SameBufferOrder
  <2>3. CASE u = t
    <3> DEFINE s == buffers[t].pairs
    <3>1. /\ s \in Seq(Pair) /\ Len(s) \in Nat /\ DOMAIN s = 1 .. Len(s)
          /\ DOMAIN e = 1 .. Len(s) + 1 /\ e[Len(s) + 1] = added
          /\ \A k \in 1 .. Len(s) : e[k] = s[k]
      <4>1. s \in Seq(Pair) /\ e = Append(s, added) /\ added \in Pair
        BY Zenon, <1>3
      <4> HIDE DEF s
      <4>2. Len(s) \in Nat /\ DOMAIN s = 1 .. Len(s)
        BY <4>1
      <4> QED
        BY Zenon, <4>1, <4>2, Appended
    <3>2. \A k \in 1 .. Len(s) :
            /\ s[k] \in InBuffer(t) /\ TopicOf[s[k].part] = t
            /\ \A j \in 1 .. k - 1 : s[j].part = s[k].part => Before(s[j], s[k])
      <4>1. BufferInOrder(t) /\ DOMAIN s = 1 .. Len(s)
        BY <3>1, <1>6
      <4>2. \A k \in 1 .. Len(s) : s[k] \in InBuffer(t)
        BY <4>1 DEF InBuffer
      <4>3. \A k \in 1 .. Len(s) :
              /\ TopicOf[s[k].part] = t
              /\ \A j \in 1 .. k - 1 : s[j].part = s[k].part => Before(s[j], s[k])
        BY <4>1, Zenon DEF BufferInOrder
      <4> QED
        BY Zenon, <4>2, <4>3
    <3> HIDE DEF s
    <3>3. ASSUME NEW k \in 1 .. Len(s), s[k].part = msg.part PROVE Before(s[k], added)
      <4>1. /\ s[k].offset \in Nat /\ s[k].index \in Nat
            /\ s[k].offset < msg.offset \/ (s[k].offset = msg.offset /\ s[k].index <= msg.copied)
        BY Zenon, <3>2, <3>3, <1>6, Waiting
      <4> QED
        BY <4>1, <1>2, <1>4 DEF Before
    <3>4. ASSUME NEW k \in 1 .. Len(s) + 1
          PROVE  /\ TopicOf[e[k].part] = t
                 /\ committed'[e[k].part] <= e[k].offset /\ e[k].offset < position'[e[k].part]
                 /\ msg'.part = e[k].part =>
                      \/ e[k].offset < msg'.offset
                      \/ e[k].offset = msg'.offset /\ e[k].index <= msg'.copied
                 /\ \A j \in 1 .. k - 1 : e[j].part = e[k].part => Before(e[j], e[k])
      <4>1. CASE k \in 1 .. Len(s)
        <5>1. /\ e[k] = s[k] /\ s[k] \in InBuffer(t) /\ TopicOf[s[k].part] = t
              /\ \A j \in 1 .. k - 1 : s[j].part = s[k].part => Before(s[j], s[k])
          BY Zenon, <4>1, <3>1, <3>2
        <5>2. \A j \in 1 .. k - 1 : e[j] = s[j]
          BY <4>1, <3>1
        <5>3. /\ committed'[s[k].part] <= s[k].offset /\ s[k].offset < position'[s[k].part]
              /\ msg'.part = s[k].part => \/ s[k].offset < msg'.offset
                                          \/ s[k].offset = msg'.offset /\ s[k].index <= msg'.copied
          BY Zenon, <5>1, <2>1, <2>3
        <5> QED
          BY Zenon, <5>1, <5>2, <5>3
      <4>2. CASE k = Len(s) + 1
        <5>1. e[k] = added /\ \A j \in 1 .. k - 1 : j \in 1 .. Len(s) /\ e[j] = s[j]
          BY <4>2, <3>1
        <5>2. committed'[added.part] <= added.offset /\ added.offset < position'[added.part]
          <6>1. committed'[added.part] <= added.offset /\ position'[added.part] = added.offset + 1
            BY Zenon, <1>1, <1>4, <1>7
          <6> QED
            BY <6>1, <1>2, <1>4
        <5>3. added.offset = msg'.offset /\ added.index <= msg'.copied
          BY <1>2, <1>4
        <5> QED
          BY Zenon, <5>1, <5>2, <5>3, <3>3, <1>4
      <4>3. k \in 1 .. Len(s) \/ k = Len(s) + 1
        <5>1. Len(s) \in Nat
          BY Zenon, <3>1
        <5> QED
          BY <5>1
      <4> QED
        BY Zenon, <4>1, <4>2, <4>3
    <3>5. buffers'[t].pairs = e /\ DOMAIN e = 1 .. Len(s) + 1
      BY Zenon, <1>3, <3>1
    <3> QED
      BY <2>3, <3>4, <3>5 DEF BufferInOrder, Before
  <2> QED
    BY <2>2, <2>3
<1>11. AppliedBelow'
  <2>1. ASSUME NEW p \in Parts, NEW o \in 1 .. position[p] - 1, NEW i \in 1 .. Log[p][o].pairs
        PROVE  Settled(p, o, i)'
    <3>1. Settled(p, o, i)
      BY Zenon, <1>1 DEF Order, AppliedBelow
    <3>2. o \in Nat /\ i \in Nat /\ position[p] \in Nat /\ TopicOf[p] \in Topics
      <4>1. Log[p][o] \in Message /\ o \in Nat
        BY <1>6, Polled
      <4> QED
        BY <4>1, <1>6, SourceAssumption DEF Message, TypeOK
    <3>3. /\ InBuffer(TopicOf[p]) \subseteq InBuffer(TopicOf[p])'
          /\ \A q \in InBuffer(TopicOf[p])' : q \in InBuffer(TopicOf[p]) \/ q = added
          /\ TopicOf[p] = t => added \in InBuffer(TopicOf[p])'
      <4>1. CASE TopicOf[p] = t
        BY Zenon, <4>1, <1>8
      <4>2. CASE TopicOf[p] # t
        BY Zenon, <4>2, <3>2, <1>5 DEF InBuffer
      <4> QED
        BY Zenon, <4>1, <4>2
    <3>4. CASE msg.part = p /\ msg.offset = o /\ i > msg.copied + 1
      BY Zenon, <3>4, <1>2 DEF Settled
    <3>5. CASE msg.part = p /\ msg.offset = o /\ i = msg.copied + 1
      <4>1. PairAt(p, o, i) \in InBuffer(TopicOf[p])'
        BY Zenon, <3>5, <3>3, <1>3
      <4> QED
        BY Zenon, <4>1 DEF Settled, PairAt
    <3>6. CASE PairAt(p, o, i) \in InBuffer(TopicOf[p])
      BY Zenon, <3>3, <3>6 DEF Settled, PairAt
    <3>7. CASE /\ ~(msg.part = p /\ msg.offset = o /\ i > msg.copied)
               /\ ~Before(applied[p], PairAt(p, o, i))
               /\ \A q \in InBuffer(TopicOf[p]) : q.part = p => Before(PairAt(p, o, i), q)
      <4>1. added.part = p => Before(PairAt(p, o, i), added)
        <5> SUFFICES ASSUME added.part = p PROVE Before(PairAt(p, o, i), added)
          BY Zenon
        <5>1. msg.part = p /\ o <= msg.offset /\ (o = msg.offset => i <= msg.copied)
          BY <3>2, <3>7, <1>2, <1>4, <1>7
        <5>2. PairAt(p, o, i).offset = o /\ PairAt(p, o, i).index = i
          BY Zenon DEF PairAt
        <5>3. o < added.offset \/ (o = added.offset /\ i < added.index)
          BY <5>1, <3>2, <1>2, <1>4
        <5> QED
          BY Zenon, <5>2, <5>3 DEF Before
      <4>2. \A q \in InBuffer(TopicOf[p])' : q.part = p => Before(PairAt(p, o, i), q)
        BY Zenon, <4>1, <3>3, <3>7
      <4> QED
        BY Zenon, <4>2, <3>7, <1>1 DEF Settled, Before, PairAt
    <3>8. i > msg.copied => i > msg.copied + 1 \/ i = msg.copied + 1
      BY <3>2, <1>2
    <3> QED
      BY Zenon, <3>1, <3>4, <3>5, <3>6, <3>7, <3>8 DEF Settled
  <2> QED
    BY Zenon, <2>1, <1>1 DEF AppliedBelow
<1>12. NoGap' /\ StaleBounded'
  BY Zenon, <1>1 DEF Order, ReceivedInOrder, NoGap, StaleBounded, Before, PairAt
<1>13. OneValueSize'
  <2>1. ASSUME NEW u \in Topics PROVE \A q \in InBuffer(u)' : ValueSize(q) = buffers[u].value_size
    <3>1. \A q \in InBuffer(u) : ValueSize(q) = buffers[u].value_size
      BY DEF Order, ReceivedInOrder, OneValueSize
    <3>2. CASE u = t
      <4>1. ValueSize(added) = buffers[t].value_size
        BY Zenon, <1>4, <1>7 DEF ValueSize
      <4> QED
        BY <3>1, <3>2, <4>1, <1>8
    <3>3. CASE u # t
      <4>1. InBuffer(u)' = InBuffer(u)
        BY <3>3, <1>5 DEF InBuffer
      <4> QED
        BY <3>1, <4>1
    <3> QED
      BY <3>2, <3>3
  <2> QED
    BY <2>1, <1>5 DEF OneValueSize, ValueSize
<1> QED
  BY <1>9, <1>10, <1>11, <1>12, <1>13 DEF Order, ReceivedInOrder

(* The end of the message: its buffer keeps the pairs. *)
LEMMA RecordOffsetOrder == ASSUME Delivery, Order, RecordOffset PROVE Order'
<1>1. /\ pc = "copy" /\ msg.copied = Log[msg.part][msg.offset].pairs
      /\ UNCHANGED <<committed, position, receiver>>
  BY Zenon DEF RecordOffset, broker
<1>2. CASE terminate
  <2>1. Exit
    BY <1>2 DEF RecordOffset
  <2> QED
    BY <2>1, <1>1, ExitOrder
<1>3. CASE ~terminate
  <2>1. received' = received /\ applied' = applied
    BY <1>1 DEF receiver
  <2>2. /\ \/ pc' = "interval" /\ msg' = msg
           \/ pc' = "poll" /\ msg' = NoMsg
        /\ buffers' = [buffers EXCEPT ![TopicOf[msg.part]].next_offsets[msg.part] = msg.offset + 1,
                                      ![TopicOf[msg.part]].msg_count = buffers[TopicOf[msg.part]].msg_count + 1]
    BY Zenon, <1>3 DEF RecordOffset
  <2>3. TypeOK /\ Reading /\ (\A u \in Topics : BufferInOrder(u)) /\ buffers \in [Topics -> Buffer]
    BY Zenon DEF Delivery, Order, TypeOK
  <2>4. PICK t \in Topics : t = TopicOf[msg.part]
    BY Zenon, <1>1, AtHand DEF Delivery
  <2>5. \A u \in Topics : /\ buffers'[u].pairs = buffers[u].pairs
                           /\ buffers'[u].value_size = buffers[u].value_size
    <3> DEFINE r == [buffers[t] EXCEPT !.next_offsets[msg.part] = msg.offset + 1, !.msg_count = @ + 1]
    <3>1. buffers' = [buffers EXCEPT ![t] = r]
      BY Zenon, <2>2, <2>3, <2>4
    <3>2. r.pairs = buffers[t].pairs /\ r.value_size = buffers[t].value_size
      BY <2>3 DEF Buffer
    <3> HIDE DEF r
    <3> QED
      BY <3>1, <3>2, <2>3
  <2>6. Reading'
    <3>1. \A u \in Topics : buffers'[u].value_size = 0 => buffers'[u].pairs = <<>>
      BY Zenon, <2>3, <2>5 DEF Reading
    <3>2. /\ applied' \in [Parts -> Place] /\ \A p \in Parts : committed'[p] <= position'[p]
      BY Zenon, <1>1, <2>1, <2>3 DEF Reading
    <3>3. pc' = "interval" => position'[msg'.part] = msg'.offset + 1
      BY Zenon, <1>1, <2>2, <2>3 DEF Reading
    <3> QED
      BY Zenon, <3>1, <3>2, <3>3, <2>2 DEF Reading
  <2>7. ASSUME NEW u \in Topics PROVE BufferInOrder(u)'
    <3>1. ASSUME NEW q \in InBuffer(u)
          PROVE  /\ committed'[q.part] <= q.offset /\ q.offset < position'[q.part]
                 /\ msg'.part = q.part => \/ q.offset < msg'.offset
                                          \/ q.offset = msg'.offset /\ q.index <= msg'.copied
      BY <1>1, <2>2, <2>3, Waiting, SourceAssumption DEF NoMsg
    <3> QED
      BY Zenon, <3>1, <2>3, <2>5, SameBufferOrder
  <2>8. AppliedBelow'
    <3>1. ASSUME NEW p \in Parts, NEW o \in 1 .. position[p] - 1, NEW i \in 1 .. Log[p][o].pairs
          PROVE  Settled(p, o, i)'
      <4>1. Settled(p, o, i)
        BY Zenon, <1>1 DEF Order, AppliedBelow
      <4> QED
        BY Zenon, <4>1, <1>1, <2>1, <2>2, <2>3, <2>5, ForgetSettled
    <3> QED
      BY Zenon, <3>1, <1>1 DEF AppliedBelow
  <2>9. ReceivedInOrder' /\ StaleBounded'
    BY Zenon, <1>1, <2>1, <2>5, SameReceived
  <2> QED
    BY <2>6, <2>7, <2>8, <2>9 DEF Order
<1> QED
  BY <1>2, <1>3

LEMMA InitOrder == ASSUME Init PROVE Order
<1>1. /\ pc = "idle" /\ received = {} /\ applied = [p \in Parts |-> NoPair]
      /\ committed = [p \in Parts |-> 1]
      /\ \A t \in Topics : buffers[t].pairs = <<>> /\ buffers[t].value_size = 0
  BY DEF Init, NoBuffer
<1>2. NoPair \in Place
  BY DEF NoPair, PairAt, Place
<1>3. Reading /\ AppliedBelow
  BY Zenon, <1>1, <1>2 DEF Reading, AppliedBelow
<1>4. \A t \in Topics : BufferInOrder(t)
  BY <1>1 DEF BufferInOrder
<1>5. ReceivedInOrder /\ StaleBounded
  BY <1>1 DEF ReceivedInOrder, NoGap, OneValueSize, InBuffer, StaleBounded
<1> QED
  BY <1>3, <1>4, <1>5 DEF Order

LEMMA NextOrder == ASSUME Delivery, Order, [Next]_vars PROVE Order'
<1>1. ASSUME Terminated \/ Crash PROVE Order'
  BY <1>1, ExitOrder DEF Terminated, Crash, broker
<1>2. ASSUME Timeout \/ FlushDone \/ FullDelivered \/ Stop PROVE Order'
  BY Zenon, <1>2, SameOrder DEF Timeout, FlushDone, FullDelivered, Stop, broker, receiver
<1>3. ASSUME NEW p \in Parts, Produce(p) PROVE Order'
  BY <1>3, SameOrder DEF Produce, receiver
<1>4. CASE Step
  BY <1>1, <1>2, <1>4, ResizedOrder, CopyPairOrder, RecordOffsetOrder, IntervalDoneOrder, SkipOrder,
     ReceiveOrder, DeliverOrder, DeliverFailsOrder, FlushedOrder, Zenon DEF Step
<1>5. CASE Stop \/ Crash \/ Engage \/ \E p \in Parts : Produce(p)
  BY <1>1, <1>2, <1>3, <1>5, EngageOrder, Zenon
<1>6. CASE UNCHANGED vars
  BY <1>6, SameOrder DEF vars, broker, receiver
<1> QED
  BY <1>4, <1>5, <1>6 DEF Next

(* Nor does it mix up the order: a buffer holds the pairs of a partition   *)
(* as they are in its log, and what is applied is never behind what waits. *)
THEOREM InvariantHolds == Spec => []IInv
<1>1. Init => IInv
  BY InitDelivery, InitOrder DEF IInv
<1>2. IInv /\ [Next]_vars => IInv'
  BY NextDelivery, NextOrder DEF IInv
<1> QED
  BY <1>1, <1>2, PTL DEF Spec

(* No gap and one value size: the callback has seen a pair only if it has  *)
(* seen all before it in the partition, and a batch holds vectors of the   *)
(* size the callback is told.                                              *)
THEOREM ReceivedInOrderHolds == Spec => []ReceivedInOrder
<1>1. IInv => ReceivedInOrder
  BY DEF IInv, Order
<1> QED
  BY <1>1, InvariantHolds, PTL

(* What is read again after a restart never sets the receiver back to      *)
(* before the committed offsets.                                           *)
THEOREM StaleBoundedHolds == Spec => []StaleBounded
<1>1. IInv => StaleBounded
  BY DEF IInv, Order
<1> QED
  BY <1>1, InvariantHolds, PTL
===============================================================================
