----------------------- MODULE KafkaMessageSourceProofs -----------------------
(***************************************************************************)
(* At-least-once delivery of KafkaMessageSource, for any topics, logs,     *)
(* batch sizes and commit intervals and any number of stops and crashes.   *)
(***************************************************************************)
EXTENDS KafkaMessageSource, TLAPS

(* The messages of a log, and the ones that are polled or committed.       *)
LEMMA Messages ==
  ASSUME NEW p \in Parts, NEW o \in 1 .. Len(Log[p])
  PROVE  Log[p][o] \in Message
  BY SourceAssumption

LEMMA Polled ==
  ASSUME TypeOK, NEW p \in Parts, NEW o \in 1 .. position[p] - 1
  PROVE  Log[p][o] \in Message /\ o \in Nat \ {0}
  BY Messages, SourceAssumption DEF TypeOK

LEMMA CommittedPolled ==
  ASSUME TypeOK, NEW p \in Parts, NEW o \in 1 .. committed[p] - 1
  PROVE  Log[p][o] \in Message /\ o \in Nat \ {0}
  BY Messages, SourceAssumption DEF TypeOK

(* The message at hand, with its type. *)
LEMMA AtHand ==
  ASSUME TypeOK, MessageAtHand, pc \in {"resize", "copy", "full", "interval"}
  PROVE  /\ msg.part \in Parts /\ msg.offset \in Nat \ {0} /\ msg.copied \in Nat
         /\ msg.offset < position[msg.part] /\ position[msg.part] \in Nat
         /\ msg.offset \in 1 .. position[msg.part] - 1
         /\ Log[msg.part][msg.offset] \in Message
         /\ msg.copied <= Log[msg.part][msg.offset].pairs
         /\ TopicOf[msg.part] \in Topics
<1>1. /\ msg.part \in Parts /\ msg.offset \in 1 .. position[msg.part] - 1 /\ msg.copied \in Nat
      /\ msg.copied <= Log[msg.part][msg.offset].pairs
  BY DEF TypeOK, MessageAtHand
<1>2. Log[msg.part][msg.offset] \in Message
  BY <1>1, Polled
<1>3. position[msg.part] \in Nat
  BY <1>1 DEF TypeOK
<1> QED
  BY <1>1, <1>2, <1>3, SourceAssumption

(* A buffer without pairs holds none. *)
LEMMA EmptyBuffer ==
  ASSUME NEW t \in Topics, buffers[t].pairs = <<>>
  PROVE  InBuffer(t) = {}
  BY DEF InBuffer

(* The parts of a buffer after it was emptied, or its offsets committed.   *)
LEMMA WithPairs ==
  ASSUME NEW r \in Buffer, NEW e \in Seq(Pair)
  PROVE  /\ [r EXCEPT !.pairs = e] \in Buffer
         /\ [r EXCEPT !.pairs = e].pairs = e
         /\ [r EXCEPT !.pairs = e].next_offsets = r.next_offsets
         /\ [r EXCEPT !.pairs = e].value_size = r.value_size
  BY Zenon DEF Buffer

LEMMA WithoutOffsets ==
  ASSUME NEW r \in Buffer
  PROVE  /\ Committed(r) \in Buffer
         /\ Committed(r).pairs = r.pairs /\ Committed(r).next_offsets = NoOffsets
<1>1. NoOffsets \in [Parts -> Nat]
  BY DEF NoOffsets
<1> QED
  BY Zenon, <1>1 DEF Buffer, Committed

LEMMA WithValueSize ==
  ASSUME NEW r \in Buffer, NEW s \in Nat
  PROVE  /\ [r EXCEPT !.value_size = s] \in Buffer
         /\ [r EXCEPT !.value_size = s].pairs = r.pairs
         /\ [r EXCEPT !.value_size = s].next_offsets = r.next_offsets
  BY DEF Buffer

-------------------------------------------------------------------------------
LEMMA InitDelivery == ASSUME Init PROVE Delivery
<1>1. NoMsg \in [part : Parts \cup {"none"}, offset : Nat, copied : Nat]
  BY DEF NoMsg
<1>2. NoBuffer \in Buffer
  BY DEF NoBuffer, NoOffsets, Buffer
<1>3. terminate \in BOOLEAN
  BY Zenon DEF Init
<1>4. TypeOK
  BY <1>1, <1>2, <1>3, SourceAssumption DEF Init, TypeOK
<1>5. MessageAtHand /\ Accounted
  BY DEF Init, MessageAtHand, Accounted
<1>6. CommittedIsReceived
  BY DEF Init, CommittedIsReceived
<1>7. OffsetsRead
  BY DEF Init, OffsetsRead, NoBuffer, NoOffsets
<1> QED
  BY <1>4, <1>5, <1>6, <1>7 DEF Delivery

(* Committing the offsets of a topic whose buffer is delivered. *)
LEMMA CommitStep ==
  ASSUME Delivery, NEW t \in Topics, buffers[t].pairs = <<>>, Commit(t),
         received' = received, pc # "idle"
  PROVE  /\ committed' \in [Parts -> Nat \ {0}]
         /\ \A p \in Parts : committed'[p] <= Len(Log[p]) + 1
         /\ CommittedIsReceived'
<1> DEFINE offsets == buffers[t].next_offsets
<1>1. offsets \in [Parts -> Nat]
  BY DEF Delivery, TypeOK, Buffer
<1>2. ASSUME NEW p \in Parts
      PROVE  committed'[p] = IF offsets[p] # 0 THEN offsets[p] ELSE committed[p]
  BY DEF Commit
<1>3. ASSUME NEW p \in Parts, offsets[p] # 0
      PROVE  /\ TopicOf[p] = t /\ offsets[p] <= position[p]
             /\ msg.part = p => \/ offsets[p] <= msg.offset
                                \/ msg.copied = Log[p][msg.offset].pairs
  BY <1>3 DEF Delivery, OffsetsRead
<1>4. committed' \in [Parts -> Nat \ {0}]
  BY <1>1 DEF Commit, Delivery, TypeOK
<1>5. \A p \in Parts : committed'[p] <= Len(Log[p]) + 1
  <2> TAKE p \in Parts
  <2>1. /\ Len(Log[p]) \in Nat /\ committed[p] \in Nat /\ position[p] \in Nat /\ offsets[p] \in Nat
        /\ committed[p] <= Len(Log[p]) + 1 /\ position[p] <= Len(Log[p]) + 1
    BY <1>1, SourceAssumption DEF Delivery, TypeOK
  <2> QED
    BY <2>1, <1>2, <1>3
<1>6. ASSUME NEW p \in Parts, NEW o \in 1 .. committed'[p] - 1, NEW i \in 1 .. Log[p][o].pairs
      PROVE  PairAt(p, o, i) \in received
  <2>1. CASE offsets[p] = 0
    BY <2>1, <1>2 DEF Delivery, CommittedIsReceived
  <2>2. CASE offsets[p] # 0
    <3>1. /\ o \in 1 .. offsets[p] - 1 /\ offsets[p] \in Nat /\ position[p] \in Nat
          /\ offsets[p] <= position[p]
      BY <2>2, <1>1, <1>2, <1>3 DEF Delivery, TypeOK
    <3>2. o \in 1 .. position[p] - 1 /\ o < offsets[p]
      BY <3>1
    <3>3. Log[p][o].pairs \in Nat
      BY <3>2, Polled DEF Delivery, Message
    <3>4. \/ PairAt(p, o, i) \in received \cup InBuffer(t)
          \/ msg.part = p /\ msg.offset = o /\ i > msg.copied
      BY <3>2, <1>3, <2>2 DEF Delivery, Accounted
    <3>5. ASSUME msg.part = p, msg.offset = o, i > msg.copied PROVE FALSE
      <4>1. \/ offsets[p] <= o \/ msg.copied = Log[p][o].pairs
        BY <1>3, <2>2, <3>5
      <4>2. ~(offsets[p] <= o)
        BY <3>1, <3>2
      <4> QED
        BY <4>1, <4>2, <3>3, <3>5
    <3> QED
      BY <3>4, <3>5, EmptyBuffer
  <2> QED
    BY <2>1, <2>2
<1> QED
  BY <1>4, <1>5, <1>6 DEF CommittedIsReceived, PairAt

(* What a step has to keep, when it neither commits nor polls. *)
LEMMA SameCommitted ==
  ASSUME CommittedIsReceived, committed' = committed, received \subseteq received'
  PROVE  CommittedIsReceived'
  BY Zenon DEF CommittedIsReceived, PairAt

LEMMA SameOffsets ==
  ASSUME OffsetsRead, pc # "idle" => pc' # "idle", UNCHANGED <<position, msg>>,
         \A t \in Topics : buffers'[t].next_offsets = buffers[t].next_offsets
  PROVE  OffsetsRead'
  BY DEF OffsetsRead

LEMMA SameAccounted ==
  ASSUME Accounted, pc' # "idle" => pc # "idle", UNCHANGED <<position, msg>>,
         received \subseteq received',
         \A t \in Topics : InBuffer(t) \subseteq received' \cup InBuffer(t)'
  PROVE  Accounted'
<1>1. \A p \in Parts : TopicOf[p] \in Topics
  BY SourceAssumption
<1>2. SUFFICES ASSUME pc' # "idle", NEW p \in Parts, NEW o \in 1 .. position[p] - 1,
                      NEW i \in 1 .. Log[p][o].pairs
               PROVE  \/ PairAt(p, o, i) \in received' \cup InBuffer(TopicOf[p])'
                      \/ msg.part = p /\ msg.offset = o /\ i > msg.copied
  BY Zenon DEF Accounted, PairAt
<1>3. \/ PairAt(p, o, i) \in received \cup InBuffer(TopicOf[p])
      \/ msg.part = p /\ msg.offset = o /\ i > msg.copied
  BY <1>2 DEF Accounted
<1>4. received \cup InBuffer(TopicOf[p]) \subseteq received' \cup InBuffer(TopicOf[p])'
  BY <1>1
<1> QED
  BY <1>3, <1>4

(* The thread ends: its buffers and its message are gone. *)
LEMMA ExitStep ==
  ASSUME Delivery, Exit, UNCHANGED <<broker, position>>, received \subseteq received',
         received' \subseteq Pair, terminate' \in BOOLEAN, stops' \in Nat
  PROVE  Delivery'
<1>1. NoMsg \in [part : Parts \cup {"none"}, offset : Nat, copied : Nat]
  BY DEF NoMsg
<1>2. NoBuffer \in Buffer
  BY DEF NoBuffer, NoOffsets, Buffer
<1>3. TypeOK'
  BY <1>1, <1>2 DEF Delivery, TypeOK, Exit, broker
<1>4. MessageAtHand' /\ Accounted'
  BY DEF Exit, MessageAtHand, Accounted, NoMsg
<1>5. CommittedIsReceived'
  BY SameCommitted DEF Delivery, broker
<1>6. OffsetsRead'
  BY DEF Exit, OffsetsRead, NoBuffer, NoOffsets
<1> QED
  BY <1>3, <1>4, <1>5, <1>6 DEF Delivery

-------------------------------------------------------------------------------
(* One lemma per action. *)

LEMMA ProduceStep == ASSUME Delivery, NEW p \in Parts, Produce(p) PROVE Delivery'
<1>1. Len(Log[p]) \in Nat
  BY SourceAssumption
<1>2. terminate' \in BOOLEAN
  BY DEF Delivery, TypeOK, Produce
<1>3. TypeOK'
  <2>1. end \in [Parts -> Nat] /\ \A q \in Parts : end[q] <= Len(Log[q])
    BY DEF Delivery, TypeOK
  <2>2. end' = [end EXCEPT ![p] = @ + 1] /\ end[p] < Len(Log[p])
    BY Zenon DEF Produce
  <2>3. end' \in [Parts -> Nat] /\ \A q \in Parts : end'[q] <= Len(Log[q])
    BY <1>1, <2>1, <2>2
  <2>4. UNCHANGED <<committed, position, pc, buffers, msg, todo, received, stops>>
    BY DEF Produce, receiver
  <2> QED
    BY <1>2, <2>3, <2>4 DEF Delivery, TypeOK
<1>4. MessageAtHand'
  BY DEF Delivery, MessageAtHand, Produce
<1>5. CommittedIsReceived' /\ Accounted' /\ OffsetsRead'
  BY DEF Delivery, CommittedIsReceived, Accounted, OffsetsRead, InBuffer, PairAt, Produce, receiver
<1> QED
  BY <1>3, <1>4, <1>5 DEF Delivery

LEMMA StopStep == ASSUME Delivery, Stop PROVE Delivery'
<1>0. /\ terminate' \in BOOLEAN /\ stops' \in Nat /\ UNCHANGED <<broker, received>>
      /\ UNCHANGED <<position, pc, buffers, msg, todo>>
  BY DEF Delivery, TypeOK, Stop, receiver
<1>1. TypeOK'
  BY <1>0 DEF Delivery, TypeOK, broker
<1>2. MessageAtHand'
  BY DEF Delivery, MessageAtHand, Stop
<1>3. CommittedIsReceived' /\ Accounted' /\ OffsetsRead'
  BY DEF Delivery, CommittedIsReceived, Accounted, OffsetsRead, InBuffer, PairAt, Stop, receiver, broker
<1> QED
  BY <1>1, <1>2, <1>3 DEF Delivery

LEMMA CrashStep == ASSUME Delivery, Crash PROVE Delivery'
<1>1. terminate' \in BOOLEAN
  BY Zenon DEF Crash
<1>2. Exit /\ UNCHANGED <<broker, position>> /\ received' = received
  BY DEF Crash, receiver
<1>3. stops' \in Nat /\ received' \subseteq Pair
  BY <1>2 DEF Delivery, TypeOK, Crash
<1> QED
  BY <1>1, <1>2, <1>3, ExitStep

LEMMA TerminatedStep == ASSUME Delivery, Terminated PROVE Delivery'
<1>1. terminate' \in BOOLEAN
  BY DEF Delivery, TypeOK, Terminated
<1>2. /\ Exit /\ UNCHANGED <<broker, position>> /\ received' = received
      /\ stops' \in Nat /\ received' \subseteq Pair
  BY DEF Delivery, TypeOK, Terminated, receiver
<1> QED
  BY <1>1, <1>2, ExitStep

(* Reading starts at the committed offsets, and all before them is applied. *)
LEMMA EngageStep == ASSUME Delivery, Engage PROVE Delivery'
<1>1. TypeOK'
  BY Zenon DEF Delivery, TypeOK, Engage, receiver, broker
<1>2. MessageAtHand'
  BY DEF Delivery, MessageAtHand, Engage
<1>3. CommittedIsReceived'
  BY SameCommitted DEF Delivery, Engage, receiver, broker
<1>4. Accounted'
  BY Zenon, <1>3 DEF Engage, CommittedIsReceived, Accounted, PairAt, receiver, broker
<1>5. OffsetsRead'
  BY DEF Delivery, OffsetsRead, Engage
<1> QED
  BY <1>1, <1>2, <1>3, <1>4, <1>5 DEF Delivery

(* The steps that only move the program counter. *)
LEMMA PcStep ==
  ASSUME Delivery, UNCHANGED <<broker, position, terminate, buffers, msg, received, stops>>,
         todo' \subseteq Topics, pc # "idle",
         \/ pc = "poll" /\ pc' = "flush"
         \/ pc = "flush" /\ pc' = "poll"
         \/ pc = "full" /\ pc' = "copy"
  PROVE  Delivery'
<1>1. terminate' \in BOOLEAN
  BY DEF Delivery, TypeOK
<1>2. TypeOK'
  BY <1>1 DEF Delivery, TypeOK, broker
<1>3. MessageAtHand'
  BY DEF Delivery, MessageAtHand
<1>4. CommittedIsReceived'
  BY SameCommitted DEF Delivery, broker
<1>5. Accounted' /\ OffsetsRead'
  BY SameAccounted, SameOffsets DEF Delivery, InBuffer
<1> QED
  BY <1>2, <1>3, <1>4, <1>5 DEF Delivery

LEMMA TimeoutStep == ASSUME Delivery, Timeout PROVE Delivery'
  BY PcStep DEF Timeout, receiver

LEMMA FlushDoneStep == ASSUME Delivery, FlushDone PROVE Delivery'
  BY PcStep DEF FlushDone, receiver

LEMMA FullDeliveredStep == ASSUME Delivery, FullDelivered PROVE Delivery'
<1>1. todo \subseteq Topics
  BY DEF Delivery, TypeOK
<1> QED
  BY <1>1, PcStep DEF FullDelivered, receiver

(* A poll moves the position of a partition within its log.                *)
LEMMA PositionMoves ==
  ASSUME Delivery, NEW p \in Parts, position[p] <= end[p],
         position' = [position EXCEPT ![p] = @ + 1]
  PROVE  /\ position' \in [Parts -> Nat \ {0}]
         /\ \A q \in Parts : position'[q] <= Len(Log[q]) + 1
<1>1. Len(Log[p]) \in Nat
  BY SourceAssumption
<1>2. /\ position \in [Parts -> Nat \ {0}] /\ end[p] \in Nat /\ end[p] <= Len(Log[p])
      /\ \A q \in Parts : position[q] <= Len(Log[q]) + 1
  BY DEF Delivery, TypeOK
<1> QED
  BY <1>1, <1>2

(* The polled message has no pairs to account for. *)
LEMMA SkipStep == ASSUME Delivery, NEW p \in Parts, Skip(p) PROVE Delivery'
<1>1. /\ position[p] \in Nat \ {0} /\ Len(Log[p]) \in Nat /\ end[p] \in Nat
      /\ position[p] <= end[p] /\ end[p] <= Len(Log[p])
  BY SourceAssumption DEF Delivery, TypeOK, Skip
<1>2. /\ position' = [position EXCEPT ![p] = @ + 1] /\ pc = "poll" /\ pc' = pc
      /\ UNCHANGED <<broker, terminate, buffers, msg, todo, received, stops>>
      /\ Log[p][position[p]].pairs = 0
  BY DEF Skip, receiver
<1>3. terminate' \in BOOLEAN
  BY <1>2 DEF Delivery, TypeOK
<1>4. TypeOK'
  <2>1. /\ position' \in [Parts -> Nat \ {0}]
        /\ \A q \in Parts : position'[q] <= Len(Log[q]) + 1
    BY Zenon, <1>1, <1>2, PositionMoves
  <2> QED
    BY Zenon, <1>2, <1>3, <2>1 DEF Delivery, TypeOK, broker
<1>5. msg = NoMsg
  BY <1>2 DEF Delivery, MessageAtHand
<1>6. MessageAtHand'
  BY <1>2, <1>5 DEF MessageAtHand
<1>7. CommittedIsReceived'
  BY <1>2, SameCommitted DEF Delivery, broker
<1>8. Accounted'
  <2> SUFFICES ASSUME NEW q \in Parts, NEW o \in 1 .. position'[q] - 1,
                      NEW i \in 1 .. Log[q][o].pairs
               PROVE  PairAt(q, o, i) \in received \cup InBuffer(TopicOf[q])
    <3>1. \A q \in Parts : InBuffer(TopicOf[q])' = InBuffer(TopicOf[q])
      BY <1>2 DEF InBuffer
    <3> QED
      BY Zenon, <3>1, <1>2 DEF Accounted, PairAt
  <2>1. o \in 1 .. position[q] - 1
    BY <1>1, <1>2 DEF Delivery, TypeOK
  <2>2. \/ PairAt(q, o, i) \in received \cup InBuffer(TopicOf[q])
        \/ msg.part = q
    BY <2>1, <1>2 DEF Delivery, Accounted
  <2>3. msg.part # q
    BY <1>5, SourceAssumption DEF NoMsg
  <2> QED
    BY <2>2, <2>3
<1>9. OffsetsRead'
  <2> SUFFICES ASSUME NEW t \in Topics, NEW q \in Parts, buffers[t].next_offsets[q] # 0
               PROVE  TopicOf[q] = t /\ buffers[t].next_offsets[q] <= position'[q]
    BY Zenon, <1>2, <1>5, SourceAssumption DEF OffsetsRead, NoMsg
  <2>1. TopicOf[q] = t /\ buffers[t].next_offsets[q] <= position[q]
    BY DEF Delivery, OffsetsRead
  <2>2. buffers[t].next_offsets[q] \in Nat /\ position[q] \in Nat
    BY DEF Delivery, TypeOK, Buffer
  <2>3. position'[q] = position[q] \/ position'[q] = position[q] + 1
    BY <1>2 DEF Delivery, TypeOK
  <2> QED
    BY <2>1, <2>2, <2>3
<1> QED
  BY <1>4, <1>6, <1>7, <1>8, <1>9 DEF Delivery

(* None of the pairs of the polled message is copied yet. *)
LEMMA ReceiveStep == ASSUME Delivery, NEW p \in Parts, Receive(p) PROVE Delivery'
<1> DEFINE t == TopicOf[p]
<1>0. position[p] <= end[p]
  BY DEF Receive
<1>1. /\ position[p] \in Nat \ {0} /\ Len(Log[p]) \in Nat /\ end[p] \in Nat
      /\ position[p] <= end[p] /\ end[p] <= Len(Log[p]) /\ t \in Topics
  BY <1>0, SourceAssumption DEF Delivery, TypeOK
<1>2. Log[p][position[p]] \in Message
  BY <1>1, Messages
<1>3. /\ position' = [position EXCEPT ![p] = @ + 1] /\ pc = "poll"
      /\ pc' \in {"resize", "copy"}
      /\ msg' = [part |-> p, offset |-> position[p], copied |-> 0]
      /\ UNCHANGED <<broker, terminate, todo, received, stops>>
  BY DEF Receive, receiver
<1>4. PICK s \in Nat : buffers' = [buffers EXCEPT ![t].value_size = s]
  <2>1. buffers[t].value_size \in Nat
    BY <1>1 DEF Delivery, TypeOK, Buffer
  <2>2. Log[p][position[p]].value_size \in Nat
    BY <1>2 DEF Message
  <2> QED
    BY Zenon, <2>1, <2>2 DEF Receive
<1>5. /\ buffers' \in [Topics -> Buffer]
      /\ \A u \in Topics : /\ buffers'[u].pairs = buffers[u].pairs
                           /\ buffers'[u].next_offsets = buffers[u].next_offsets
  BY Zenon, <1>1, <1>4 DEF Delivery, TypeOK, Buffer
<1>6. terminate' \in BOOLEAN
  BY <1>3 DEF Delivery, TypeOK
<1>7. TypeOK'
  <2>1. /\ position' \in [Parts -> Nat \ {0}]
        /\ \A q \in Parts : position'[q] <= Len(Log[q]) + 1
    BY Zenon, <1>1, <1>3, PositionMoves
  <2>2. msg' \in [part : Parts \cup {"none"}, offset : Nat, copied : Nat]
    BY <1>1, <1>3
  <2> QED
    BY Zenon, <1>3, <1>5, <1>6, <2>1, <2>2 DEF Delivery, TypeOK, broker
<1>8. /\ msg'.part = p /\ msg'.offset = position[p] /\ msg'.copied = 0
      /\ position'[p] = position[p] + 1
  BY <1>3 DEF Delivery, TypeOK
<1>9. MessageAtHand'
  BY <1>1, <1>2, <1>3, <1>8 DEF MessageAtHand, Message
<1>10. msg = NoMsg
  BY Zenon, <1>3 DEF Delivery, MessageAtHand
<1>11. CommittedIsReceived'
  BY <1>3, SameCommitted DEF Delivery, broker
<1>12. Accounted'
  <2> SUFFICES ASSUME NEW q \in Parts, NEW o \in 1 .. position'[q] - 1,
                      NEW i \in 1 .. Log[q][o].pairs
               PROVE  \/ PairAt(q, o, i) \in received \cup InBuffer(TopicOf[q])
                      \/ p = q /\ position[p] = o /\ i > 0
    <3>1. \A u \in Topics : InBuffer(u)' = InBuffer(u)
      BY <1>5 DEF InBuffer
    <3>2. \A q \in Parts : TopicOf[q] \in Topics
      BY SourceAssumption
    <3> QED
      BY Zenon, <3>1, <3>2, <1>3, <1>8 DEF Accounted, PairAt
  <2>1. CASE o \in 1 .. position[q] - 1
    BY Zenon, <2>1, <1>3, <1>10, SourceAssumption DEF Delivery, Accounted, NoMsg
  <2>2. CASE o \notin 1 .. position[q] - 1
    <3>1. q = p /\ o = position[p]
      BY <2>2, <1>1, <1>3 DEF Delivery, TypeOK
    <3>2. Log[q][o].pairs \in Nat
      BY <3>1, <1>2 DEF Message
    <3> QED
      BY <3>1, <3>2
  <2> QED
    BY Zenon, <2>1, <2>2
<1>13. OffsetsRead'
  <2> SUFFICES ASSUME NEW u \in Topics, NEW q \in Parts, buffers[u].next_offsets[q] # 0
               PROVE  /\ TopicOf[q] = u /\ buffers[u].next_offsets[q] <= position'[q]
                      /\ p = q => buffers[u].next_offsets[q] <= position[p]
    BY Zenon, <1>3, <1>5, <1>8 DEF OffsetsRead
  <2>1. TopicOf[q] = u /\ buffers[u].next_offsets[q] <= position[q]
    BY Zenon DEF Delivery, OffsetsRead
  <2>2. buffers[u].next_offsets[q] \in Nat /\ position[q] \in Nat
    BY DEF Delivery, TypeOK, Buffer
  <2>3. position'[q] = position[q] \/ position'[q] = position[q] + 1
    BY <1>3 DEF Delivery, TypeOK
  <2> QED
    BY <2>1, <2>2, <2>3
<1> QED
  BY <1>7, <1>9, <1>11, <1>12, <1>13 DEF Delivery

(* The callback: what is applied are pairs, and the buffer is among them.  *)
LEMMA ApplyStep ==
  ASSUME Delivery, NEW t \in Topics, Apply(t)
  PROVE  received' = received \cup InBuffer(t) /\ received' \subseteq Pair
<1>1. received' = received \cup InBuffer(t)
  BY DEF Apply, InBuffer
<1>2. InBuffer(t) \subseteq Pair
  BY DEF Delivery, TypeOK, Buffer, InBuffer
<1> QED
  BY <1>1, <1>2 DEF Delivery, TypeOK

(* What is delivered leaves the buffer, and is applied. *)
LEMMA DeliverStep == ASSUME Delivery, NEW t \in Topics, Deliver(t) PROVE Delivery'
<1>1. /\ buffers' = [buffers EXCEPT ![t].pairs = <<>>] /\ Apply(t)
      /\ UNCHANGED <<broker, position, pc, terminate, msg, todo, stops>>
  BY DEF Deliver
<1>2. received' = received \cup InBuffer(t) /\ received' \subseteq Pair
  BY <1>1, ApplyStep
<1>3. /\ buffers' \in [Topics -> Buffer]
      /\ \A u \in Topics : /\ u # t => buffers'[u].pairs = buffers[u].pairs
                           /\ buffers'[u].next_offsets = buffers[u].next_offsets
  <2>1. buffers \in [Topics -> Buffer] /\ buffers[t] \in Buffer
    BY DEF Delivery, TypeOK
  <2>2. PICK e \in Seq(Pair) : e = <<>>
    <3>1. <<>> \in Seq(Pair)
      OBVIOUS
    <3> QED
      BY <3>1, Zenon
  <2>3. buffers' = [buffers EXCEPT ![t] = [buffers[t] EXCEPT !.pairs = e]]
    BY <1>1, <2>2
  <2>4. /\ [buffers[t] EXCEPT !.pairs = e] \in Buffer
        /\ [buffers[t] EXCEPT !.pairs = e].next_offsets = buffers[t].next_offsets
    BY <2>1, WithPairs
  <2> QED
    BY <2>1, <2>3, <2>4
<1>4. terminate' \in BOOLEAN
  BY <1>1 DEF Delivery, TypeOK
<1>5. TypeOK'
  BY <1>1, <1>2, <1>3, <1>4 DEF Delivery, TypeOK, broker
<1>6. MessageAtHand'
  BY <1>1 DEF Delivery, MessageAtHand
<1>7. CommittedIsReceived'
  BY <1>1, <1>2, SameCommitted DEF Delivery, broker
<1>8. Accounted'
  <2>1. \A u \in Topics : InBuffer(u) \subseteq received' \cup InBuffer(u)'
    <3> TAKE u \in Topics
    <3>1. CASE u = t
      BY <3>1, <1>2
    <3>2. CASE u # t
      BY <3>2, <1>3 DEF InBuffer
    <3> QED
      BY <3>1, <3>2
  <2> QED
    BY <2>1, <1>1, <1>2, SameAccounted DEF Delivery
<1>9. OffsetsRead'
  BY <1>1, <1>3, SameOffsets DEF Delivery
<1> QED
  BY <1>5, <1>6, <1>7, <1>8, <1>9 DEF Delivery

(* A delivery that the callback does not acknowledge. *)
LEMMA DeliverFailsStep == ASSUME Delivery, NEW t \in Topics, DeliverFails(t) PROVE Delivery'
<1>1. received \subseteq received' /\ received' \subseteq Pair
  <2>1. CASE Apply(t)
    BY <2>1, ApplyStep
  <2>2. CASE UNCHANGED receiver
    BY <2>2 DEF receiver, Delivery, TypeOK
  <2> QED
    BY <2>1, <2>2 DEF DeliverFails
<1>2. terminate' = terminate /\ UNCHANGED <<broker, position, stops>>
  BY DEF DeliverFails
<1>3. terminate' \in BOOLEAN
  BY <1>2 DEF Delivery, TypeOK
<1>4. CASE terminate
  <2>1. Exit
    BY <1>4 DEF DeliverFails
  <2>2. stops' \in Nat
    BY <1>2 DEF Delivery, TypeOK
  <2> QED
    BY <1>1, <1>2, <1>3, <2>1, <2>2, ExitStep
<1>5. CASE ~terminate
  <2>1. UNCHANGED <<pc, buffers, msg, todo>>
    BY <1>5 DEF DeliverFails
  <2>2. TypeOK'
    BY <1>1, <1>2, <1>3, <2>1 DEF Delivery, TypeOK, broker
  <2>3. MessageAtHand'
    BY Zenon, <1>2, <2>1 DEF Delivery, MessageAtHand
  <2>4. CommittedIsReceived'
    BY <1>1, <1>2, SameCommitted DEF Delivery, broker
  <2>5. \A u \in Topics : InBuffer(u)' = InBuffer(u)
    BY <2>1 DEF InBuffer
  <2>6. Accounted'
    BY <1>1, <1>2, <2>1, <2>5, SameAccounted DEF Delivery
  <2>7. OffsetsRead'
    BY <1>2, <2>1, SameOffsets DEF Delivery
  <2> QED
    BY <2>2, <2>3, <2>4, <2>6, <2>7 DEF Delivery
<1> QED
  BY <1>4, <1>5

(* The offsets of a delivered buffer are committed and forgotten; `msg' is *)
(* kept, or all of it has been copied and it is forgotten as well.         *)
LEMMA CommittedStep ==
  ASSUME Delivery, NEW t \in Topics, buffers[t].pairs = <<>>, Commit(t), pc # "idle",
         NEW s \in Nat,
         buffers' = [buffers EXCEPT ![t] = [Committed(@) EXCEPT !.value_size = s]],
         UNCHANGED <<end, position, terminate, received, stops>>,
         todo' \subseteq Topics, pc' \in {"poll", "flush", "copy"},
         MessageAtHand',
         \/ msg' = msg
         \/ /\ msg' = NoMsg /\ msg.part \in Parts /\ msg.offset \in 1 .. position[msg.part] - 1
            /\ msg.copied = Log[msg.part][msg.offset].pairs
  PROVE  Delivery'
<1>1. /\ committed' \in [Parts -> Nat \ {0}]
      /\ \A p \in Parts : committed'[p] <= Len(Log[p]) + 1
      /\ CommittedIsReceived'
  BY CommitStep
<1>2. buffers[t] \in Buffer
  BY DEF Delivery, TypeOK
<1>3. PICK b \in Buffer : /\ b.pairs = buffers[t].pairs /\ b.next_offsets = NoOffsets
                          /\ buffers' = [buffers EXCEPT ![t] = b]
  BY Zenon, <1>2, WithoutOffsets, WithValueSize
<1>4. /\ buffers' \in [Topics -> Buffer]
      /\ buffers'[t].next_offsets = NoOffsets
      /\ \A u \in Topics \ {t} : buffers'[u] = buffers[u]
      /\ \A u \in Topics : buffers'[u].pairs = buffers[u].pairs
  <2>1. buffers \in [Topics -> Buffer]
    BY DEF Delivery, TypeOK
  <2> QED
    BY Zenon, <2>1, <1>3
<1>5. msg' \in [part : Parts \cup {"none"}, offset : Nat, copied : Nat]
  BY DEF Delivery, TypeOK, NoMsg
<1>6. terminate' \in BOOLEAN
  BY DEF Delivery, TypeOK
<1>7. TypeOK'
  BY <1>1, <1>4, <1>5, <1>6 DEF Delivery, TypeOK
<1>8. \A u \in Topics : InBuffer(u)' = InBuffer(u)
  BY <1>4 DEF InBuffer
<1>9. Accounted'
  <2>1. CASE msg' = msg
    BY <2>1, <1>8, SameAccounted DEF Delivery
  <2>2. CASE msg' # msg
    <3>1. /\ msg.part \in Parts /\ msg.offset \in 1 .. position[msg.part] - 1
          /\ msg.copied = Log[msg.part][msg.offset].pairs
      BY <2>2
    <3>2. ASSUME NEW p \in Parts, NEW o \in 1 .. position[p] - 1, NEW i \in 1 .. Log[p][o].pairs
          PROVE  PairAt(p, o, i) \in received \cup InBuffer(TopicOf[p])
      <4>1. Log[p][o].pairs \in Nat
        BY Polled DEF Delivery, Message
      <4>2. ~(msg.part = p /\ msg.offset = o /\ i > msg.copied)
        BY <3>1, <4>1
      <4> QED
        BY <4>2 DEF Delivery, Accounted
    <3>3. \A p \in Parts : TopicOf[p] \in Topics
      BY SourceAssumption
    <3> QED
      BY Zenon, <3>2, <3>3, <1>8 DEF Accounted, PairAt
  <2> QED
    BY <2>1, <2>2
<1>10. OffsetsRead'
  <2> SUFFICES ASSUME NEW u \in Topics, NEW p \in Parts, buffers'[u].next_offsets[p] # 0
               PROVE  /\ TopicOf[p] = u /\ buffers'[u].next_offsets[p] <= position[p]
                      /\ msg'.part = p => \/ buffers'[u].next_offsets[p] <= msg'.offset
                                          \/ msg'.copied = Log[p][msg'.offset].pairs
    <3>1. position' = position /\ pc' # "idle"
      OBVIOUS
    <3> QED
      BY <3>1 DEF OffsetsRead
  <2>1. u # t
    BY <1>4 DEF NoOffsets
  <2>2. buffers'[u] = buffers[u]
    BY <2>1, <1>4
  <2>3. /\ TopicOf[p] = u /\ buffers[u].next_offsets[p] <= position[p]
        /\ msg.part = p => \/ buffers[u].next_offsets[p] <= msg.offset
                            \/ msg.copied = Log[p][msg.offset].pairs
    <3>1. buffers[u].next_offsets[p] # 0
      BY Zenon, <2>2
    <3> QED
      BY <3>1 DEF Delivery, OffsetsRead
  <2>4. msg' = msg \/ msg'.part # p
    BY SourceAssumption DEF NoMsg
  <2> QED
    BY Zenon, <2>2, <2>3, <2>4
<1> QED
  BY <1>1, <1>7, <1>9, <1>10 DEF Delivery

LEMMA FlushedStep == ASSUME Delivery, NEW t \in Topics, Flushed(t) PROVE Delivery'
<1>1. /\ pc = "flush" /\ pc' = pc /\ buffers[t].pairs = <<>> /\ Commit(t)
      /\ buffers' = [buffers EXCEPT ![t] = Committed(@)] /\ todo' = todo \ {t}
      /\ UNCHANGED <<end, position, terminate, msg, received, stops>>
  BY Zenon DEF Flushed, receiver
<1>2. todo' \subseteq Topics
  BY <1>1 DEF Delivery, TypeOK
<1>3. MessageAtHand'
  BY <1>1 DEF Delivery, MessageAtHand
<1>4. buffers[t] \in Buffer
  BY DEF Delivery, TypeOK
<1>5. PICK s \in Nat : [Committed(buffers[t]) EXCEPT !.value_size = s] = Committed(buffers[t])
  <2>1. Committed(buffers[t]) \in Buffer
    BY <1>4, WithoutOffsets
  <2>2. ASSUME NEW r \in Buffer
        PROVE  r.value_size \in Nat /\ [r EXCEPT !.value_size = r.value_size] = r
    BY DEF Buffer
  <2> QED
    BY <2>1, <2>2
<1>6. buffers' = [buffers EXCEPT ![t] = [Committed(@) EXCEPT !.value_size = s]]
  BY Zenon, <1>1, <1>5
<1> QED
  BY Zenon, <1>1, <1>2, <1>3, <1>6, CommittedStep

LEMMA ResizedStep == ASSUME Delivery, Resized PROVE Delivery'
<1> DEFINE t == TopicOf[msg.part]
<1>1. pc = "resize"
  BY DEF Resized
<1>2. t \in Topics /\ Log[msg.part][msg.offset] \in Message
  BY <1>1, AtHand DEF Delivery
<1>3. PICK s \in Nat : s = Log[msg.part][msg.offset].value_size
  BY <1>2 DEF Message
<1>4. /\ pc' = "copy" /\ buffers[t].pairs = <<>> /\ Commit(t)
      /\ buffers' = [buffers EXCEPT ![t] = [Committed(@) EXCEPT !.value_size = s]]
      /\ UNCHANGED <<end, position, terminate, msg, todo, received, stops>>
  BY <1>3 DEF Resized, receiver
<1>5. todo' \subseteq Topics
  BY <1>4 DEF Delivery, TypeOK
<1>6. MessageAtHand'
  BY <1>1, <1>4 DEF Delivery, MessageAtHand
<1> HIDE DEF t
<1> QED
  BY Zenon, <1>1, <1>2, <1>4, <1>5, <1>6, CommittedStep

LEMMA IntervalDoneStep == ASSUME Delivery, IntervalDone PROVE Delivery'
<1> DEFINE t == TopicOf[msg.part]
<1>1. pc = "interval"
  BY DEF IntervalDone
<1>2. /\ t \in Topics /\ msg.part \in Parts /\ msg.offset \in 1 .. position[msg.part] - 1
  BY <1>1, AtHand DEF Delivery
<1>3. msg.copied = Log[msg.part][msg.offset].pairs
  BY <1>1 DEF Delivery, MessageAtHand
<1>4. /\ pc' = "poll" /\ msg' = NoMsg /\ buffers[t].pairs = <<>> /\ Commit(t)
      /\ buffers' = [buffers EXCEPT ![t] = Committed(@)]
      /\ UNCHANGED <<end, position, terminate, todo, received, stops>>
  BY DEF IntervalDone, receiver
<1>5. todo' \subseteq Topics
  BY <1>4 DEF Delivery, TypeOK
<1>6. MessageAtHand'
  BY <1>4 DEF MessageAtHand
<1>7. buffers[t] \in Buffer
  BY <1>2 DEF Delivery, TypeOK
<1>8. PICK s \in Nat : [Committed(buffers[t]) EXCEPT !.value_size = s] = Committed(buffers[t])
  <2>1. Committed(buffers[t]) \in Buffer
    BY <1>7, WithoutOffsets
  <2>2. ASSUME NEW r \in Buffer
        PROVE  r.value_size \in Nat /\ [r EXCEPT !.value_size = r.value_size] = r
    BY DEF Buffer
  <2> QED
    BY <2>1, <2>2
<1>9. buffers' = [buffers EXCEPT ![t] = [Committed(@) EXCEPT !.value_size = s]]
  BY Zenon, <1>4, <1>8
<1> HIDE DEF t
<1> QED
  BY Zenon, <1>1, <1>2, <1>3, <1>4, <1>5, <1>6, <1>9, CommittedStep

(* One more pair of the message at hand is in the buffer. *)
Elements(s) == {s[i] : i \in DOMAIN s}

LEMMA Appended ==
  ASSUME NEW s \in Seq(Pair), NEW q \in Pair
  PROVE  /\ Append(s, q) \in Seq(Pair)
         /\ Elements(Append(s, q)) = Elements(s) \cup {q}
         /\ DOMAIN Append(s, q) = 1 .. Len(s) + 1 /\ Append(s, q)[Len(s) + 1] = q
         /\ \A i \in 1 .. Len(s) : Append(s, q)[i] = s[i]
<1>1. Append(s, q) \in Seq(Pair)
  OBVIOUS
<1>2. /\ DOMAIN s = 1 .. Len(s) /\ DOMAIN Append(s, q) = 1 .. Len(s) + 1 /\ Len(s) \in Nat
      /\ \A i \in 1 .. Len(s) : Append(s, q)[i] = s[i]
      /\ Append(s, q)[Len(s) + 1] = q
  OBVIOUS
<1> DEFINE a == Append(s, q)
<1> HIDE DEF a
<1>3. /\ DOMAIN s = 1 .. Len(s) /\ DOMAIN a = 1 .. Len(s) + 1 /\ Len(s) \in Nat
      /\ \A i \in 1 .. Len(s) : a[i] = s[i]
      /\ a[Len(s) + 1] = q
  BY <1>2 DEF a
<1>4. {a[i] : i \in DOMAIN a} = {s[i] : i \in DOMAIN s} \cup {q}
  <2>1. \A i \in DOMAIN a : i \in DOMAIN s \/ i = Len(s) + 1
    BY <1>3
  <2>2. \A i \in DOMAIN s : i \in DOMAIN a /\ a[i] = s[i]
    BY <1>3
  <2>3. Len(s) + 1 \in DOMAIN a
    BY <1>3
  <2> QED
    BY <2>1, <2>2, <2>3, <1>3
<1>5. Elements(a) = Elements(s) \cup {q}
  BY Zenon, <1>4 DEF Elements
<1> QED
  BY <1>1, <1>3, <1>5 DEF a

LEMMA CopyEffect ==
  ASSUME Delivery, CopyPair
  PROVE  /\ pc = "copy" /\ msg.copied < Log[msg.part][msg.offset].pairs
         /\ msg.part \in Parts /\ msg.offset \in Nat \ {0} /\ msg.copied \in Nat
         /\ msg.offset \in 1 .. position[msg.part] - 1
         /\ Log[msg.part][msg.offset].pairs \in Nat
         /\ msg' \in [part : Parts \cup {"none"}, offset : Nat, copied : Nat]
         /\ msg'.part = msg.part /\ msg'.offset = msg.offset /\ msg'.copied = msg.copied + 1
         /\ \E t \in Topics, added \in Pair, e \in Seq(Pair) :
              /\ t = TopicOf[msg.part] /\ added = PairAt(msg.part, msg.offset, msg.copied + 1)
              /\ buffers[t].pairs \in Seq(Pair) /\ e = Append(buffers[t].pairs, added)
              /\ buffers' \in [Topics -> Buffer] /\ buffers'[t].pairs = e
              /\ \A u \in Topics : /\ u # t => buffers'[u].pairs = buffers[u].pairs
                                   /\ buffers'[u].next_offsets = buffers[u].next_offsets
                                   /\ buffers'[u].value_size = buffers[u].value_size
<1>1. /\ pc = "copy" /\ msg.copied < Log[msg.part][msg.offset].pairs
      /\ msg' = [msg EXCEPT !.copied = @ + 1]
  BY Zenon DEF CopyPair
<1>2. /\ msg.part \in Parts /\ msg.offset \in Nat \ {0} /\ msg.copied \in Nat
      /\ msg.offset \in 1 .. position[msg.part] - 1
      /\ Log[msg.part][msg.offset].pairs \in Nat /\ TopicOf[msg.part] \in Topics
  BY <1>1, AtHand DEF Delivery, Message
<1>3. /\ msg' \in [part : Parts \cup {"none"}, offset : Nat, copied : Nat]
      /\ msg'.part = msg.part /\ msg'.offset = msg.offset /\ msg'.copied = msg.copied + 1
  <2>1. msg \in [part : Parts \cup {"none"}, offset : Nat, copied : Nat]
    BY DEF Delivery, TypeOK
  <2> QED
    BY <2>1, <1>1
<1>4. PICK t \in Topics, added \in Pair :
        t = TopicOf[msg.part] /\ added = PairAt(msg.part, msg.offset, msg.copied + 1)
  <2>1. PairAt(msg.part, msg.offset, msg.copied + 1) \in Pair
    BY <1>2 DEF PairAt, Pair
  <2> QED
    BY <2>1, <1>2
<1>5. /\ buffers \in [Topics -> Buffer] /\ buffers[t] \in Buffer /\ buffers[t].pairs \in Seq(Pair)
      /\ buffers' = [buffers EXCEPT ![t].pairs = Append(@, added)]
  <2>1. buffers' = [buffers EXCEPT ![t].pairs = Append(@, added)]
    BY Zenon, <1>4 DEF CopyPair
  <2> QED
    BY <2>1 DEF Delivery, TypeOK, Buffer
<1>6. PICK e \in Seq(Pair) : e = Append(buffers[t].pairs, added)
  <2>1. added \in Pair /\ buffers[t].pairs \in Seq(Pair)
    BY <1>4, <1>5
  <2> QED
    BY Zenon, <2>1, Appended
<1>7. buffers' = [buffers EXCEPT ![t] = [buffers[t] EXCEPT !.pairs = e]]
  BY <1>5, <1>6
<1>8. /\ buffers' \in [Topics -> Buffer] /\ buffers'[t].pairs = e
      /\ \A u \in Topics : /\ u # t => buffers'[u].pairs = buffers[u].pairs
                           /\ buffers'[u].next_offsets = buffers[u].next_offsets
                           /\ buffers'[u].value_size = buffers[u].value_size
  <2>1. /\ [buffers[t] EXCEPT !.pairs = e] \in Buffer
        /\ [buffers[t] EXCEPT !.pairs = e].pairs = e
        /\ [buffers[t] EXCEPT !.pairs = e].next_offsets = buffers[t].next_offsets
        /\ [buffers[t] EXCEPT !.pairs = e].value_size = buffers[t].value_size
    BY <1>5, WithPairs
  <2>2. buffers \in [Topics -> Buffer] /\ t \in Topics
    BY <1>5
  <2> QED
    BY <2>1, <2>2, <1>7
<1>9. buffers[t].pairs \in Seq(Pair)
  BY <1>5
<1>10. \E u \in Topics, x \in Pair, z \in Seq(Pair) :
         /\ u = TopicOf[msg.part] /\ x = PairAt(msg.part, msg.offset, msg.copied + 1)
         /\ buffers[u].pairs \in Seq(Pair) /\ z = Append(buffers[u].pairs, x)
         /\ buffers' \in [Topics -> Buffer] /\ buffers'[u].pairs = z
         /\ \A v \in Topics : /\ v # u => buffers'[v].pairs = buffers[v].pairs
                              /\ buffers'[v].next_offsets = buffers[v].next_offsets
                              /\ buffers'[v].value_size = buffers[v].value_size
  <2>1. t \in Topics /\ added \in Pair /\ e \in Seq(Pair)
    OBVIOUS
  <2>2. /\ t = TopicOf[msg.part] /\ added = PairAt(msg.part, msg.offset, msg.copied + 1)
        /\ buffers[t].pairs \in Seq(Pair) /\ e = Append(buffers[t].pairs, added)
    BY Zenon, <1>4, <1>6, <1>9
  <2> QED
    BY Zenon, <2>1, <2>2, <1>8
<1> QED
  BY Zenon, <1>1, <1>2, <1>3, <1>10

LEMMA CopyPairStep == ASSUME Delivery, CopyPair PROVE Delivery'
<1>1. /\ pc = "copy" /\ msg.copied < Log[msg.part][msg.offset].pairs
      /\ pc' \in {"full", "copy"}
      /\ msg' = [msg EXCEPT !.copied = @ + 1]
      /\ UNCHANGED <<broker, position, terminate, todo, received, stops>>
  BY DEF CopyPair, receiver
<1>2. /\ msg.part \in Parts /\ msg.offset \in Nat \ {0} /\ msg.copied \in Nat
      /\ msg.offset \in 1 .. position[msg.part] - 1
      /\ Log[msg.part][msg.offset].pairs \in Nat
  BY Zenon, CopyEffect
<1>3. /\ msg' \in [part : Parts \cup {"none"}, offset : Nat, copied : Nat]
      /\ msg'.part = msg.part /\ msg'.offset = msg.offset /\ msg'.copied = msg.copied + 1
  BY CopyEffect
<1>4. PICK t \in Topics, added \in Pair, e \in Seq(Pair) :
        /\ t = TopicOf[msg.part] /\ added = PairAt(msg.part, msg.offset, msg.copied + 1)
        /\ buffers[t].pairs \in Seq(Pair) /\ e = Append(buffers[t].pairs, added)
        /\ buffers' \in [Topics -> Buffer] /\ buffers'[t].pairs = e
        /\ \A u \in Topics : /\ u # t => buffers'[u].pairs = buffers[u].pairs
                             /\ buffers'[u].next_offsets = buffers[u].next_offsets
  BY CopyEffect, Zenon
<1>5. InBuffer(t)' = InBuffer(t) \cup {added}
  <2>1. Elements(e) = Elements(buffers[t].pairs) \cup {added}
    <3>1. buffers[t].pairs \in Seq(Pair) /\ e = Append(buffers[t].pairs, added)
      BY Zenon, <1>4
    <3> QED
      BY <3>1, Appended
  <2>2. InBuffer(t) = Elements(buffers[t].pairs) /\ InBuffer(t)' = Elements(buffers'[t].pairs)
    BY DEF InBuffer, Elements
  <2>3. buffers'[t].pairs = e
    BY Zenon, <1>4
  <2> QED
    BY <2>1, <2>2, <2>3
<1>6. \A u \in Topics : InBuffer(u) \subseteq InBuffer(u)'
  <2>1. \A u \in Topics \ {t} : buffers'[u].pairs = buffers[u].pairs
    BY Zenon, <1>4
  <2>2. \A u \in Topics \ {t} : InBuffer(u)' = InBuffer(u)
    BY <2>1 DEF InBuffer
  <2> QED
    BY <2>2, <1>5
<1>7. terminate' \in BOOLEAN
  BY <1>1 DEF Delivery, TypeOK
<1>8. TypeOK'
  BY Zenon, <1>1, <1>3, <1>4, <1>7 DEF Delivery, TypeOK, broker
<1>9. MessageAtHand'
  BY <1>1, <1>2, <1>3 DEF MessageAtHand
<1>10. CommittedIsReceived'
  BY <1>1, SameCommitted DEF Delivery, broker
<1>11. Accounted'
  <2> SUFFICES ASSUME NEW p \in Parts, NEW o \in 1 .. position[p] - 1,
                      NEW i \in 1 .. Log[p][o].pairs
               PROVE  \/ PairAt(p, o, i) \in received \cup InBuffer(TopicOf[p])'
                      \/ msg.part = p /\ msg.offset = o /\ i > msg.copied + 1
    BY Zenon, <1>1, <1>3 DEF Accounted, PairAt
  <2>1. TopicOf[p] \in Topics
    BY SourceAssumption
  <2>2. \/ PairAt(p, o, i) \in received \cup InBuffer(TopicOf[p])
        \/ msg.part = p /\ msg.offset = o /\ i > msg.copied
    BY <1>1 DEF Delivery, Accounted
  <2>3. CASE PairAt(p, o, i) \in received \cup InBuffer(TopicOf[p])
    BY <2>1, <2>3, <1>6
  <2>4. CASE msg.part = p /\ msg.offset = o /\ i = msg.copied + 1
    BY Zenon, <2>4, <1>4, <1>5
  <2>5. CASE msg.part = p /\ msg.offset = o /\ i > msg.copied /\ i # msg.copied + 1
    <3>1. i \in Nat
      BY <2>5, <1>2
    <3> QED
      BY <2>5, <3>1, <1>2
  <2> QED
    BY Zenon, <2>2, <2>3, <2>4, <2>5
<1>12. OffsetsRead'
  <2>0. position' = position /\ pc' # "idle"
    BY <1>1
  <2> SUFFICES ASSUME NEW u \in Topics, NEW p \in Parts, buffers'[u].next_offsets[p] # 0
               PROVE  /\ TopicOf[p] = u /\ buffers'[u].next_offsets[p] <= position'[p]
                      /\ msg'.part = p => buffers'[u].next_offsets[p] <= msg'.offset
    BY Zenon, <2>0 DEF OffsetsRead
  <2>1. buffers'[u].next_offsets = buffers[u].next_offsets
    BY Zenon, <1>4
  <2>2. /\ TopicOf[p] = u /\ buffers[u].next_offsets[p] <= position[p]
        /\ msg.part = p => \/ buffers[u].next_offsets[p] <= msg.offset
                            \/ msg.copied = Log[p][msg.offset].pairs
    BY <2>1 DEF Delivery, OffsetsRead
  <2>3. msg.part = p => msg.copied # Log[p][msg.offset].pairs
    BY <1>1, <1>2
  <2> QED
    BY Zenon, <2>0, <2>1, <2>2, <2>3, <1>3
<1> QED
  BY <1>8, <1>9, <1>10, <1>11, <1>12 DEF Delivery

(* The message at hand is decoded: its offset is recorded, unless the      *)
(* thread leaves run().                                                    *)
LEMMA RecordOffsetStep == ASSUME Delivery, RecordOffset PROVE Delivery'
<1>1. /\ pc = "copy" /\ msg.copied = Log[msg.part][msg.offset].pairs
      /\ UNCHANGED <<broker, position, terminate, received, stops>>
  BY Zenon DEF RecordOffset, receiver
<1>2. terminate' \in BOOLEAN
  BY <1>1 DEF Delivery, TypeOK
<1>3. CASE terminate
  <2>1. Exit /\ stops' \in Nat /\ received' \subseteq Pair /\ received \subseteq received'
    BY <1>1, <1>3 DEF RecordOffset, Delivery, TypeOK
  <2> QED
    BY <2>1, <1>1, <1>2, ExitStep
<1>4. CASE ~terminate
  <2>1. /\ msg.part \in Parts /\ msg.offset \in Nat \ {0} /\ msg.copied \in Nat
        /\ msg.offset \in 1 .. position[msg.part] - 1
        /\ Log[msg.part][msg.offset].pairs \in Nat /\ TopicOf[msg.part] \in Topics
    BY <1>1, AtHand DEF Delivery, Message
  <2>2. PICK t \in Topics, m \in Parts, o \in Nat \ {0} :
          t = TopicOf[m] /\ m = msg.part /\ o = msg.offset /\ o + 1 <= position[m]
    BY <2>1 DEF Delivery, TypeOK
  <2>3. /\ todo' = todo
        /\ \/ pc' = "interval" /\ msg' = msg
           \/ pc' = "poll" /\ msg' = NoMsg
        /\ buffers' = [buffers EXCEPT ![t].next_offsets[m] = o + 1,
                                      ![t].msg_count = buffers[t].msg_count + 1]
    BY <1>4, <2>2 DEF RecordOffset
  <2>4. /\ buffers' \in [Topics -> Buffer]
        /\ \A u \in Topics : buffers'[u].pairs = buffers[u].pairs
        /\ \A u \in Topics \ {t} : buffers'[u].next_offsets = buffers[u].next_offsets
        /\ buffers'[t].next_offsets = [buffers[t].next_offsets EXCEPT ![m] = o + 1]
    <3>1. buffers \in [Topics -> Buffer] /\ buffers[t] \in Buffer
      BY DEF Delivery, TypeOK
    <3> DEFINE r == [buffers[t] EXCEPT !.next_offsets[m] = o + 1, !.msg_count = @ + 1]
    <3>2. buffers' = [buffers EXCEPT ![t] = r]
      BY Zenon, <2>3, <3>1
    <3>3. /\ r \in Buffer /\ r.pairs = buffers[t].pairs
          /\ r.next_offsets = [buffers[t].next_offsets EXCEPT ![m] = o + 1]
      <4>1. /\ buffers[t].next_offsets \in [Parts -> Nat] /\ buffers[t].msg_count \in Nat
            /\ o + 1 \in Nat
        BY <3>1, <2>2 DEF Buffer
      <4>2. PICK n \in [Parts -> Nat] : n = [buffers[t].next_offsets EXCEPT ![m] = o + 1]
        BY Zenon, <4>1
      <4>3. PICK c \in Nat : c = buffers[t].msg_count + 1
        BY <4>1
      <4>4. r = [buffers[t] EXCEPT !.next_offsets = n, !.msg_count = c]
        BY <4>2, <4>3, <3>1 DEF Buffer
      <4> HIDE DEF r
      <4> QED
        BY Zenon, <4>2, <4>4, <3>1 DEF Buffer
    <3> HIDE DEF r
    <3> QED
      BY <3>1, <3>2, <3>3
  <2>5. buffers[t].next_offsets \in [Parts -> Nat]
    BY Zenon DEF Delivery, TypeOK, Buffer
  <2>6. msg' \in [part : Parts \cup {"none"}, offset : Nat, copied : Nat]
    BY <2>3 DEF Delivery, TypeOK, NoMsg
  <2>7. TypeOK'
    BY Zenon, <1>1, <1>2, <2>3, <2>4, <2>6 DEF Delivery, TypeOK, broker
  <2>8. MessageAtHand'
    BY <1>1, <2>1, <2>3 DEF MessageAtHand
  <2>9. CommittedIsReceived'
    BY <1>1, SameCommitted DEF Delivery, broker
  <2>10. \A u \in Topics : InBuffer(u)' = InBuffer(u)
    BY <2>4 DEF InBuffer
  <2>11. Accounted'
    <3> SUFFICES ASSUME NEW p \in Parts, NEW n \in 1 .. position[p] - 1,
                        NEW i \in 1 .. Log[p][n].pairs
                 PROVE  PairAt(p, n, i) \in received \cup InBuffer(TopicOf[p])
      <4>1. \A p \in Parts : InBuffer(TopicOf[p])' = InBuffer(TopicOf[p])
        BY <2>10, SourceAssumption
      <4> QED
        BY Zenon, <1>1, <4>1 DEF Accounted, PairAt
    <3>1. \/ PairAt(p, n, i) \in received \cup InBuffer(TopicOf[p])
          \/ msg.part = p /\ msg.offset = n /\ i > msg.copied
      BY Zenon, <1>1 DEF Delivery, Accounted
    <3> QED
      BY <3>1, <1>1, <2>1
  <2>12. OffsetsRead'
    <3>0. position' = position /\ pc' # "idle"
      BY <1>1, <2>3
    <3> SUFFICES ASSUME NEW u \in Topics, NEW p \in Parts, buffers'[u].next_offsets[p] # 0
                 PROVE  /\ TopicOf[p] = u /\ buffers'[u].next_offsets[p] <= position'[p]
                        /\ msg'.part = p => msg'.copied = Log[p][msg'.offset].pairs
      BY <3>0 DEF OffsetsRead
    <3>1. msg'.part = p => msg'.copied = Log[p][msg'.offset].pairs
      BY <1>1, <2>3, SourceAssumption DEF NoMsg
    <3>2. CASE u = t /\ p = m
      BY Zenon, <3>0, <3>1, <3>2, <2>2, <2>4, <2>5
    <3>3. CASE ~(u = t /\ p = m)
      <4>1. buffers'[u].next_offsets[p] = buffers[u].next_offsets[p]
        BY <3>3, <2>4, <2>5
      <4> QED
        BY Zenon, <3>0, <3>1, <4>1 DEF Delivery, OffsetsRead
    <3> QED
      BY <3>2, <3>3
  <2> QED
    BY <2>7, <2>8, <2>9, <2>11, <2>12 DEF Delivery
<1> QED
  BY <1>3, <1>4

LEMMA NextDelivery == ASSUME Delivery, [Next]_vars PROVE Delivery'
<1>1. CASE Step
  BY <1>1, TerminatedStep, TimeoutStep, FlushDoneStep, ResizedStep, CopyPairStep,
     FullDeliveredStep, RecordOffsetStep, IntervalDoneStep, SkipStep, ReceiveStep,
     DeliverStep, DeliverFailsStep, FlushedStep, Zenon DEF Step
<1>2. CASE Stop \/ Crash \/ Engage \/ \E p \in Parts : Produce(p)
  BY <1>2, StopStep, CrashStep, EngageStep, ProduceStep, Zenon
<1>3. CASE UNCHANGED vars
  <2>1. /\ end' = end /\ committed' = committed /\ position' = position /\ pc' = pc
        /\ terminate' = terminate /\ buffers' = buffers /\ msg' = msg /\ todo' = todo
        /\ received' = received /\ stops' = stops
    BY <1>3 DEF vars, broker, receiver
  <2>2. TypeOK'
    BY <2>1, Zenon DEF Delivery, TypeOK
  <2>3. MessageAtHand' /\ CommittedIsReceived' /\ OffsetsRead'
    <3>1. MessageAtHand' = MessageAtHand
      BY <2>1, Zenon DEF MessageAtHand
    <3>2. CommittedIsReceived' = CommittedIsReceived
      BY <2>1, Zenon DEF CommittedIsReceived
    <3>3. OffsetsRead'
      BY <2>1, SameOffsets DEF Delivery
    <3> QED
      BY <3>1, <3>2, <3>3, Zenon DEF Delivery
  <2>4. \A t : InBuffer(t)' = InBuffer(t)
    BY <2>1, Zenon DEF InBuffer
  <2>5. Accounted'
    BY <2>1, <2>4, Zenon DEF Delivery, Accounted
  <2> QED
    BY <2>2, <2>3, <2>5 DEF Delivery
<1> QED
  BY <1>1, <1>2, <1>3 DEF Next

-------------------------------------------------------------------------------
(* The source never loses its place, for any topics, partitions, logs,     *)
(* batch sizes and commit intervals, and whatever the stops, crashes and   *)
(* failing callbacks: the message at hand, the buffers and the recorded    *)
(* offsets account for every polled pair.                                  *)
THEOREM DeliveryHolds == Spec => []Delivery
  BY InitDelivery, NextDelivery, PTL DEF Spec

(* At least once: every pair of a message that run has committed was       *)
(* applied by the callback.                                                *)
THEOREM CommittedIsReceivedHolds == Spec => []CommittedIsReceived
<1>1. Delivery => CommittedIsReceived
  BY DEF Delivery
<1> QED
  BY <1>1, DeliveryHolds, PTL
===============================================================================
