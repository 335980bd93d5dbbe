-------------------------- MODULE KafkaMessageSource --------------------------
(***************************************************************************)
(* KafkaMessageSource (src/hps/kafka_message.cpp): the thread that reads   *)
(* parameter updates from Kafka, hands them over to a callback in batches  *)
(* and commits the offsets of what it has handed over.                     *)
(*                                                                         *)
(* A topic partition is a fixed log of which more and more becomes         *)
(* visible.  A message is [pairs |-> n, value_size |-> s]; one without     *)
(* pairs stands for all that run() skips: tombstones, unexpected or        *)
(* foreign messages and beacons.  A pair is identified by its place.       *)
(* Offsets count from 1.                                                   *)
(***************************************************************************)
EXTENDS Naturals, Sequences, FiniteSets

CONSTANTS Topics, Parts,       \* topics, and the partitions of all topics
          TopicOf,             \* Parts -> Topics
          Log,                 \* Parts -> sequence of messages
          max_batch_size, max_commit_interval,
          MaxStops             \* bound on stops and crashes

(* The vector of a pair has at least one byte. *)
Message == [pairs : Nat, value_size : Nat \ {0}]

ASSUME SourceAssumption ==
  /\ "none" \notin Parts
  /\ TopicOf \in [Parts -> Topics]
  /\ Log \in [Parts -> Seq(Message)]
  /\ max_batch_size \in Nat \ {0}
  /\ max_commit_interval \in Nat \ {0}

Pair == [part : Parts, offset : Nat \ {0}, index : Nat \ {0}]
PairAt(p, o, i) == [part |-> p, offset |-> o, index |-> i]
ValueSize(q) == Log[q.part][q.offset].value_size

VARIABLES end,        \* part -> offset of the last visible message (broker)
          committed,  \* part -> the group's committed offset (broker)
          position,   \* part -> offset of the next message to poll
          pc,         \* where the thread is; "idle" if there is none
          terminate,  \* terminate_
          buffers,    \* topic -> its KafkaReceiveBuffer
          msg,        \* part and offset of the message, and pairs copied
          todo,       \* topics the timeout loop has still to visit
          received,   \* pairs that the callback has applied so far
          applied,    \* part -> the pair of it that was applied last
          stops       \* stops and crashes so far

broker == <<end, committed>>
receiver == <<received, applied>>
vars == <<broker, position, pc, terminate, buffers, msg, todo, receiver, stops>>

NoMsg == [part |-> "none", offset |-> 0, copied |-> 0]
NoPair == PairAt("none", 0, 0)

(* try_emplace creates the buffer; value_size 0 says that there is none.   *)
(* A next offset of 0 says that none is recorded for the partition.        *)
NoOffsets == [p \in Parts |-> 0]
NoBuffer == [value_size |-> 0, pairs |-> <<>>, msg_count |-> 0, next_offsets |-> NoOffsets]

Init ==
  /\ end = [p \in Parts |-> 0]
  /\ committed = [p \in Parts |-> 1]
  /\ position = [p \in Parts |-> 1]
  /\ pc = "idle"
  /\ terminate = FALSE
  /\ buffers = [t \in Topics |-> NoBuffer]
  /\ msg = NoMsg
  /\ todo = {}
  /\ received = {}
  /\ applied = [p \in Parts |-> NoPair]
  /\ stops = 0

-------------------------------------------------------------------------------
(* The surroundings: producers, the owner of the source, and failures.     *)

Produce(p) ==
  /\ end[p] < Len(Log[p])
  /\ end' = [end EXCEPT ![p] = @ + 1]
  /\ UNCHANGED <<committed, position, pc, terminate, buffers, msg, todo, receiver, stops>>

(* engage and the destructor ask the running thread to stop. *)
Stop ==
  /\ pc # "idle" /\ ~terminate
  /\ stops < MaxStops
  /\ terminate' = TRUE
  /\ stops' = stops + 1
  /\ UNCHANGED <<broker, position, pc, buffers, msg, todo, receiver>>

(* The thread is gone, and its buffers with it. *)
Exit ==
  /\ pc' = "idle"
  /\ buffers' = [t \in Topics |-> NoBuffer]
  /\ msg' = NoMsg
  /\ todo' = {}

(* The process dies, also because a failed commit throws in the thread.    *)
Crash ==
  /\ pc # "idle"
  /\ stops < MaxStops
  /\ stops' = stops + 1
  /\ terminate' = FALSE
  /\ Exit
  /\ UNCHANGED <<broker, position, receiver>>

(* engage starts a thread that subscribes anew: reading resumes at the     *)
(* committed offsets.                                                      *)
EngageMutant ==
  /\ pc = "idle"
  /\ terminate' = FALSE
  /\ pc' = "poll"
  /\ position' = [p \in Parts |-> 1]
  /\ UNCHANGED <<broker, buffers, msg, todo, receiver, stops>>

Engage ==
  /\ pc = "idle"
  /\ terminate' = FALSE
  /\ pc' = "poll"
  /\ position' = committed
  /\ UNCHANGED <<broker, buffers, msg, todo, receiver, stops>>

-------------------------------------------------------------------------------
(* run *)

Commit(t) ==
  LET offsets == buffers[t].next_offsets
  IN  committed' = [p \in Parts |-> IF offsets[p] # 0 THEN offsets[p] ELSE committed[p]]

Committed(buf) == [buf EXCEPT !.next_offsets = NoOffsets, !.msg_count = 0]

Terminated ==
  /\ pc = "poll" /\ terminate
  /\ Exit
  /\ UNCHANGED <<broker, position, terminate, receiver, stops>>

(* Nothing came within the timeout, or the end of a partition was met.     *)
Timeout ==
  /\ pc = "poll" /\ ~terminate
  /\ pc' = "flush"
  /\ todo' = {t \in Topics : buffers[t].value_size # 0}
  /\ UNCHANGED <<broker, position, terminate, buffers, msg, receiver, stops>>

(* An event or error, a tombstone, a malformed message or a beacon: the    *)
(* position moves on, but no offset is recorded.                           *)
Skip(p) ==
  /\ pc = "poll" /\ ~terminate
  /\ position[p] <= end[p]
  /\ Log[p][position[p]].pairs = 0
  /\ position' = [position EXCEPT ![p] = @ + 1]
  /\ UNCHANGED <<broker, pc, terminate, buffers, msg, todo, receiver, stops>>

Receive(p) ==
  /\ pc = "poll" /\ ~terminate
  /\ position[p] <= end[p]
  /\ LET m == Log[p][position[p]]
         t == TopicOf[p]
     IN  /\ m.pairs > 0
         /\ buffers' = [buffers EXCEPT ![t].value_size = IF @ = 0 THEN m.value_size ELSE @]
         /\ pc' = IF buffers'[t].value_size # m.value_size THEN "resize" ELSE "copy"
  /\ msg' = [part |-> p, offset |-> position[p], copied |-> 0]
  /\ position' = [position EXCEPT ![p] = @ + 1]
  /\ UNCHANGED <<broker, terminate, todo, receiver, stops>>

(* The topic whose buffer the thread wants to hand over. *)
Delivering == IF pc = "flush" THEN todo
              ELSE IF pc \in {"resize", "full", "interval"} THEN {TopicOf[msg.part]} ELSE {}

(* The callback applies the pairs of a buffer one after the other. *)
Apply(t) ==
  LET pairs == buffers[t].pairs
  IN  /\ received' = received \cup {pairs[i] : i \in DOMAIN pairs}
      /\ \E last \in [Parts -> 0 .. Len(pairs)] :
           /\ \A p \in Parts : /\ last[p] # 0 => pairs[last[p]].part = p
                               /\ \A i \in last[p] + 1 .. Len(pairs) : pairs[i].part # p
           /\ applied' = [p \in Parts |-> IF last[p] = 0 THEN applied[p] ELSE pairs[last[p]]]

(* deliver, when the callback returns true. *)
DeliverMutant(t) ==
  /\ t \in Delivering /\ buffers[t].pairs # <<>>
  /\ Apply(t)
  /\ UNCHANGED <<broker, position, pc, terminate, buffers, msg, todo, stops>>

Deliver(t) ==
  /\ t \in Delivering /\ buffers[t].pairs # <<>>
  /\ Apply(t)
  /\ buffers' = [buffers EXCEPT ![t].pairs = <<>>]
  /\ UNCHANGED <<broker, position, pc, terminate, msg, todo, stops>>

(* The callback returns false, whether or not it has applied the pairs:    *)
(* deliver tries again until the source is terminated.                     *)
DeliverFailsMutant(t) ==
  /\ t \in Delivering /\ buffers[t].pairs # <<>>
  /\ UNCHANGED receiver
  /\ IF terminate THEN Exit
     ELSE buffers' = [buffers EXCEPT ![t].pairs = <<>>] /\ UNCHANGED <<pc, msg, todo>>
  /\ UNCHANGED <<broker, position, terminate, stops>>

DeliverFails(t) ==
  /\ t \in Delivering /\ buffers[t].pairs # <<>>
  /\ Apply(t) \/ UNCHANGED receiver
  /\ IF terminate THEN Exit ELSE UNCHANGED <<pc, buffers, msg, todo>>
  /\ UNCHANGED <<broker, position, terminate, stops>>

(* deliver has returned true in the timeout loop. *)
Flushed(t) ==
  /\ pc = "flush" /\ t \in todo
  /\ buffers[t].pairs = <<>>
  /\ Commit(t)
  /\ buffers' = [buffers EXCEPT ![t] = Committed(@)]
  /\ todo' = todo \ {t}
  /\ UNCHANGED <<end, position, pc, terminate, msg, receiver, stops>>

FlushDone ==
  /\ pc = "flush" /\ todo = {}
  /\ pc' = "poll"
  /\ UNCHANGED <<broker, position, terminate, buffers, msg, todo, receiver, stops>>

(* The value size has changed: the old pairs are handed over first. *)
Resized ==
  /\ pc = "resize"
  /\ LET t == TopicOf[msg.part]
     IN  /\ buffers[t].pairs = <<>>
         /\ Commit(t)
         /\ buffers' = [buffers EXCEPT ![t] =
              [Committed(@) EXCEPT !.value_size = Log[msg.part][msg.offset].value_size]]
  /\ pc' = "copy"
  /\ UNCHANGED <<end, position, terminate, msg, todo, receiver, stops>>

CopyPair ==
  /\ pc = "copy"
  /\ msg.copied < Log[msg.part][msg.offset].pairs
  /\ LET t == TopicOf[msg.part]
         q == PairAt(msg.part, msg.offset, msg.copied + 1)
     IN  /\ buffers' = [buffers EXCEPT ![t].pairs = Append(@, q)]
         /\ pc' = IF Len(buffers'[t].pairs) >= max_batch_size THEN "full" ELSE "copy"
  /\ msg' = [msg EXCEPT !.copied = @ + 1]
  /\ UNCHANGED <<broker, position, terminate, todo, receiver, stops>>

(* The full buffer has been delivered, in the middle of a message or not.  *)
FullDelivered ==
  /\ pc = "full" /\ buffers[TopicOf[msg.part]].pairs = <<>>
  /\ pc' = "copy"
  /\ UNCHANGED <<broker, position, terminate, buffers, msg, todo, receiver, stops>>

(* The end of the message.  If the source has been terminated meanwhile,   *)
(* the offset is not recorded.                                             *)
RecordOffset ==
  /\ pc = "copy" /\ msg.copied = Log[msg.part][msg.offset].pairs
  /\ IF terminate THEN Exit
     ELSE LET t == TopicOf[msg.part]
              count == buffers[t].msg_count + 1
          IN  /\ buffers' = [buffers EXCEPT
                   ![t].next_offsets[msg.part] = msg.offset + 1,
                   ![t].msg_count = count]
              /\ IF count > max_commit_interval
                 THEN pc' = "interval" /\ UNCHANGED msg
                 ELSE pc' = "poll" /\ msg' = NoMsg
              /\ UNCHANGED todo
  /\ UNCHANGED <<broker, position, terminate, receiver, stops>>

IntervalDoneMutant ==
  /\ pc = "interval"
  /\ LET t == TopicOf[msg.part]
     IN  /\ Commit(t)
         /\ buffers' = [buffers EXCEPT ![t] = Committed(@)]
  /\ pc' = "poll"
  /\ msg' = NoMsg
  /\ UNCHANGED <<end, position, terminate, todo, receiver, stops>>

IntervalDone ==
  /\ pc = "interval"
  /\ LET t == TopicOf[msg.part]
     IN  /\ buffers[t].pairs = <<>>
         /\ Commit(t)
         /\ buffers' = [buffers EXCEPT ![t] = Committed(@)]
  /\ pc' = "poll"
  /\ msg' = NoMsg
  /\ UNCHANGED <<end, position, terminate, todo, receiver, stops>>

Step == \/ Terminated \/ Timeout \/ FlushDone \/ Resized \/ CopyPair
        \/ FullDelivered \/ RecordOffset \/ IntervalDone
        \/ \E p \in Parts : Skip(p) \/ Receive(p)
        \/ \E t \in Topics : Deliver(t) \/ DeliverFails(t) \/ Flushed(t)

Next == \/ Step \/ Stop \/ Crash \/ Engage
        \/ \E p \in Parts : Produce(p)

Spec == Init /\ [][Next]_vars

(* The thread runs, a stopped server is started again, the callback is not *)
(* false for ever, and the broker hands out what is visible.               *)
FairSpec == /\ Spec
            /\ WF_vars(Step) /\ WF_vars(Engage)
            /\ \A t \in Topics : WF_vars(Deliver(t))
            /\ \A p \in Parts : SF_vars(Skip(p) \/ Receive(p))

-------------------------------------------------------------------------------
Buffer == [value_size : Nat, pairs : Seq(Pair), msg_count : Nat,
           next_offsets : [Parts -> Nat]]

TypeOK ==
  /\ end \in [Parts -> Nat]
  /\ committed \in [Parts -> Nat \ {0}]
  /\ position \in [Parts -> Nat \ {0}]
  /\ \A p \in Parts : /\ end[p] <= Len(Log[p])
                      /\ committed[p] <= Len(Log[p]) + 1
                      /\ position[p] <= Len(Log[p]) + 1
  /\ pc \in {"idle", "poll", "flush", "resize", "copy", "full", "interval"}
  /\ terminate \in BOOLEAN
  /\ buffers \in [Topics -> Buffer]
  /\ msg \in [part : Parts \cup {"none"}, offset : Nat, copied : Nat]
  /\ todo \subseteq Topics
  /\ received \subseteq Pair
  /\ stops \in Nat

InBuffer(t) == {buffers[t].pairs[i] : i \in DOMAIN buffers[t].pairs}

(* At least once: a message whose offset is committed will not be read     *)
(* again, so the callback has applied all of its pairs.                    *)
CommittedIsReceived ==
  \A p \in Parts : \A o \in 1 .. committed[p] - 1 : \A i \in 1 .. Log[p][o].pairs :
    PairAt(p, o, i) \in received

(* What makes that inductive.  Every pair of a polled message has been     *)
(* applied, waits in the buffer of its topic, or is not yet copied from    *)
(* the message at hand.                                                    *)
Accounted ==
  pc # "idle" =>
    \A p \in Parts : \A o \in 1 .. position[p] - 1 : \A i \in 1 .. Log[p][o].pairs :
      \/ PairAt(p, o, i) \in received \cup InBuffer(TopicOf[p])
      \/ msg.part = p /\ msg.offset = o /\ i > msg.copied

(* Between loop heads the thread has a message at hand that it has polled, *)
(* and all of it is copied when the interval is over.                      *)
MessageAtHand ==
  IF pc \in {"resize", "copy", "full", "interval"}
  THEN /\ msg.part \in Parts
       /\ msg.offset \in 1 .. position[msg.part] - 1
       /\ msg.copied <= Log[msg.part][msg.offset].pairs
       /\ pc = "interval" => msg.copied = Log[msg.part][msg.offset].pairs
  ELSE msg = NoMsg

(* A recorded offset lies behind what was polled, and not behind a message *)
(* that is still being copied.                                             *)
OffsetsRead ==
  \A t \in Topics, p \in Parts : buffers[t].next_offsets[p] # 0 =>
    /\ pc # "idle"
    /\ TopicOf[p] = t
    /\ buffers[t].next_offsets[p] <= position[p]
    /\ msg.part = p => \/ buffers[t].next_offsets[p] <= msg.offset
                       \/ msg.copied = Log[p][msg.offset].pairs

(* run never commits an offset before the pairs below it were applied, and *)
(* knows where every polled pair is.                                       *)
Delivery == TypeOK /\ MessageAtHand /\ CommittedIsReceived /\ Accounted /\ OffsetsRead

Before(q, r) == q.offset < r.offset \/ (q.offset = r.offset /\ q.index < r.index)

NoGap ==
  \A q \in received : \A o \in 1 .. q.offset : \A i \in 1 .. Log[q.part][o].pairs :
    Before(PairAt(q.part, o, i), q) => PairAt(q.part, o, i) \in received

OneValueSize == \A t \in Topics : \A q \in InBuffer(t) : ValueSize(q) = buffers[t].value_size

(* No gap: the callback has seen a pair only if it has seen all that come  *)
(* before it in the same partition, whatever stops and crashes there were. *)
(* It gets pairs of one value size, the one it is told.                    *)
ReceivedInOrder == NoGap /\ OneValueSize

(* After a restart old pairs are applied again.  The receiver is never set *)
(* back to before the committed offset.                                    *)
StaleBounded ==
  \A p \in Parts : \A o \in 1 .. committed[p] - 1 : \A i \in 1 .. Log[p][o].pairs :
    ~Before(applied[p], PairAt(p, o, i))

(* A place in a partition, or none: the pair applied last. *)
Place == [part : Parts \cup {"none"}, offset : Nat, index : Nat]

(* Reading resumed at or behind the committed offset.  The message at hand *)
(* was polled last in its partition, and is not committed while pairs of   *)
(* it are to be copied, into a buffer of its value size.                   *)
Reading ==
  /\ applied \in [Parts -> Place]
  /\ IF pc = "idle" THEN \A t \in Topics : buffers[t].pairs = <<>> /\ buffers[t].value_size = 0
                    ELSE \A p \in Parts : committed[p] <= position[p]
  /\ \A t \in Topics : buffers[t].value_size = 0 => buffers[t].pairs = <<>>
  /\ pc \in {"resize", "copy", "full", "interval"} => position[msg.part] = msg.offset + 1
  /\ pc \in {"resize", "copy", "full"} => committed[msg.part] <= msg.offset
  /\ pc = "resize" => msg.copied = 0 /\ Log[msg.part][msg.offset].pairs > 0
  /\ pc \in {"copy", "full"} =>
       buffers[TopicOf[msg.part]].value_size = Log[msg.part][msg.offset].value_size

(* A buffer holds copied pairs of its topic's partitions that are not      *)
(* committed, those of one partition in the order of the log.              *)
BufferInOrder(t) ==
  LET pairs == buffers[t].pairs
  IN  \A k \in DOMAIN pairs :
        /\ TopicOf[pairs[k].part] = t
        /\ committed[pairs[k].part] <= pairs[k].offset
        /\ pairs[k].offset < position[pairs[k].part]
        /\ msg.part = pairs[k].part =>
             \/ pairs[k].offset < msg.offset
             \/ pairs[k].offset = msg.offset /\ pairs[k].index <= msg.copied
        /\ \A j \in 1 .. k - 1 : pairs[j].part = pairs[k].part => Before(pairs[j], pairs[k])

(* A polled pair is not yet copied, waits in its buffer, or comes before   *)
(* all that wait there and not behind the pair that was applied last.      *)
Settled(p, o, i) ==
  \/ msg.part = p /\ msg.offset = o /\ i > msg.copied
  \/ PairAt(p, o, i) \in InBuffer(TopicOf[p])
  \/ /\ ~Before(applied[p], PairAt(p, o, i))
     /\ \A q \in InBuffer(TopicOf[p]) : q.part = p => Before(PairAt(p, o, i), q)

AppliedBelow ==
  pc # "idle" =>
    \A p \in Parts : \A o \in 1 .. position[p] - 1 : \A i \in 1 .. Log[p][o].pairs : Settled(p, o, i)

(* The order in which pairs reach the callback.  The first line is what    *)
(* makes the second one inductive.                                         *)
Order == /\ Reading /\ (\A t \in Topics : BufferInOrder(t)) /\ AppliedBelow
         /\ ReceivedInOrder /\ StaleBounded

(* The inductive invariant: nothing is lost, and nothing out of order.     *)
IInv == Delivery /\ Order

LastApplied(p) ==
  \A o \in 1 .. end[p] : \A i \in 1 .. Log[p][o].pairs :
    ~Before(applied[p], PairAt(p, o, i)) /\ o < committed[p]

(* In the end the receiver has applied the last visible pair of every      *)
(* partition last, and no message with pairs is left uncommitted.          *)
Converges == \A p \in Parts : <>[]LastApplied(p)
===============================================================================
