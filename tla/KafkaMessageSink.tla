--------------------------- MODULE KafkaMessageSink ---------------------------
(***************************************************************************)
(* KafkaMessageSink (src/hps/kafka_message.cpp): one thread posts          *)
(* key/value pairs to a topic, through send buffers that librdkafka reads  *)
(* in place; the event handler thread returns a buffer to the pool when    *)
(* the delivery of its message is reported.                                *)
(*                                                                         *)
(* librdkafka and the broker are external: an idempotent producer keeps    *)
(* the order of a partition and sends no message twice, but may give up a  *)
(* message.  A pair is identified by its post and its place in the post.   *)
(***************************************************************************)
EXTENDS Naturals, Sequences, FiniteSets

CONSTANTS Keys, Posts,        \* Posts: the key sequences that are posted
          num_partitions, Hash,
          Buffers, NoBuffer,  \* the num_send_buffers send buffers
          Capacity,           \* pairs that fit into a send buffer
          SpuriousWakeups,    \* does a condition variable wake up by itself?
          MaxPosts, MaxFailures

ASSUME SinkAssumption ==
  /\ Posts \subseteq Seq(Keys)
  /\ num_partitions \in Nat \ {0}
  /\ Hash \in [Keys -> Nat]
  /\ IsFiniteSet(Buffers) /\ NoBuffer \notin Buffers
  /\ Capacity \in Nat \ {0}
  /\ SpuriousWakeups \in BOOLEAN

Parts == 0 .. num_partitions - 1
PartOf(key) == Hash[key] % num_partitions

VARIABLES pc,           \* the posting thread
          keys, k,      \* argument of post, and the position in it
          part_index, payload,
          signalled,    \* a notification has reached the waiting thread
          send_buffers, \* the pool
          memory,       \* buffer -> the pairs in it
          outq,         \* part -> buffers of the messages to transmit
          reports,      \* delivery reports that have not been served
          event_pc,     \* the event handler thread
          log,          \* part -> the pairs in the broker's log
          lost,         \* pairs of messages that were given up
          posted,       \* part -> the pairs that were posted
          num_posts,
          failed        \* buffers whose message failed

poster == <<pc, keys, k, part_index, payload, signalled>>
pool == <<send_buffers, memory>>
kafka == <<outq, reports, event_pc, log>>
history == <<lost, posted, num_posts, failed>>
vars == <<poster, pool, kafka, history>>

Init ==
  /\ pc = "ready" /\ keys = <<>> /\ k = 1 /\ part_index = 0
  /\ payload = NoBuffer
  /\ signalled = FALSE
  /\ send_buffers = Buffers
  /\ memory = [b \in Buffers |-> <<>>]
  /\ outq = [p \in Parts |-> <<>>]
  /\ reports = <<>>
  /\ event_pc = "poll"
  /\ log = [p \in Parts |-> <<>>]
  /\ lost = {}
  /\ posted = [p \in Parts |-> {}]
  /\ num_posts = 0 /\ failed = {}

-------------------------------------------------------------------------------
(* post *)

PairsOf(ks, p, n) == {<<n, i>> : i \in {i \in DOMAIN ks : PartOf(ks[i]) = p}}

(* Without any pairs it sends a beacon, which takes a buffer too. *)
Post(ks) ==
  /\ pc = "ready"
  /\ num_posts < MaxPosts
  /\ pc' = IF ks = <<>> THEN "acquire" ELSE "scan"
  /\ keys' = ks /\ k' = 1 /\ part_index' = 0
  /\ num_posts' = num_posts + 1
  /\ posted' = [p \in Parts |-> posted[p] \cup PairsOf(ks, p, num_posts + 1)]
  /\ UNCHANGED <<payload, signalled, pool, kafka, lost, failed>>

(* The remaining keys of the partition, and the next of them. *)
Remaining == {i \in k .. Len(keys) : PartOf(keys[i]) = part_index}
Upcoming == {i \in Remaining : \A j \in Remaining : i <= j}

NeedBuffer ==
  /\ pc = "scan" /\ payload = NoBuffer /\ Remaining # {}
  /\ pc' = "acquire"
  /\ UNCHANGED <<keys, k, part_index, payload, signalled, pool, kafka, history>>

AppendPair ==
  /\ pc = "scan" /\ payload # NoBuffer
  /\ Len(memory[payload]) < Capacity
  /\ \E i \in Upcoming :
       /\ memory' = [memory EXCEPT ![payload] = Append(@, <<num_posts, i>>)]
       /\ k' = i + 1
  /\ UNCHANGED <<pc, keys, part_index, payload, signalled, send_buffers, kafka, history>>

MustProduce == payload # NoBuffer /\ (Remaining = {} \/ Len(memory[payload]) = Capacity)

(* blocking_produce; while the queue is full it just tries again. *)
ProduceMutant ==
  /\ pc = "scan" /\ MustProduce
  /\ outq' = [outq EXCEPT ![part_index] = Append(@, payload)]
  /\ send_buffers' = send_buffers \cup {payload}
  /\ payload' = NoBuffer
  /\ UNCHANGED <<pc, keys, k, part_index, signalled, memory, reports, event_pc, log, history>>

Produce ==
  /\ pc = "scan" /\ MustProduce
  /\ outq' = [outq EXCEPT ![part_index] = Append(@, payload)]
  /\ payload' = NoBuffer
  /\ UNCHANGED <<pc, keys, k, part_index, signalled, pool, reports, event_pc, log, history>>

(* The elements of a sequence. *)
Values(s) == {s[i] : i \in DOMAIN s}

(* Any other error is thrown: the buffer is not returned, and the rest of  *)
(* the post is not sent; the caller knows that it is not posted.           *)
Queue(p) == UNION {Values(memory[b]) : b \in Values(outq[p])}
Unsent == {<<num_posts, i>> : i \in DOMAIN keys}
          \ (lost \cup UNION {Values(log[p]) \cup Queue(p) : p \in Parts})

ProduceThrows ==
  /\ pc = "scan" /\ MustProduce
  /\ Cardinality(failed) < MaxFailures
  /\ failed' = failed \cup {payload}
  /\ posted' = [p \in Parts |-> posted[p] \ Unsent]
  /\ payload' = NoBuffer
  /\ pc' = "ready"
  /\ UNCHANGED <<keys, k, part_index, signalled, pool, kafka, lost, num_posts>>

NextPartMutant ==
  /\ pc = "scan" /\ payload = NoBuffer /\ Remaining = {}
  /\ IF part_index + 1 < num_partitions
     THEN part_index' = part_index + 1 /\ UNCHANGED pc
     ELSE pc' = "ready" /\ UNCHANGED part_index
  /\ UNCHANGED <<keys, k, payload, signalled, pool, kafka, history>>

NextPart ==
  /\ pc = "scan" /\ payload = NoBuffer /\ Remaining = {}
  /\ k' = 1
  /\ IF part_index + 1 < num_partitions
     THEN part_index' = part_index + 1 /\ UNCHANGED pc
     ELSE pc' = "ready" /\ UNCHANGED part_index
  /\ UNCHANGED <<keys, payload, signalled, pool, kafka, history>>

-------------------------------------------------------------------------------
(* acquire_send_buffer: the thread waits at most once.  back() of an empty *)
(* vector is undefined: the posting thread is then lost.                   *)

TakeBufferMutant ==
  \/ \E b \in send_buffers :
       /\ send_buffers' = send_buffers \ {b}
       /\ payload' = b
       /\ pc' = "scan"
       /\ UNCHANGED memory
  \/ /\ send_buffers = {}
     /\ pc' = "undefined"
     /\ UNCHANGED <<pool, payload>>

TakeBuffer ==
  \/ \E b \in send_buffers :
       /\ send_buffers' = send_buffers \ {b}
       /\ memory' = [memory EXCEPT ![b] = <<>>]
       /\ payload' = b
       /\ pc' = "scan"
  \/ /\ send_buffers = {}
     /\ pc' = "undefined"
     /\ UNCHANGED <<pool, payload>>

Acquire ==
  /\ pc = "acquire" /\ send_buffers # {}
  /\ TakeBuffer
  /\ UNCHANGED <<keys, k, part_index, signalled, kafka, history>>

AcquireWait ==
  /\ pc = "acquire" /\ send_buffers = {}
  /\ pc' = "wait"
  /\ signalled' = FALSE
  /\ UNCHANGED <<keys, k, part_index, payload, pool, kafka, history>>

SpuriousWake ==
  /\ pc = "wait" /\ SpuriousWakeups
  /\ TakeBuffer
  /\ signalled' = FALSE
  /\ UNCHANGED <<keys, k, part_index, kafka, history>>

Wake ==
  /\ pc = "wait" /\ signalled
  /\ TakeBuffer
  /\ signalled' = FALSE
  /\ UNCHANGED <<keys, k, part_index, kafka, history>>

-------------------------------------------------------------------------------
(* flush, and the destructor, wait until nothing is outstanding. *)

Outstanding == reports # <<>> \/ \E p \in Parts : outq[p] # <<>>

Flush ==
  /\ pc = "ready"
  /\ pc' = "flush"
  /\ UNCHANGED <<keys, k, part_index, payload, signalled, pool, kafka, history>>

FlushReturns ==
  /\ pc = "flush" /\ ~Outstanding
  /\ pc' \in {"ready", "destroyed"}
  /\ UNCHANGED <<keys, k, part_index, payload, signalled, pool, kafka, history>>

-------------------------------------------------------------------------------
(* librdkafka and the broker *)

Transmit(p) ==
  /\ outq[p] # <<>>
  /\ outq' = [outq EXCEPT ![p] = Tail(@)]
  /\ log' = [log EXCEPT ![p] = @ \o memory[Head(outq[p])]]
  /\ reports' = Append(reports, [buffer |-> Head(outq[p]), err |-> FALSE])
  /\ UNCHANGED <<poster, pool, event_pc, history>>

(* A message that is given up may have reached the log all the same.       *)
GiveUp(p) ==
  /\ outq[p] # <<>>
  /\ Cardinality(failed) < MaxFailures
  /\ failed' = failed \cup {Head(outq[p])}
  /\ outq' = [outq EXCEPT ![p] = Tail(@)]
  /\ lost' = lost \cup Values(memory[Head(outq[p])])
  /\ log' \in {log, [log EXCEPT ![p] = @ \o memory[Head(outq[p])]]}
  /\ reports' = Append(reports, [buffer |-> Head(outq[p]), err |-> TRUE])
  /\ UNCHANGED <<poster, pool, event_pc, posted, num_posts>>

(* on_delivered: the buffer goes back to the pool, except after an error.  *)
OnDelivered ==
  /\ event_pc = "poll" /\ reports # <<>>
  /\ reports' = Tail(reports)
  /\ IF Head(reports).err THEN UNCHANGED <<send_buffers, event_pc>>
     ELSE /\ send_buffers' = send_buffers \cup {Head(reports).buffer}
          /\ event_pc' = "notify"
  /\ UNCHANGED <<poster, memory, outq, log, history>>

NotifyMutant ==
  /\ event_pc = "notify"
  /\ event_pc' = "poll"
  /\ UNCHANGED <<poster, pool, outq, reports, log, history>>

(* ... and then, without the lock, the waiting thread is notified.         *)
Notify ==
  /\ event_pc = "notify"
  /\ event_pc' = "poll"
  /\ signalled' = (signalled \/ pc = "wait")
  /\ UNCHANGED <<pc, keys, k, part_index, payload, pool, outq, reports, log, history>>

PosterStep == \/ NeedBuffer \/ AppendPair \/ Produce \/ ProduceThrows \/ NextPart
              \/ Acquire \/ AcquireWait \/ Wake \/ FlushReturns
EventStep == OnDelivered \/ Notify

Next == \/ \E ks \in Posts : Post(ks)
        \/ PosterStep \/ EventStep \/ Flush \/ SpuriousWake
        \/ \E p \in Parts : Transmit(p) \/ GiveUp(p)

Spec == Init /\ [][Next]_vars

(* Both threads run, and the broker gets every message or gives it up.     *)
FairSpec == /\ Spec
            /\ WF_vars(PosterStep) /\ WF_vars(EventStep)
            /\ \A p \in Parts : WF_vars(Transmit(p))

-------------------------------------------------------------------------------
TypeOK ==
  /\ pc \in {"ready", "scan", "acquire", "wait", "flush", "destroyed", "undefined"}
  /\ keys \in Seq(Keys) /\ k \in Nat \ {0} /\ num_posts \in Nat
  /\ payload \in Buffers \cup {NoBuffer}
  /\ memory \in [Buffers -> Seq(Nat \X Nat)]
  /\ send_buffers \subseteq Buffers
  /\ part_index \in Parts
  /\ event_pc \in {"poll", "notify"}
  /\ outq \in [Parts -> Seq(Buffers)]
  /\ reports \in Seq([buffer : Buffers, err : BOOLEAN])
  /\ failed \subseteq Buffers
  /\ log \in [Parts -> Seq(Nat \X Nat)]
  /\ posted \in [Parts -> SUBSET (Nat \X Nat)]

(* The buffers of messages to transmit, and of those to report. *)
Queued(b) == \E p \in Parts : \E i \in DOMAIN outq[p] : outq[p][i] = b
Reported(b) == \E i \in DOMAIN reports : reports[i].buffer = b

(* librdkafka reads a buffer in place: one that is being filled or waits   *)
(* for its report is in no other place, and above all not in the pool.     *)
BuffersExclusive ==
  /\ payload \notin send_buffers
  /\ \A b \in send_buffers \cup {payload} : ~Queued(b) /\ ~Reported(b)
  /\ \A b \in Buffers : ~(Queued(b) /\ Reported(b))
  /\ \A p, q \in Parts : \A i \in DOMAIN outq[p], j \in DOMAIN outq[q] :
       outq[p][i] = outq[q][j] => p = q /\ i = j
  /\ \A i, j \in DOMAIN reports : reports[i].buffer = reports[j].buffer => i = j

(* A buffer that no one will return to the pool. *)
Gone(b) ==
  /\ b \notin send_buffers \cup {payload}
  /\ ~Queued(b)
  /\ \A i \in DOMAIN reports : reports[i].buffer = b => reports[i].err

(* Only a failed message takes a buffer away from the sink; the posting    *)
(* thread leaves none behind when it is done with a message.               *)
BuffersNotLost ==
  /\ \A b \in Buffers : Gone(b) => b \in failed
  /\ pc # "scan" => payload = NoBuffer

(* post never writes to a buffer whose message is still under way, and a   *)
(* buffer comes back unless its message failed.                            *)
Ownership == TypeOK /\ BuffersExclusive /\ BuffersNotLost

Earlier(q, r) == q[1] < r[1] \/ (q[1] = r[1] /\ q[2] < r[2])
AllEarlier(S, T) == \A q \in S, r \in T : Earlier(q, r)
InOrder(s) == \A j \in DOMAIN s : \A i \in 1 .. j - 1 : Earlier(s[i], s[j])

(* The pairs in the payload of a partition, and all that post took so far. *)
Filling(p) == IF payload # NoBuffer /\ part_index = p THEN Values(memory[payload]) ELSE {}
Taken(p) == Values(log[p]) \cup Queue(p) \cup Filling(p)

(* The pairs of an unfinished post that are not yet taken. *)
Posting == pc \in {"scan", "acquire", "wait", "undefined"}
ToTake(p) == {q \in PairsOf(keys, p, num_posts) :
                Posting /\ (part_index < p \/ (part_index = p /\ k <= q[2]))}

(* From the log over the queue to the payload the pairs get later.         *)
PipelineInOrder(p) ==
  /\ InOrder(log[p])
  /\ \A j \in DOMAIN outq[p] : \A i \in 1 .. j - 1 :
       AllEarlier(Values(memory[outq[p][i]]), Values(memory[outq[p][j]]))
  /\ AllEarlier(Values(log[p]), Queue(p))
  /\ AllEarlier(Values(log[p]) \cup Queue(p), Filling(p))

(* Of the present post they are those of the partition that post is past.  *)
TakenBefore(p) ==
  \A q \in Taken(p) :
    /\ q[1] <= num_posts
    /\ q[1] = num_posts => /\ q \in PairsOf(keys, p, num_posts)
                           /\ Posting => p < part_index \/ (p = part_index /\ q[2] < k)
    /\ q \in Filling(p) => q[1] = num_posts

(* No pair is on the way twice, or overtaken by another of its partition;  *)
(* a posted pair is on the way or delivered, given up or yet to be taken.  *)
Order == /\ \A b \in Buffers : InOrder(memory[b])
         /\ \A p \in Parts : /\ PipelineInOrder(p) /\ TakenBefore(p)
                              /\ posted[p] \subseteq Taken(p) \cup lost \cup ToTake(p)

(* The inductive invariant.                                                *)
IInv == Ownership /\ Order

(* The log of a partition has its pairs in the order in which they were    *)
(* posted, none of them twice, and none is left out but those of messages  *)
(* that were given up.                                                     *)
LogInOrder ==
  \A p \in Parts :
    /\ InOrder(log[p])
    /\ \A q \in posted[p], r \in Values(log[p]) : Earlier(q, r) => q \in Values(log[p]) \cup lost

(* When flush returns, the fate of every posted pair is known: it is in    *)
(* the log of its partition, or its message failed.                        *)
FlushIsBarrier ==
  [][pc = "flush" /\ pc' # "flush" =>
       \A p \in Parts : posted[p] \subseteq Values(log[p]) \cup lost]_vars

(* A post returns although it may have to wait for a buffer, as long as    *)
(* fewer messages failed than there are buffers; and so does a flush.      *)
CallsReturn == pc \in {"scan", "acquire", "wait", "flush"} ~>
                 pc \in {"ready", "destroyed", "undefined"}
===============================================================================
