---------------------------- MODULE TrainingProofs ----------------------------
(***************************************************************************)
(* The threads and GPUs of training.  The hand-over of the buffers of      *)
(* DataReader is right for any number of workers, any lists of files and   *)
(* any number of epochs; the kernel sync_all_gpus_func of GpuBarrier is a  *)
(* barrier, for every set of GPUs.                                         *)
(***************************************************************************)
EXTENDS DataReader, GpuBarrier, TLAPS

\* There is a first worker, and counting from it stays among the workers.
LEMMA WorkerFacts ==
  /\ NumWorkers \in Nat \ {0}
  /\ 0 \in Workers
  /\ \A w \in Workers : w \in Nat /\ NextWorker(w) \in Workers
BY DataReaderAssumption DEF Workers, NextWorker

\* Reading files and samples does not touch what other threads can see of a worker.
Fields == {"pc", "source", "read", "index", "batch", "rows", "check", "is_eof"}

Keeps(n, k) == DOMAIN n = Fields /\ n.is_eof = k.is_eof

LEMMA ReadNewFileKeeps ==
  ASSUME NEW w, NEW k, DOMAIN k = Fields
  PROVE  \A n \in read_new_file(w, k) : Keeps(n, k)
BY DEF read_new_file, Keeps, Fields

LEMMA CountRecordKeeps ==
  ASSUME NEW w, NEW k, DOMAIN k = Fields
  PROVE  \A n \in CountRecord(w, k) : Keeps(n, k)
<1>1. Keeps([k EXCEPT !.index = @ + 1], k)
  BY DEF Keeps, Fields
<1>. QED
  BY <1>1, ReadNewFileKeeps DEF CountRecord

LEMMA LeaveFileKeeps ==
  ASSUME NEW w, NEW k, DOMAIN k = Fields
  PROVE  \A n \in LeaveFile(w, k) : Keeps(n, k)
<1>. SUFFICES ASSUME NEW n \in LeaveFile(w, k) PROVE Keeps(n, k)
  OBVIOUS
<1>1. PICK m \in read_new_file(w, k) : n \in IF IsOpen(m) THEN CountRecord(w, m) ELSE {m}
  BY Zenon DEF LeaveFile
<1>2. Keeps(m, k)
  BY ReadNewFileKeeps
<1>3. DOMAIN m = Fields
  BY <1>2 DEF Keeps
<1>4. \A x \in CountRecord(w, m) : Keeps(x, m)
  BY <1>3, CountRecordKeeps
<1>5. n = m \/ Keeps(n, m)
  BY <1>1, <1>4
<1>. QED
  BY <1>2, <1>5 DEF Keeps

LEMMA RollBackKeeps ==
  ASSUME NEW k, DOMAIN k = Fields
  PROVE  \A n \in roll_back(k) : Keeps(n, k)
BY DEF roll_back, Keeps, Fields

LEMMA SampleKeeps ==
  ASSUME NEW w, NEW k, DOMAIN k = Fields
  PROVE  \A n \in Sample(w, k) : Keeps(n, k)
<1> DEFINE id == <<k.source.epoch, k.source.file, k.read + 1>>
           Started == set_check_point([k EXCEPT !.read = k.read + 1])
           Filled == [Started EXCEPT !.rows = @ \o [i \in 1 .. Slots |-> id]]
           Taken == [Filled EXCEPT !.batch = Append(@, id)]
<1>1. Keeps(Started, k)
  BY DEF set_check_point, Keeps, Fields
<1> HIDE DEF Started, id
<1>2. Keeps(Filled, k)
  BY <1>1 DEF Keeps, Fields
<1> HIDE DEF Filled
<1>3. Keeps(Taken, k)
  BY <1>2 DEF Keeps, Fields
<1> HIDE DEF Taken
<1>. SUFFICES ASSUME NEW n \in Sample(w, k) PROVE Keeps(n, k)
  OBVIOUS
<1>4. \A m : DOMAIN m = Fields /\ m.is_eof = k.is_eof =>
        \A x \in LeaveFile(w, m) \cup CountRecord(w, m) : Keeps(x, k)
  BY LeaveFileKeeps, CountRecordKeeps DEF Keeps
<1>5. \A m : DOMAIN m = Fields /\ m.is_eof = k.is_eof => \A x \in roll_back(m) : Keeps(x, k)
  BY RollBackKeeps DEF Keeps
<1>6. \/ \E m \in roll_back(k) : n \in LeaveFile(w, m)
      \/ \E m \in roll_back(Started) : n \in LeaveFile(w, m)
      \/ \E m \in roll_back(Filled) : n \in CountRecord(w, m)
      \/ n \in CountRecord(w, Taken)
  BY DEF Sample, Taken, Filled, Started, id
<1>. QED
  BY <1>1, <1>2, <1>3, <1>4, <1>5, <1>6 DEF Keeps

LEMMA InitIInv == Init => IInv
<1>. SUFFICES ASSUME Init PROVE IInv
  OBVIOUS
<1>1. PICK l \in Lists :
        /\ worker = [w \in Workers |->
             [pc |-> "created", source |-> Source(l, 0, repeat), read |-> 0, index |-> 0,
              batch |-> << >>, rows |-> << >>, check |-> NoCheckPoint, is_eof |-> ~repeat]]
        /\ reader = [pc |-> IF repeat THEN "idle" ELSE "eof", list |-> l, epoch |-> 0,
                     next |-> 0, delivered |-> << >>]
  BY DEF Init
<1>2. repeat \in BOOLEAN
  BY DataReaderAssumption DEF Init
<1>3. TypeOK
  BY Zenon, <1>1, <1>2, WorkerFacts DEF Init, TypeOK, Empty, States
<1>4. ~repeat => NotStarted
  BY <1>1 DEF Init, NotStarted, Empty
<1>. QED
  BY <1>1, <1>2, <1>3, <1>4 
     DEF Init, IInv, Empty, EofInBroadcast, ThreadBuffersOwned, BroadcastOwned, EpochEnded, SourceSet

\* The steps of a worker keep the invariant.
LEMMA WorkerIInv ==
  ASSUME IInv, NEW w \in Workers, WorkerStep(w)
  PROVE  IInv'
<1> USE DEF IInv, TypeOK, ThreadBuffersOwned, BroadcastOwned, EpochEnded, SourceSet,
         NotStarted, AllAtEof, EofInBroadcast, States
<1>1. CASE WaitForStart(w)
  BY <1>1, WorkerFacts DEF WaitForStart
<1>2. CASE StartBatch(w)
  <2> DEFINE x == worker[w]
  <2>1. DOMAIN x = Fields
    BY DEF Fields
  <2>2. \A k \in read_new_file(w, x) : Keeps(k, x)
    <3> HIDE DEF x
    <3>. QED  BY <2>1, ReadNewFileKeeps
  <2>3. PICK k, pc :
          /\ k = x \/ k \in read_new_file(w, x)
          /\ pc \in {"eof", "failed", "batch"}
          /\ worker' = [worker EXCEPT ![w] = [k EXCEPT !.pc = pc, !.batch = << >>, !.rows = << >>]]
          /\ x.pc = "top" /\ flags.loop /\ ~flags.end
          /\ UNCHANGED <<repeat, buffer, collector, broadcast, reader, flags>>
    BY <1>2 DEF StartBatch
  <2>4. Keeps(k, x)
    BY <2>1, <2>2, <2>3 DEF Keeps
  <2> DEFINE n == [k EXCEPT !.pc = pc, !.batch = << >>, !.rows = << >>]
  <2>5. Keeps(n, x) /\ n.pc = pc
    BY <2>4 DEF Keeps, Fields
  <2>6. /\ worker' = [worker EXCEPT ![w] = n] /\ worker[w].pc = "top"
        /\ DOMAIN n = DOMAIN worker[w] /\ n.is_eof = worker[w].is_eof
        /\ n.pc \in {"eof", "failed", "batch"}
        /\ UNCHANGED <<repeat, buffer, collector, broadcast, reader, flags>>
    BY <2>1, <2>3, <2>5 DEF Keeps
  <2> HIDE DEF n, x
  <2>7. TypeOK'
    BY <2>6, WorkerFacts
  <2>8. ThreadBuffersOwned'
    BY <2>6, WorkerFacts
  <2>9. BroadcastOwned'
    BY <2>6, WorkerFacts
  <2>10. EpochEnded'
    BY <2>3, <2>6, WorkerFacts
  <2>11. SourceSet'
    BY <2>3, <2>6, WorkerFacts
  <2>. QED
    BY <2>7, <2>8, <2>9, <2>10, <2>11 DEF IInv
<1>3. CASE ExitWorker(w)
  BY <1>3, WorkerFacts DEF ExitWorker
<1>4. CASE ReadSample(w)
  <2> DEFINE x == worker[w]
  <2>1. DOMAIN x = Fields
    BY DEF Fields
  <2>2. \A k \in Sample(w, x) : Keeps(k, x)
    <3> HIDE DEF x
    <3>. QED  BY <2>1, SampleKeeps
  <2>3. PICK k \in Sample(w, x) : \E pc \in {"failed", "batch", "h2d"} :
          /\ worker' = [worker EXCEPT ![w] = [k EXCEPT !.pc = pc]]
          /\ x.pc = "batch"
          /\ UNCHANGED <<repeat, buffer, collector, broadcast, reader, flags>>
    BY <1>4 DEF ReadSample
  <2>4. PICK pc \in {"failed", "batch", "h2d"} :
          /\ worker' = [worker EXCEPT ![w] = [k EXCEPT !.pc = pc]]
          /\ x.pc = "batch"
          /\ UNCHANGED <<repeat, buffer, collector, broadcast, reader, flags>>
    BY <2>3
  <2> DEFINE n == [k EXCEPT !.pc = pc]
  <2>5. Keeps(n, x) /\ n.pc = pc
    BY <2>2 DEF Keeps, Fields
  <2>6. /\ worker' = [worker EXCEPT ![w] = n] /\ worker[w].pc = "batch"
        /\ DOMAIN n = DOMAIN worker[w] /\ n.is_eof = worker[w].is_eof
        /\ n.pc \in {"failed", "batch", "h2d"}
        /\ UNCHANGED <<repeat, buffer, collector, broadcast, reader, flags>>
    BY <2>1, <2>4, <2>5 DEF Keeps
  <2> HIDE DEF n, x
  <2>7. TypeOK'
    BY <2>6, WorkerFacts
  <2>8. ThreadBuffersOwned'
    BY <2>6, WorkerFacts
  <2>9. BroadcastOwned'
    BY <2>6, WorkerFacts
  <2>10. EpochEnded'
    BY <2>6, WorkerFacts
  <2>11. SourceSet'
    BY <2>6, WorkerFacts
  <2>. QED
    BY <2>7, <2>8, <2>9, <2>10, <2>11 DEF IInv
<1>5. CASE wait_until_h2d_ready(w)
  BY <1>5, WorkerFacts DEF wait_until_h2d_ready
<1>6. CASE CopyToDevice(w)
  BY <1>6, WorkerFacts DEF CopyToDevice
<1>7. CASE MarkEof(w)
  <2>1. /\ worker[w].pc = "mark" /\ buffer[w].state = "Writing"
        /\ UNCHANGED <<repeat, collector, broadcast, reader, flags>>
    BY <1>7 DEF MarkEof
  <2>2. /\ DOMAIN worker' = Workers /\ DOMAIN worker'[w] = DOMAIN worker[w]
        /\ \A u \in Workers \ {w} : worker'[u] = worker[u]
        /\ worker'[w].pc = "paused"
    BY <1>7 DEF MarkEof
  <2>3. worker'[w].is_eof \in BOOLEAN
    BY <1>7 DEF MarkEof
  <2>4. /\ DOMAIN buffer' = Workers /\ DOMAIN buffer'[w] = DOMAIN buffer[w]
        /\ \A u \in Workers \ {w} : buffer'[u] = buffer[u]
        /\ buffer'[w].state = "ReadyForRead" /\ buffer'[w].batch = << >>
    BY Zenon, <1>7 DEF MarkEof
  <2>5. TypeOK'
    BY <2>1, <2>2, <2>3, <2>4
  <2>6. ThreadBuffersOwned'
    BY <2>1, <2>2, <2>3, <2>4
  <2>7. BroadcastOwned'
    BY <2>1, <2>2, <2>3, <2>4
  <2>8. EpochEnded'
    BY <2>1, <2>2, <2>3, <2>4
  <2>9. SourceSet'
    BY <2>1, <2>2, <2>3, <2>4
  <2>. QED
    BY <2>5, <2>6, <2>7, <2>8, <2>9 DEF IInv
<1>8. CASE Resume(w)
  BY <1>8, WorkerFacts DEF Resume
<1>9. CASE GiveUp(w)
  BY <1>9, WorkerFacts DEF GiveUp
<1>. QED
  BY Zenon, <1>1, <1>2, <1>3, <1>4, <1>5, <1>6, <1>7, <1>8, <1>9 DEF WorkerStep

\* The steps of the collector keep the invariant.
LEMMA CollectorIInv ==
  ASSUME IInv, CollectorStep
  PROVE  IInv'
<1> USE DEF IInv, TypeOK, ThreadBuffersOwned, BroadcastOwned, EpochEnded, SourceSet,
         NotStarted, AllAtEof, EofInBroadcast, States
<1> DEFINE c == collector.counter
<1>0. c \in Workers /\ NextWorker(c) \in Workers /\ 0 \in Workers
  BY WorkerFacts
<1>1. CASE SkipEofWorker
  BY <1>1, WorkerFacts DEF SkipEofWorker
<1>2. CASE AcquireSource
  BY <1>2, WorkerFacts DEF AcquireSource
<1>3. CASE AcquireDestination
  BY <1>3, WorkerFacts DEF AcquireDestination
<1>4. CASE Collect
  <2>1. /\ collector.pc = "collect" /\ buffer[c].batch # << >> /\ buffer[c].state = "Reading"
        /\ UNCHANGED <<repeat, worker, reader, flags>>
    BY <1>4 DEF Collect
  <2>2. /\ DOMAIN buffer' = Workers /\ DOMAIN buffer'[c] = DOMAIN buffer[c]
        /\ \A u \in Workers \ {c} : buffer'[u] = buffer[u]
        /\ buffer'[c].state = "ReadyForWrite"
    BY <1>0, <1>4 DEF Collect
  <2>3. /\ DOMAIN broadcast' = DOMAIN broadcast /\ broadcast'.state = broadcast.state
        /\ broadcast'.batch = buffer[c].batch
    BY <1>4 DEF Collect
  <2>4. /\ collector'.pc = "publish" /\ collector'.counter = NextWorker(c)
        /\ collector'.eof = collector.eof
        /\ collector' \in [pc : {"loop", "collect", "publish", "exit"},
                           counter : Workers, eof : SUBSET Workers]
    BY Zenon, <1>0, <1>4 DEF Collect
  <2>5. TypeOK'
    BY <1>0, <2>1, <2>2, <2>3, <2>4
  <2>6. ThreadBuffersOwned'
    BY <1>0, <2>1, <2>2, <2>3, <2>4
  <2>7. BroadcastOwned'
    BY <1>0, <2>1, <2>2, <2>3, <2>4
  <2>8. EpochEnded'
    BY <1>0, <2>1, <2>2, <2>3, <2>4
  <2>9. SourceSet'
    BY <1>0, <2>1, <2>2, <2>3, <2>4
  <2>. QED
    BY <2>5, <2>6, <2>7, <2>8, <2>9 DEF IInv
<1>5. CASE CollectEof
  BY <1>5, WorkerFacts DEF CollectEof
<1>6. CASE CollectLastEof
  <2>1. /\ collector.pc = "collect" /\ buffer[c].batch = << >> /\ buffer[c].state = "Reading"
        /\ collector.eof \cup {c} = Workers
        /\ UNCHANGED <<repeat, worker, reader, flags>>
    BY <1>6 DEF CollectLastEof
  <2>2. /\ DOMAIN buffer' = Workers /\ DOMAIN buffer'[c] = DOMAIN buffer[c]
        /\ \A u \in Workers \ {c} : buffer'[u] = buffer[u]
        /\ buffer'[c].state = "FileEOF"
    BY <1>0, <1>6 DEF CollectLastEof
  <2>3. /\ DOMAIN broadcast' = DOMAIN broadcast /\ broadcast'.state = broadcast.state
        /\ broadcast'.batch = << >>
    BY <1>6 DEF CollectLastEof
  <2>4. collector' = [pc |-> "publish", counter |-> 0, eof |-> {}]
    BY <1>6 DEF CollectLastEof
  <2>5. AllAtEof'
    BY <1>0, <2>1, <2>2, <2>4
  <2>6. reader.pc \in {"idle", "read", "end", "join", "destroyed"}
    BY <2>1, WorkerFacts
  <2>7. TypeOK'
    BY <1>0, <2>1, <2>2, <2>3, <2>4, <2>5, <2>6
  <2>8. ThreadBuffersOwned'
    BY <1>0, <2>1, <2>2, <2>3, <2>4, <2>5, <2>6
  <2>9. BroadcastOwned'
    BY <1>0, <2>1, <2>2, <2>3, <2>4, <2>5, <2>6
  <2>10. EpochEnded'
    BY <1>0, <2>1, <2>2, <2>3, <2>4, <2>5, <2>6
  <2>11. SourceSet'
    BY <1>0, <2>1, <2>2, <2>3, <2>4, <2>5, <2>6
  <2>. QED
    BY <2>7, <2>8, <2>9, <2>10, <2>11 DEF IInv
<1>7. CASE Publish
  BY <1>7, WorkerFacts DEF Publish
<1>8. CASE StopCollector
  BY <1>8, WorkerFacts DEF StopCollector
<1>. QED
  BY Zenon, <1>1, <1>2, <1>3, <1>4, <1>5, <1>6, <1>7, <1>8 DEF CollectorStep

\* The steps of the training thread keep the invariant.
LEMMA ReaderIInv ==
  ASSUME IInv, ReaderStep \/ CallRead \/ Destroy
  PROVE  IInv'
<1> USE DEF IInv, TypeOK, ThreadBuffersOwned, BroadcastOwned, EpochEnded, SourceSet,
         NotStarted, AllAtEof, EofInBroadcast, States
<1>1. CASE AcquireBatch
  BY <1>1, WorkerFacts DEF AcquireBatch
<1>2. CASE read_a_batch_to_device
  <2>1. /\ reader.pc = "copy" /\ UNCHANGED <<repeat, worker, buffer, collector, flags>>
        /\ broadcast.state = "Reading" /\ collector.pc \in {"loop", "exit"}
    BY <1>2 DEF read_a_batch_to_device
  <2>2. CASE broadcast.batch # << >>
    <3>1. UNCHANGED broadcast
      BY <1>2, <2>2 DEF read_a_batch_to_device
    <3>2. /\ DOMAIN reader' = DOMAIN reader /\ reader'.pc = "got"
          /\ reader'.epoch = reader.epoch /\ reader'.next = reader.next
      <4> DEFINE d == Append(reader.delivered, broadcast.batch)
      <4>1. reader' = [reader EXCEPT !.pc = "got", !.delivered = d]
        BY <1>2, <2>2 DEF read_a_batch_to_device
      <4> HIDE DEF d
      <4>. QED  BY <4>1
    <3>3. TypeOK'
      BY <2>1, <2>2, <3>1, <3>2
    <3>4. ThreadBuffersOwned'
      BY <2>1, <2>2, <3>1, <3>2
    <3>5. BroadcastOwned'
      BY <2>1, <2>2, <3>1, <3>2
    <3>6. EpochEnded'
      BY <2>1, <2>2, <3>1, <3>2
    <3>7. SourceSet'
      BY <2>1, <2>2, <3>1, <3>2
    <3>. QED
      BY <3>3, <3>4, <3>5, <3>6, <3>7 DEF IInv
  <2>3. CASE broadcast.batch = << >>
    <3>1. DOMAIN broadcast' = DOMAIN broadcast /\ broadcast'.state = "ReadyForWrite"
      BY <1>2, <2>3 DEF read_a_batch_to_device
    <3>2. /\ DOMAIN reader' = DOMAIN reader /\ reader'.pc = "over"
          /\ reader'.epoch = reader.epoch /\ reader'.next = reader.next
      BY <1>2, <2>3 DEF read_a_batch_to_device
    <3>3. AllAtEof
      BY <2>1, <2>3
    <3>4. TypeOK'
      BY <2>1, <3>1, <3>2, <3>3
    <3>5. ThreadBuffersOwned'
      BY <2>1, <3>1, <3>2, <3>3
    <3>6. BroadcastOwned'
      BY <2>1, <3>1, <3>2, <3>3
    <3>7. EpochEnded'
      BY <2>1, <3>1, <3>2, <3>3
    <3>8. SourceSet'
      BY <2>1, <3>1, <3>2, <3>3
    <3>. QED
      BY <3>4, <3>5, <3>6, <3>7, <3>8 DEF IInv
  <2>. QED
    BY <2>2, <2>3
<1>3. CASE finalize_batch
  BY <1>3, WorkerFacts DEF finalize_batch
<1>4. CASE post_set_source
  <2> DEFINE v == reader.next
  <2>1. /\ v \in Workers /\ v + 1 \in Nat /\ (v + 1 # NumWorkers => v + 1 \in Workers)
        /\ \A u \in Workers : u >= v + 1 => u >= v /\ u # v
    BY <1>4, WorkerFacts DEF post_set_source, Workers
  <2>2. /\ DOMAIN worker' = Workers /\ DOMAIN worker'[v] = DOMAIN worker[v]
        /\ \A u \in Workers \ {v} : worker'[u] = worker[u]
        /\ worker'[v].pc = worker[v].pc
    BY <1>4, <2>1 DEF post_set_source
  <2>3. worker'[v].is_eof \in BOOLEAN /\ ~worker'[v].is_eof
    BY <1>4, <2>1 DEF post_set_source
  <2>4. /\ DOMAIN buffer' = Workers /\ DOMAIN buffer'[v] = DOMAIN buffer[v]
        /\ \A u \in Workers \ {v} : buffer'[u] = buffer[u]
        /\ buffer'[v].state = "ReadyForWrite"
    BY <1>4, <2>1 DEF post_set_source
  <2>5. /\ DOMAIN reader' = DOMAIN reader /\ reader'.epoch = reader.epoch
        /\ reader'.next = v + 1 /\ reader'.pc = IF v + 1 = NumWorkers THEN "idle" ELSE "post"
        /\ UNCHANGED <<repeat, collector, broadcast>>
    BY <1>4 DEF post_set_source
  <2>6. /\ flags' \in [loop : BOOLEAN, end : BOOLEAN, collect : BOOLEAN]
        /\ flags'.end = flags.end /\ (v + 1 # NumWorkers => flags'.loop = flags.loop)
    BY Zenon, <1>4 DEF post_set_source
  <2>7. /\ v \notin collector.eof
        /\ buffer[v].state \in {"FileEOF", "ReadyForWrite"}
        /\ worker[v].pc \notin {"copy", "mark"}
        /\ ~EofInBroadcast /\ reader.pc = "post"
    BY <1>4, <2>1, WorkerFacts DEF post_set_source
  <2>8. TypeOK'
    BY SMTT(20), <2>1, <2>2, <2>3, <2>4, <2>5, <2>6, <2>7
  <2>9. ThreadBuffersOwned'
    BY <2>1, <2>2, <2>3, <2>4, <2>5, <2>6, <2>7
  <2>10. BroadcastOwned'
    BY <2>1, <2>2, <2>3, <2>4, <2>5, <2>6, <2>7
  <2>11. EpochEnded'
    BY <2>1, <2>2, <2>3, <2>4, <2>5, <2>6, <2>7
  <2>12. SourceSet'
    BY SMTT(20), <2>1, <2>2, <2>3, <2>4, <2>5, <2>6, <2>7
  <2>. QED
    BY <2>8, <2>9, <2>10, <2>11, <2>12 DEF IInv
<1>5. CASE JoinCollector
  BY Zenon, <1>5, WorkerFacts DEF JoinCollector
<1>6. CASE JoinWorkers
  BY <1>6, WorkerFacts DEF JoinWorkers
<1>7. CASE CallRead
  BY <1>7, WorkerFacts DEF CallRead
<1>8. CASE Destroy
  BY <1>8, WorkerFacts DEF Destroy
<1>. QED
  BY Zenon, <1>1, <1>2, <1>3, <1>4, <1>5, <1>6, <1>7, <1>8 DEF ReaderStep

\* set_source keeps the invariant, whether it is accepted or refused.
LEMMA SetSourceIInv ==
  ASSUME IInv, NEW l \in Lists, set_source(l)
  PROVE  IInv'
<1> USE DEF IInv, TypeOK, ThreadBuffersOwned, BroadcastOwned, EpochEnded, SourceSet,
         NotStarted, AllAtEof, EofInBroadcast, States
<1>1. /\ DOMAIN worker' = Workers
      /\ \A w \in Workers :
           /\ DOMAIN worker'[w] = DOMAIN worker[w]
           /\ worker'[w].pc = worker[w].pc /\ worker'[w].is_eof = worker[w].is_eof
  BY DEF set_source
<1>2. TypeOK'
  BY <1>1, WorkerFacts DEF set_source
<1>. QED
  BY <1>1, <1>2 DEF set_source

LEMMA StutterIInv == IInv /\ UNCHANGED vars => IInv'
<1>. SUFFICES ASSUME IInv, UNCHANGED vars PROVE IInv'
  OBVIOUS
<1>1. TypeOK'
  BY DEF vars, IInv, TypeOK
<1>2. ThreadBuffersOwned' /\ BroadcastOwned'
  BY DEF vars, IInv, ThreadBuffersOwned, BroadcastOwned
<1>3. EpochEnded' /\ SourceSet'
  BY DEF vars, IInv, EpochEnded, SourceSet, NotStarted, AllAtEof, EofInBroadcast
<1>. QED
  BY <1>1, <1>2, <1>3 DEF IInv

\* Whatever the number of workers, the files and their damage, the speed of the
\* threads and the moment of the destruction: every buffer of the data reader has
\* one owner, and the reader is told of the end of an epoch when all workers have
\* announced theirs and rest (data_reader_worker.cpp, data_collector.cpp).
THEOREM Invariance == Spec => []IInv
<1>1. IInv /\ [Next]_vars => IInv'
  BY WorkerIInv, CollectorIInv, ReaderIInv, SetSourceIInv, StutterIInv DEF Next, ThreadStep
<1>. QED
  BY InitIInv, <1>1, PTL DEF Spec

-------------------------------------------------------------------------------
(* The barrier among the GPUs of a process. *)

\* The inductive invariant holds initially.
LEMMA InitKernelIInv == KernelInit => KernelIInv
  BY DEF KernelInit, KernelIInv, KernelTypeOK

\* Every step of a kernel preserves the inductive invariant: a GPU writes the
\* barrier_flags of its own column only, and each of them goes up by one.
LEMMA NextKernelIInv == KernelIInv /\ [KernelNext]_kernel_vars => KernelIInv'
<1> SUFFICES ASSUME KernelIInv, [KernelNext]_kernel_vars PROVE KernelIInv'
  OBVIOUS
<1>1. ASSUME NEW g \in GPUs, Enter(g) PROVE KernelIInv'
  <2>1. KernelTypeOK'
    BY <1>1 DEF KernelIInv, KernelTypeOK, Enter
  <2> QED
    BY <1>1, <2>1 DEF KernelIInv, KernelTypeOK, Enter
<1>2. ASSUME NEW g \in GPUs, NEW t \in GPUs, WriteFlag(g, t) PROVE KernelIInv'
  <2>1. KernelTypeOK'
    BY <1>2 DEF KernelIInv, KernelTypeOK, WriteFlag
  <2>2. \A k, h \in GPUs : k # g \/ h # t => barrier_flags'[h][k] = barrier_flags[h][k]
    BY <1>2 DEF KernelIInv, KernelTypeOK, WriteFlag
  <2>3. barrier_flags'[t][g] = count[g] + 1 /\ count[g] + 1 >= barrier_flags[t][g]
    BY <1>2 DEF KernelIInv, KernelTypeOK, WriteFlag
  <2>4. ASSUME NEW k \in GPUs, NEW h \in GPUs
        PROVE /\ k \notin inside' => barrier_flags'[h][k] = barrier_flags'[k][k]
              /\ k \in inside' => barrier_flags'[h][k] = IF h \in wrote'[k] THEN count'[k] + 1 ELSE count'[k]
              /\ k \in inside' /\ h \in passed'[k] => h \in wrote'[k] /\ barrier_flags'[k][h] >= count'[k] + 1
    <3>1. CASE k = g
      BY <1>2, <2>1, <2>2, <2>3, <3>1 DEF KernelIInv, KernelTypeOK, WriteFlag
    <3>2. CASE k # g
      BY <1>2, <2>1, <2>2, <2>3, <3>2 DEF KernelIInv, KernelTypeOK, WriteFlag
    <3> QED
      BY <3>1, <3>2
  <2> QED
    BY <2>1, <2>4 DEF KernelIInv
<1>3. ASSUME NEW g \in GPUs, NEW t \in GPUs, Pass(g, t) PROVE KernelIInv'
  BY <1>3 DEF KernelIInv, KernelTypeOK, Pass
<1>4. ASSUME NEW g \in GPUs, Leave(g) PROVE KernelIInv'
  BY <1>4 DEF KernelIInv, KernelTypeOK, Leave
<1>5. CASE UNCHANGED kernel_vars
  BY <1>5 DEF KernelIInv, KernelTypeOK, kernel_vars
<1> QED
  BY <1>1, <1>2, <1>3, <1>4, <1>5 DEF KernelNext

\* KernelIInv holds in every state of every run of the kernels.
THEOREM KernelInvariance == KernelSpec => []KernelIInv
  BY InitKernelIInv, NextKernelIInv, PTL DEF KernelSpec

\* Every step of a kernel is a step of the barrier or leaves it unchanged: the
\* arrival is the start of the kernel, and when __syncthreads is passed every
\* thread has seen the arrival of its GPU.
LEMMA StepRefines == KernelIInv /\ [KernelNext]_kernel_vars => [Abstract!Next]_(Abstract!vars)
<1> SUFFICES ASSUME KernelIInv, [KernelNext]_kernel_vars PROVE [Abstract!Next]_(Abstract!vars)
  OBVIOUS
<1>1. ASSUME NEW g \in GPUs, Enter(g) PROVE Abstract!Arrive(g)
  BY Zenon, <1>1 DEF KernelIInv, KernelTypeOK, Enter, arrived, Abstract!Arrive
<1>2. ASSUME NEW g \in GPUs, NEW t \in GPUs, WriteFlag(g, t) PROVE UNCHANGED Abstract!vars
  BY <1>2 DEF KernelIInv, KernelTypeOK, WriteFlag, arrived, Abstract!vars
<1>3. ASSUME NEW g \in GPUs, NEW t \in GPUs, Pass(g, t) PROVE UNCHANGED Abstract!vars
  BY <1>3 DEF Pass, arrived, Abstract!vars
<1>4. ASSUME NEW g \in GPUs, Leave(g) PROVE Abstract!Leave(g)
  <2>1. \A h \in GPUs : barrier_flags[g][h] <= arrived[h]
    BY DEF KernelIInv, KernelTypeOK, arrived
  <2>2. \A h \in GPUs : arrived[h] >= arrived[g]
    BY <1>4, <2>1 DEF KernelIInv, KernelTypeOK, Leave, arrived
  <2>3. arrived' = arrived
    BY <1>4 DEF KernelIInv, KernelTypeOK, Leave, arrived
  <2> QED
    BY <1>4, <2>2, <2>3 DEF Leave, Abstract!Leave
<1>5. CASE UNCHANGED kernel_vars
  BY <1>5 DEF kernel_vars, arrived, Abstract!vars
<1> QED
  BY <1>1, <1>2, <1>3, <1>4, <1>5 DEF KernelNext, Abstract!Next

\* The kernels of the GPUs implement the barrier the collectives rely on.
THEOREM KernelRefinement == KernelSpec => BarrierSpec
<1>1. KernelInit => Abstract!Init
  BY DEF KernelInit, arrived, Abstract!Init
<1> QED
  BY <1>1, KernelInvariance, StepRefines, PTL DEF KernelSpec, BarrierSpec, Abstract!Spec

-----------------------------------------------------------------------------
\* Seen from the barrier, a GPU that is outside is behind nobody's arrivals.
Ahead ==
  /\ arrived \in [GPUs -> Nat]
  /\ \A g, h \in GPUs : /\ arrived[g] <= arrived[h] + 1
                        /\ g \notin inside => arrived[g] <= arrived[h]

\* A step of the barrier preserves Ahead: a GPU arrives from outside, and it
\* leaves when no other has arrived less often.
LEMMA AheadStep == Ahead /\ [Abstract!Next]_(Abstract!vars) => Ahead'
<1> SUFFICES ASSUME Ahead, [Abstract!Next]_(Abstract!vars) PROVE Ahead'
  OBVIOUS
<1>1. ASSUME NEW g \in GPUs, Abstract!Arrive(g) PROVE Ahead'
  <2>1. arrived' \in [GPUs -> Nat]
    BY <1>1 DEF Ahead, Abstract!Arrive
  <2>2. arrived'[g] = arrived[g] + 1 /\ \A h \in GPUs \ {g} : arrived'[h] = arrived[h]
    BY <1>1 DEF Ahead, Abstract!Arrive
  <2>3. \A h \in GPUs : arrived[g] <= arrived[h]
    BY <1>1 DEF Ahead, Abstract!Arrive
  <2>4. inside' = inside \cup {g}
    BY <1>1 DEF Abstract!Arrive
  <2> QED
    BY <2>1, <2>2, <2>3, <2>4 DEF Ahead
<1>2. ASSUME NEW g \in GPUs, Abstract!Leave(g) PROVE Ahead'
  <2>1. arrived' = arrived /\ inside' = inside \ {g}
    BY <1>2 DEF Abstract!Leave
  <2>2. \A h \in GPUs : arrived[g] <= arrived[h]
    BY <1>2 DEF Ahead, Abstract!Leave
  <2> QED
    BY <2>1, <2>2 DEF Ahead
<1>3. CASE UNCHANGED Abstract!vars
  BY <1>3 DEF Ahead, Abstract!vars
<1> QED
  BY <1>1, <1>2, <1>3 DEF Abstract!Next

\* A kernel that waits for the barrier_flags of its round is never overtaken by two
\* rounds, so comparing counters is enough although they are never reset.
THEOREM RoundsApart == KernelSpec => []OneRoundApart
<1>1. KernelInit => Ahead
  BY DEF KernelInit, Ahead, arrived
<1>2. Ahead => OneRoundApart
  BY DEF Ahead, OneRoundApart
<1> QED
  BY <1>1, <1>2, AheadStep, KernelInvariance, StepRefines, PTL DEF KernelSpec
===============================================================================
