----------------------------- MODULE DataReader -----------------------------
(***************************************************************************)
(* The data reader that feeds training (include/data_readers,              *)
(* src/data_readers), with the workers of the Norm format and check sums.  *)
(* Worker threads read samples from their share of a list of files and     *)
(* fill one thread buffer each.  A collector thread takes the buffers in   *)
(* turn and copies them to the broadcast buffer, from which the training   *)
(* thread reads.  The buffers are handed over by their state alone.        *)
(*                                                                         *)
(* The training thread behaves as Model::fit does: it sets a source, reads *)
(* until a batch of size zero says that the epoch is over, and sets the    *)
(* next source; with repeat it only reads.  It may destroy the reader      *)
(* between any two calls.                                                  *)
(*                                                                         *)
(* A file is a record: kind (whether it opens and its header is right),    *)
(* dims (the header has the dimensions of the reader), records (the number *)
(* its header declares) and content, what comes of reading the records     *)
(* that are there.  A record may be all right ("ok"), have a wrong check   *)
(* sum, which shows at its end ("bad"), or break off behind its label and  *)
(* dense part ("torn").                                                    *)
(***************************************************************************)
EXTENDS Integers, Sequences, FiniteSetsExt

CONSTANTS
  NumWorkers,   \* the number of worker threads
  BatchSize,    \* the samples of a full batch
  Slots,        \* the rows that a sample has in a CSR buffer
  Lists,        \* the lists of files that set_source may be given
  Repeats,      \* the values of repeat: a subset of BOOLEAN
  MaxEpochs,    \* bound on the calls of set_source
  MaxReads,     \* bound on the reads with repeat, which never end
  MaxOpens,     \* bound on the files that a worker opens with repeat
  MaxTry        \* MAX_TRY of read_new_file and MAX_TRY_ of the checker

Workers == 0 .. NumWorkers - 1

File == [kind : {"ok", "header", "missing"}, dims : BOOLEAN, records : Nat,
         content : Seq({"ok", "bad", "torn"})]

\* The constructor of FileSource wants a file for each worker.  Nothing can be
\* read behind a torn record, nor beyond the number that the header declares.
ASSUME DataReaderAssumption ==
  /\ NumWorkers \in Nat \ {0} /\ BatchSize \in Nat \ {0} /\ Slots \in Nat \ {0}
  /\ MaxTry \in Nat \ {0} /\ MaxEpochs \in Nat /\ MaxReads \in Nat /\ MaxOpens \in Nat
  /\ Repeats \subseteq BOOLEAN
  /\ \A l \in Lists :
       /\ Len(l) >= NumWorkers
       /\ \A k \in 1 .. Len(l) :
            /\ l[k] \in File /\ Len(l[k].content) <= l[k].records
            /\ \A i \in 1 .. Len(l[k].content) - 1 : l[k].content[i] # "torn"

VARIABLES
  repeat,      \* the mode of the reader
  worker,      \* the worker threads, with the source and the batch they read
  buffer,      \* thread_buffers_
  collector,   \* the background collector thread
  broadcast,   \* broadcast_buffer_
  reader,      \* the training thread
  flags        \* the loop flags of workers and collector, and end_flag_

vars == <<repeat, worker, buffer, collector, broadcast, reader, flags>>

\* The file of a source whose stream is closed, and of one whose worker has
\* found no usable file in as many tries as it makes.
Closed == -1
Failed == -2

\* A FileSource for list l, created for epoch e.
Source(l, e, r) == [list |-> l, epoch |-> e, repeat |-> r, counter |-> 0, file |-> Closed]

\* The constructor of CSR23 does not set the check point.
NoCheckPoint == [set |-> FALSE, rows |-> << >>]

Empty == [state |-> "ReadyForWrite", batch |-> << >>]

Init ==
  /\ repeat \in Repeats
  /\ \E l \in Lists :
       /\ worker = [w \in Workers |->
            [pc |-> "created", source |-> Source(l, 0, repeat), read |-> 0, index |-> 0,
             batch |-> << >>, rows |-> << >>, check |-> NoCheckPoint, is_eof |-> ~repeat]]
       /\ reader = [pc |-> IF repeat THEN "idle" ELSE "eof", list |-> l, epoch |-> 0,
                    next |-> 0, delivered |-> << >>]
  /\ buffer = [w \in Workers |-> Empty]
  /\ collector = [pc |-> "loop", counter |-> 0, eof |-> {}]
  /\ broadcast = Empty
  /\ flags = [loop |-> repeat, end |-> FALSE, collect |-> TRUE]

(***************************************************************************)
(* Files and samples                                                       *)
(***************************************************************************)
\* FileList::get_a_file_with_id: whether there is a file k, and which one.
HasFile(s, k) == s.repeat \/ k < Len(s.list)
FileAt(s, k) == s.list[(k % Len(s.list)) + 1]

\* The file that the source of worker w opens when its counter is c.
FileId(w, c) == w + c * NumWorkers

\* The operators below that change a worker k yield the set of what may become
\* of it.

\* read_new_file: the next usable file of the worker's share, or the end, after
\* which the stream is closed.  It gives up when MaxTry files had a wrong header,
\* or MaxTry in a row could not be opened.
read_new_file(w, k) ==
  LET s == k.source
      Kind(n) == IF HasFile(s, FileId(w, n)) THEN FileAt(s, FileId(w, n)).kind ELSE "end"
      GivesUp(n) ==
        \/ /\ Kind(n) = "header"
           /\ Cardinality({i \in s.counter .. n : Kind(i) = "header"}) = MaxTry
        \/ /\ n - MaxTry + 1 >= s.counter
           /\ \A i \in n - MaxTry + 1 .. n : Kind(i) = "missing"
      Stops(n) == Kind(n) \in {"ok", "end"} \/ GivesUp(n)
  IN {[k EXCEPT !.source.counter = c + 1,
                !.source.file = CASE Kind(c) = "ok"  -> FileId(w, c)
                                  [] Kind(c) = "end" -> Closed
                                  [] OTHER           -> Failed,
                !.read = 0, !.index = 0] :
        c \in {n \in s.counter .. s.counter + MaxTry * MaxTry :
                 Stops(n) /\ \A i \in s.counter .. n - 1 : ~Stops(i)}}

IsOpen(k) == k.source.file >= 0
CurrentFile(k) == FileAt(k.source, k.source.file)

\* What comes of reading record r: behind the content not even its label.
Outcome(f, r) == IF r <= Len(f.content) THEN f.content[r] ELSE "ended"

\* The end of the batch loop's body: count the record, and start a new file
\* when as many have been counted as the header declares.
CountRecord(w, k) ==
  IF k.index + 1 >= CurrentFile(k).records THEN read_new_file(w, k)
  ELSE {[k EXCEPT !.index = @ + 1]}

\* The CSR buffer of a worker, by the samples its rows belong to.  A check point
\* stands for the rows before it, which nothing overwrites while it is in force.
\* One that was never set is whatever was in memory: some number of rows, of no
\* sample, up to the one that leaves no room.
NoRow == <<0, -1, 0>>
Garbage == {[i \in 1 .. n |-> NoRow] : n \in 0 .. BatchSize * Slots + 1}

set_check_point(k) == [k EXCEPT !.check = [set |-> TRUE, rows |-> k.rows]]

roll_back(k) ==
  {[k EXCEPT !.rows = c, !.check = [set |-> TRUE, rows |-> c]] :
     c \in IF k.check.set THEN {k.check.rows} ELSE Garbage}

\* A file that turns out to be broken is left for the next one, of which a
\* record is then counted.
LeaveFile(w, k) ==
  UNION {IF IsOpen(n) THEN CountRecord(w, n) ELSE {n} : n \in read_new_file(w, k)}

\* One pass through the body of the batch loop.  The check point is set when the
\* label and dense part has been read; new_row throws when there is no room.
Sample(w, k) ==
  LET r == k.read + 1
      id == <<k.source.epoch, k.source.file, r>>
      outcome == Outcome(CurrentFile(k), r)
      HasRoom == Len(k.rows) + Slots <= BatchSize * Slots + 1
      Started == set_check_point([k EXCEPT !.read = r])
      Filled == [Started EXCEPT !.rows = @ \o [i \in 1 .. Slots |-> id]]
  IN CASE outcome = "ended" -> UNION {LeaveFile(w, n) : n \in roll_back(k)}
       [] outcome = "torn" \/ (outcome # "ended" /\ ~HasRoom) ->
            UNION {LeaveFile(w, n) : n \in roll_back(Started)}
       [] outcome = "bad" /\ HasRoom -> UNION {CountRecord(w, n) : n \in roll_back(Filled)}
       [] OTHER -> CountRecord(w, [Filled EXCEPT !.batch = Append(@, id)])

\* What the device gets for each sample: its dense part, and the rows found at
\* the places of its rows.
Contents(k) ==
  [i \in 1 .. Len(k.batch) |->
     <<k.batch[i],
       [j \in 1 .. Slots |-> LET n == (i - 1) * Slots + j
                             IN IF n <= Len(k.rows) THEN k.rows[n] ELSE NoRow]>>]

(***************************************************************************)
(* Worker threads                                                          *)
(***************************************************************************)
\* consumer_thread_func_ before its loop.
WaitForStart(w) ==
  /\ worker[w].pc = "created"
  /\ flags.loop \/ flags.end
  /\ worker' = [worker EXCEPT ![w].pc = "top"]
  /\ UNCHANGED <<repeat, buffer, collector, broadcast, reader, flags>>

\* The loop of consumer_thread_func_ and the start of read_a_batch.  An error
\* that read_a_batch does not handle ends the thread.
StartBatch(w) ==
  LET After(k) == CASE k.source.file = Closed -> "eof"
                    [] k.source.file = Failed -> "failed"
                    [] OTHER -> IF CurrentFile(k).dims THEN "batch" ELSE "failed"
  IN /\ worker[w].pc = "top"
     /\ flags.loop /\ ~flags.end
     /\ \E k \in IF IsOpen(worker[w]) THEN {worker[w]} ELSE read_new_file(w, worker[w]) :
          worker' = [worker EXCEPT ![w] =
            [k EXCEPT !.pc = After(k), !.batch = << >>, !.rows = << >>]]
     /\ UNCHANGED <<repeat, buffer, collector, broadcast, reader, flags>>

ExitWorker(w) ==
  /\ worker[w].pc = "top"
  /\ ~flags.loop \/ flags.end
  /\ worker' = [worker EXCEPT ![w].pc = "exit"]
  /\ UNCHANGED <<repeat, buffer, collector, broadcast, reader, flags>>

\* The batch is over when it is full or when there is no file left.  Then the
\* rows of the samples that are missing are added and the last one is closed,
\* which throws if there are more rows than the samples have.
ReadSample(w) ==
  LET After(k) == CASE k.source.file = Failed -> "failed"
                    [] IsOpen(k) /\ Len(k.batch) < BatchSize -> "batch"
                    [] OTHER -> IF Len(k.rows) > Len(k.batch) * Slots THEN "failed" ELSE "h2d"
  IN /\ worker[w].pc = "batch"
     /\ repeat => worker[w].source.counter < MaxOpens
     /\ \E k \in Sample(w, worker[w]) :
          worker' = [worker EXCEPT ![w] = [k EXCEPT !.pc = After(k)]]
     /\ UNCHANGED <<repeat, buffer, collector, broadcast, reader, flags>>

\* Mutant: the end of the files is marked without waiting for the buffer.
wait_until_h2d_readyMutant(w) ==
  /\ worker[w].pc \in {"h2d", "eof"}
  /\ (worker[w].pc = "h2d" => buffer[w].state = "ReadyForWrite")
  /\ buffer' = [buffer EXCEPT ![w].state = "Writing"]
  /\ worker' = [worker EXCEPT ![w].pc = IF @ = "h2d" THEN "copy" ELSE "mark"]
  /\ UNCHANGED <<repeat, collector, broadcast, reader, flags>>

\* wait_until_h2d_ready, with a batch or at the end of the files.
wait_until_h2d_ready(w) ==
  /\ worker[w].pc \in {"h2d", "eof"}
  /\ buffer[w].state = "ReadyForWrite"
  /\ buffer' = [buffer EXCEPT ![w].state = "Writing"]
  /\ worker' = [worker EXCEPT ![w].pc = IF @ = "h2d" THEN "copy" ELSE "mark"]
  /\ UNCHANGED <<repeat, collector, broadcast, reader, flags>>

\* The copy to the device, after which the buffer is handed to the collector.
CopyToDevice(w) ==
  /\ worker[w].pc = "copy"
  /\ buffer' = [buffer EXCEPT ![w] =
                   [state |-> "ReadyForRead", batch |-> Contents(worker[w])]]
  /\ worker' = [worker EXCEPT ![w].pc = "top"]
  /\ UNCHANGED <<repeat, collector, broadcast, reader, flags>>

\* Mutant: is_eof_ is not set.
MarkEofMutant(w) ==
  /\ worker[w].pc = "mark"
  /\ buffer' = [buffer EXCEPT ![w] = [state |-> "ReadyForRead", batch |-> << >>]]
  /\ worker' = [worker EXCEPT ![w].pc = "paused"]
  /\ UNCHANGED <<repeat, collector, broadcast, reader, flags>>

\* The end of the files is handed over as a batch of size zero.
MarkEof(w) ==
  /\ worker[w].pc = "mark"
  /\ buffer' = [buffer EXCEPT ![w] = [state |-> "ReadyForRead", batch |-> << >>]]
  /\ worker' = [worker EXCEPT ![w].pc = "paused", ![w].is_eof = TRUE]
  /\ UNCHANGED <<repeat, collector, broadcast, reader, flags>>

\* The worker waits until set_source has prepared its buffer.
Resume(w) ==
  /\ worker[w].pc = "paused"
  /\ buffer[w].state = "ReadyForWrite"
  /\ worker' = [worker EXCEPT ![w].pc = "top"]
  /\ UNCHANGED <<repeat, buffer, collector, broadcast, reader, flags>>


\* The waits give up when the loop flag has been cleared.
GiveUp(w) ==
  /\ worker[w].pc \in {"h2d", "eof", "paused"}
  /\ buffer[w].state # "ReadyForWrite"
  /\ ~flags.loop
  /\ worker' = [worker EXCEPT ![w].pc = "top"]
  /\ UNCHANGED <<repeat, buffer, collector, broadcast, reader, flags>>

WorkerStep(w) ==
  \/ ReadSample(w) \/ StartBatch(w) \/ wait_until_h2d_ready(w) \/ CopyToDevice(w)
  \/ MarkEof(w) \/ Resume(w) \/ WaitForStart(w) \/ GiveUp(w) \/ ExitWorker(w)

(***************************************************************************)
(* The collector thread (worker_status_ and eof_worker_num_ are one set)   *)
(***************************************************************************)
NextWorker(w) == (w + 1) % NumWorkers

SkipEofWorker ==
  /\ collector.pc = "loop" /\ flags.collect
  /\ collector.counter \in collector.eof
  /\ collector' = [collector EXCEPT !.counter = NextWorker(@)]
  /\ UNCHANGED <<repeat, worker, buffer, broadcast, reader, flags>>

AcquireSource ==
  /\ collector.pc = "loop" /\ flags.collect
  /\ collector.counter \notin collector.eof
  /\ buffer[collector.counter].state = "ReadyForRead"
  /\ buffer' = [buffer EXCEPT ![collector.counter].state = "Reading"]
  /\ UNCHANGED <<repeat, worker, collector, broadcast, reader, flags>>

\* In the iteration that acquired the source or, the destination not being
\* free, in a later one; the flag was tested when the iteration began.
AcquireDestination ==
  /\ collector.pc = "loop"
  /\ buffer[collector.counter].state = "Reading"
  /\ broadcast.state = "ReadyForWrite"
  /\ broadcast' = [broadcast EXCEPT !.state = "Writing"]
  /\ collector' = [collector EXCEPT !.pc = "collect"]
  /\ UNCHANGED <<repeat, worker, buffer, reader, flags>>

\* A batch is copied and its buffer returned to the worker.
Collect ==
  LET c == collector.counter
  IN /\ collector.pc = "collect"
     /\ buffer[c].batch # << >>
     /\ broadcast' = [broadcast EXCEPT !.batch = buffer[c].batch]
     /\ buffer' = [buffer EXCEPT ![c].state = "ReadyForWrite"]
     /\ collector' = [collector EXCEPT !.pc = "publish", !.counter = NextWorker(c)]
     /\ UNCHANGED <<repeat, worker, reader, flags>>

\* A worker is at its end, and others are not: its turn is skipped.
CollectEof ==
  LET c == collector.counter
  IN /\ collector.pc = "collect"
     /\ buffer[c].batch = << >>
     /\ collector.eof \cup {c} # Workers
     /\ buffer' = [buffer EXCEPT ![c].state = "FileEOF"]
     /\ broadcast' = [broadcast EXCEPT !.state = "ReadyForWrite"]
     /\ collector' = [pc |-> "loop", counter |-> NextWorker(c), eof |-> collector.eof \cup {c}]
     /\ UNCHANGED <<repeat, worker, reader, flags>>


\* The last worker is at its end: the reader is told by a batch of size zero.
CollectLastEof ==
  LET c == collector.counter
  IN /\ collector.pc = "collect"
     /\ buffer[c].batch = << >>
     /\ collector.eof \cup {c} = Workers
     /\ buffer' = [buffer EXCEPT ![c].state = "FileEOF"]
     /\ broadcast' = [broadcast EXCEPT !.batch = << >>]
     /\ collector' = [pc |-> "publish", counter |-> 0, eof |-> {}]
     /\ UNCHANGED <<repeat, worker, reader, flags>>

Publish ==
  /\ collector.pc = "publish"
  /\ broadcast' = [broadcast EXCEPT !.state = "ReadyForRead"]
  /\ collector' = [collector EXCEPT !.pc = "loop"]
  /\ UNCHANGED <<repeat, worker, buffer, reader, flags>>

StopCollector ==
  /\ collector.pc = "loop" /\ ~flags.collect
  /\ collector' = [collector EXCEPT !.pc = "exit"]
  /\ UNCHANGED <<repeat, worker, buffer, broadcast, reader, flags>>

CollectorStep ==
  \/ SkipEofWorker \/ AcquireSource \/ AcquireDestination \/ Collect
  \/ CollectEof \/ CollectLastEof \/ Publish \/ StopCollector

(***************************************************************************)
(* The training thread                                                     *)
(***************************************************************************)
\* set_source of the workers, in order; the first that is not at its end
\* throws, when those before it have got the new source.
set_source(l) ==
  LET e == reader.epoch + 1
      Refusing == {w \in Workers : ~worker[w].is_eof}
  IN /\ reader.pc = "eof" /\ e <= MaxEpochs
     /\ worker' = [w \in Workers |->
          IF \E v \in Refusing : v <= w THEN worker[w]
          ELSE [worker[w] EXCEPT !.source = Source(l, e, repeat)]]
     /\ reader' = IF Refusing # {} THEN [reader EXCEPT !.pc = "refused"]
                  ELSE [pc |-> "post", list |-> l, epoch |-> e, next |-> 0, delivered |-> << >>]
     /\ UNCHANGED <<repeat, buffer, collector, broadcast, flags>>

\* post_set_source of a worker; after the last one the threads are started.
post_set_source ==
  LET w == reader.next
      AtLast == w + 1 = NumWorkers
  IN /\ reader.pc = "post"
     /\ worker' = [worker EXCEPT ![w].is_eof = FALSE]
     /\ buffer' = [buffer EXCEPT ![w].state = "ReadyForWrite"]
     /\ reader' = [reader EXCEPT !.next = w + 1, !.pc = IF AtLast THEN "idle" ELSE "post"]
     /\ flags' = [flags EXCEPT !.loop = @ \/ AtLast]
     /\ UNCHANGED <<repeat, collector, broadcast>>

CallRead ==
  /\ reader.pc = "idle"
  /\ repeat => Len(reader.delivered) < MaxReads
  /\ reader' = [reader EXCEPT !.pc = "read"]
  /\ UNCHANGED <<repeat, worker, buffer, collector, broadcast, flags>>

\* read_a_batch_to_device waits for the broadcast buffer,
AcquireBatch ==
  /\ reader.pc = "read"
  /\ broadcast.state = "ReadyForRead"
  /\ broadcast' = [broadcast EXCEPT !.state = "Reading"]
  /\ reader' = [reader EXCEPT !.pc = "copy"]
  /\ UNCHANGED <<repeat, worker, buffer, collector, flags>>

\* and copies the batch; the buffer of an empty one is released at once.
read_a_batch_to_device ==
  LET b == broadcast.batch
  IN /\ reader.pc = "copy"
     /\ IF b # << >>
        THEN /\ reader' = [reader EXCEPT !.pc = "got", !.delivered = Append(@, b)]
             /\ UNCHANGED broadcast
        ELSE /\ reader' = [reader EXCEPT !.pc = "over"]
             /\ broadcast' = [broadcast EXCEPT !.state = "ReadyForWrite"]
     /\ UNCHANGED <<repeat, worker, buffer, collector, flags>>

\* ready_to_collect, which also follows an empty batch.
finalize_batch ==
  /\ reader.pc \in {"got", "over"}
  /\ broadcast' = [broadcast EXCEPT !.state = "ReadyForWrite"]
  /\ reader' = [reader EXCEPT !.pc = IF @ = "got" THEN "idle" ELSE "eof"]
  /\ UNCHANGED <<repeat, worker, buffer, collector, flags>>

\* The destructor stops the collector and ends the worker group,
Destroy ==
  /\ reader.pc \in {"idle", "eof", "refused"}
  /\ reader' = [reader EXCEPT !.pc = "end"]
  /\ flags' = [loop |-> TRUE, end |-> TRUE, collect |-> FALSE]
  /\ UNCHANGED <<repeat, worker, buffer, collector, broadcast>>

\* joins the collector and clears the loop flag of the workers,
JoinCollector ==
  /\ reader.pc = "end" /\ collector.pc = "exit"
  /\ reader' = [reader EXCEPT !.pc = "join"]
  /\ flags' = [flags EXCEPT !.loop = FALSE]
  /\ UNCHANGED <<repeat, worker, buffer, collector, broadcast>>

\* and joins the workers.
JoinWorkers ==
  /\ reader.pc = "join" /\ \A w \in Workers : worker[w].pc \in {"exit", "failed"}
  /\ reader' = [reader EXCEPT !.pc = "destroyed"]
  /\ UNCHANGED <<repeat, worker, buffer, collector, broadcast, flags>>

\* What the training thread does once it has been called.
ReaderStep ==
  \/ AcquireBatch \/ read_a_batch_to_device \/ finalize_batch \/ post_set_source
  \/ JoinCollector \/ JoinWorkers

ThreadStep == (\E w \in Workers : WorkerStep(w)) \/ CollectorStep \/ ReaderStep

Next == ThreadStep \/ CallRead \/ Destroy \/ \E l \in Lists : set_source(l)

Spec == Init /\ [][Next]_vars

\* Some thread takes a step while one can; nobody has to call.  The waits that
\* spin are guards here, so that every step is progress, and fairness of each
\* thread is not needed.
FairSpec == Spec /\ WF_vars(ThreadStep)

(***************************************************************************)
(* Properties                                                              *)
(***************************************************************************)
States == {"FileEOF", "Reading", "ReadyForRead", "Writing", "ReadyForWrite"}

TypeOK ==
  /\ repeat \in BOOLEAN
  /\ DOMAIN worker = Workers /\ DOMAIN buffer = Workers
  /\ \A w \in Workers :
       /\ DOMAIN worker[w] = {"pc", "source", "read", "index", "batch", "rows", "check",
                              "is_eof"}
       /\ worker[w].pc \in {"created", "top", "batch", "h2d", "copy", "eof", "mark",
                            "paused", "exit", "failed"}
       /\ worker[w].is_eof \in BOOLEAN
       /\ DOMAIN buffer[w] = {"state", "batch"} /\ buffer[w].state \in States
  /\ collector \in [pc : {"loop", "collect", "publish", "exit"},
                     counter : Workers, eof : SUBSET Workers]
  /\ DOMAIN broadcast = {"state", "batch"} /\ broadcast.state \in States
  /\ DOMAIN reader = {"pc", "list", "epoch", "next", "delivered"}
  /\ reader.pc \in {"idle", "read", "copy", "got", "over", "eof", "post", "refused",
                    "end", "join", "destroyed"}
  /\ reader.epoch \in Nat /\ reader.next \in Nat
  /\ reader.pc = "post" => reader.next \in Workers
  /\ flags \in [loop : BOOLEAN, end : BOOLEAN, collect : BOOLEAN]

\* No worker has begun: in epoch mode the first source is still to be set.
NotStarted ==
  /\ ~flags.loop /\ collector.eof = {}
  /\ \A w \in Workers : buffer[w].state = "ReadyForWrite" /\ worker[w].pc = "created"

\* Every worker has announced its end and the collector has taken note of it.
AllAtEof == collector.eof = {} /\ \A w \in Workers : buffer[w].state = "FileEOF"

\* The batch of size zero is on its way to the reader.
EofInBroadcast ==
  /\ broadcast.batch = << >>
  /\ collector.pc = "publish" \/ broadcast.state \in {"ReadyForRead", "Reading"}

\* A thread buffer belongs to its worker while it is written and to the
\* collector while it is read.
ThreadBuffersOwned ==
  \A w \in Workers :
    /\ buffer[w].state = "Writing" <=> worker[w].pc \in {"copy", "mark"}
    /\ buffer[w].state = "Reading" => w = collector.counter /\ collector.pc # "publish"
    /\ w \in collector.eof => buffer[w].state = "FileEOF"
    /\ worker[w].pc = "paused" /\ worker[w].is_eof =>
         \/ buffer[w].state = "FileEOF"
         \/ buffer[w].state \in {"ReadyForRead", "Reading"} /\ buffer[w].batch = << >>

\* The broadcast buffer belongs to the collector while it is written and to the
\* training thread while it is read.
BroadcastOwned ==
  /\ collector.pc = "collect" => buffer[collector.counter].state = "Reading"
  /\ broadcast.state = "Writing" <=> collector.pc \in {"collect", "publish"}
  /\ broadcast.state = "Reading" <=> reader.pc \in {"copy", "got"}
  /\ reader.pc = "got" => broadcast.batch # << >>

\* From the end of an epoch to the next source all buffers rest.
EpochEnded ==
  /\ EofInBroadcast =>
       AllAtEof /\ reader.pc \in {"idle", "read", "copy", "end", "join", "destroyed"}
  /\ reader.pc \in {"over", "eof", "refused"} =>
       /\ broadcast.state = "ReadyForWrite" /\ collector.pc \in {"loop", "exit"}
       /\ AllAtEof \/ NotStarted

\* The workers that set_source has not reached yet still rest.
SourceSet ==
  /\ reader.pc = "post" =>
       \A w \in Workers : w >= reader.next =>
         /\ w \notin collector.eof
         /\ \/ buffer[w].state = "FileEOF"
            \/ buffer[w].state = "ReadyForWrite" /\ worker[w].pc = "created" /\ ~flags.loop
  /\ flags.end => reader.pc \in {"end", "join", "destroyed"}

\* Each buffer has one owner, the one its state names: the assertions of
\* read_a_batch (data_reader_worker.cpp:126, 273) and of the collector
\* (data_collector.cpp:55) hold, and nobody writes a buffer that another one
\* reads.  The reader is told of the end when every worker has announced its
\* own, and from then until the next source is set all buffers rest, so that
\* the second release of the broadcast buffer (data_collector.cpp:209) and the
\* stores of post_set_source meet no owner.
IInv == TypeOK /\ ThreadBuffersOwned /\ BroadcastOwned /\ EpochEnded /\ SourceSet

=============================================================================
