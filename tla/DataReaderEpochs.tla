-------------------------- MODULE DataReaderEpochs --------------------------
(***************************************************************************)
(* What an epoch of the data reader should deliver, read off the list of   *)
(* files alone, and the properties that compare it with what the threads   *)
(* of DataReader deliver.                                                  *)
(***************************************************************************)
EXTENDS DataReader, SequencesExt

\* The file ends, between two records, before the number its header declares.
EndsEarly(f) ==
  /\ f.kind = "ok"
  /\ \/ f.records = 0
     \/ Len(f.content) < f.records /\ \A i \in DOMAIN f.content : f.content[i] # "torn"

\* The usable files of worker w's share, in their order.  With repeat they come
\* again without end: as many as may be opened.
ShareOf(w) ==
  LET s == Source(reader.list, reader.epoch, repeat)
      IsUsable(k) == HasFile(s, k) /\ FileAt(s, k).kind = "ok"
  IN SelectSeq([c \in 1 .. MaxOpens |-> FileId(w, c - 1)], IsUsable)

FileOf(k) == FileAt(Source(reader.list, reader.epoch, repeat), k)

\* The intact records of its files.
Held(w) ==
  LET Intact(k) == SelectSeq([r \in 1 .. Len(FileOf(k).content) |-> <<reader.epoch, k, r>>],
                             LAMBDA t : FileOf(k).content[t[3]] = "ok")
      share == ShareOf(w)
  IN FlattenSeq([i \in 1 .. Len(share) |-> Intact(share[i])])

\* What read_a_batch may lose: it counts a record of the file that follows a
\* torn one without having read it (data_reader_worker.cpp:225), and so does not
\* come to the last one.
MayMiss(w) ==
  LET share == ShareOf(w)
  IN {<<reader.epoch, share[i], FileOf(share[i]).records>> : i \in
        {n \in 2 .. Len(share) : \E r \in DOMAIN FileOf(share[n - 1]).content :
                                   FileOf(share[n - 1]).content[r] = "torn"}}

\* What has been delivered of worker w's share.
WorkerOf(t) == t[2] % NumWorkers
From(w) ==
  SelectSeq([i \in 1 .. Len(FlattenSeq(reader.delivered)) |-> FlattenSeq(reader.delivered)[i][1]],
            LAMBDA t : WorkerOf(t) = w)

\* All that had to come has come.
Complete(w) == ToSet(Held(w)) \ ToSet(From(w)) \subseteq MayMiss(w)

\* The records come in the order of the files, and none is left out.
InOrder(w) ==
  LET held == Held(w)
      from == From(w)
      Upto(p) == SubSeq(held, 1, p)
  IN \/ from = << >>
     \/ \E p \in DOMAIN held :
          /\ from = SelectSeq(Upto(p), LAMBDA t : t \in ToSet(from))
          /\ ToSet(Upto(p)) \ ToSet(from) \subseteq MayMiss(w)

\* Worker w is passed over only when it is at its end, and only its last batch
\* is not full.
InTurn ==
  LET d == reader.delivered
      Whose(i) == WorkerOf(d[i][1][1])
      Round(i) == Cardinality({j \in 1 .. i : Whose(j) = Whose(i)})
      Batches(w) == Cardinality({i \in DOMAIN d : Whose(i) = w})
      Before(m, v, n, w) == m < n \/ (m = n /\ v < w)
  IN \A i \in DOMAIN d :
       /\ i > 1 => Before(Round(i - 1), Whose(i - 1), Round(i), Whose(i))
       /\ \A w \in Workers : Before(Batches(w) + 1, w, Round(i), Whose(i)) => Complete(w)
       /\ \A j \in DOMAIN d[i] : WorkerOf(d[i][j][1]) = Whose(i)
       /\ Len(d[i]) < BatchSize => Round(i) = Batches(Whose(i)) /\ Complete(Whose(i))


\* The damaged records of worker w's share behind the last one delivered.
DamagedTail(w) ==
  LET last == IF From(w) = << >> THEN NoRow ELSE Last(From(w))
      share == ToSet(ShareOf(w))
  IN {t \in share \X (1 .. Max({1} \cup {FileOf(k).records : k \in share})) :
        /\ t[2] <= Max({1, FileOf(t[1]).records}) /\ Outcome(FileOf(t[1]), t[2]) # "ok"
        /\ t[1] > last[2] \/ (t[1] = last[2] /\ t[2] > last[3])}

\* When the reader has been told that the epoch is over, every worker is in the
\* EOF state that set_source demands (data_reader_worker_interface.hpp:32),
\* unless its share ends in damaged records at the boundary of a batch: such a
\* worker may have announced its end by an ordinary batch without samples, and
\* refuses the next source.
SetSourceAccepted ==
  reader.pc = "eof" /\ reader.epoch > 0 =>
    \A w \in Workers :
      worker[w].is_eof \/ (Len(From(w)) % BatchSize = 0 /\ DamagedTail(w) # {})

\* The lists, with and without repeat, on which no worker thread can fail.
Readable ==
  {<<l, r>> \in Lists \X Repeats :
     /\ \A k \in 1 .. Len(l) : l[k].kind = "ok" => l[k].dims /\ ~EndsEarly(l[k])
     /\ \A w \in Workers, c \in 0 .. Len(l) : \E n \in c .. c + MaxTry - 1 :
          LET s == Source(l, 0, r)
          IN HasFile(s, FileId(w, n)) => FileAt(s, FileId(w, n)).kind = "ok"}

\* A read returns, although it spins on a buffer that two other kinds of threads
\* have to fill, as long as no file ends early and the tries to open one suffice.
\* The destructor joins all threads wherever they wait, and whatever the files,
\* without repeat.
CallsReturn ==
  /\ (reader.pc = "read" /\ <<reader.list, repeat>> \in Readable) ~> (reader.pc \in {"idle", "eof"})
  /\ (reader.pc = "end" /\ (repeat => <<reader.list, repeat>> \in Readable))
       ~> (reader.pc = "destroyed")

=============================================================================
