---------------------------- MODULE MCDataReader ----------------------------
EXTENDS DataReaderEpochs

\* A file whose header declares n records, of which c can be read.
Declaring(n, c) == [kind |-> "ok", dims |-> TRUE, records |-> n, content |-> c]
Whole(n) == Declaring(n, [i \in 1 .. n |-> "ok"])
Unusable(kind) == [kind |-> kind, dims |-> TRUE, records |-> 0, content |-> << >>]

\* Shares of different lengths, with a missing file; a torn file and one with a
\* wrong header, both with a successor; a share that ends in a damaged record
\* after a full batch; files that end early in the middle of a batch, between
\* two batches and before the first record; other dimensions; more files that
\* cannot be opened than are tried.
MCLists ==
  {<<Whole(3), Whole(1), Declaring(2, <<"bad", "ok">>), Unusable("missing")>>,
   <<Declaring(3, <<"ok", "torn">>), Whole(2), Whole(3), Whole(2), Unusable("header"), Whole(1)>>,
   <<Declaring(3, <<"ok", "ok", "bad">>), Whole(1)>>,
   <<Declaring(2, <<"ok">>), Declaring(3, <<"ok", "ok">>), Whole(2), Whole(1)>>,
   <<Declaring(1, << >>), Whole(1), Whole(1), [Whole(1) EXCEPT !.dims = FALSE]>>,
   <<Whole(1), Unusable("missing"), Whole(1), Unusable("missing"), Whole(1), Whole(1)>>}
=============================================================================
