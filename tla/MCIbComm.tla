----------------------------- MODULE MCIbComm -----------------------------
(***************************************************************************)
(* Two processes with two GPUs each.  In two iterations every buffer,      *)
(* counter and barrier is used again; in three the GPUs can get as far     *)
(* ahead of a proxy as its assertion forbids.                              *)
(***************************************************************************)
EXTENDS IbComm

MCJobs ==
  {<<"train", "train", "train">>, <<"eval", "train", "eval">>, <<"eval", "eval", "eval">>}
=============================================================================
