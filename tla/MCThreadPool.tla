---------------------------- MODULE MCThreadPool ----------------------------
(* ThreadPool with two workers, two callers and three tasks. *)
EXTENDS ThreadPool
=============================================================================
