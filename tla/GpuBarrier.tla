----------------------------- MODULE GpuBarrier -----------------------------
(***************************************************************************)
(* The kernel sync_all_gpus_func, with one thread per GPU.  Thread t of    *)
(* GPU g writes the flag of g at GPU t and spins on the flag of t at GPU   *)
(* g.  Flags are never reset: a kernel takes its round from its own flag.  *)
(*                                                                         *)
(* All threads of a kernel that synchronise are in one warp (num_gpus is   *)
(* at most 32) and read their own flag together, before one of them writes *)
(* it.                                                                     *)
(***************************************************************************)
EXTENDS Naturals

CONSTANT GPUs   \* the GPUs of the process

VARIABLES
  barrier_flags,  \* d_barrier_flags_: barrier_flags[g][h] is in the memory of g, written by h
  inside,         \* the GPUs whose kernel runs
  count,          \* count of the kernel of a GPU
  wrote,          \* the threads of the kernel that have written their flag
  passed          \* the threads that wait in __syncthreads

kernel_vars == <<barrier_flags, inside, count, wrote, passed>>

KernelInit ==
  /\ barrier_flags = [g \in GPUs |-> [h \in GPUs |-> 0]]
  /\ inside = {}
  /\ count = [g \in GPUs |-> 0]
  /\ wrote = [g \in GPUs |-> {}]
  /\ passed = [g \in GPUs |-> {}]

\* The stream starts the kernel, whose threads read count.
Enter(g) ==
  /\ g \notin inside
  /\ inside' = inside \cup {g}
  /\ count' = [count EXCEPT ![g] = barrier_flags[g][g]]
  /\ wrote' = [wrote EXCEPT ![g] = {}]
  /\ passed' = [passed EXCEPT ![g] = {}]
  /\ UNCHANGED barrier_flags

WriteFlag(g, t) ==
  /\ g \in inside /\ t \notin wrote[g]
  /\ barrier_flags' = [barrier_flags EXCEPT ![t][g] = count[g] + 1]
  /\ wrote' = [wrote EXCEPT ![g] = @ \cup {t}]
  /\ UNCHANGED <<inside, count, passed>>

\* The loop of thread t ends.
Pass(g, t) ==
  /\ g \in inside /\ t \in wrote[g] /\ t \notin passed[g]
  /\ barrier_flags[g][t] >= count[g] + 1
  /\ passed' = [passed EXCEPT ![g] = @ \cup {t}]
  /\ UNCHANGED <<barrier_flags, inside, count, wrote>>

\* __syncthreads
Leave(g) ==
  /\ g \in inside /\ passed[g] = GPUs
  /\ inside' = inside \ {g}
  /\ UNCHANGED <<barrier_flags, count, wrote, passed>>

KernelNext == \E g \in GPUs : Enter(g) \/ Leave(g) \/ \E t \in GPUs : WriteFlag(g, t) \/ Pass(g, t)

KernelSpec == KernelInit /\ [][KernelNext]_kernel_vars

-----------------------------------------------------------------------------
KernelTypeOK ==
  /\ barrier_flags \in [GPUs -> [GPUs -> Nat]]
  /\ inside \subseteq GPUs
  /\ count \in [GPUs -> Nat]
  /\ wrote \in [GPUs -> SUBSET GPUs]
  /\ passed \in [GPUs -> SUBSET GPUs]

\* How often a kernel of a GPU has arrived
arrived == [g \in GPUs |-> IF g \in inside THEN count[g] + 1 ELSE barrier_flags[g][g]]

\* The flags a GPU writes differ by its current round at most: outside the
\* kernel they are all equal, inside those of the threads that have written
\* are ahead by one.  A thread that has passed has seen the arrival of its GPU.
KernelIInv ==
  /\ KernelTypeOK
  /\ \A g, h \in GPUs :
       /\ g \notin inside => barrier_flags[h][g] = barrier_flags[g][g]
       /\ g \in inside => barrier_flags[h][g] = IF h \in wrote[g] THEN count[g] + 1 ELSE count[g]
       /\ g \in inside /\ h \in passed[g] => h \in wrote[g] /\ barrier_flags[g][h] >= count[g] + 1

\* No GPU is more than one round ahead of another, so a flag is never written
\* over with a later round while its reader still waits for an earlier one
\* than the one before.
OneRoundApart == \A g, h \in GPUs : arrived[g] <= arrived[h] + 1

\* The kernel is a barrier.
Abstract == INSTANCE Barrier
BarrierSpec == Abstract!Spec
=============================================================================
