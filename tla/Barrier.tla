------------------------------ MODULE Barrier ------------------------------
(***************************************************************************)
(* What GPUBarrier promises: a kernel that arrived at the barrier for the  *)
(* n-th time leaves it after the kernels of all GPUs have arrived n times. *)
(***************************************************************************)
EXTENDS Naturals

CONSTANT GPUs

VARIABLES
  arrived,   \* how often a kernel of a GPU has arrived
  inside     \* the GPUs whose kernel has arrived and not left

vars == <<arrived, inside>>

Init ==
  /\ arrived = [g \in GPUs |-> 0]
  /\ inside = {}

Arrive(g) ==
  /\ g \notin inside
  /\ arrived' = [arrived EXCEPT ![g] = @ + 1]
  /\ inside' = inside \cup {g}

Leave(g) ==
  /\ g \in inside
  /\ \A h \in GPUs : arrived[h] >= arrived[g]
  /\ inside' = inside \ {g}
  /\ UNCHANGED arrived

Next == \E g \in GPUs : Arrive(g) \/ Leave(g)

Spec == Init /\ [][Next]_vars
=============================================================================
