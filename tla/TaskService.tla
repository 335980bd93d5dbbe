----------------------------- MODULE TaskService -----------------------------
(***************************************************************************)
(* What ThreadPool promises to the code that submits work: a task handed   *)
(* to submit is executed at most once, its future becomes ready exactly    *)
(* once, and the only tasks that are dropped (their future reports a       *)
(* broken promise) are those still queued when the pool is destroyed.      *)
(***************************************************************************)
CONSTANT Tasks

VARIABLES future,    \* state of the std::future returned by submit
          destroyed  \* the service is gone

FutureStates == {"none", "pending", "value", "exception", "broken"}

Init == /\ future = [k \in Tasks |-> "none"]
        /\ destroyed = FALSE

Submit(k) == /\ ~destroyed
             /\ future[k] = "none"
             /\ future' = [future EXCEPT ![k] = "pending"]
             /\ UNCHANGED destroyed

Complete(k) == /\ ~destroyed
               /\ future[k] = "pending"
               /\ \E r \in {"value", "exception"} : future' = [future EXCEPT ![k] = r]
               /\ UNCHANGED destroyed

Destroy == /\ ~destroyed
           /\ destroyed' = TRUE
           /\ future' = [k \in Tasks |-> IF future[k] = "pending" THEN "broken" ELSE future[k]]

Next == Destroy \/ \E k \in Tasks : Submit(k) \/ Complete(k)

Spec == Init /\ [][Next]_<<future, destroyed>>
==============================================================================
