------------------------------ MODULE ThreadPool ------------------------------
(***************************************************************************)
(* HugeCTR::ThreadPool (src/thread_pool.cpp, include/thread_pool.hpp).     *)
(*                                                                         *)
(* Every critical section of barrier_ is one step.  A condition variable   *)
(* splits a critical section: a thread that waits gives up barrier_ and    *)
(* continues with a step of its own once it was notified (or woke up       *)
(* spuriously, which std::condition_variable allows).  submit notifies     *)
(* after it has released barrier_, so its notification is a separate step. *)
(***************************************************************************)
EXTENDS Naturals, Sequences, FiniteSets

CONSTANTS Workers,   \* the threads of workers_
          Callers,   \* threads that use the pool
          Owner,     \* the caller that constructs and destroys it
          Tasks,     \* everything that is ever submitted
          NoTask     \* a value that is no task

ASSUME PoolAssumption == /\ IsFiniteSet(Workers)
                         /\ Workers # {}
                         /\ Owner \in Callers
                         /\ NoTask \notin Tasks

VARIABLES terminate,         \* terminate_
          num_idle_workers,  \* num_idle_workers_
          packages,          \* packages_
          worker,            \* where each worker is in run_
          running,           \* the package a worker executes
          caller,            \* where each caller is
          target,            \* the task whose future a caller awaits
          future,            \* state of the future of each task
          lifetime           \* of the pool object

vars == <<terminate, num_idle_workers, packages, worker, running,
          caller, target, future, lifetime>>
pool == <<terminate, num_idle_workers, packages>>
callers == <<caller, target>>

FutureStates == {"none", "pending", "value", "exception", "broken"}

TypeOK ==
  /\ terminate \in BOOLEAN
  /\ num_idle_workers \in Nat
  /\ packages \in Seq(Tasks)
  /\ worker \in [Workers -> {"acquire", "wait", "woken", "run", "exited"}]
  /\ running \in [Workers -> Tasks \cup {NoTask}]
  /\ caller \in [Callers -> {"ready", "notify", "idle_check", "idle_wait", "get", "join"}]
  /\ target \in [Callers -> Tasks \cup {NoTask}]
  /\ future \in [Tasks -> FutureStates]
  /\ lifetime \in {"constructing", "alive", "joining", "destroyed"}

(* The constructor has started the workers and calls await_idle. *)
Init ==
  /\ terminate = FALSE
  /\ num_idle_workers = 0
  /\ packages = <<>>
  /\ worker = [w \in Workers |-> "acquire"]
  /\ running = [w \in Workers |-> NoTask]
  /\ caller = [c \in Callers |-> IF c = Owner THEN "idle_check" ELSE "ready"]
  /\ target = [c \in Callers |-> NoTask]
  /\ future = [k \in Tasks |-> "none"]
  /\ lifetime = "constructing"

-------------------------------------------------------------------------------
(* The workers: run_. *)

(* Faulty variants of some of the definitions are kept next to the         *)
(* definitions (their names end in Mutant): the properties tell them apart. *)
IdleMutant == num_idle_workers = Cardinality(Workers)

Idle == num_idle_workers = Cardinality(Workers) /\ packages = <<>>

NotifyIdle == caller' = [c \in Callers |->
                           IF caller[c] = "idle_wait" THEN "idle_check" ELSE caller[c]]

Exit(w) == /\ worker' = [worker EXCEPT ![w] = "exited"]
           /\ UNCHANGED <<terminate, packages, running, callers, future, lifetime>>

GoIdleMutant(w, idle) ==
  /\ num_idle_workers' = idle
  /\ NotifyIdle
  /\ worker' = [worker EXCEPT ![w] = "wait"]
  /\ UNCHANGED <<terminate, packages, running, target, future, lifetime>>

GoIdle(w, idle) ==
  /\ num_idle_workers' = idle + 1
  /\ NotifyIdle
  /\ worker' = [worker EXCEPT ![w] = "wait"]
  /\ UNCHANGED <<terminate, packages, running, target, future, lifetime>>

TakePackageMutant(w, idle) ==
  /\ num_idle_workers' = idle
  /\ packages' = packages
  /\ running' = [running EXCEPT ![w] = Head(packages)]
  /\ worker' = [worker EXCEPT ![w] = "run"]
  /\ UNCHANGED <<terminate, callers, future, lifetime>>

TakePackage(w, idle) ==
  /\ num_idle_workers' = idle
  /\ packages' = Tail(packages)
  /\ running' = [running EXCEPT ![w] = Head(packages)]
  /\ worker' = [worker EXCEPT ![w] = "run"]
  /\ UNCHANGED <<terminate, callers, future, lifetime>>

(* The head of the outer loop: barrier_ is acquired. *)
Acquire(w) ==
  /\ worker[w] = "acquire"
  /\ \/ terminate /\ Exit(w) /\ UNCHANGED num_idle_workers
     \/ ~terminate /\ packages = <<>> /\ GoIdle(w, num_idle_workers)
     \/ ~terminate /\ packages # <<>> /\ TakePackage(w, num_idle_workers)

(* submit_sempahore_.wait returns, barrier_ is held again. *)
WakeUp(w) ==
  /\ worker[w] = "woken"
  /\ LET idle == num_idle_workers - 1
     IN  \/ terminate /\ Exit(w) /\ num_idle_workers' = idle
         \/ ~terminate /\ packages = <<>> /\ GoIdle(w, idle)
         \/ ~terminate /\ packages # <<>> /\ TakePackage(w, idle)

SpuriousWakeUp(w) ==
  /\ worker[w] = "wait"
  /\ worker' = [worker EXCEPT ![w] = "woken"]
  /\ UNCHANGED <<pool, running, callers, future, lifetime>>

(* package(): the task returns or throws, its future becomes ready. *)
Execute(w) ==
  /\ worker[w] = "run"
  /\ \E r \in {"value", "exception"} : future' = [future EXCEPT ![running[w]] = r]
  /\ running' = [running EXCEPT ![w] = NoTask]
  /\ worker' = [worker EXCEPT ![w] = "acquire"]
  /\ UNCHANGED <<pool, callers, lifetime>>

-------------------------------------------------------------------------------
(* The callers.  submit and await_idle throw on a terminated pool and       *)
(* change nothing; those calls are stuttering steps.                       *)

Submit(c, k) ==
  /\ caller[c] = "ready" /\ lifetime = "alive"
  /\ ~terminate
  /\ future[k] = "none"
  /\ packages' = Append(packages, k)
  /\ future' = [future EXCEPT ![k] = "pending"]
  /\ caller' = [caller EXCEPT ![c] = "notify"]
  /\ UNCHANGED <<terminate, num_idle_workers, worker, running, target, lifetime>>

NotifyOneMutant(c) ==
  /\ caller[c] = "notify"
  /\ caller' = [caller EXCEPT ![c] = "ready"]
  /\ UNCHANGED <<pool, worker, running, target, future, lifetime>>

NotifyOne(c) ==
  /\ caller[c] = "notify"
  /\ caller' = [caller EXCEPT ![c] = "ready"]
  /\ \/ \E w \in Workers : worker[w] = "wait" /\ worker' = [worker EXCEPT ![w] = "woken"]
     \/ (\A w \in Workers : worker[w] # "wait") /\ UNCHANGED worker
  /\ UNCHANGED <<pool, running, target, future, lifetime>>

AwaitIdle(c) ==
  /\ caller[c] = "ready" /\ lifetime = "alive"
  /\ caller' = [caller EXCEPT ![c] = "idle_check"]
  /\ UNCHANGED <<pool, worker, running, target, future, lifetime>>

AwaitIdleReturns(c) ==
  /\ caller[c] = "idle_check"
  /\ Idle
  /\ caller' = [caller EXCEPT ![c] = "ready"]
  /\ lifetime' = IF lifetime = "constructing" THEN "alive" ELSE lifetime
  /\ UNCHANGED <<pool, worker, running, target, future>>

AwaitIdleWaits(c) ==
  /\ caller[c] = "idle_check"
  /\ ~Idle /\ ~terminate
  /\ caller' = [caller EXCEPT ![c] = "idle_wait"]
  /\ UNCHANGED <<pool, worker, running, target, future, lifetime>>

SpuriousIdleWakeUp(c) ==
  /\ caller[c] = "idle_wait"
  /\ caller' = [caller EXCEPT ![c] = "idle_check"]
  /\ UNCHANGED <<pool, worker, running, target, future, lifetime>>

(* await: future.get() blocks until the future is ready. *)
Await(c, k) ==
  /\ caller[c] = "ready"
  /\ future[k] # "none"
  /\ caller' = [caller EXCEPT ![c] = "get"]
  /\ target' = [target EXCEPT ![c] = k]
  /\ UNCHANGED <<pool, worker, running, future, lifetime>>

AwaitReturns(c) ==
  /\ caller[c] = "get"
  /\ future[target[c]] \in {"value", "exception", "broken"}
  /\ caller' = [caller EXCEPT ![c] = "ready"]
  /\ target' = [target EXCEPT ![c] = NoTask]
  /\ UNCHANGED <<pool, worker, running, future, lifetime>>

JoinMutant ==
  /\ caller[Owner] = "join"
  /\ \A w \in Workers : worker[w] = "exited"
  /\ lifetime' = "destroyed"
  /\ caller' = [caller EXCEPT ![Owner] = "ready"]
  /\ packages' = <<>>
  /\ UNCHANGED <<terminate, num_idle_workers, worker, running, target, future>>

(* The destructor, entered while nobody is inside a call of the pool. *)
Destroy ==
  /\ lifetime = "alive"
  /\ caller[Owner] = "ready"
  /\ \A c \in Callers : caller[c] \in {"ready", "get"}
  /\ terminate' = TRUE
  /\ lifetime' = "joining"
  /\ caller' = [caller EXCEPT ![Owner] = "join"]
  /\ worker' = [w \in Workers |-> IF worker[w] = "wait" THEN "woken" ELSE worker[w]]
  /\ UNCHANGED <<num_idle_workers, packages, running, target, future>>

(* All workers joined; the members are destroyed, and with packages_ the   *)
(* promises of the tasks that are still queued.                            *)
Join ==
  /\ caller[Owner] = "join"
  /\ \A w \in Workers : worker[w] = "exited"
  /\ lifetime' = "destroyed"
  /\ caller' = [caller EXCEPT ![Owner] = "ready"]
  /\ packages' = <<>>
  /\ future' = [k \in Tasks |-> IF \E i \in DOMAIN packages : packages[i] = k
                                THEN "broken" ELSE future[k]]
  /\ UNCHANGED <<terminate, num_idle_workers, worker, running, target>>

(* The pool is gone and nobody waits for one of its futures. *)
Gone ==
  /\ lifetime = "destroyed"
  /\ \A c \in Callers : caller[c] = "ready"
  /\ UNCHANGED vars

WorkerStep(w) == Acquire(w) \/ WakeUp(w) \/ Execute(w)

CallerStep(c) == \/ NotifyOne(c)
                 \/ AwaitIdleReturns(c) \/ AwaitIdleWaits(c)
                 \/ AwaitReturns(c)

Call(c) == AwaitIdle(c) \/ \E k \in Tasks : Submit(c, k) \/ Await(c, k)

Next == \/ \E w \in Workers : WorkerStep(w) \/ SpuriousWakeUp(w)
        \/ \E c \in Callers : Call(c) \/ CallerStep(c) \/ SpuriousIdleWakeUp(c)
        \/ Destroy \/ Join \/ Gone

Spec == Init /\ [][Next]_vars

(* Threads that can run are scheduled; nobody is obliged to call, to       *)
(* destroy the pool or to wake up spuriously.                              *)
Fairness == /\ \A w \in Workers : WF_vars(WorkerStep(w))
            /\ \A c \in Callers : WF_vars(CallerStep(c))
            /\ WF_vars(Join)

FairSpec == Spec /\ Fairness

-------------------------------------------------------------------------------
Queued(k) == {i \in DOMAIN packages : packages[i] = k}
Holders(k) == {w \in Workers : running[w] = k}

(* Every task whose future is not ready is either queued, once, or in the  *)
(* hands of exactly one worker: submit and run_ neither lose a package nor *)
(* hand it out twice, and none of them is executed after it has completed. *)
ExactlyOnce ==
  \A k \in Tasks :
    /\ future[k] = "pending" <=> Queued(k) # {} \/ Holders(k) # {}
    /\ Queued(k) = {} \/ Holders(k) = {}
    /\ \A i, j \in Queued(k) : i = j
    /\ \A v, w \in Holders(k) : v = w

(* The counter that await_idle trusts: num_idle_workers_ is the number of  *)
(* workers inside submit_sempahore_.wait, woken ones included.             *)
IdleWorkers == {w \in Workers : worker[w] \in {"wait", "woken"}}
IdleCount == num_idle_workers = Cardinality(IdleWorkers)

(* When await_idle returns normally no task is queued or running: all work *)
(* submitted before it returned is finished.                               *)
AwaitIdleIsBarrier ==
  [][\A c \in Callers :
       caller[c] = "idle_check" /\ caller'[c] = "ready"
         => \A k \in Tasks : future[k] # "pending"]_vars

(* What the phases of the pool object's life say about its threads; with   *)
(* the invariants above it is inductive.                                   *)
Lifetime ==
  /\ caller[Owner] = "join" <=> lifetime = "joining"
  /\ lifetime = "destroyed" => \A w \in Workers : worker[w] = "exited"
  /\ \A w \in Workers : worker[w] = "run" <=> running[w] # NoTask

(* The inductive invariant: no interleaving of submit, run_, await_idle    *)
(* and the destructor loses a task or miscounts the idle workers.          *)
IInv == TypeOK /\ ExactlyOnce /\ IdleCount /\ Lifetime

(* The pool does what TaskService promises. *)
Service == INSTANCE TaskService WITH destroyed <- (lifetime = "destroyed")
ServiceSpec == Service!Spec

(* Nothing hangs.  Notifying one worker outside the lock loses no wake-up: *)
(* the future of a submitted task becomes ready, if only with a broken     *)
(* promise.  await_idle returns: all tasks end (there are finitely many),  *)
(* and the last worker to go idle notifies every thread that waits.        *)
(* ~ThreadPool joins all workers, also those that it found waiting.        *)
NothingHangs ==
  /\ \A k \in Tasks : future[k] = "pending" ~> future[k] # "pending"
  /\ \A c \in Callers : caller[c] = "idle_wait" ~> caller[c] = "ready"
  /\ lifetime = "joining" ~> lifetime = "destroyed"
===============================================================================
