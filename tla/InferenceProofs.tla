--------------------------- MODULE InferenceProofs ----------------------------
(***************************************************************************)
(* The threads of an inference server.  ThreadPool executes each task      *)
(* once and implements TaskService, for any number of workers, callers and *)
(* tasks; the lookups of fused tables in LookupSession deliver to each     *)
(* table its own vectors, for any number of tables and keys.               *)
(***************************************************************************)
EXTENDS ThreadPool, LookupSession, FiniteSetTheorems, WellFoundedInduction, TLAPS

(* IdleWorkers is finite, as workers_ is. *)
LEMMA IdleFinite == IsFiniteSet(IdleWorkers) /\ Cardinality(IdleWorkers) \in Nat
  BY PoolAssumption, FS_Subset, FS_CardinalityType DEF IdleWorkers

(* IdleCount survives a step that leaves the counter and the idle workers  *)
(* alone, that adds one idle worker and counts it, or that removes one.    *)
LEMMA IdleSame ==
  ASSUME IdleCount, num_idle_workers' = num_idle_workers, IdleWorkers' = IdleWorkers
  PROVE  IdleCount'
  BY DEF IdleCount

LEMMA IdleOneMore ==
  ASSUME IdleCount, NEW w \in Workers, w \notin IdleWorkers,
         num_idle_workers' = num_idle_workers + 1, IdleWorkers' = IdleWorkers \cup {w}
  PROVE  IdleCount'
  BY IdleFinite, FS_AddElement DEF IdleCount

LEMMA IdleOneLess ==
  ASSUME IdleCount, NEW w \in IdleWorkers,
         num_idle_workers' = num_idle_workers - 1, IdleWorkers' = IdleWorkers \ {w}
  PROVE  IdleCount'
  BY IdleFinite, FS_RemoveElement DEF IdleCount

(* A worker that wakes up is counted, so the counter is positive. *)
LEMMA WokenIsCounted ==
  ASSUME IdleCount, NEW w \in IdleWorkers
  PROVE  num_idle_workers \in Nat \ {0}
  BY IdleFinite, FS_EmptySet DEF IdleCount

(* All workers are counted only if all of them are idle. *)
LEMMA AllIdle ==
  ASSUME IdleCount, num_idle_workers = Cardinality(Workers)
  PROVE  IdleWorkers = Workers
<1>1. IdleWorkers \subseteq Workers
  BY DEF IdleWorkers
<1> QED
  BY Zenon, <1>1, PoolAssumption, FS_Subset DEF IdleCount

(* A step that touches neither the queue, nor the packages in execution,   *)
(* nor a future leaves ExactlyOnce alone.                                  *)
LEMMA ExactlyOnceSame ==
  ASSUME ExactlyOnce, UNCHANGED <<packages, running, future>>
  PROVE  ExactlyOnce'
  BY DEF ExactlyOnce, Queued, Holders

-------------------------------------------------------------------------------
LEMMA InitIInv == ASSUME Init PROVE IInv
<1>1. terminate \in BOOLEAN
  BY Zenon DEF Init
<1>2. TypeOK
  BY <1>1 DEF Init, TypeOK, FutureStates
<1>3. ExactlyOnce
  BY PoolAssumption DEF Init, ExactlyOnce, Queued, Holders
<1>4. IdleWorkers = {}
  BY DEF Init, IdleWorkers
<1>5. IdleCount
  BY <1>4, FS_EmptySet DEF Init, IdleCount
<1>6. Lifetime
  BY PoolAssumption DEF Init, Lifetime
<1> QED
  BY <1>2, <1>3, <1>5, <1>6 DEF IInv

(* Taking a package off the queue: it changes hands, nothing else does. *)
LEMMA TakeExactlyOnce ==
  ASSUME TypeOK, ExactlyOnce, NEW w \in Workers, running[w] = NoTask,
         packages # <<>>, packages' = Tail(packages), UNCHANGED future,
         running' = [running EXCEPT ![w] = Head(packages)]
  PROVE  ExactlyOnce'
<1>1. PICK h \in Tasks : h = Head(packages) /\ h = packages[1] /\ 1 \in DOMAIN packages
  BY DEF TypeOK
<1>2. /\ DOMAIN packages' = 1..(Len(packages) - 1) /\ DOMAIN packages = 1..Len(packages)
      /\ \A i \in DOMAIN packages' : packages'[i] = packages[i + 1] /\ i + 1 \in DOMAIN packages
  BY DEF TypeOK
<1>3. \A k \in Tasks \ {h} : Holders(k)' = Holders(k)
  BY <1>1, PoolAssumption DEF Holders, TypeOK
<1>4. \A k \in Tasks \ {h} : Queued(k) # {} <=> (Queued(k))' # {}
  <2> TAKE k \in Tasks \ {h}
  <2>1. ASSUME NEW i \in Queued(k) PROVE (Queued(k))' # {}
    <3>1. i - 1 \in DOMAIN packages' /\ packages'[i - 1] = k
      BY <1>1, <1>2, <2>1 DEF Queued
    <3> QED
      BY <3>1 DEF Queued
  <2>2. ASSUME NEW i \in (Queued(k))' PROVE Queued(k) # {}
    BY <1>2, <2>2 DEF Queued
  <2> QED
    BY <2>1, <2>2
<1>5. Queued(h)' = {}
  BY <1>1, <1>2 DEF ExactlyOnce, Queued
<1>6. Holders(h) = {} /\ Holders(h)' = {w}
  BY <1>1 DEF ExactlyOnce, Queued, Holders, TypeOK
<1>7. \A k \in Tasks : \A i, j \in (Queued(k))' : i = j
  BY <1>2 DEF ExactlyOnce, Queued
<1>8. future[h] = "pending"
  BY <1>1 DEF ExactlyOnce, Queued
<1>9. ASSUME NEW k \in Tasks
      PROVE  /\ future'[k] = "pending" <=> Queued(k)' # {} \/ Holders(k)' # {}
             /\ Queued(k)' = {} \/ Holders(k)' = {}
             /\ \A v, u \in Holders(k)' : v = u
  <2>1. CASE k = h
    BY Zenon, <1>5, <1>6, <1>8, <2>1
  <2>2. CASE k # h
    <3>1. k \in Tasks \ {h}
      BY <2>2
    <3> QED
      BY <3>1, <1>3, <1>4 DEF ExactlyOnce
  <2> QED
    BY <2>1, <2>2
<1> QED
  BY <1>7, <1>9 DEF ExactlyOnce

(* Completing a package: it leaves the hands of its worker and its future  *)
(* is no longer pending.                                                   *)
LEMMA ExecuteExactlyOnce ==
  ASSUME TypeOK, ExactlyOnce, NEW w \in Workers, running[w] # NoTask,
         UNCHANGED packages, NEW r \in {"value", "exception"},
         future' = [future EXCEPT ![running[w]] = r],
         running' = [running EXCEPT ![w] = NoTask]
  PROVE  ExactlyOnce'
<1>1. PICK h \in Tasks : h = running[w]
  BY DEF TypeOK
<1>2. \A k \in Tasks \ {h} : Holders(k)' = Holders(k) /\ future'[k] = future[k]
  BY <1>1, PoolAssumption DEF Holders, TypeOK
<1>3. \A k \in Tasks : Queued(k)' = Queued(k)
  BY DEF Queued
<1>4. w \in Holders(h)
  BY <1>1 DEF Holders
<1>5. Holders(h) = {w} /\ Queued(h) = {}
  BY <1>4 DEF ExactlyOnce
<1>6. Holders(h)' = {}
  BY <1>5, PoolAssumption DEF Holders, TypeOK
<1>7. future'[h] # "pending"
  BY <1>1 DEF TypeOK
<1> QED
  BY <1>2, <1>3, <1>5, <1>6, <1>7 DEF ExactlyOnce

(* Submitting a task that was not submitted before. *)
LEMMA SubmitExactlyOnce ==
  ASSUME TypeOK, ExactlyOnce, NEW h \in Tasks, future[h] = "none",
         packages' = Append(packages, h), future' = [future EXCEPT ![h] = "pending"],
         UNCHANGED running
  PROVE  ExactlyOnce'
<1>1. \A k \in Tasks : Holders(k)' = Holders(k)
  BY DEF Holders
<1>2. /\ DOMAIN packages = 1..Len(packages) /\ Len(packages) \in Nat
      /\ DOMAIN packages' = 1..(Len(packages) + 1)
      /\ \A i \in DOMAIN packages : packages'[i] = packages[i]
      /\ packages'[Len(packages) + 1] = h
  BY DEF TypeOK
<1>3. \A k \in Tasks \ {h} : Queued(k)' = Queued(k) /\ future'[k] = future[k]
  BY <1>2 DEF Queued, TypeOK
<1>4. Queued(h) = {} /\ Holders(h) = {}
  BY DEF ExactlyOnce
<1>5. Queued(h)' = {Len(packages) + 1}
  BY <1>2, <1>4 DEF Queued
<1>6. future'[h] = "pending"
  BY DEF TypeOK
<1>7. ASSUME NEW k \in Tasks
      PROVE  /\ future'[k] = "pending" <=> Queued(k)' # {} \/ Holders(k)' # {}
             /\ Queued(k)' = {} \/ Holders(k)' = {}
             /\ \A i, j \in (Queued(k))' : i = j
             /\ \A v, u \in Holders(k)' : v = u
  <2>1. CASE k = h
    BY <1>1, <1>4, <1>5, <1>6, <2>1
  <2>2. CASE k # h
    <3>1. k \in Tasks \ {h}
      BY <2>2
    <3> QED
      BY <3>1, <1>1, <1>3 DEF ExactlyOnce
  <2> QED
    BY <2>1, <2>2
<1> QED
  BY <1>7 DEF ExactlyOnce

-------------------------------------------------------------------------------
(* The workers' steps. *)

LEMMA WorkerTakes ==
  ASSUME IInv, NEW w \in Workers, worker[w] \in {"acquire", "woken"}, packages # <<>>,
         NEW idle \in Nat, TakePackage(w, idle),
         \/ worker[w] = "acquire" /\ idle = num_idle_workers
         \/ worker[w] = "woken" /\ idle = num_idle_workers - 1
  PROVE  IInv'
<1> USE DEF IInv, TakePackage, callers
<1>1. TypeOK'
  BY DEF TypeOK
<1>2. running[w] = NoTask
  BY DEF Lifetime
<1>3. ExactlyOnce'
  BY Zenon, <1>2, TakeExactlyOnce
<1>4. IdleCount'
  <2>1. CASE worker[w] = "acquire"
    <3>1. IdleWorkers' = IdleWorkers
      BY <2>1 DEF IdleWorkers, TypeOK
    <3> QED
      BY <2>1, <3>1, IdleSame
  <2>2. CASE worker[w] = "woken"
    <3>1. IdleWorkers' = IdleWorkers \ {w} /\ w \in IdleWorkers
      BY <2>2 DEF IdleWorkers, TypeOK
    <3> QED
      BY <2>2, <3>1, IdleOneLess
  <2> QED
    BY <2>1, <2>2
<1>5. Lifetime'
  <2>1. Head(packages) \in Tasks
    BY DEF TypeOK
  <2> QED
    BY <2>1, PoolAssumption DEF Lifetime, TypeOK
<1> QED
  BY <1>1, <1>3, <1>4, <1>5

LEMMA WorkerGoesIdle ==
  ASSUME IInv, NEW w \in Workers, worker[w] \in {"acquire", "woken"},
         NEW idle \in Nat, GoIdle(w, idle),
         \/ worker[w] = "acquire" /\ idle = num_idle_workers
         \/ worker[w] = "woken" /\ idle = num_idle_workers - 1
  PROVE  IInv'
<1> USE DEF IInv, GoIdle, NotifyIdle
<1>1. TypeOK'
  BY DEF TypeOK
<1>2. ExactlyOnce'
  BY ExactlyOnceSame
<1>3. IdleCount'
  <2>1. CASE worker[w] = "acquire"
    <3>1. IdleWorkers' = IdleWorkers \cup {w} /\ w \notin IdleWorkers
      BY <2>1 DEF IdleWorkers, TypeOK
    <3> QED
      BY <2>1, <3>1, IdleOneMore
  <2>2. CASE worker[w] = "woken"
    <3>1. IdleWorkers' = IdleWorkers
      BY <2>2 DEF IdleWorkers, TypeOK
    <3>2. num_idle_workers' = num_idle_workers
      BY <2>2 DEF TypeOK
    <3> QED
      BY <3>1, <3>2, IdleSame
  <2> QED
    BY <2>1, <2>2
<1>4. Lifetime'
  BY PoolAssumption DEF Lifetime, TypeOK
<1> QED
  BY <1>1, <1>2, <1>3, <1>4

LEMMA WorkerExits ==
  ASSUME IInv, NEW w \in Workers, Exit(w),
         \/ worker[w] = "acquire" /\ num_idle_workers' = num_idle_workers
         \/ worker[w] = "woken" /\ num_idle_workers' = num_idle_workers - 1
  PROVE  IInv'
<1> USE DEF IInv, Exit, callers
<1>1. IdleCount'
  <2>1. CASE worker[w] = "acquire"
    <3>1. IdleWorkers' = IdleWorkers
      BY <2>1 DEF IdleWorkers, TypeOK
    <3> QED
      BY <2>1, <3>1, IdleSame
  <2>2. CASE worker[w] = "woken"
    <3>1. IdleWorkers' = IdleWorkers \ {w} /\ w \in IdleWorkers
      BY <2>2 DEF IdleWorkers, TypeOK
    <3> QED
      BY <2>2, <3>1, IdleOneLess
  <2> QED
    BY <2>1, <2>2
<1>2. num_idle_workers' \in Nat
  <2>1. CASE worker[w] = "acquire"
    BY <2>1 DEF TypeOK
  <2>2. CASE worker[w] = "woken"
    <3>1. w \in IdleWorkers
      BY <2>2 DEF IdleWorkers
    <3> QED
      BY <2>2, <3>1, WokenIsCounted
  <2> QED
    BY <2>1, <2>2
<1>3. TypeOK'
  BY <1>2 DEF TypeOK
<1>4. ExactlyOnce'
  BY ExactlyOnceSame
<1>5. Lifetime'
  BY Zenon DEF Lifetime, TypeOK
<1> QED
  BY <1>1, <1>3, <1>4, <1>5

-------------------------------------------------------------------------------
(* Every step of the pool and of its callers preserves the invariant. *)
LEMMA NextIInv == ASSUME IInv, [Next]_vars PROVE IInv'
<1> USE DEF IInv, pool, callers
<1>1. ASSUME NEW w \in Workers, Acquire(w) PROVE IInv'
  <2>1. num_idle_workers \in Nat
    BY DEF TypeOK
  <2> QED
    BY Zenon, <1>1, <2>1, WorkerTakes, WorkerGoesIdle, WorkerExits DEF Acquire
<1>2. ASSUME NEW w \in Workers, WakeUp(w) PROVE IInv'
  <2>1. w \in IdleWorkers
    BY <1>2 DEF WakeUp, IdleWorkers
  <2>2. num_idle_workers - 1 \in Nat
    BY <2>1, WokenIsCounted
  <2> QED
    BY <1>2, <2>2, WorkerTakes, WorkerGoesIdle, WorkerExits DEF WakeUp
<1>3. ASSUME NEW w \in Workers, Execute(w) PROVE IInv'
  <2>1. running[w] # NoTask
    BY <1>3 DEF Execute, Lifetime
  <2>2. TypeOK'
    BY Zenon, <1>3, <2>1 DEF Execute, TypeOK, FutureStates
  <2>3. ExactlyOnce'
    BY Zenon, <1>3, <2>1, ExecuteExactlyOnce DEF Execute
  <2>4. IdleWorkers' = IdleWorkers
    BY Zenon, <1>3 DEF Execute, IdleWorkers, TypeOK
  <2>5. IdleCount'
    BY <1>3, <2>4, IdleSame DEF Execute
  <2>6. Lifetime'
    BY <1>3 DEF Execute, Lifetime, TypeOK
  <2> QED
    BY <2>2, <2>3, <2>5, <2>6
<1>4. ASSUME NEW w \in Workers, SpuriousWakeUp(w) PROVE IInv'
  <2>1. TypeOK' /\ Lifetime'
    BY <1>4 DEF SpuriousWakeUp, TypeOK, Lifetime
  <2>2. IdleWorkers' = IdleWorkers
    BY <1>4 DEF SpuriousWakeUp, IdleWorkers, TypeOK
  <2> QED
    BY <1>4, <2>1, <2>2, IdleSame, ExactlyOnceSame DEF SpuriousWakeUp
<1>5. ASSUME NEW c \in Callers, NEW k \in Tasks, Submit(c, k) PROVE IInv'
  <2>1. TypeOK'
    BY <1>5 DEF Submit, TypeOK, FutureStates
  <2>2. ExactlyOnce'
    BY Zenon, <1>5, SubmitExactlyOnce DEF Submit
  <2>3. IdleCount'
    BY <1>5 DEF Submit, IdleCount, IdleWorkers
  <2>4. Lifetime'
    BY <1>5, PoolAssumption DEF Submit, Lifetime, TypeOK
  <2> QED
    BY <2>1, <2>2, <2>3, <2>4
<1>6. ASSUME NEW c \in Callers, NotifyOne(c) PROVE IInv'
  <2>1. TypeOK' /\ Lifetime'
    BY Zenon, <1>6, PoolAssumption DEF NotifyOne, TypeOK, Lifetime
  <2>2. IdleWorkers' = IdleWorkers
    BY <1>6 DEF NotifyOne, IdleWorkers, TypeOK
  <2> QED
    BY <1>6, <2>1, <2>2, IdleSame, ExactlyOnceSame DEF NotifyOne
<1>7. ASSUME NEW c \in Callers,
             \/ AwaitIdle(c) \/ AwaitIdleReturns(c) \/ AwaitIdleWaits(c)
             \/ SpuriousIdleWakeUp(c) \/ AwaitReturns(c)
             \/ \E k \in Tasks : Await(c, k)
      PROVE IInv'
  <2> USE <1>7 DEF AwaitIdle, AwaitIdleReturns, AwaitIdleWaits, SpuriousIdleWakeUp,
                   AwaitReturns, Await
  <2>1. /\ UNCHANGED <<pool, worker, running, future>>
        /\ caller' \in [Callers -> {"ready", "notify", "idle_check", "idle_wait", "get", "join"}]
        /\ target' \in [Callers -> Tasks \cup {NoTask}]
        /\ caller'[Owner] = "join" <=> caller[Owner] = "join"
        /\ \/ lifetime' = lifetime
           \/ lifetime = "constructing" /\ lifetime' = "alive"
    BY PoolAssumption DEF TypeOK
  <2>2. TypeOK'
    BY Zenon, <2>1 DEF TypeOK
  <2>3. IdleCount'
    BY Zenon, <2>1 DEF IdleCount, IdleWorkers
  <2>4. Lifetime'
    BY Zenon, <2>1 DEF Lifetime
  <2> QED
    BY Zenon, <2>1, <2>2, <2>3, <2>4, ExactlyOnceSame
<1>8. CASE Destroy
  <2>1. TypeOK'
    <3>1. terminate' \in BOOLEAN
      BY <1>8 DEF Destroy
    <3> QED
      BY Zenon, <1>8, <3>1 DEF Destroy, TypeOK
  <2>2. Lifetime'
    BY Zenon, <1>8, PoolAssumption DEF Destroy, Lifetime, TypeOK
  <2>3. IdleWorkers' = IdleWorkers
    BY <1>8 DEF Destroy, IdleWorkers, TypeOK
  <2> QED
    BY <1>8, <2>1, <2>2, <2>3, IdleSame, ExactlyOnceSame DEF Destroy
<1>9. CASE Join
  <2>1. TypeOK'
    <3>1. packages' \in Seq(Tasks)
      BY <1>9 DEF Join
    <3>2. future' \in [Tasks -> FutureStates]
      BY <1>9 DEF Join, TypeOK, FutureStates
    <3>3. caller' \in [Callers -> {"ready", "notify", "idle_check", "idle_wait", "get", "join"}]
      BY Zenon, <1>9 DEF Join, TypeOK
    <3> QED
      BY <1>9, <3>1, <3>2, <3>3 DEF Join, TypeOK
  <2>2. \A k \in Tasks : Holders(k) = {} /\ Holders(k)' = {}
    BY Zenon, <1>9, PoolAssumption DEF Join, Lifetime, Holders
  <2>3. \A k \in Tasks : Queued(k)' = {}
    BY <1>9 DEF Join, Queued
  <2>4. \A k \in Tasks : future'[k] # "pending"
    BY <1>9, <2>2 DEF Join, ExactlyOnce, Queued
  <2>5. ExactlyOnce'
    BY Zenon, <2>2, <2>3, <2>4 DEF ExactlyOnce
  <2>6. IdleCount'
    BY Zenon, <1>9 DEF Join, IdleCount, IdleWorkers
  <2>7. Lifetime'
    BY Zenon, <1>9, PoolAssumption DEF Join, Lifetime, TypeOK
  <2> QED
    BY <2>1, <2>5, <2>6, <2>7
<1>10. CASE UNCHANGED vars
  BY Zenon, <1>10, ExactlyOnceSame DEF vars, TypeOK, Lifetime, IdleCount, IdleWorkers
<1> QED
  BY Zenon, <1>1, <1>2, <1>3, <1>4, <1>5, <1>6, <1>7, <1>8, <1>9, <1>10
     DEF Next, WorkerStep, CallerStep, Call, Gone

(* run_, submit, await_idle and the destructor keep the pool's members and *)
(* its threads in the states the model allows, for any number of threads.  *)
THEOREM InvariantHolds == Spec => []IInv
  BY InitIInv, NextIInv, PTL DEF Spec

(* No package is lost, queued twice or executed twice. *)
THEOREM ExactlyOnceHolds == Spec => []ExactlyOnce
<1>1. IInv => ExactlyOnce
  BY DEF IInv
<1> QED
  BY <1>1, InvariantHolds, PTL

(* When await_idle returns, every task submitted so far is finished. *)
THEOREM AwaitIdleBarrierHolds == Spec => AwaitIdleIsBarrier
<1>1. ASSUME IInv, [Next]_vars, NEW c \in Callers, NEW k \in Tasks,
             caller[c] = "idle_check", caller'[c] = "ready"
      PROVE  future[k] # "pending"
  <2> USE DEF pool, callers
  <2>1. Idle
    <3>1. ASSUME NEW w \in Workers, WorkerStep(w) \/ SpuriousWakeUp(w) PROVE FALSE
      BY Zenon, <1>1, <3>1 DEF WorkerStep, SpuriousWakeUp, Acquire, WakeUp, Execute, Exit, GoIdle,
                        TakePackage, NotifyIdle, IInv, TypeOK
    <3>2. ASSUME NEW d \in Callers, Call(d) \/ SpuriousIdleWakeUp(d) PROVE FALSE
      BY Zenon, <1>1, <3>2 DEF Call, SpuriousIdleWakeUp, AwaitIdle, Submit, Await, IInv, TypeOK
    <3>3. ASSUME NEW d \in Callers, CallerStep(d) PROVE Idle
      BY Zenon, <1>1, <3>3 DEF CallerStep, NotifyOne, AwaitIdleReturns, AwaitIdleWaits, AwaitReturns,
                        IInv, TypeOK
    <3>4. ASSUME Destroy \/ Join \/ Gone \/ UNCHANGED vars PROVE FALSE
      BY Zenon, <1>1, <3>4, PoolAssumption DEF Destroy, Join, Gone, vars, IInv, TypeOK
    <3> QED
      BY Zenon, <1>1, <3>1, <3>2, <3>3, <3>4 DEF Next
  <2>2. IdleWorkers = Workers
    BY <1>1, <2>1, AllIdle DEF Idle, IInv
  <2>3. Holders(k) = {}
    BY <1>1, <2>2, PoolAssumption DEF Holders, IInv, Lifetime, IdleWorkers
  <2>4. Queued(k) = {}
    BY <2>1 DEF Idle, Queued
  <2> QED
    BY Zenon, <1>1, <2>3, <2>4 DEF IInv, ExactlyOnce
<1>2. IInv /\ [Next]_vars =>
        [\A c \in Callers : caller[c] = "idle_check" /\ caller'[c] = "ready"
                              => \A k \in Tasks : future[k] # "pending"]_vars
  BY <1>1
<1> QED
  BY <1>2, InvariantHolds, PTL DEF Spec, AwaitIdleIsBarrier

(* The pool implements TaskService: each step submits, completes or breaks *)
(* tasks as the service allows, or changes nothing the service shows.      *)
THEOREM ImplementsTaskService == Spec => ServiceSpec
<1> DEFINE svars == <<future, lifetime = "destroyed">>
<1>1. Init => Service!Init
  BY DEF Init, Service!Init
<1>2. ASSUME IInv, [Next]_vars PROVE [Service!Next]_svars
  <2> USE <1>2 DEF pool, callers, IInv
  <2>1. ASSUME NEW w \in Workers, Acquire(w) \/ WakeUp(w) \/ SpuriousWakeUp(w) PROVE UNCHANGED svars
    BY Zenon, <2>1 DEF Acquire, WakeUp, SpuriousWakeUp, Exit, GoIdle, TakePackage
  <2>2. ASSUME NEW w \in Workers, Execute(w) PROVE Service!Next
    <3>1. PICK k \in Tasks : k = running[w]
      BY <2>2 DEF Execute, Lifetime, TypeOK
    <3>2. future[k] = "pending"
      BY Zenon, <3>1 DEF ExactlyOnce, Holders
    <3>3. lifetime # "destroyed"
      BY <2>2 DEF Execute, Lifetime
    <3>4. Service!Complete(k)
      BY Zenon, <2>2, <3>1, <3>2, <3>3 DEF Execute, Service!Complete
    <3> QED
      BY <3>4 DEF Service!Next
  <2>3. ASSUME NEW c \in Callers, NEW k \in Tasks, Submit(c, k) PROVE Service!Next
    <3>1. Service!Submit(k)
      BY Zenon, <2>3 DEF Submit, Service!Submit
    <3> QED
      BY <3>1 DEF Service!Next
  <2>4. ASSUME NEW c \in Callers,
               \/ AwaitIdle(c) \/ CallerStep(c) \/ SpuriousIdleWakeUp(c)
               \/ \E k \in Tasks : Await(c, k)
        PROVE  UNCHANGED svars
    BY Zenon, <2>4 DEF AwaitIdle, CallerStep, SpuriousIdleWakeUp, Await, NotifyOne, AwaitIdleReturns,
                AwaitIdleWaits, AwaitReturns
  <2>5. CASE Join
    <3>1. \A k \in Tasks : Holders(k) = {}
      BY Zenon, <2>5, PoolAssumption DEF Join, Lifetime, Holders
    <3>2. \A k \in Tasks : future[k] = "pending" <=> \E i \in DOMAIN packages : packages[i] = k
      BY <3>1 DEF ExactlyOnce, Queued
    <3>3. Service!Destroy
      BY Zenon, <2>5, <3>2 DEF Join, Lifetime, Service!Destroy
    <3> QED
      BY <3>3 DEF Service!Next
  <2>6. CASE Destroy \/ Gone \/ UNCHANGED vars
    BY Zenon, <2>6 DEF Destroy, Gone, vars
  <2> QED
    BY Zenon, <1>2, <2>1, <2>2, <2>3, <2>4, <2>5, <2>6 DEF Next, WorkerStep, Call
<1> QED
  BY <1>1, <1>2, InvariantHolds, PTL DEF Spec, ServiceSpec, Service!Spec

-------------------------------------------------------------------------------
(* The lookup session: the counter on which the threads of the tables of a *)
(* fused table meet.                                                       *)

(* The decrement of an unsigned counter. *)
LEMMA Decrement ==
  ASSUME NEW c \in 0 .. Word - 1
  PROVE  (c + (Word - 1)) % Word = IF c = 0 THEN Word - 1 ELSE c - 1
  BY SessionAssumption

(* The tables that have arrived are counted by a number up to NumTables,   *)
(* which is reached only by all of them.                                   *)
LEMMA ArrivedCount ==
  ASSUME NEW S \in SUBSET Tables
  PROVE  /\ IsFiniteSet(S)
         /\ Cardinality(S) \in 0 .. NumTables
         /\ Cardinality(S) = NumTables <=> S = Tables
<1>1. IsFiniteSet(Tables) /\ Cardinality(Tables) = NumTables
  BY SessionAssumption, FS_Interval DEF Tables
<1>2. IsFiniteSet(S) /\ Cardinality(S) <= NumTables /\ (Cardinality(S) = NumTables => S = Tables)
  BY <1>1, FS_Subset
<1>3. Cardinality(S) \in Nat
  BY <1>2, FS_CardinalityType
<1> QED
  BY <1>1, <1>2, <1>3, SessionAssumption

(* One more table arrives. *)
LEMMA OneMore ==
  ASSUME NEW S \in SUBSET Tables, NEW t \in Tables, t \notin S
  PROVE  /\ Cardinality(S) + 1 \in 1 .. NumTables
         /\ Cardinality(S \cup {t}) = Cardinality(S) + 1
<1>1. Cardinality(S \cup {t}) = Cardinality(S) + 1
  BY ArrivedCount, FS_AddElement
<1> QED
  BY <1>1, ArrivedCount, SessionAssumption, S \cup {t} \in SUBSET Tables

(* The iterations in which the counter has been decremented fit its width. *)
LEMMA WordSuffices ==
  ASSUME NEW i \in 0 .. MaxIterations
  PROVE  /\ NumTables * i \in Nat
         /\ NumTables * (i + 1) = NumTables * i + NumTables
         /\ NumTables * i + NumTables < Word
<1>1. NumTables * (i + 1) = NumTables * i + NumTables /\ NumTables * i \in Nat
  BY SessionAssumption
<1>2. NumTables * (MaxIterations - i) \in Nat
  BY SessionAssumption
<1>3. NumTables * (MaxIterations + 1) = NumTables * i + NumTables + NumTables * (MaxIterations - i)
  BY SessionAssumption
<1> QED
  BY <1>1, <1>2, <1>3, SessionAssumption

(* A thread that finds the counter at zero while the last table waits has  *)
(* every table before it, and no wait has failed yet.                      *)
LEMMA ZeroMeansAll ==
  ASSUME Counting, pc[Last] = "waiting", counter = 0
  PROVE  ~failed /\ Arrived = Tables /\ key_buffer = asked
<1>1. Last \in Arrived /\ Arrived \in SUBSET Tables /\ ~Over
  BY SessionAssumption DEF Arrived, Over, Last, Tables
<1>2. ~failed
  BY Zenon, <1>1 DEF Counting, CounterSpent
<1>3. counter = NumTables - Cardinality(Arrived)
  BY <1>1, <1>2 DEF Counting, CounterCounts
<1>4. Arrived = Tables
  BY <1>1, <1>3, ArrivedCount, SessionAssumption
<1>5. key_buffer = asked
  BY <1>4 DEF Counting, BuffersCurrent, SessionTypeOK
<1> QED
  BY <1>2, <1>4, <1>5

-----------------------------------------------------------------------------
(* The offsets *)

NumberOrder == {ij \in Nat \X Nat : ij[1] < ij[2]}

(* A set of numbers that is not empty has a least member. *)
LEMMA LeastNumber ==
  ASSUME NEW T \in SUBSET Nat, NEW n \in T
  PROVE  \E m \in T : \A i \in T : m <= i
<1>1. IsWellFoundedOn(NumberOrder, Nat)
  BY Zenon, NatLessThanWellFounded DEF OpToRel, NumberOrder
<1>2. \E m \in T : \A i \in T : ~(<<i, m>> \in NumberOrder)
  BY <1>1, WFMin, Zenon
<1>3. PICK m \in T : \A i \in T : ~(<<i, m>> \in NumberOrder)
  BY <1>2, Zenon
<1>4. ASSUME NEW i \in T PROVE m <= i
  <2>1. ~(i < m)
    BY Zenon, <1>3 DEF NumberOrder
  <2> QED
    BY <2>1
<1> QED
  BY <1>4

(* The partial sums of num_keys up to idx. *)
SumsTo(f, idx) ==
  /\ f \in [0 .. idx -> Nat]
  /\ f[0] = 0
  /\ \A i \in 1 .. idx : f[i] = f[i - 1] + num_keys[i]

LEMMA SumsExist ==
  ASSUME num_keys \in [Tables -> Nat], NEW idx \in 0 .. NumTables
  PROVE  \E f : SumsTo(f, idx)
<1> DEFINE T == {i \in Nat : i <= NumTables /\ ~(\E f : SumsTo(f, i))}
<1> SUFFICES ASSUME idx \in T PROVE FALSE
  BY SessionAssumption
<1>1. PICK m \in T : \A i \in T : m <= i
  BY LeastNumber, T \in SUBSET Nat, Zenon
<1>2. m \in Nat /\ m <= NumTables /\ ~(\E f : SumsTo(f, m))
  BY Zenon, <1>1
<1>3. CASE m = 0
  <2>1. SumsTo([i \in 0 .. m |-> 0], m)
    BY <1>3 DEF SumsTo
  <2> QED
    BY <2>1, <1>2, Zenon
<1>4. CASE m # 0
  <2>1. m - 1 \in Nat /\ m - 1 <= NumTables /\ m - 1 \notin T
    BY <1>1, <1>2, <1>4, SessionAssumption
  <2>2. PICK f : SumsTo(f, m - 1)
    BY <2>1
  <2> DEFINE g == [i \in 0 .. m |-> IF i = m THEN f[m - 1] + num_keys[m] ELSE f[i]]
  <2>3. f \in [0 .. m - 1 -> Nat] /\ f[0] = 0 /\ m \in Tables
    BY <2>2, <1>2, <1>4, SessionAssumption DEF SumsTo, Tables
  <2>4. f[m - 1] + num_keys[m] \in Nat
    BY <2>3, <2>1
  <2>5. g \in [0 .. m -> Nat] /\ g[0] = 0
    BY <2>3, <2>4, <1>2, <1>4
  <2>6. ASSUME NEW i \in 1 .. m PROVE g[i] = g[i - 1] + num_keys[i]
    <3>1. CASE i = m
      BY <3>1, <2>1
    <3>2. CASE i # m
      BY <3>2, <2>2, <1>2 DEF SumsTo
    <3> QED
      BY Zenon, <3>1, <3>2
  <2>7. SumsTo(g, m)
    BY Zenon, <2>5, <2>6 DEF SumsTo
  <2> QED
    BY <2>7, <1>2, Zenon
<1> QED
  BY <1>3, <1>4

(* Offset is what its equation says. *)
LEMMA OffsetDefined ==
  ASSUME num_keys \in [Tables -> Nat]
  PROVE  SumsTo(Offset, NumTables)
<1> DEFINE Sums(f) == [idx \in 0 .. NumTables |-> IF idx = 0 THEN 0 ELSE f[idx - 1] + num_keys[idx]]
<1>1. PICK f : SumsTo(f, NumTables)
  BY SumsExist, SessionAssumption
<1>2. f = Sums(f)
  BY <1>1, SessionAssumption DEF SumsTo
<1>3. Offset = CHOOSE g : g = Sums(g)
  BY DEF Offset
<1>4. Offset = Sums(Offset)
  BY <1>2, <1>3, Zenon
<1>5. ASSUME NEW n \in 0 .. NumTables PROVE Offset[n] \in Nat
  <2> DEFINE T == {i \in Nat : i <= NumTables /\ Offset[i] \notin Nat}
  <2> SUFFICES ASSUME n \in T PROVE FALSE
    BY SessionAssumption
  <2>1. PICK m \in T : \A i \in T : m <= i
    BY LeastNumber, T \in SUBSET Nat, Zenon
  <2>2. m \in Nat /\ m <= NumTables /\ Offset[m] \notin Nat
    BY <2>1
  <2>3. Offset[m] = IF m = 0 THEN 0 ELSE Offset[m - 1] + num_keys[m]
    BY <2>2, <1>4, SessionAssumption
  <2>4. m # 0 /\ m - 1 \in Nat /\ m - 1 <= NumTables
    BY <2>2, <2>3, SessionAssumption
  <2>5. Offset[m - 1] \in Nat
    BY <2>4, <2>1
  <2>6. num_keys[m] \in Nat
    BY <2>2, <2>4, SessionAssumption DEF Tables
  <2> QED
    BY <2>2, <2>3, <2>4, <2>5, <2>6
<1> QED
  BY <1>4, <1>5, SessionAssumption DEF SumsTo

LEMMA OffsetGrows ==
  ASSUME num_keys \in [Tables -> Nat], NEW s \in 0 .. NumTables, NEW t \in 0 .. NumTables, s <= t
  PROVE  Offset[s] \in Nat /\ Offset[t] \in Nat /\ Offset[s] <= Offset[t]
<1> DEFINE T == {i \in Nat : s <= i /\ i <= NumTables /\ ~(Offset[s] <= Offset[i])}
<1>1. SumsTo(Offset, NumTables)
  BY OffsetDefined
<1>2. \A i \in 0 .. NumTables : Offset[i] \in Nat
  BY <1>1 DEF SumsTo
<1> SUFFICES ASSUME t \in T PROVE FALSE
  BY <1>2, SessionAssumption
<1>3. PICK m \in T : \A i \in T : m <= i
  BY LeastNumber, T \in SUBSET Nat, Zenon
<1>4. m \in Nat /\ s <= m /\ m <= NumTables /\ ~(Offset[s] <= Offset[m])
  BY <1>3
<1>5. s # m
  BY <1>4, <1>2
<1>6. m - 1 \in Nat /\ s <= m - 1 /\ m - 1 <= NumTables /\ m \in Tables
  BY <1>4, <1>5, SessionAssumption DEF Tables
<1>7. Offset[s] <= Offset[m - 1]
  BY <1>3, <1>6
<1>8. Offset[m] = Offset[m - 1] + num_keys[m]
  BY <1>1, <1>6 DEF SumsTo, Tables
<1>9. num_keys[m] \in Nat /\ Offset[m - 1] \in Nat
  BY <1>6, <1>2, SessionAssumption
<1> QED
  BY <1>2, <1>4, <1>7, <1>8, <1>9

(* The key that table t has put at place j of its own buffer comes at its  *)
(* offset in the fused one.                                                *)
LEMMA KeyAtOffset ==
  ASSUME num_keys \in [Tables -> Nat], NEW t \in Tables, NEW j \in 1 .. num_keys[t]
  PROVE  /\ Offset[t - 1] \in Nat
         /\ Offset[t - 1] + j \in 1 .. Offset[NumTables]
         /\ FusedKeys[Offset[t - 1] + j] = key_buffer[t][j]
<1> DEFINE At(u, p) == Offset[u - 1] < p /\ p <= Offset[u]
<1>1. /\ t \in Nat /\ 1 <= t /\ t <= NumTables /\ NumTables \in Nat
      /\ t - 1 \in 0 .. NumTables /\ t \in 0 .. NumTables /\ NumTables \in 0 .. NumTables
  BY SessionAssumption DEF Tables
<1>2. Offset[t - 1] \in Nat /\ num_keys[t] \in Nat /\ Offset[t] = Offset[t - 1] + num_keys[t]
  BY <1>1, OffsetDefined DEF SumsTo, Tables
<1>3. Offset[NumTables] \in Nat /\ Offset[t] <= Offset[NumTables]
  BY <1>1, OffsetGrows
<1>4. PICK p \in Nat : p = Offset[t - 1] + j
  BY <1>2
<1>5. p \in 1 .. Offset[NumTables] /\ Offset[t - 1] < p /\ p <= Offset[t]
  BY <1>2, <1>3, <1>4
<1>6. ASSUME NEW u \in Tables, At(u, p) PROVE u = t
  <2>1. u \in Nat /\ u - 1 \in 0 .. NumTables /\ u \in 0 .. NumTables
    BY SessionAssumption DEF Tables
  <2>2. ~(u <= t - 1)
    <3>1. u <= t - 1 => Offset[u] \in Nat /\ Offset[u] <= Offset[t - 1]
      BY <2>1, <1>1, OffsetGrows
    <3> QED
      BY <3>1, <1>5, <1>6, <1>2
  <2>3. ~(t <= u - 1)
    <3>1. t <= u - 1 => Offset[u - 1] \in Nat /\ Offset[t] \in Nat /\ Offset[t] <= Offset[u - 1]
      BY <2>1, <1>1, OffsetGrows
    <3> QED
      BY <3>1, <1>5, <1>6
  <2> QED
    BY <2>1, <2>2, <2>3, <1>1
<1>7. (CHOOSE u \in Tables : At(u, p)) = t
  BY <1>5, <1>6, Zenon
<1>8. FusedKeys[p] = key_buffer[CHOOSE u \in Tables : At(u, p)][p - Offset[(CHOOSE u \in Tables : At(u, p)) - 1]]
  BY <1>5, Zenon DEF FusedKeys
<1>9. FusedKeys[p] = key_buffer[t][p - Offset[t - 1]]
  BY <1>7, <1>8, Zenon
<1>10. p - Offset[t - 1] = j
  BY <1>2, <1>4
<1> QED
  BY <1>2, <1>4, <1>5, <1>9, <1>10, Zenon

LEMMA SequenceByIndex ==
  ASSUME NEW S, NEW s \in Seq(S)
  PROVE  s = [j \in 1 .. Len(s) |-> s[j]]
  OBVIOUS

(* The part of the fused buffer that table t finds at its offset is what   *)
(* the table has put into its own buffer.                                  *)
LEMMA VectorsAtOffset ==
  ASSUME num_keys \in [Tables -> Nat], NEW t \in Tables, key_buffer[t] \in Seq(Tables \X Nat \X Nat),
         num_keys[t] = Len(key_buffer[t])
  PROVE  FusedVectors(t) = key_buffer[t]
<1>1. key_buffer[t] = [j \in 1 .. num_keys[t] |-> key_buffer[t][j]]
  BY SequenceByIndex, Zenon
<1>2. \A j \in 1 .. num_keys[t] : FusedKeys[Offset[t - 1] + j] = key_buffer[t][j]
  BY KeyAtOffset, Zenon
<1> QED
  BY <1>1, <1>2, Zenon DEF FusedVectors

-----------------------------------------------------------------------------
(* The counter and the buffers *)

LEMMA InitCounting == SessionInit => Counting
<1> SUFFICES ASSUME SessionInit PROVE Counting
  OBVIOUS
<1>1. Over
  BY DEF SessionInit, Over
<1>2. NumTables \in 0 .. Word - 1
  BY SessionAssumption, 0 \in 0 .. MaxIterations, WordSuffices
<1>3. SessionTypeOK
  <2>1. /\ asked \in [Tables -> Seq(Tables \X Nat \X Nat)]
        /\ key_buffer \in [Tables -> Seq(Tables \X Nat \X Nat)]
        /\ num_keys \in [Tables -> Nat]
    BY DEF SessionInit
  <2>2. pc \in [Tables -> {"submitted", "waiting", "returned"}] /\ \A t \in Tables : pc[t] = "returned"
    BY DEF SessionInit
  <2>3. counter \in 0 .. Word - 1 /\ iteration \in 0 .. MaxIterations
    BY <1>2, SessionAssumption DEF SessionInit
  <2>4. failed \in BOOLEAN
    BY Zenon DEF SessionInit
  <2> QED
    BY <2>1, <2>2, <2>3, <2>4 DEF SessionTypeOK
<1>4. ASSUME NEW t \in Tables PROVE key_buffer[t] = asked[t] /\ num_keys[t] = Len(asked[t])
  BY DEF SessionInit
<1>5. BuffersCurrent
  BY Zenon, <1>4 DEF BuffersCurrent, Arrived
<1> QED
  BY <1>1, <1>3, <1>5 DEF SessionInit, Counting, CounterCounts, CounterSpent

LEMMA SubmitCounting ==
  ASSUME Counting, NEW lengths \in [Tables -> 0 .. MaxKeys], Lookup(lengths)
  PROVE  Counting'
<1> USE DEF Counting
<1>1. Arrived' = {} /\ Arrived = Tables /\ Over /\ ~Over'
  BY SessionAssumption DEF Lookup, Arrived, Over, Tables
<1>2. Cardinality(Arrived') = 0 /\ Cardinality(Arrived) = NumTables
  BY <1>1, FS_EmptySet, ArrivedCount
<1>3. iteration \in 0 .. MaxIterations /\ iteration' = iteration + 1 /\ counter' = counter /\ failed' = failed
  BY DEF Lookup, SessionTypeOK
<1>4. SessionTypeOK'
  <2>1. ASSUME NEW t \in Tables PROVE KeysOf(t, lengths[t], iteration + 1) \in Seq(Tables \X Nat \X Nat)
    <3>1. lengths[t] \in Nat /\ iteration + 1 \in Nat
      BY <1>3, SessionAssumption
    <3> QED
      BY <3>1 DEF KeysOf
  <2>2. asked' \in [Tables -> Seq(Tables \X Nat \X Nat)]
    BY <2>1 DEF Lookup
  <2>3. key_buffer' \in [Tables -> Seq(Tables \X Nat \X Nat)] /\ num_keys' \in [Tables -> Nat]
    BY DEF Lookup, SessionTypeOK
  <2>4. /\ counter' \in 0 .. Word - 1 /\ iteration' \in 0 .. MaxIterations /\ failed' \in BOOLEAN
        /\ pc' = [t \in Tables |-> "submitted"]
    BY SessionAssumption DEF SessionTypeOK, Lookup
  <2> QED
    BY <2>2, <2>3, <2>4 DEF SessionTypeOK
<1>5. CounterCounts'
  BY <1>1, <1>2, <1>3, SessionAssumption DEF CounterCounts, Lookup, Tables, Last
<1>6. CounterSpent'
  <2> SUFFICES ASSUME failed
               PROVE  \/ counter = 0
                      \/ counter # 0 /\ Word - counter <= NumTables * (iteration + 1)
    BY <1>1, <1>2, <1>3, SessionAssumption DEF CounterSpent
  <2>1. CASE counter = NumTables - Cardinality(Arrived)
    BY <2>1, <1>2, SessionAssumption
  <2>2. CASE counter # 0 /\ Word - counter <= NumTables * iteration + Cardinality(Arrived)
    BY <2>2, <1>2, <1>3, WordSuffices
  <2> QED
    BY <2>1, <2>2 DEF CounterSpent
<1>7. BuffersCurrent'
  BY <1>1 DEF BuffersCurrent
<1> QED
  BY <1>4, <1>5, <1>6, <1>7

LEMMA RegisterCounting ==
  ASSUME Counting, NEW t \in Tables, Register(t)
  PROVE  Counting'
<1> USE DEF Counting
<1>1. Arrived \in SUBSET Tables /\ t \notin Arrived /\ Arrived' = Arrived \cup {t}
  BY DEF Register, Arrived, SessionTypeOK
<1>2. /\ Cardinality(Arrived) \in 0 .. NumTables - 1
      /\ Cardinality(Arrived') = Cardinality(Arrived) + 1
  BY <1>1, OneMore, ArrivedCount, SessionAssumption
<1>3. counter' = IF counter = 0 THEN Word - 1 ELSE counter - 1
  BY Decrement DEF Register, SessionTypeOK
<1>4. /\ failed' = failed /\ iteration' = iteration /\ iteration \in 0 .. MaxIterations
      /\ counter \in 0 .. Word - 1
  BY DEF Register, SessionTypeOK
<1>5. SessionTypeOK'
  <2>1. counter' \in 0 .. Word - 1
    BY <1>3, <1>4, SessionAssumption
  <2>2. Len(asked[t]) \in Nat /\ asked[t] \in Seq(Tables \X Nat \X Nat)
    BY DEF SessionTypeOK
  <2>3. key_buffer' \in [Tables -> Seq(Tables \X Nat \X Nat)] /\ num_keys' \in [Tables -> Nat]
    BY <2>2 DEF SessionTypeOK, Register
  <2>4. /\ iteration' \in 0 .. MaxIterations /\ failed' \in BOOLEAN
        /\ asked' \in [Tables -> Seq(Tables \X Nat \X Nat)]
    BY Zenon DEF SessionTypeOK, Register
  <2>5. /\ pc' \in [Tables -> {"submitted", "waiting", "returned"}]
        /\ \A u \in Tables \ {Last} : pc'[u] # "waiting"
    BY DEF SessionTypeOK, Register
  <2> QED
    BY Zenon, <2>1, <2>3, <2>4, <2>5 DEF SessionTypeOK
<1>6. CounterCounts'
  <2> SUFFICES ASSUME ~failed PROVE CounterCounts'
    BY <1>4 DEF CounterCounts
  <2>1. ~Over /\ pc[Last] # "returned"
    BY Zenon DEF CounterCounts, Over, Register
  <2>2. pc'[Last] # "returned"
    BY <2>1, SessionAssumption DEF Register, SessionTypeOK, Last, Tables
  <2>3. ~Over'
    BY <2>2, SessionAssumption DEF Over, Last, Tables
  <2>4. counter = NumTables - Cardinality(Arrived)
    BY <2>1 DEF CounterCounts
  <2>5. counter' = NumTables - Cardinality(Arrived')
    BY <2>4, <1>2, <1>3, SessionAssumption
  <2> QED
    BY Zenon, <2>2, <2>3, <2>5 DEF CounterCounts
<1>7. CounterSpent'
  <2> SUFFICES ASSUME failed PROVE CounterSpent'
    BY Zenon, <1>4 DEF CounterSpent
  <2>1. CASE pc[Last] = "returned" /\ counter = NumTables - Cardinality(Arrived)
    <3>1. pc'[Last] = "returned"
      BY <2>1 DEF Register, SessionTypeOK
    <3>2. counter' = NumTables - Cardinality(Arrived')
      BY <2>1, <1>2, <1>3, SessionAssumption
    <3> QED
      BY Zenon, <3>1, <3>2 DEF CounterSpent
  <2>2. CASE counter = 0 /\ Arrived = {}
    <3>1. counter' = Word - 1 /\ Word > 1
      BY <2>2, <1>3, <1>4, WordSuffices, SessionAssumption
    <3>2. Word - counter' <= NumTables * iteration + Cardinality(Arrived')
      BY <3>1, <1>2, <1>4, WordSuffices, SessionAssumption
    <3> QED
      BY <3>1, <3>2, <1>4, SessionAssumption DEF CounterSpent
  <2>3. CASE counter # 0 /\ Word - counter <= NumTables * iteration + Cardinality(Arrived)
    <3>1. counter' = counter - 1
      BY <2>3, <1>3
    <3>2. Word - counter' <= NumTables * iteration + Cardinality(Arrived')
      BY <2>3, <3>1, <1>2, <1>4, WordSuffices, SessionAssumption
    <3>3. counter' # 0
      BY <3>2, <1>2, <1>4, WordSuffices, SessionAssumption
    <3> QED
      BY Zenon, <3>2, <3>3, <1>4 DEF CounterSpent
  <2> QED
    BY Zenon, <2>1, <2>2, <2>3 DEF CounterSpent
<1>8. BuffersCurrent'
  <2>1. ASSUME NEW u \in Arrived' PROVE (key_buffer[u] = asked[u] /\ num_keys[u] = Len(asked[u]))'
    <3>1. CASE u = t
      BY Zenon, <3>1 DEF Register, SessionTypeOK
    <3>2. CASE u # t
      <4>1. u \in Arrived /\ u \in Tables
        BY <3>2, <1>1
      <4>2. key_buffer'[u] = key_buffer[u] /\ num_keys'[u] = num_keys[u] /\ asked' = asked
        BY <3>2, <4>1, Zenon DEF Register, SessionTypeOK
      <4> QED
        BY Zenon, <4>1, <4>2 DEF BuffersCurrent
    <3> QED
      BY <3>1, <3>2
  <2> QED
    BY <2>1 DEF BuffersCurrent
<1> QED
  BY <1>5, <1>6, <1>7, <1>8

LEMMA FusedLookupCounting ==
  ASSUME Counting, FusedLookup
  PROVE  Counting'
<1> USE DEF Counting
<1>1. ~failed /\ Arrived = Tables
  BY Zenon, ZeroMeansAll DEF FusedLookup
<1>2. Over' /\ Arrived' = Tables
  BY Zenon, <1>1 DEF Over, Arrived, FusedLookup, SessionTypeOK
<1>3. SessionTypeOK'
  <2>1. counter' \in 0 .. Word - 1
    BY WordSuffices, SessionAssumption DEF FusedLookup
  <2>2. /\ key_buffer' \in [Tables -> Seq(Tables \X Nat \X Nat)] /\ num_keys' \in [Tables -> Nat]
        /\ iteration' \in 0 .. MaxIterations /\ failed' \in BOOLEAN
        /\ asked' \in [Tables -> Seq(Tables \X Nat \X Nat)]
    BY DEF SessionTypeOK, FusedLookup
  <2>3. /\ pc' \in [Tables -> {"submitted", "waiting", "returned"}]
        /\ \A u \in Tables \ {Last} : pc'[u] # "waiting"
    BY Zenon DEF SessionTypeOK, FusedLookup
  <2> QED
    BY Zenon, <2>1, <2>2, <2>3 DEF SessionTypeOK
<1>4. CounterCounts' /\ CounterSpent'
  BY Zenon, <1>1, <1>2 DEF CounterCounts, CounterSpent, FusedLookup
<1>5. BuffersCurrent'
  BY Zenon, <1>1, <1>2 DEF BuffersCurrent, FusedLookup
<1> QED
  BY <1>3, <1>4, <1>5

(* The wait of the last table fails, by a timeout or in the fused lookup. *)
LEMMA FailureCounting ==
  ASSUME Counting, FusedLookupThrows \/ Timeout
  PROVE  Counting'
<1> USE DEF Counting
<1>1. /\ pc[Last] = "waiting" /\ pc' = [pc EXCEPT ![Last] = "returned"] /\ failed' = TRUE
      /\ UNCHANGED <<counter, num_keys, key_buffer, iteration, asked>>
  BY DEF FusedLookupThrows, Timeout
<1>2. Arrived' = Arrived /\ Last \in Arrived /\ Arrived \in SUBSET Tables /\ ~Over
  BY <1>1, SessionAssumption DEF Arrived, Over, SessionTypeOK, Last, Tables
<1>3. SessionTypeOK'
  <2>1. /\ pc' \in [Tables -> {"submitted", "waiting", "returned"}]
        /\ \A u \in Tables \ {Last} : pc'[u] # "waiting"
    BY Zenon, <1>1 DEF SessionTypeOK
  <2> QED
    BY <2>1, <1>1 DEF SessionTypeOK
<1>4. CounterSpent'
  <2>1. CASE ~failed
    <3>1. counter = NumTables - Cardinality(Arrived)
      BY <2>1, <1>2 DEF CounterCounts
    <3>2. pc'[Last] = "returned"
      BY <1>1, SessionAssumption DEF SessionTypeOK, Last, Tables
    <3> QED
      BY Zenon, <3>1, <3>2, <1>1, <1>2 DEF CounterSpent
  <2>2. CASE failed
    BY Zenon, <2>2, <1>1, <1>2 DEF CounterSpent
  <2> QED
    BY <2>1, <2>2
<1>5. CounterCounts' /\ BuffersCurrent'
  BY Zenon, <1>1, <1>2 DEF CounterCounts, BuffersCurrent
<1> QED
  BY <1>3, <1>4, <1>5

LEMMA StutterCounting ==
  ASSUME Counting, UNCHANGED session_vars
  PROVE  Counting'
  BY Zenon DEF Counting, SessionTypeOK, CounterCounts, CounterSpent, BuffersCurrent, Arrived, Over, session_vars

LEMMA NextCounting ==
  ASSUME Counting, [SessionNext]_session_vars
  PROVE  Counting'
  BY SubmitCounting, RegisterCounting, FusedLookupCounting, FailureCounting, StutterCounting
    DEF SessionNext, WaitReturns

(* Counting holds in every state of a session with any number of tables    *)
(* and calls, through any number of timeouts and exceptions, as long as    *)
(* the calls fit the width of the counter.                                 *)
THEOREM CountingHolds == SessionSpec => []Counting
  BY NextCounting, InitCounting, PTL DEF SessionSpec

(* A fused lookup packs the keys that all tables have asked for in the     *)
(* same call, also after a timeout whose late tables went on counting.     *)
THEOREM NeverMixesHolds == SessionSpec => NeverMixes
<1>1. Counting /\ [SessionNext]_session_vars =>
        [vectors' # vectors /\ iteration' = iteration => key_buffer = asked]_session_vars
  <2> SUFFICES ASSUME Counting, [SessionNext]_session_vars, vectors' # vectors, iteration' = iteration
               PROVE  key_buffer = asked
    OBVIOUS
  <2>1. ASSUME NEW lengths, Lookup(lengths) PROVE FALSE
    BY <2>1 DEF Lookup, Counting, SessionTypeOK
  <2>2. CASE FusedLookup
    BY <2>2, ZeroMeansAll DEF FusedLookup
  <2> QED
    BY Zenon, <2>1, <2>2 DEF SessionNext, WaitReturns, Register, FusedLookupThrows, Timeout, session_vars
<1> QED
  BY <1>1, CountingHolds, PTL DEF SessionSpec, NeverMixes

LEMMA SessionNextIInv ==
  ASSUME SessionIInv, [SessionNext]_session_vars
  PROVE  SessionIInv'
<1>1. Counting /\ Counting'
  BY NextCounting DEF SessionIInv
<1>2. ASSUME NEW lengths, Lookup(lengths) PROVE ResultsDelivered'
  BY <1>2, SessionAssumption DEF Lookup, ResultsDelivered, Over, Tables
<1>3. ASSUME NEW t \in Tables, Register(t) PROVE ResultsDelivered'
  <2> SUFFICES ASSUME ~failed PROVE ~Over'
    BY Zenon, <1>3 DEF ResultsDelivered, Register
  <2>1. pc[Last] # "returned"
    BY Zenon, <1>1, <1>3 DEF Counting, CounterCounts, Over, Register
  <2>2. pc'[Last] # "returned"
    BY <2>1, <1>1, <1>3, SessionAssumption DEF Register, Counting, SessionTypeOK, Last, Tables
  <2> QED
    BY <2>2, SessionAssumption DEF Over, Last, Tables
<1>4. ASSUME FusedLookup PROVE ResultsDelivered'
  <2>1. Arrived = Tables /\ key_buffer = asked
    BY <1>1, <1>4, ZeroMeansAll DEF FusedLookup
  <2>2. num_keys \in [Tables -> Nat] /\ asked \in [Tables -> Seq(Tables \X Nat \X Nat)]
    BY Zenon, <1>1 DEF Counting, SessionTypeOK
  <2>3. ASSUME NEW t \in Tables PROVE FusedVectors(t) = asked[t]
    <3>1. key_buffer[t] \in Seq(Tables \X Nat \X Nat) /\ num_keys[t] = Len(key_buffer[t])
      BY Zenon, <2>1, <2>2, <1>1 DEF Counting, BuffersCurrent
    <3> QED
      BY <3>1, <2>1, <2>2, VectorsAtOffset
  <2>4. vectors' = [t \in Tables |-> asked[t]] /\ asked' = asked
    BY <2>3, <1>4, Zenon DEF FusedLookup
  <2>5. vectors' = asked'
    BY <2>2, <2>4
  <2> QED
    BY <2>5 DEF ResultsDelivered
<1>5. ASSUME FusedLookupThrows \/ Timeout PROVE ResultsDelivered'
  BY <1>5 DEF FusedLookupThrows, Timeout, ResultsDelivered
<1>6. ASSUME UNCHANGED session_vars PROVE ResultsDelivered'
  BY <1>6 DEF session_vars, ResultsDelivered, Over, SessionIInv
<1> QED
  BY <1>1, <1>2, <1>3, <1>4, <1>5, <1>6 DEF SessionIInv, SessionNext, WaitReturns

(* Every call that returns without a failure gives each table the vectors  *)
(* of its keys, however many keys the tables of the call have: the offsets *)
(* that split the fused buffer never mix two tables.                       *)
THEOREM ResultsDeliveredHolds == SessionSpec => []SessionIInv
<1>1. SessionInit => SessionIInv
  BY InitCounting DEF SessionInit, SessionIInv, ResultsDelivered
<1> QED
  BY <1>1, SessionNextIInv, PTL DEF SessionSpec
===============================================================================
