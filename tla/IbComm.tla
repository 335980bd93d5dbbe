------------------------------- MODULE IbComm -------------------------------
(***************************************************************************)
(* The hierarchical all-to-all over InfiniBand (IbComm, IbvProxy) as the   *)
(* hybrid sparse embedding drives it.                                      *)
(*                                                                         *)
(* NumProcs processes own NumGpus GPUs each.  A proxy thread per GPU moves *)
(* data: the proxy of GPU g of a process writes, with RDMA, from the send  *)
(* buffer of that GPU into the receive buffers of GPU g of every other     *)
(* process, and then adds one to a counter there.  The host thread of a    *)
(* process sets the proxies up with commands they execute one after the    *)
(* other.  The kernels of a GPU run on two streams: its own stream and the *)
(* communication stream, whose kernels wait for the kernels of the first   *)
(* that were launched before them.                                         *)
(*                                                                         *)
(* An iteration is a training step, with a forward and a backward          *)
(* exchange, or an evaluation step, with a forward exchange and a global   *)
(* barrier.  Sizes and vectors are represented by the iteration they       *)
(* belong to.  The barrier among the GPUs of a process is Barrier, which   *)
(* GpuBarrier implements.                                                  *)
(***************************************************************************)
EXTENDS Integers, Sequences

CONSTANTS
  NumProcs,   \* num_procs_
  NumGpus,    \* num_gpus_ of every process
  Jobs        \* bound: the iterations a job may consist of, as kinds

ASSUME IbCommAssumption ==
  /\ NumProcs \in Nat \ {0, 1}
  /\ NumGpus \in Nat \ {0}
  /\ Jobs \subseteq Seq({"train", "eval"})

VARIABLES
  plan,        \* what the program does: its commands and its iterations
  host,        \* the host thread of every process and its ProxyCommand
  last_cmd,    \* last_cmd_: the last command every proxy completed
  mpi,         \* the collective MPI calls of every process: number and last
  px,          \* the proxy threads
  ctx,         \* HierA2AvCollContext of every proxy and collective
  wr,          \* posted work requests by destination: the sizes they carry
  h_recv_cmd,  \* the command counter the GPUs of a process report
  bcast,       \* recv_bcast_cnt_ of every process and collective
  gpu,         \* the stream of every GPU
  comm,        \* the communication stream: kernels still to run
  arrived,     \* arrivals of a GPU at the barrier of a collective
  d_send_cmd,  \* the command counter of a GPU
  atomic,      \* the counters the other processes add to
  sizes,       \* the sizes a GPU computed
  h_send_sizes,\* the sizes the proxy of a GPU reads, by writing GPU
  sent,        \* what a GPU last wrote into the send buffers of its process
  recv         \* receive buffers: by source process and writing GPU

setup == <<plan, host, last_cmd, mpi>>
proxies == <<px, ctx, wr, bcast>>
kernels == <<gpu, comm, arrived, d_send_cmd, h_recv_cmd>>
buffers == <<sizes, h_send_sizes, sent, recv>>
vars == <<setup, proxies, kernels, buffers, atomic>>

Procs == 0..(NumProcs - 1)
Gpus == 0..(NumGpus - 1)
Sites == 0..(NumProcs * NumGpus - 1)   \* global ids of the GPUs
Site(p, g) == p * NumGpus + g
Proc(s) == s \div NumGpus
Local(s) == s % NumGpus
Others(p) == Procs \ {p}
Colls == {"fwd", "bwd"}
None == "none"
NoRequest == <<>>

-----------------------------------------------------------------------------
(* Set-up                                                                  *)

\* What the constructor of the hybrid embedding registers, and then either
\* set_ready_to_transfer, or a finalize that comes before it.  Both
\* collectives are registered with skip_barrier.
Registration ==
  << [name |-> "coll", coll |-> "fwd"], [name |-> "buf", coll |-> "fwd"],
     [name |-> "coll", coll |-> "bwd"], [name |-> "buf", coll |-> "bwd"] >>

Ready == [name |-> "READY_TO_TRANSFER", coll |-> None]
Destroy == [name |-> "DESTROY", coll |-> None]

Plans ==
  [commands : {Append(Registration, Ready)}, kinds : Jobs]
    \cup
  [commands : {Append(SubSeq(Registration, 1, k), Destroy) : k \in 0..Len(Registration)},
   kinds : {<<>>}]

IsReady(p) ==
  /\ plan.commands[Len(plan.commands)] = Ready
  /\ host[p].next > Len(plan.commands)

Init ==
  /\ plan \in Plans
  /\ host = [p \in Procs |-> [at |-> "idle", next |-> 1, cmd_cntr |-> 0, cmpl_cntr |-> 0,
                              destroy |-> FALSE]]
  /\ last_cmd = [s \in Sites |-> 0]
  /\ mpi = [p \in Procs |-> [calls |-> 0, call |-> None]]
  /\ px = [s \in Sites |-> [state |-> "INIT", at |-> "poll", coll |-> None, left |-> 0]]
  /\ ctx = [s \in Sites |-> [c \in Colls |-> [state |-> None, last |-> 1]]]
  /\ wr = [s \in Sites |-> [n \in Procs |-> NoRequest]]
  /\ h_recv_cmd = [p \in Procs |-> [c \in Colls |-> 1]]
  /\ bcast = [p \in Procs |-> [c \in Colls |-> 1]]
  /\ gpu = [s \in Sites |-> [iter |-> 0, coll |-> "fwd", at |-> "idle"]]
  /\ comm = [s \in Sites |-> <<>>]
  /\ arrived = [s \in Sites |-> [c \in Colls |-> 0]]
  /\ d_send_cmd = [s \in Sites |-> [c \in Colls |-> 2]]
  /\ atomic = [s \in Sites |-> [c \in Colls |-> [n \in Procs |-> 1]]]
  /\ sizes = [s \in Sites |-> 0]
  /\ h_send_sizes = [s \in Sites |-> [c \in Colls |-> [k \in Gpus |-> 0]]]
  /\ sent = [s \in Sites |-> [c \in Colls |-> 0]]
  /\ recv = [s \in Sites |-> [c \in Colls |-> [n \in Procs |-> [k \in Gpus |-> <<0, 0>>]]]]

-----------------------------------------------------------------------------
(* The commands of the host thread                                         *)

\* post_command
PostCommand(p) ==
  /\ host[p].at = "idle" /\ host[p].next <= Len(plan.commands)
  /\ host' = [host EXCEPT ![p].at = "wait", ![p].cmd_cntr = @ + 1, ![p].cmpl_cntr = 0]
  /\ UNCHANGED <<plan, last_cmd, mpi, proxies, kernels, buffers, atomic>>

\* wait_for_completion and reset: every proxy has completed the command.
WaitForCompletionMutant(p) ==
  /\ host[p].at = "wait" /\ host[p].cmpl_cntr > 0
  /\ host' = [host EXCEPT ![p].at = "idle", ![p].next = @ + 1]
  /\ UNCHANGED <<plan, last_cmd, mpi, proxies, kernels, buffers, atomic>>

WaitForCompletion(p) ==
  /\ host[p].at = "wait" /\ host[p].cmpl_cntr = NumGpus
  /\ host' = [host EXCEPT ![p].at = "idle", ![p].next = @ + 1]
  /\ UNCHANGED <<plan, last_cmd, mpi, proxies, kernels, buffers, atomic>>

\* The condition of wait_new_command
NewCommandMutant(p, g) == last_cmd[Site(p, g)] # host[p].cmd_cntr

NewCommand(p, g) == last_cmd[Site(p, g)] # host[p].cmd_cntr /\ host[p].cmpl_cntr = g

\* Exchanges with the other processes that a command makes: the connection
\* of the queue pairs with the first collective; memory regions and counters
\* with the buffers.
Exchanges(s, cmd) ==
  CASE cmd.name = "coll" -> IF \A c \in Colls : ctx[s][c].state = None THEN 1 ELSE 0
    [] cmd.name = "buf" -> 2
    [] OTHER -> 0

EnterMpi(p, call) == mpi' = [mpi EXCEPT ![p] = [calls |-> @.calls + 1, call |-> call]]
MpiDone(p) == \A n \in Procs : mpi[n].calls >= mpi[p].calls

\* The end of exec_proxy_cmd, and post_completion
Complete(p, g, cmd) ==
  LET s == Site(p, g) IN
  /\ px' = [px EXCEPT ![s].at = "poll", ![s].left = 0,
                      ![s].state = IF cmd.coll = None THEN cmd.name ELSE @]
  /\ ctx' = IF cmd.coll = None THEN ctx
            ELSE [ctx EXCEPT ![s][cmd.coll].state =
                    IF cmd.name = "coll" THEN "BUF_INIT_PENDING" ELSE "READY"]
  /\ last_cmd' = [last_cmd EXCEPT ![s] = host[p].cmd_cntr]
  /\ host' = [host EXCEPT ![p].cmpl_cntr = @ + 1]

\* stm_init: a proxy takes the command when its turn has come.
StmInit(p, g) ==
  LET s == Site(p, g)
      cmd == plan.commands[host[p].cmd_cntr]
  IN
  /\ px[s].state = "INIT" /\ px[s].at = "poll" /\ NewCommand(p, g)
  /\ IF Exchanges(s, cmd) = 0
     THEN Complete(p, g, cmd) /\ UNCHANGED mpi
     ELSE /\ px' = [px EXCEPT ![s].at = "mpi", ![s].left = Exchanges(s, cmd) - 1]
          /\ EnterMpi(p, <<g, cmd, Exchanges(s, cmd)>>)
          /\ UNCHANGED <<ctx, last_cmd, host>>
  /\ UNCHANGED <<plan, wr, bcast, kernels, buffers, atomic>>

\* An exchange ends when all processes have entered it.
Exchanged(p, g) ==
  LET s == Site(p, g)
      cmd == plan.commands[host[p].cmd_cntr]
  IN
  /\ px[s].state = "INIT" /\ px[s].at = "mpi" /\ MpiDone(p)
  /\ IF px[s].left = 0
     THEN Complete(p, g, cmd) /\ UNCHANGED mpi
     ELSE /\ px' = [px EXCEPT ![s].left = @ - 1]
          /\ EnterMpi(p, <<g, cmd, px[s].left>>)
          /\ UNCHANGED <<ctx, last_cmd, host>>
  /\ UNCHANGED <<plan, wr, bcast, kernels, buffers, atomic>>

-----------------------------------------------------------------------------
(* Shutdown                                                                *)

\* finalize, once the streams of the process are idle, or after the command
\* that destroys proxies that never got ready.
Finalize(p) ==
  /\ host[p].at = "idle" /\ host[p].next > Len(plan.commands)
  /\ IsReady(p) => \A g \in Gpus : gpu[Site(p, g)].at = "done"
  /\ host' = [host EXCEPT ![p].at = "join", ![p].destroy = TRUE]
  /\ UNCHANGED <<plan, last_cmd, mpi, proxies, kernels, buffers, atomic>>

\* A proxy looks at destroy_ when stm begins, and stm is not left while it
\* waits in process_recv.  What it has posted and the network has not executed
\* is lost with its queue pairs.
ExitProxy(p, g) ==
  LET s == Site(p, g) IN
  /\ \/ px[s].state = "DESTROY"
     \/ px[s].state = "READY_TO_TRANSFER" /\ px[s].at \in {"poll", "wait"} /\ host[p].destroy
  /\ px' = [px EXCEPT ![s].state = "exited"]
  /\ wr' = [wr EXCEPT ![s] = [n \in Procs |-> NoRequest]]
  /\ UNCHANGED <<setup, ctx, bcast, kernels, buffers, atomic>>

\* pthread_join of every proxy
Join(p) ==
  /\ host[p].at = "join" /\ \A g \in Gpus : px[Site(p, g)].state = "exited"
  /\ host' = [host EXCEPT ![p].at = "done"]
  /\ UNCHANGED <<plan, last_cmd, mpi, proxies, kernels, buffers, atomic>>

-----------------------------------------------------------------------------
(* The proxies while they transfer                                         *)

Transfers(s) == px[s].state = "READY_TO_TRANSFER"

\* wait_send_completion has counted the completions of all requests.
Completed(s) == wr[s] = [n \in Procs |-> NoRequest]

\* check_recv, once the last send is complete, and recv_bcast of the first
\* proxy.  The collective a proxy looks at rotates while there is nothing to
\* do, so any pending one may come first.
CheckRecvMutant(p, g) ==
  LET s == Site(p, g) IN
  \E c \in Colls :
    /\ Transfers(s) /\ px[s].at \in {"poll", "wait"} /\ Completed(s)
    /\ h_recv_cmd[p][c] > ctx[s][c].last
    /\ px' = [px EXCEPT ![s].coll = c, ![s].at = "recv"]
    /\ bcast' = bcast
    /\ UNCHANGED <<setup, ctx, wr, kernels, buffers, atomic>>

CheckRecv(p, g) ==
  LET s == Site(p, g) IN
  \E c \in Colls :
    /\ Transfers(s) /\ px[s].at \in {"poll", "wait"} /\ Completed(s)
    /\ h_recv_cmd[p][c] > ctx[s][c].last
    /\ px' = [px EXCEPT ![s].coll = c, ![s].at = "recv"]
    /\ bcast' = IF g = 0 THEN [bcast EXCEPT ![p][c] = @ + 1] ELSE bcast
    /\ UNCHANGED <<setup, ctx, wr, kernels, buffers, atomic>>

\* process_recv of the other proxies has seen recv_bcast, and process_send
\* reads the sizes and posts the work requests for all other processes.
PostSend(s) ==
  LET c == px[s].coll IN
  /\ px[s].at = "recv" /\ (Local(s) = 0 \/ bcast[Proc(s)][c] >= ctx[s][c].last + 1)
  /\ wr' = [wr EXCEPT ![s] = [n \in Procs |-> IF n = Proc(s) THEN NoRequest ELSE h_send_sizes[s][c]]]
  /\ ctx' = [ctx EXCEPT ![s][c].last = @ + 1]
  /\ px' = [px EXCEPT ![s].at = "wait"]
  /\ UNCHANGED <<setup, bcast, kernels, buffers, atomic>>

\* The network executes the writes of a posted chain, which read the send
\* buffer only now, and then its fetch-and-add.
Deliver(s, n) ==
  LET p == Proc(s)
      c == px[s].coll
      dest == Site(n, Local(s))
  IN
  /\ wr[s][n] # NoRequest
  /\ recv' = [recv EXCEPT ![dest][c][p] = [k \in Gpus |-> <<wr[s][n][k], sent[Site(p, k)][c]>>]]
  /\ atomic' = [atomic EXCEPT ![dest][c][p] = @ + 1]
  /\ wr' = [wr EXCEPT ![s][n] = NoRequest]
  /\ UNCHANGED <<setup, px, ctx, bcast, kernels, sizes, h_send_sizes, sent>>

-----------------------------------------------------------------------------
(* The streams of a GPU                                                    *)

\* The kernels of the communication stream: the first is running.  Every one
\* begins by arriving at the barrier of the collective.
Stream(s, c, queue, starts) ==
  /\ comm' = [comm EXCEPT ![s] = queue]
  /\ arrived' = IF starts THEN [arrived EXCEPT ![s][c] = @ + 1] ELSE arrived

Launch(s, c, kernel) == Stream(s, c, Append(comm[s], kernel), comm[s] = <<>>)
Finish(s, c) == Stream(s, c, Tail(comm[s]), Len(comm[s]) > 1)

\* The running kernel may pass the barrier: all GPUs of the process have
\* arrived as often as this one.
BarrierPassed(s, c) == \A k \in Gpus : arrived[Site(Proc(s), k)][c] >= arrived[s][c]

Running(s, kernel) == comm[s] # <<>> /\ comm[s][1] = kernel /\ BarrierPassed(s, gpu[s].coll)

\* An exchange starts with update_sizes.  The sizes of both exchanges of an
\* iteration are computed in the forward pass.  The stream does not wait for
\* the kernels of pre_intra_update_a2a_coll_sizes.
UpdateSizes(s, iter, c) ==
  /\ sizes' = [sizes EXCEPT ![s] = iter]
  /\ Launch(s, c, "sizes")
  /\ gpu' = [gpu EXCEPT ![s] = [iter |-> iter, coll |-> c, at |-> "write"]]

\* An iteration starts, unless it was the last one.
Iteration(s, iter) ==
  IF iter <= Len(plan.kinds) THEN UpdateSizes(s, iter, "fwd")
  ELSE gpu' = [gpu EXCEPT ![s].at = "done"] /\ UNCHANGED <<sizes, arrived, comm>>

StartTraining(s) ==
  /\ gpu[s].at = "idle" /\ IsReady(Proc(s))
  /\ Iteration(s, 1)
  /\ UNCHANGED <<setup, proxies, d_send_cmd, h_recv_cmd, h_send_sizes, sent, recv, atomic>>

\* fused_intra_forward_model and fused_intra_update_network write into the
\* send buffers of all GPUs of the process; then the command is posted.
WriteSend(s) ==
  /\ gpu[s].at = "write"
  /\ sent' = [sent EXCEPT ![s][gpu[s].coll] = gpu[s].iter]
  /\ Launch(s, gpu[s].coll, "report")
  /\ gpu' = [gpu EXCEPT ![s].at = "wait"]
  /\ UNCHANGED <<setup, proxies, d_send_cmd, h_recv_cmd, sizes, h_send_sizes, recv, atomic>>

\* The kernel wait_completion ends: the other processes have counted.
CompletionSeen(s) ==
  LET c == gpu[s].coll IN
  /\ gpu[s].at = "wait" /\ comm[s] = <<>>
  /\ \A n \in Others(Proc(s)) : atomic[s][c][n] >= d_send_cmd[s][c] - 1

\* hier_forward_network and hier_update_model have read the receive buffer.
\* The forward pass of a training step is followed by its backward pass.
ReadRecv(s) ==
  LET g == gpu[s] IN
  /\ CompletionSeen(s)
  /\ \/ /\ g.coll = "bwd"
        /\ Iteration(s, g.iter + 1)
     \/ /\ g.coll = "fwd" /\ plan.kinds[g.iter] = "train"
        /\ UpdateSizes(s, g.iter, "bwd")
     \/ /\ g.coll = "fwd" /\ plan.kinds[g.iter] = "eval"
        /\ gpu' = [gpu EXCEPT ![s].at = "barrier"]
        /\ UNCHANGED <<sizes, arrived, comm>>
  /\ UNCHANGED <<setup, proxies, d_send_cmd, h_recv_cmd, h_send_sizes, sent, recv, atomic>>

\* global_barrier: an all-reduce over all GPUs ends an evaluation step.
GlobalBarrierMutant(s) ==
  /\ gpu[s].at = "barrier"
  /\ Iteration(s, gpu[s].iter + 1)
  /\ UNCHANGED <<setup, proxies, d_send_cmd, h_recv_cmd, h_send_sizes, sent, recv, atomic>>

GlobalBarrier(s) ==
  /\ gpu[s].at = "barrier"
  /\ \A t \in Sites : \/ gpu[t].iter > gpu[s].iter
                      \/ gpu[t].iter = gpu[s].iter /\ gpu[t].at \in {"barrier", "done"}
  /\ Iteration(s, gpu[s].iter + 1)
  /\ UNCHANGED <<setup, proxies, d_send_cmd, h_recv_cmd, h_send_sizes, sent, recv, atomic>>

\* sync_all_gpus ends, and update_pre_intra_sizes gathers what the GPUs of
\* the process send to the same GPU of other processes.
UpdatePreIntraSizes(s) ==
  LET c == gpu[s].coll IN
  /\ Running(s, "sizes")
  /\ h_send_sizes' = [h_send_sizes EXCEPT ![s][c] = [k \in Gpus |-> sizes[Site(Proc(s), k)]]]
  /\ Finish(s, c)
  /\ UNCHANGED <<setup, proxies, gpu, d_send_cmd, h_recv_cmd, sizes, sent, recv, atomic>>

\* sync_all_gpus_report_host_and_inc ends: the first GPU reports to the
\* proxies, every GPU counts.  copy_local_segmented follows with the part
\* that stays within the process.
ReportHostAndIncMutant(s) ==
  LET c == gpu[s].coll IN
  /\ Running(s, "report")
  /\ d_send_cmd' = [d_send_cmd EXCEPT ![s][c] = @ + 1]
  /\ h_recv_cmd' = IF Local(s) = 0 THEN [h_recv_cmd EXCEPT ![Proc(s)][c] = d_send_cmd'[s][c]]
                   ELSE h_recv_cmd
  /\ recv' = [recv EXCEPT ![s][c][Proc(s)] =
                [k \in Gpus |-> <<h_send_sizes[s][c][k], sent[Site(Proc(s), k)][c]>>]]
  /\ Finish(s, c)
  /\ UNCHANGED <<setup, proxies, gpu, sizes, h_send_sizes, sent, atomic>>

ReportHostAndInc(s) ==
  LET c == gpu[s].coll IN
  /\ Running(s, "report")
  /\ h_recv_cmd' = IF Local(s) = 0 THEN [h_recv_cmd EXCEPT ![Proc(s)][c] = d_send_cmd[s][c]]
                   ELSE h_recv_cmd
  /\ d_send_cmd' = [d_send_cmd EXCEPT ![s][c] = @ + 1]
  /\ recv' = [recv EXCEPT ![s][c][Proc(s)] =
                [k \in Gpus |-> <<h_send_sizes[s][c][k], sent[Site(Proc(s), k)][c]>>]]
  /\ Finish(s, c)
  /\ UNCHANGED <<setup, proxies, gpu, sizes, h_send_sizes, sent, atomic>>

-----------------------------------------------------------------------------
HostStep(p) == PostCommand(p) \/ WaitForCompletion(p) \/ Finalize(p) \/ Join(p)

ProxyStep(p, g) ==
  \/ StmInit(p, g) \/ Exchanged(p, g) \/ ExitProxy(p, g)
  \/ CheckRecv(p, g) \/ PostSend(Site(p, g))

StreamStep(s) ==
  StartTraining(s) \/ WriteSend(s) \/ ReadRecv(s) \/ GlobalBarrier(s)

CommStep(s) == UpdatePreIntraSizes(s) \/ ReportHostAndInc(s)

Next ==
  \/ \E s \in Sites : StreamStep(s) \/ CommStep(s)
  \/ \E s \in Sites, n \in Procs : Deliver(s, n)
  \/ \E p \in Procs, g \in Gpus : ProxyStep(p, g)
  \/ \E p \in Procs : HostStep(p)

Spec == Init /\ [][Next]_vars

\* Threads and streams are scheduled, and the network is reliable: as long as
\* some step is possible, some step happens.  Every step makes progress, so
\* no actor can keep another from its turn for ever.
Fairness == WF_vars(Next)

FairSpec == Spec /\ Fairness

-----------------------------------------------------------------------------
\* Types, and: a proxy never transfers for a collective whose buffers are not
\* registered (stm would end the program), although the proxies execute the
\* commands one after the other and the host thread posts the next one as
\* soon as it has counted all completions.
IInv ==
  /\ host \in [Procs -> [at : {"idle", "wait", "join", "done"}, next : 1..6, cmd_cntr : 0..5,
                         cmpl_cntr : 0..NumGpus, destroy : BOOLEAN]]
  /\ \A s \in Sites :
       /\ last_cmd[s] \in {host[Proc(s)].cmd_cntr - 1, host[Proc(s)].cmd_cntr}
       /\ px[s].state \in {"INIT", "READY_TO_TRANSFER", "DESTROY", "exited"}
       /\ px[s].at \in {"poll", "mpi", "recv", "wait"}
       /\ Transfers(s) => \A c \in Colls : ctx[s][c].state = "READY"
       /\ gpu[s].iter \in 0..Len(plan.kinds)
       /\ gpu[s].at \in {"idle", "write", "wait", "barrier", "done"}

\* A GPU that reads its receive buffer finds in it, from every process and
\* every GPU of that process, the vectors and the sizes of its own iteration:
\* no send buffer is written before the network has read it, no receive
\* buffer before its GPU has, although a GPU waits for the counters of the
\* other processes only and never for its own proxy.
RoundData ==
  \A s \in Sites : CompletionSeen(s) =>
    \A n \in Procs, k \in Gpus :
      recv[s][gpu[s].coll][n][k] = <<gpu[s].iter, gpu[s].iter>>

\* The assertion "Can't have multiple sends inflight" at the end of
\* process_send holds however late the proxy evaluates it, that is until it
\* looks for the completions (last has been counted up already): the GPUs of
\* its process are never three commands of the collective ahead of it.
InFlightBounded ==
  \A s \in Sites : px[s].at = "wait" =>
    h_recv_cmd[Proc(s)][px[s].coll] - (ctx[s][px[s].coll].last - 1) <= 2

\* Processes that have made the same number of collective MPI calls are in
\* the same call, of the same proxy for the same command.
CallsMatch == \A p, n \in Procs : mpi[p].calls = mpi[n].calls => mpi[p].call = mpi[n].call

\* A job whose last iteration is an evaluation, and one given up before its
\* proxies were ready, ends: every exchange completes and every process
\* joins its proxies.
Terminates ==
  (plan.kinds = <<>> \/ plan.kinds[Len(plan.kinds)] = "eval")
    => <>(\A p \in Procs : host[p].at = "done")
=============================================================================
