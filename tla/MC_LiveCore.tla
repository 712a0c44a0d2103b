---------------------------- MODULE MC_LiveCore ----------------------------
(* Small instances of the other modules for liveness.  which chooses the instance *)
(* a behaviour is about; the others stay in their initial states.  The instance   *)
(* of RingMpmc is this module's own.                                              *)
EXTENDS RingMpmc, TLC, MC_SchedParams

CONSTANTS NoQueue, timer, event, node1, root, c1, c2, w1

VARIABLES which,
          queue, ring, pktio, group, thr, th, enqs,
          periodic, dpdk_tm, rte, free, cb, app, has, queued, owner, live,
          tm, input, tm_pc, got,
          sync, sa, freelist, ctl, wrk, notified, created,
          conf, locked, pool, qp, crypto_thr, calls,
          bar, first_enq, running, destroying, tm_ring, head, tail, cnt, depth,
          request, serving, done, loop, enq, req, appended, taken,
          rst_w_head, rst_w_tail, rst_r_head, rst_r_tail, rst_data,
          rst_pc, rst_op, rst_num, rst_head, rst_buf, rst_own

\* The strict priority scheduler, with a queue in each of two groups and no interface
Sp == INSTANCE SchedSp WITH
    Queues <- {q1, q2}, InQueue <- q2, NumGroups <- 1, Boot <- SpBoot,
    AllGroup <- {[allocated |-> TRUE, mask |-> Threads]}, QueueSize <- 2, MaxEnq <- 3,
    MaxGen <- 3, None <- NoQueue, Calls <- {}

\* One periodic timer
Dpdk == INSTANCE TimerDpdk WITH
    Timers <- {timer}, Events <- {event}, Apps <- Threads, Pollers <- {"poller"},
    PoolTypes <- {TRUE}, None <- NoQueue, tm <- dpdk_tm

\* Two queues of different priorities; q1 and the node have shapers
Tree == INSTANCE TmTree WITH
    Queues <- {q1, q2}, Nodes <- {node1}, Root <- root, NumPrio <- 2,
    NextNode <- q1 :> node1 @@ q2 :> node1 @@ node1 :> root, Priority <- q1 :> 0 @@ q2 :> 1,
    Shaped <- {q1, node1}, Lens <- {1}, MaxPkts <- 4, EpochMod <- 2, None <- NoQueue,
    pc <- tm_pc

Rst == INSTANCE RingMpmcRst WITH
    Tokens <- {q1, q2}, Size <- 4,
    w_head <- rst_w_head, w_tail <- rst_w_tail, r_head <- rst_r_head, r_tail <- rst_r_tail,
    data <- rst_data, pc <- rst_pc, op <- rst_op, num <- rst_num, head <- rst_head,
    buf <- rst_buf, own <- rst_own

\* Two SAs, one found by its SPI and one by its destination too, and a thread that looks
\* them up
Sa == INSTANCE IpsecSa WITH
    NumSa <- 2, Ctls <- {c1, c2}, Workers <- {w1}, Modes <- {TRUE}, MaxCreate <- 2,
    Pkts <- {[spi |-> 1, dst |-> 1]},
    Params <- {[lookup |-> k, spi |-> 1, dst |-> 1] : k \in {"spi", "dst"}}

\* Two threads that share the queue pair of the device
Op(dev) == [dev |-> dev, enable |-> FALSE, null |-> FALSE, bad |-> FALSE]
Crypto == INSTANCE CryptoDpdk WITH
    Threads <- {0, 1}, Devices <- {1}, NumQpairs <- 1, OpPool <- 3, MaxCalls <- 2,
    Confs <- {[shared |-> TRUE, refuses |-> FALSE]},
    Bursts <- {<<Op(1), Op(1)>>, <<Op(0), Op(1)>>}, thr <- crypto_thr

\* One thread that enqueues and one that changes a profile
Input == INSTANCE TmInput WITH
    Enqueuers <- {"enq"}, Requesters <- {"req"}, RingSize <- 2, MaxEnq <- 2, MaxReq <- 2,
    ring <- tm_ring, tm <- loop

sp_vars == <<queue, ring, pktio, group, thr, th, enqs>>
dpdk_vars == <<periodic, dpdk_tm, rte, free, cb, app, has, queued, owner, live>>
tree_vars == <<tm, input, tm_pc, got>>
rst_vars == <<rst_w_head, rst_w_tail, rst_r_head, rst_r_tail, rst_data,
              rst_pc, rst_op, rst_num, rst_head, rst_buf, rst_own>>
sa_vars == <<sync, sa, freelist, ctl, wrk, notified, created>>
crypto_vars == <<conf, locked, pool, qp, crypto_thr, calls>>
input_vars == <<bar, first_enq, running, destroying, tm_ring, head, tail, cnt, depth,
                request, serving, done, loop, enq, req, appended, taken>>
ring_vars == <<vars, rst_vars>>
tm_vars == <<dpdk_vars, tree_vars, input_vars>>
sec_vars == <<sa_vars, crypto_vars>>
live_vars == <<which, ring_vars, sp_vars, tm_vars, sec_vars>>

LiveInit ==
    /\ which \in {"mpmc", "rst", "sp", "dpdk", "tree", "input", "sa", "crypto"}
    /\ Init /\ Rst!Init /\ Sp!Init /\ Dpdk!Init /\ Tree!Init /\ Input!Init /\ Sa!Init /\ Crypto!Init
    /\ which # "rst" => rst_own[CHOOSE t \in Threads : TRUE] = {q1, q2}

LiveNext ==
    \/ which = "mpmc" /\ Next /\ UNCHANGED <<which, rst_vars, sp_vars, tm_vars, sec_vars>>
    \/ which = "rst" /\ Rst!Next /\ UNCHANGED <<which, vars, sp_vars, tm_vars, sec_vars>>
    \/ which = "sp" /\ Sp!Next /\ UNCHANGED <<which, ring_vars, tm_vars, sec_vars>>
    \/ /\ which = "dpdk" /\ Dpdk!Next
       /\ UNCHANGED <<which, ring_vars, sp_vars, tree_vars, input_vars, sec_vars>>
    \/ /\ which = "tree" /\ Tree!Next
       /\ UNCHANGED <<which, ring_vars, sp_vars, dpdk_vars, input_vars, sec_vars>>
    \/ /\ which = "input" /\ Input!Next
       /\ UNCHANGED <<which, ring_vars, sp_vars, dpdk_vars, tree_vars, sec_vars>>
    \/ which = "sa" /\ Sa!Next /\ UNCHANGED <<which, ring_vars, sp_vars, tm_vars, crypto_vars>>
    \/ which = "crypto" /\ Crypto!Next /\ UNCHANGED <<which, ring_vars, sp_vars, tm_vars, sa_vars>>

\* The fairness the modules state.  which never changes, so that one condition of strong
\* fairness can stand for one of each instance.
Expirable(q) == \/ which = "tree" /\ Tree!Expirable(q)
                \/ which = "dpdk" /\ q = q1 /\ Dpdk!Expirable(timer)
                \/ which = "dpdk" /\ q = q2 /\ Dpdk!Receivable(event)
Expire(q) == \/ which = "tree" /\ Tree!Expire(q)
             \/ which = "dpdk" /\ q = q1 /\ \E p \in {"poller"} : Dpdk!Expire(p, timer)
             \/ which = "dpdk" /\ q = q2 /\ \E t \in Threads : Dpdk!PeriodicReceive(t, event)
LiveSpec ==
    /\ LiveInit /\ [][LiveNext]_live_vars
    /\ \A t \in Threads :
           /\ WF_vars(which = "mpmc" /\ Step(t))
           /\ WF_rst_vars(which = "rst" /\ Rst!Step(t))
           /\ WF_sp_vars(which = "sp" /\ (Sp!ScheduleCall(t) \/ Sp!Step(t)))
           /\ WF_dpdk_vars(which = "dpdk" /\ Dpdk!Acknowledge(t))
    /\ WF_dpdk_vars(which = "dpdk" /\ Dpdk!Callback("poller"))
    /\ \A c \in {c1, c2} : WF_sa_vars(which = "sa" /\ (Sa!DisableReturn(c) \/ Sa!GetEvent(c)))
    /\ WF_sa_vars(which = "sa" /\ Sa!Step(w1))
    /\ \A t \in {0, 1} : WF_crypto_vars(which = "crypto" /\ Crypto!Work(t))
    /\ WF_input_vars(which = "input" /\ Input!TmStep)
    /\ WF_input_vars(which = "input" /\ Input!EnqStep("enq"))
    /\ WF_input_vars(which = "input" /\ Input!ReqStep("req"))
    /\ []<>(which = "tree") => []<><<Tree!Loop>>_tree_vars
    /\ \A q \in {q1, q2} : []<>Expirable(q) => []<><<Expire(q)>>_live_vars
-----------------------------------------------------------------------------
\* A thread spinning in a call of a ring is always let through: the waits on tails form no
\* cycle, and in ring_mpmc_rst the readers of a slot leave it.  So is one that waits for the
\* lock of a crypto queue pair or for its operations: odp_crypto_op returns
WaitsEnd ==
    /\ \A t \in Threads : Spins(t) \/ Rst!Spins(t) ~> pc[t] = "idle" /\ rst_pc[t] = "idle"
    /\ Crypto!CallReturns

\* What is handed over gets out: every event put into a queue of the strict priority
\* scheduler is taken out, and every packet given to the traffic manager is sent
AllServed == Sp!EventsScheduled /\ Tree!AllSent

\* A cancelled periodic timer ends with its final timeout
CancelEnds == Dpdk!CancelEnds

\* odp_ipsec_sa_disable returns: the uses it waits for end and no lookup takes a new one
DisableEnds == Sa!DisableEnds

\* odp_tm_enq returns, and so does the change of a profile
CallsReturn == Input!CallsReturn
=============================================================================
