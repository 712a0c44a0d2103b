------------------------------- MODULE MC_Sched -------------------------------
(* Small instances of the schedulers, for safety.  which chooses the instance a *)
(* behaviour is about.  Instances share the variables that have the same name;  *)
(* a variable the instance does not have is 0.                                  *)
EXTENDS MC_SchedParams

CONSTANTS Threads, NoQueue

VARIABLES which,
          th, queue, ring, pktio,
          status, evq, param, spread, poll_pktin, count, mask, ctx, next_ctx, lock,
          num_pktin, nev, deqs, via,
          grp, conf, configured, num_grps, num_grp_prios, grp_epoch, prio_grp_count,
          prio_grp_mask, all, asked,
          group, thr, enqs

\* Two spreads and load balancing; queues are destroyed and created
Token == INSTANCE SchedBasic WITH
    Queues <- {q1, q2}, NumPrio <- 1, NumSpread <- 2, SpreadThrs <- UnevenSpreads,
    LoadBalance <- TRUE, Params <- {Atomic, Parallel}, Boot <- TokenBoot, QueueSize <- 2,
    BurstDefault <- 2, BurstMax <- 2, MaxNum <- 1, OrderStashSize <- 1, MaxEvents <- 2,
    Calls <- {"destroy", "create"}

\* An ordered queue whose events are forwarded, with an order lock
Ordered == INSTANCE SchedBasic WITH
    Queues <- {q1, q2}, NumPrio <- 1, NumSpread <- 1, SpreadThrs <- OneSpread,
    LoadBalance <- FALSE, Params <- {Source, Sink}, Boot <- OrderBoot, QueueSize <- 4,
    BurstDefault <- 2, BurstMax <- 2, MaxNum <- 1, OrderStashSize <- 1, MaxEvents <- 3,
    Calls <- {"order_lock", "release"}

\* An input queue that only the interface feeds, and another queue
Pktin == INSTANCE SchedBasic WITH
    Queues <- {q1, q2}, NumPrio <- 2, NumSpread <- 1, SpreadThrs <- OneSpread,
    LoadBalance <- FALSE, Params <- {Atomic, PktinOrdered}, Boot <- PktinBoot, QueueSize <- 2,
    BurstDefault <- 1, BurstMax <- 2, MaxNum <- 2, OrderStashSize <- 1, MaxEvents <- 2,
    Calls <- {"pktio_start", "pktio_stop", "pktio_restart", "pause"}

\* Groups and threads come and go, under three configurations
Groups == INSTANCE SchedGroups WITH
    NumThreads <- 2, NumGroups <- 6, NumSpread <- 2, NumPrio <- 2,
    Configs <- {ConfigAll, ConfigTypes, ConfigNone}, Params <- {{}, {0}}, Queues <- {},
    Calls <- {"create", "destroy", "join", "leave", "thread"}, MaxEpoch <- 4

\* The strict priority scheduler with an interface that is started and stopped
SpPktin == INSTANCE SchedSp WITH
    Queues <- {q1, q2}, InQueue <- q2, NumGroups <- 1, Boot <- SpBoot,
    AllGroup <- {[allocated |-> TRUE, mask |-> Threads]}, QueueSize <- 2, MaxEnq <- 2,
    MaxGen <- 3, None <- NoQueue,
    Calls <- {"pktio_start", "pktio_stop", "create", "destroy", "pause"}

\* and with a group threads join and leave
SpGroups == INSTANCE SchedSp WITH
    Queues <- {q1}, InQueue <- NoQueue, NumGroups <- 1, Boot <- SpBoot,
    AllGroup <- {[allocated |-> TRUE, mask |-> Threads]}, QueueSize <- 2, MaxEnq <- 2,
    MaxGen <- 3, None <- NoQueue, Calls <- {"create", "destroy", "group"}

NoBasic ==
    /\ status = 0 /\ evq = 0 /\ param = 0 /\ spread = 0 /\ poll_pktin = 0 /\ count = 0
    /\ mask = 0 /\ ctx = 0 /\ next_ctx = 0 /\ lock = 0 /\ num_pktin = 0 /\ nev = 0
    /\ deqs = 0 /\ via = 0
NoGroups ==
    /\ grp = 0 /\ conf = 0 /\ configured = 0 /\ num_grps = 0 /\ num_grp_prios = 0
    /\ grp_epoch = 0 /\ prio_grp_count = 0 /\ prio_grp_mask = 0 /\ all = 0 /\ asked = 0
NoSp == group = 0 /\ thr = 0 /\ enqs = 0

Init ==
    \/ which = "token" /\ Token!Init /\ NoGroups /\ NoSp /\ queue = 0
    \/ which = "ordered" /\ Ordered!Init /\ NoGroups /\ NoSp /\ queue = 0
    \/ which = "pktin" /\ Pktin!Init /\ NoGroups /\ NoSp /\ queue = 0
    \/ which = "groups" /\ Groups!Init /\ NoBasic /\ NoSp /\ ring = 0 /\ pktio = 0
    \/ which = "sp_pktin" /\ SpPktin!Init /\ NoBasic /\ NoGroups
    \/ which = "sp_groups" /\ SpGroups!Init /\ NoBasic /\ NoGroups

basic_vars == <<status, evq, param, spread, poll_pktin, count, mask, ctx, next_ctx, lock,
                num_pktin, nev, deqs, via>>
groups_vars == <<grp, conf, configured, num_grps, num_grp_prios, grp_epoch, prio_grp_count,
                 prio_grp_mask, all, asked>>
sp_vars == <<group, thr, enqs>>

Next ==
    \/ which = "token" /\ Token!Next /\ UNCHANGED <<which, groups_vars, sp_vars, queue>>
    \/ which = "ordered" /\ Ordered!Next /\ UNCHANGED <<which, groups_vars, sp_vars, queue>>
    \/ which = "pktin" /\ Pktin!Next /\ UNCHANGED <<which, groups_vars, sp_vars, queue>>
    \/ which = "groups" /\ Groups!Next /\ UNCHANGED <<which, basic_vars, sp_vars, ring, pktio>>
    \/ which = "sp_pktin" /\ SpPktin!Next /\ UNCHANGED <<which, basic_vars, groups_vars>>
    \/ which = "sp_groups" /\ SpGroups!Next /\ UNCHANGED <<which, basic_vars, groups_vars>>

Spec ==
    Init /\ [][Next]_<<which, th, queue, ring, pktio, basic_vars, groups_vars, sp_vars>>

Symmetry == Permutations(Threads)
-----------------------------------------------------------------------------
(* Basic scheduler *)

\* At most one token of a queue exists, in a ring or with a thread, through enqueues,
\* destroys, packet input that starts and stops, and the return of contexts.  So no two
\* threads are in the context of one atomic queue, a queue with events is not left behind,
\* and a stopped interface has no queue in the scheduler
OneToken ==
    /\ which = "token" => /\ Token!TypeOK /\ Token!OneToken /\ Token!AtomicExclusive
                          /\ Token!NoEventStranded
    /\ which = "pktin" => Pktin!OneToken /\ Pktin!StopIsFinal

\* The ring that holds the token of a queue is one the threads look at
TokenFindable == which = "token" => Token!TokenFindable

\* Events forwarded from an ordered queue arrive in the order of the queue
OrderKept == which = "ordered" => Ordered!OrderKept

\* The order lock is taken in the order of the queue
OrderLockInOrder == which = "ordered" => Ordered!OrderLockInOrder
-----------------------------------------------------------------------------
(* Groups of both schedulers *)

\* A thread whose epoch, or generation counter, is current searches its current groups
FreshTable == /\ which = "groups" => Groups!FreshTable
              /\ which = "sp_groups" => SpGroups!FreshGroups


\* A running thread is in the predefined groups of its type
AutoGroups == which = "groups" => Groups!AutoGroups
-----------------------------------------------------------------------------
(* Strict priority scheduler *)

\* A queue has one command exactly while it is in scheduling, and an interface while it is
\* started or its stop is pending: add_tail and rem_head neither lose nor repeat one
OneCommand == which = "sp_pktin" => SpPktin!OneCommand
=============================================================================
