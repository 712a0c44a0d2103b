---------------------------- MODULE MC_LiveSched ----------------------------
(* Small instances of Barrier, SchedBasic and SchedGroups for liveness.  which    *)
(* chooses the instance a behaviour is about; the others stay in their initial    *)
(* states.  The instance of Barrier is this module's own.                         *)
EXTENDS Barrier, Sequences, MC_SchedParams

CONSTANT NoQueue

VARIABLES which,
          status, evq, param, spread, poll_pktin, count, mask, ring, ctx, next_ctx, lock,
          pktio, num_pktin, basic_th, nev, deqs, via,
          grp, conf, configured, num_grps, num_grp_prios, grp_epoch, queue, prio_grp_count,
          prio_grp_mask, all, groups_th, asked

\* An ordered queue whose events go to an atomic one
Basic == INSTANCE SchedBasic WITH
    Queues <- {q1, q2}, NumPrio <- 1, NumSpread <- 1, SpreadThrs <- OneSpread,
    LoadBalance <- FALSE, Params <- {Source, AtomicSink}, Boot <- LiveBoot, QueueSize <- 2,
    BurstDefault <- 2, BurstMax <- 2, MaxNum <- 1, OrderStashSize <- 0, MaxEvents <- 2,
    Calls <- {"order_lock"}, th <- basic_th

\* The same scheduler with an atomic and a parallel queue that may be destroyed
Destroying == INSTANCE SchedBasic WITH
    Queues <- {q1, q2}, NumPrio <- 1, NumSpread <- 1, SpreadThrs <- OneSpread,
    LoadBalance <- FALSE, Params <- {}, Boot <- TokenBoot, QueueSize <- 1,
    BurstDefault <- 1, BurstMax <- 1, MaxNum <- 1, OrderStashSize <- 0, MaxEvents <- 2,
    Calls <- {"destroy"}, th <- basic_th

\* One thread, and groups and queues that come and go
Groups == INSTANCE SchedGroups WITH
    NumThreads <- 1, NumGroups <- 5, NumSpread <- 2, NumPrio <- 2, Configs <- {ConfigOne},
    Params <- {{}}, Queues <- {q1, q2}, Calls <- {"create", "destroy", "join", "thread", "queue"},
    MaxEpoch <- 5, th <- groups_th

basic_vars == <<status, evq, param, spread, poll_pktin, count, mask, ring, ctx, next_ctx,
                lock, pktio, num_pktin, basic_th, nev, deqs, via>>
groups_vars == <<grp, conf, configured, num_grps, num_grp_prios, grp_epoch, queue,
                 prio_grp_count, prio_grp_mask, all, groups_th, asked>>
live_vars == <<which, vars, basic_vars, groups_vars>>

LiveInit ==
    /\ which \in {"barrier", "basic", "destroy", "groups"}
    /\ IF which = "destroy" THEN Destroying!Init ELSE Basic!Init
    /\ Init /\ Groups!Init

LiveNext ==
    \/ which = "barrier" /\ Next /\ UNCHANGED <<which, basic_vars, groups_vars>>
    \/ which = "basic" /\ Basic!Next /\ UNCHANGED <<which, vars, groups_vars>>
    \/ which = "destroy" /\ Destroying!Next /\ UNCHANGED <<which, vars, groups_vars>>
    \/ which = "groups" /\ Groups!Next /\ UNCHANGED <<which, vars, basic_vars>>

\* The fairness the modules state
LiveSpec ==
    /\ LiveInit /\ [][LiveNext]_live_vars
    /\ \A t \in Threads :
           /\ WF_vars(which = "barrier" /\ (Wrap(t) \/ Pass(t)))
           /\ WF_basic_vars(which = "basic" /\ Basic!Step(t))
           /\ WF_basic_vars(which = "basic" /\ Basic!OrderUnlock(t))
           /\ WF_basic_vars(which = "basic" /\ Basic!Schedule(t))
           /\ WF_basic_vars(which = "destroy" /\ Destroying!Step(t))
           /\ WF_basic_vars(which = "destroy" /\ Destroying!Schedule(t))
    /\ WF_groups_vars(which = "groups" /\ Groups!ThreadStep(0))
    /\ WF_groups_vars(which = "groups" /\ Groups!Schedule(0))
-----------------------------------------------------------------------------
\* Every event put into a queue of the basic scheduler is taken out by some thread
EventsScheduled == Basic!EventsScheduled

\* A thread that waits for its turn to release, enqueue or lock in order gets it
OrderWaitEnds == Basic!OrderWaitEnds

\* A queue destroyed while its token was in the scheduler is freed
DestroyedIsFreed == Destroying!DestroyedIsFreed

\* A running thread that is in the mask of a group gets the group into its table; and the
\* mask that lets it skip a priority level has the bit of every group with a queue there,
\* and no other
MemberServed == []Groups!QueueVisible /\ Groups!MemberServed
=============================================================================
