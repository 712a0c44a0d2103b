---------------------------- MODULE MC_SchedParams ----------------------------
(* Queue parameters, configurations and boot states of the small instances of *)
(* SchedBasic, SchedGroups and SchedSp.                                        *)
EXTENDS Integers, TLC

CONSTANTS q1, q2

(* SchedBasic: two priorities at most, 0 is the higher one *)
Atomic == [sync |-> "atomic", prio |-> 0, order |-> "keep", locks |-> 0, pktin |-> FALSE,
           use |-> {"new"}]
Parallel == [Atomic EXCEPT !.sync = "parallel"]
Source == [Atomic EXCEPT !.sync = "ordered", !.locks = 1]
Sink == [Parallel EXCEPT !.use = {"forward"}]
AtomicSink == [Atomic EXCEPT !.use = {"forward"}]
PktinShared == [Atomic EXCEPT !.pktin = TRUE]
PktinOrdered == [PktinShared EXCEPT !.sync = "ordered", !.prio = 1, !.use = {}]

TokenBoot == q1 :> Atomic @@ q2 :> Parallel
OrderBoot == q1 :> Source @@ q2 :> Sink
LiveBoot == q1 :> Source @@ q2 :> AtomicSink
PktinBoot == q1 :> Atomic @@ q2 :> PktinOrdered
SharedBoot == q1 :> PktinShared

OneSpread == 0 :> 1
UnevenSpreads == 0 :> 2 @@ 1 :> 0

(* SchedGroups.  GROUP_ALL is 0 and GROUP_WORKER 1. *)
AnyLevel == 0 :> {} @@ 1 :> {} @@ 2 :> {}

\* All predefined groups off but one; two named groups fit.  The levels the groups
\* may have together are fewer than three times the levels there are.
ConfigAll == [enable |-> {0}, num_groups |-> 3, num_group_prios |-> 5,
              prios |-> {0, 1}, level |-> AnyLevel]
\* As ConfigAll, with one named group
ConfigOne == [ConfigAll EXCEPT !.num_groups = 2]
\* Two predefined groups, one restricted to a level, and one named group
ConfigTypes == [enable |-> {0, 1}, num_groups |-> 3, num_group_prios |-> 5,
                prios |-> {0, 1}, level |-> [AnyLevel EXCEPT ![1] = {1}]]
\* No predefined group; one priority level less
ConfigNone == [enable |-> {}, num_groups |-> 2, num_group_prios |-> 3,
               prios |-> {1}, level |-> AnyLevel]

(* SchedSp: both queues are there, or one that is not created yet *)
SpBoot == q1 :> [group |-> 1, prio |-> 0] @@ q2 :> [group |-> 0, prio |-> 1]
=============================================================================
