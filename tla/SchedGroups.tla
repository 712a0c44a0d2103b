----------------------------- MODULE SchedGroups -----------------------------
(***************************************************************************)
(* Schedule groups of platform/linux-generic/odp_schedule_basic.c and the  *)
(* threads of platform/linux-dpdk/odp_thread.c that join them.             *)
(*                                                                         *)
(* A group is changed under grp_lock, and every change of its thread mask  *)
(* advances an epoch.  A thread schedules from a private table of its      *)
(* groups, which it refreshes when the epoch differs from the one it saw.  *)
(* Threads start and stop, and are put into the predefined groups, in      *)
(* several steps that take locks of their own.                             *)
(*                                                                         *)
(* One action is one critical section.  What happens inside a group is in  *)
(* SchedBasic; here a queue may always have an event.                      *)
(***************************************************************************)
EXTENDS Integers, FiniteSets, FiniteSetsExt

CONSTANTS NumThreads,   \* thread_globals->num_max
          NumGroups,    \* NUM_SCHED_GRPS
          NumSpread, NumPrio,
          Configs,      \* configurations the application may choose
          Params,       \* levels asked for in create_2; {} stands for num = 0
          Queues,
          Calls,        \* API calls the application makes
          MaxEpoch      \* bound: no new call changes groups or threads after that

VARIABLES grp,                      \* sched->sched_grp
          conf, configured,         \* sched->config_if
          num_grps, num_grp_prios, grp_epoch,
          queue, prio_grp_count, prio_grp_mask,
          all,                      \* thread_globals->all: ids in use
          th,                       \* each thread and its sched_local
          asked                     \* history: the levels each group was created with

qvars == <<queue, prio_grp_count, prio_grp_mask>>
nvars == <<num_grps, num_grp_prios>>
cvars == <<conf, configured>>
vars == <<grp, cvars, nvars, grp_epoch, qvars, all, th, asked>>

Groups == 0..NumGroups - 1
GroupAll == 0
GroupWorker == 1
GroupControl == 2
Predefined == 0..2
Named == Groups \ Predefined
Ids == 0..NumThreads - 1
Prios == 0..NumPrio - 1
Spreads == 0..NumSpread - 1
QueueUnused == [grp |-> -1, prio |-> -1]

\* spread_from_index, and the number of threads of m in each spread
SpreadOf(i) == i % NumSpread
ThrsIn(m) == [s \in Spreads |-> Cardinality({i \in m : SpreadOf(i) = s})]

\* spread_thrs_inc and spread_thrs_dec of a 16-bit counter
ThrsInc(cnt, m) == [s \in Spreads |-> (cnt[s] + ThrsIn(m)[s]) % 2^16]
ThrsDec(cnt, m) == [s \in Spreads |-> (cnt[s] - ThrsIn(m)[s]) % 2^16]

MyGroups(i) == {g \in Groups : grp[g].allocated /\ i \in grp[g].mask}
QueuesOf(g) == {q \in Queues : queue[q].grp = g}
TypeGroup(i) == IF th[i].type = "worker" THEN GroupWorker ELSE GroupControl

Absent == [pc |-> "none", type |-> "worker", flags |-> {}, seen |-> 0, grp_epoch |-> 0,
           tbl |-> {}]

\* schedule_init_global: every group has all priority levels, the predefined ones
\* are allocated and empty.
Init ==
    /\ grp = [g \in Groups |-> [allocated |-> g \in Predefined, mask |-> {},
                                spread_thrs |-> [s \in Spreads |-> 0], level |-> Prios]]
    /\ conf = [enable |-> Predefined, max_groups |-> NumGroups - 3,
               max_group_prios |-> NumGroups * NumPrio, prios |-> Prios]
    /\ configured = FALSE
    /\ num_grps = 0 /\ num_grp_prios = 0 /\ grp_epoch = 0
    /\ queue = [q \in Queues |-> QueueUnused]
    /\ prio_grp_count = [p \in Prios |-> [g \in Groups |-> 0]]
    /\ prio_grp_mask = [p \in Prios |-> {}]
    /\ all = {} /\ th = [i \in Ids |-> Absent]
    /\ asked = [g \in Groups |-> {}]

-----------------------------------------------------------------------------
(* Configuration *)

LevelsOf(c, g) == IF c.level[g] = {} THEN c.prios ELSE c.level[g]

\* schedule_config, called once, before anything else of the scheduler
Config(c) ==
    LET prios == MapThenSumSet(LAMBDA g : Cardinality(LevelsOf(c, g)), c.enable)
        off == Predefined \ c.enable
    IN  /\ ~configured
        /\ c.num_groups <= conf.max_groups /\ c.num_group_prios <= conf.max_group_prios
        /\ c.prios \subseteq conf.prios
        /\ Cardinality(c.enable) <= c.num_groups /\ prios <= c.num_group_prios
        /\ \A g \in Predefined : c.level[g] \subseteq c.prios
        /\ configured' = TRUE
        /\ conf' = [enable |-> c.enable, max_groups |-> c.num_groups,
                    max_group_prios |-> c.num_group_prios, prios |-> c.prios]
        /\ grp' = [g \in Groups |->
                     [grp[g] EXCEPT !.level = IF g \in Predefined THEN LevelsOf(c, g) ELSE c.prios,
                                    !.mask = IF g \in off THEN {} ELSE @,
                                    !.allocated = @ /\ g \notin off]]
        /\ grp_epoch' = grp_epoch + Cardinality(off)
        /\ num_grps' = num_grps + Cardinality(c.enable)
        /\ num_grp_prios' = num_grp_prios + prios
        /\ asked' = [g \in Groups |-> IF g \in Predefined THEN c.level[g] ELSE {}]
        /\ UNCHANGED <<qvars, all, th>>

-----------------------------------------------------------------------------
(* Groups *)

\* The application calls into the scheduler; no group changes after the bound.
Call(name) == name \in Calls /\ configured /\ grp_epoch < MaxEpoch

\* grp_update_mask: the mask, and the epoch that makes threads look at it
UpdateMask(g, m, thrs) ==
    /\ grp' = [grp EXCEPT ![g].mask = m, ![g].spread_thrs = thrs]
    /\ grp_epoch' = grp_epoch + 1

\* The levels a group is charged for
NumPrios(lv) == Cardinality(IF lv = {} THEN conf.prios ELSE lv)

\* allocate_group takes the first free index; set_group_prios leaves the levels
\* alone when lv = {}.
AllocateGroup(m, lv) ==
    LET free == {g \in Named : ~grp[g].allocated}
        g == Min(free)
    IN  /\ free # {}
        /\ grp' = [grp EXCEPT ![g] = [allocated |-> TRUE, mask |-> m,
                                      spread_thrs |-> ThrsInc(@.spread_thrs, m),
                                      level |-> IF lv = {} THEN @.level ELSE lv]]
        /\ grp_epoch' = grp_epoch + 1
        /\ num_grps' = num_grps + 1
        /\ num_grp_prios' = num_grp_prios + NumPrios(lv)
        /\ asked' = [asked EXCEPT ![g] = lv]

\* schedule_group_create_2 with levels lv; schedule_group_create is the same with {}.
GroupCreate(m, lv) ==
    /\ Call("create") /\ lv \subseteq conf.prios
    /\ num_grps < conf.max_groups
    /\ num_grp_prios + NumPrios(lv) <= conf.max_group_prios
    /\ AllocateGroup(m, lv)
    /\ UNCHANGED <<cvars, qvars, all, th>>


\* "All queues belonging to the schedule group must be destroyed before".
GroupDestroy(g) ==
    /\ Call("destroy") /\ grp[g].allocated /\ QueuesOf(g) = {}
    /\ grp' = [grp EXCEPT ![g].mask = {}, ![g].spread_thrs = [s \in Spreads |-> 0],
                          ![g].allocated = FALSE]
    /\ grp_epoch' = grp_epoch + 1
    /\ num_grps' = num_grps - 1
    /\ num_grp_prios' = num_grp_prios - Cardinality(grp[g].level)
    /\ UNCHANGED <<cvars, qvars, all, th, asked>>

\* The application keeps track of the members: it joins threads that are not in
\* the group and removes threads that are.
GroupJoin(g, m) ==
    /\ Call("join") /\ grp[g].allocated
    /\ m # {} /\ m \cap grp[g].mask = {}
    /\ UpdateMask(g, grp[g].mask \cup m, ThrsInc(grp[g].spread_thrs, m))
    /\ UNCHANGED <<cvars, nvars, qvars, all, th, asked>>

GroupLeave(g, m) ==
    /\ Call("leave") /\ grp[g].allocated
    /\ m # {} /\ m \subseteq grp[g].mask
    /\ UpdateMask(g, grp[g].mask \ m, ThrsDec(grp[g].spread_thrs, m))
    /\ UNCHANGED <<cvars, nvars, qvars, all, th, asked>>

-----------------------------------------------------------------------------
(* Threads *)

Goto(i, label) == th' = [th EXCEPT ![i].pc = label]

ThrAdd(i, g) ==
    IF g \in th[i].flags /\ grp[g].allocated
    THEN UpdateMask(g, grp[g].mask \cup {i}, ThrsInc(grp[g].spread_thrs, {i}))
    ELSE UNCHANGED <<grp, grp_epoch>>

ThrRem(i, g) ==
    IF g \in th[i].flags /\ grp[g].allocated
    THEN UpdateMask(g, grp[g].mask \ {i}, ThrsDec(grp[g].spread_thrs, {i}))
    ELSE UNCHANGED <<grp, grp_epoch>>

\* alloc_id: the lowest id not in use
AllocId == Min(Ids \ all)

\* _odp_thread_init_local: the flags of the groups are read once, before the id is
\* allocated.
ThreadInit(ty) ==
    /\ "thread" \in Calls /\ grp_epoch < MaxEpoch
    /\ Ids \ all # {}
    /\ all' = all \cup {AllocId}
    /\ th' = [th EXCEPT ![AllocId] = [Absent EXCEPT !.pc = "add_all", !.type = ty,
                                                    !.flags = conf.enable]]
    /\ UNCHANGED <<grp, cvars, nvars, grp_epoch, qvars, asked>>

AddAll(i) ==
    /\ th[i].pc = "add_all"
    /\ ThrAdd(i, GroupAll)
    /\ Goto(i, "add_type")
    /\ UNCHANGED <<cvars, nvars, qvars, all, asked>>

AddType(i) ==
    /\ th[i].pc = "add_type"
    /\ ThrAdd(i, TypeGroup(i))
    /\ Goto(i, "app")
    /\ UNCHANGED <<cvars, nvars, qvars, all, asked>>

\* _odp_thread_term_local
ThreadTerm(i) ==
    /\ "thread" \in Calls /\ grp_epoch < MaxEpoch
    /\ th[i].pc = "app"
    /\ th' = [th EXCEPT ![i].pc = "rem_all", ![i].flags = conf.enable]
    /\ UNCHANGED <<grp, cvars, nvars, grp_epoch, qvars, all, asked>>

RemAll(i) ==
    /\ th[i].pc = "rem_all"
    /\ ThrRem(i, GroupAll)
    /\ Goto(i, "rem_type")
    /\ UNCHANGED <<cvars, nvars, qvars, all, asked>>

\* Faulty form: only the group of all threads is left.
RemType_Skip(i) ==
    /\ th[i].pc = "rem_type"
    /\ Goto(i, "free")
    /\ UNCHANGED <<grp, cvars, nvars, grp_epoch, qvars, all, asked>>

RemType(i) ==
    /\ th[i].pc = "rem_type"
    /\ ThrRem(i, TypeGroup(i))
    /\ Goto(i, "free")
    /\ UNCHANGED <<cvars, nvars, qvars, all, asked>>

FreeId(i) ==
    /\ th[i].pc = "free"
    /\ all' = all \ {i}
    /\ th' = [th EXCEPT ![i] = Absent]
    /\ UNCHANGED <<grp, cvars, nvars, grp_epoch, qvars, asked>>

-----------------------------------------------------------------------------
(* Scheduling *)

\* Faulty form: a thread that has groups does not look at the epoch.
Schedule_NoEpoch(i) ==
    /\ configured /\ th[i].pc = "app"
    /\ th' = [th EXCEPT ![i].seen = IF th[i].tbl = {} THEN grp_epoch ELSE 0,
                        ![i].pc = IF th[i].tbl = {} THEN "update" ELSE "scan"]
    /\ UNCHANGED <<grp, cvars, nvars, grp_epoch, qvars, all, asked>>

\* do_schedule: the epoch is loaded without the lock.  With a current epoch and no
\* groups the call returns and changes nothing.
Schedule(i) ==
    /\ configured /\ th[i].pc = "app"
    /\ \/ /\ grp_epoch # th[i].grp_epoch
          /\ th' = [th EXCEPT ![i].seen = grp_epoch, ![i].pc = "update"]
       \/ /\ grp_epoch = th[i].grp_epoch /\ th[i].tbl # {}
          /\ Goto(i, "scan")
    /\ UNCHANGED <<grp, cvars, nvars, grp_epoch, qvars, all, asked>>

\* Faulty form: the epoch is loaded after the table has been made.
UpdateTbl_LateEpoch(i) ==
    \/ /\ th[i].pc = "update"
       /\ th' = [th EXCEPT ![i].tbl = MyGroups(i), ![i].pc = "late"]
       /\ UNCHANGED <<grp, cvars, nvars, grp_epoch, qvars, all, asked>>
    \/ /\ th[i].pc = "late"
       /\ th' = [th EXCEPT ![i].grp_epoch = grp_epoch, ![i].seen = 0,
                           ![i].pc = IF th[i].tbl = {} THEN "app" ELSE "scan"]
       /\ UNCHANGED <<grp, cvars, nvars, grp_epoch, qvars, all, asked>>

\* grp_update_tbl, under the lock; the epoch kept is the one loaded before.
UpdateTbl(i) ==
    /\ th[i].pc = "update"
    /\ th' = [th EXCEPT ![i].tbl = MyGroups(i), ![i].grp_epoch = th[i].seen, ![i].seen = 0,
                        ![i].pc = IF MyGroups(i) = {} THEN "app" ELSE "scan"]
    /\ UNCHANGED <<grp, cvars, nvars, grp_epoch, qvars, all, asked>>

\* The groups of the table are tried at each priority level where the mask says that
\* one of them has queues.
MayReceive(i, q) ==
    /\ th[i].pc = "scan" /\ queue[q] # QueueUnused
    /\ prio_grp_mask[queue[q].prio] \cap th[i].tbl # {}
    /\ queue[q].grp \in th[i].tbl

\* Some queue is scheduled, or none has events for this thread.
Receive(i, q) ==
    /\ MayReceive(i, q)
    /\ Goto(i, "app")
    /\ UNCHANGED <<grp, cvars, nvars, grp_epoch, qvars, all, asked>>

NothingFound(i) ==
    /\ th[i].pc = "scan"
    /\ Goto(i, "app")
    /\ UNCHANGED <<grp, cvars, nvars, grp_epoch, qvars, all, asked>>

-----------------------------------------------------------------------------
(* Queues *)

\* schedule_create_queue up to prio_grp_mask_set; p counts from the API's lowest
\* level, the code's index is max_prio - p.
QueueCreate(q, g, p) ==
    /\ "queue" \in Calls /\ configured
    /\ queue[q] = QueueUnused
    /\ p \in grp[g].level
    /\ g \in Predefined => g \in conf.enable
    /\ grp[g].allocated
    /\ queue' = [queue EXCEPT ![q] = [grp |-> g, prio |-> p]]
    /\ prio_grp_mask' = [prio_grp_mask EXCEPT ![p] = @ \cup {g}]
    /\ prio_grp_count' = [prio_grp_count EXCEPT ![p][g] = @ + 1]
    /\ UNCHANGED <<grp, cvars, nvars, grp_epoch, all, th, asked>>

\* schedule_destroy_queue with prio_grp_mask_clear
QueueDestroy(q) ==
    LET g == queue[q].grp
        p == queue[q].prio
    IN  /\ "queue" \in Calls /\ queue[q] # QueueUnused
        /\ prio_grp_count' = [prio_grp_count EXCEPT ![p][g] = @ - 1]
        /\ prio_grp_mask' = IF prio_grp_count[p][g] = 1
                            THEN [prio_grp_mask EXCEPT ![p] = @ \ {g}] ELSE prio_grp_mask
        /\ queue' = [queue EXCEPT ![q] = QueueUnused]
        /\ UNCHANGED <<grp, cvars, nvars, grp_epoch, all, th, asked>>

-----------------------------------------------------------------------------
ThreadStep(i) == \/ AddAll(i) \/ AddType(i) \/ RemAll(i) \/ RemType(i) \/ FreeId(i)
                 \/ UpdateTbl(i) \/ NothingFound(i)
                 \/ \E q \in Queues : Receive(i, q)

Next == \/ \E c \in Configs : Config(c)
        \/ \E m \in SUBSET all, lv \in Params : GroupCreate(m, lv)
        \/ \E g \in Named : \/ GroupDestroy(g)
                            \/ \E m \in SUBSET all : GroupJoin(g, m)
                            \/ \E m \in SUBSET Ids : GroupLeave(g, m)
        \/ \E ty \in {"worker", "control"} : ThreadInit(ty)
        \/ \E i \in Ids : ThreadTerm(i) \/ Schedule(i) \/ ThreadStep(i)
        \/ \E q \in Queues : \/ QueueDestroy(q)
                             \/ \E g \in Groups, p \in Prios : QueueCreate(q, g, p)

Spec == Init /\ [][Next]_vars

\* Threads keep running and keep calling the scheduler.
FairSpec == Spec /\ \A i \in Ids : WF_vars(ThreadStep(i)) /\ WF_vars(Schedule(i))
-----------------------------------------------------------------------------
(* Properties *)

TypeOK ==
    /\ grp \in [Groups -> [allocated : BOOLEAN, mask : SUBSET Ids,
                           spread_thrs : [Spreads -> 0..NumThreads], level : SUBSET Prios]]
    /\ conf \in [enable : SUBSET Predefined, max_groups : Nat, max_group_prios : Nat,
                 prios : SUBSET Prios]
    /\ configured \in BOOLEAN
    /\ num_grps \in 0..conf.max_groups /\ num_grp_prios \in Nat /\ grp_epoch \in Nat
    /\ queue \in [Queues -> [grp : Groups, prio : Prios] \cup {QueueUnused}]
    /\ prio_grp_count \in [Prios -> [Groups -> 0..Cardinality(Queues)]]
    /\ prio_grp_mask \in [Prios -> SUBSET Groups]
    /\ all \subseteq Ids
    /\ th \in [Ids -> [pc : {"none", "add_all", "add_type", "app", "rem_all", "rem_type", "free",
                             "update", "scan"},
                       type : {"worker", "control"}, flags : SUBSET Predefined,
                       seen : Nat, grp_epoch : Nat, tbl : SUBSET Groups]]

\* A thread whose epoch is current knows exactly the groups it belongs to: the
\* unlocked load of the epoch never makes it miss a change of membership.
FreshTable ==
    \A i \in all : th[i].pc \in {"app", "scan"} /\ th[i].grp_epoch = grp_epoch
                     => th[i].tbl = MyGroups(i)

\* "There are predefined groups ... which are present by default and are
\* automatically updated": a running thread is in the group of all threads and in
\* that of its type only, an absent one in none, whatever start, stop, reuse of
\* ids and configuration overlap.
AutoGroups ==
    \A i \in Ids, g \in {h \in Predefined : grp[h].allocated} :
      /\ th[i].pc = "none" => i \notin grp[g].mask
      /\ th[i].pc \in {"app", "update", "scan"} =>
           (i \in grp[g].mask <=> g \in {GroupAll, TypeGroup(i)})

\* The thread counts that balance_spread divides by are those of the mask.
SpreadCount ==
    \A g \in Groups : grp[g].allocated => grp[g].spread_thrs = ThrsIn(grp[g].mask)

\* The groups in use are counted, and their priority levels together stay within
\* num_group_prios of the configuration.
LimitsKept ==
    configured =>
      LET used == {g \in Groups : grp[g].allocated}
      IN  /\ num_grps = Cardinality(used) /\ num_grps <= conf.max_groups
          /\ MapThenSumSet(LAMBDA g : Cardinality(grp[g].level), used) <= conf.max_group_prios

\* The mask that lets a thread skip a priority level has the bit of every group
\* with a queue there, and no other.
QueueVisible ==
    \A p \in Prios :
      /\ prio_grp_mask[p] = {queue[q].grp : q \in {r \in Queues : queue[r].prio = p}}
      /\ \A g \in prio_grp_mask[p] : grp[g].allocated

\* A running thread that is in the mask of a group gets the group into its table,
\* unless it leaves the group or stops first.
MemberServed ==
    \A i \in Ids, g \in Groups :
      (configured /\ th[i].pc = "app" /\ g \in MyGroups(i))
        ~> (g \in th[i].tbl \/ g \notin MyGroups(i) \/ th[i].pc = "none")

\* "When 0, the global priority range ... is used with this group": a group has
\* the levels it was created with.
GlobalRange ==
    configured => \A g \in Groups :
      grp[g].allocated => grp[g].level = IF asked[g] = {} THEN conf.prios ELSE asked[g]
=============================================================================
