------------------------------- MODULE SchedSp -------------------------------
(***************************************************************************)
(* Strict priority scheduler: platform/linux-generic/odp_schedule_sp.c,    *)
(* with the scheduled queues of odp_queue_basic.c and the start and stop   *)
(* of one packet interface.                                                *)
(*                                                                         *)
(* A queue that has events, and an interface that is polled, is a command: *)
(* it is in the ring of its group and priority or with the thread that     *)
(* took it.  A thread looks through the groups it is in, in the order it   *)
(* joined them, and keeps the command of the queue it got an event from    *)
(* until it calls the scheduler again.                                     *)
(*                                                                         *)
(* One action is one critical section of a queue, entry or group lock, one *)
(* ring operation or one load of the generation counter.                   *)
(***************************************************************************)
EXTENDS Integers, Sequences, FiniteSets, SequencesExt

CONSTANTS Threads, Queues,
          InQueue,      \* input queue of the interface, or None
          NumGroups,    \* groups 1..NumGroups, and 0 for GROUP_ALL
          Boot,         \* Boot[q]: [group, prio] of a queue created before, or None
          AllGroup,     \* [allocated, mask] of GROUP_ALL after the configuration; when it
                        \* is disabled the threads initialized before stay in the mask
          Calls,        \* calls the application makes
          QueueSize, MaxEnq, MaxGen,
          None

VARIABLES queue,        \* [status, num, group, prio]
          ring,         \* ring[group][prio]
          pktio,        \* state of the interface
          group,        \* [allocated, mask]
          thr,          \* thr_group_t: [groups, gen]
          th,           \* sched_local_t and the locals of a call
          enqs          \* number of events enqueued

vars == <<queue, ring, pktio, group, thr, th, enqs>>

Groups == 0..NumGroups
Prios == 0..2
PktinPrio == 2
Pktio == "pktio"

Local == [pc |-> "idle", held |-> None, cur |-> None, i |-> 1, prio |-> 0, groups |-> <<>>,
          gen |-> 0, pause |-> FALSE]

Init ==
    /\ \E all \in AllGroup :
           group = [g \in Groups |->
               IF g = 0 THEN all
               ELSE [allocated |-> \E q \in Queues : Boot[q] # None /\ Boot[q].group = g,
                     mask |-> Threads]]
    /\ thr = [t \in Threads |->
           [groups |-> SelectSeq([i \in 1..NumGroups + 1 |-> i - 1],
                                 LAMBDA g : group[g].allocated),
            gen |-> 1]]
    /\ queue = [q \in Queues |->
           IF Boot[q] = None THEN [status |-> "free", num |-> 0, group |-> 0, prio |-> 0]
           ELSE [status |-> "notsched", num |-> 0, group |-> Boot[q].group, prio |-> Boot[q].prio]]
    /\ ring = [g \in Groups |-> [p \in Prios |-> <<>>]]
    /\ pktio = "stopped"
    /\ th = [t \in Threads |-> Local]
    /\ enqs = 0

AddTail(c) ==
    LET g == IF c = Pktio THEN 0 ELSE queue[c].group
        p == IF c = Pktio THEN PktinPrio ELSE queue[c].prio
    IN  ring' = [ring EXCEPT ![g][p] = Append(@, c)]

Goto(t, pc) == th' = [th EXCEPT ![t].pc = pc]
Search(t) == [th[t] EXCEPT !.pc = "gen", !.cur = None]

-----------------------------------------------------------------------------
(* schedule_multi: first the queue of the last event *)

ScheduleCall(t) ==
    /\ th[t].pc = "idle"
    /\ th[t].held # None \/ ~th[t].pause
    /\ Goto(t, IF th[t].held # None THEN "empty" ELSE "gen")
    /\ UNCHANGED <<queue, ring, pktio, group, thr, enqs>>

\* The call goes on to search, unless the thread has paused
Released(t) == [th[t] EXCEPT !.held = None, !.pc = IF th[t].pause THEN "idle" ELSE "gen"]

\* Faulty: an empty queue keeps its status
QueueEmpty_KeepStatus(t) ==
    LET q == th[t].held
        more == queue[q].status \in {"notsched", "sched"} /\ queue[q].num > 0
    IN  /\ th[t].pc = "empty"
        /\ th' = [th EXCEPT ![t] = IF more THEN [@ EXCEPT !.pc = "addback"] ELSE Released(t)]
        /\ UNCHANGED <<queue, ring, pktio, group, thr, enqs>>

\* _odp_sched_queue_empty
QueueEmpty(t) ==
    LET q == th[t].held
        live == queue[q].status \in {"notsched", "sched"}
    IN  /\ th[t].pc = "empty"
        /\ IF live /\ queue[q].num > 0
           THEN Goto(t, "addback") /\ UNCHANGED queue
           ELSE /\ th' = [th EXCEPT ![t] = Released(t)]
                /\ queue' = IF live THEN [queue EXCEPT ![q].status = "notsched"] ELSE queue
        /\ UNCHANGED <<ring, pktio, group, thr, enqs>>

AddBack(t) ==
    /\ th[t].pc = "addback"
    /\ AddTail(th[t].held)
    /\ th' = [th EXCEPT ![t] = Released(t)]
    /\ UNCHANGED <<queue, pktio, group, thr, enqs>>

(* sched_cmd *)

LoadGen(t) ==
    /\ th[t].pc = "gen"
    /\ th' = [th EXCEPT ![t].pc = IF thr[t].gen = th[t].gen THEN "find" ELSE "refresh",
                        ![t].i = 1, ![t].prio = 0]
    /\ UNCHANGED <<queue, ring, pktio, group, thr, enqs>>

Refresh(t) ==
    /\ th[t].pc = "refresh"
    /\ th' = [th EXCEPT ![t].pc = "find", ![t].groups = thr[t].groups, ![t].gen = thr[t].gen]
    /\ UNCHANGED <<queue, ring, pktio, group, thr, enqs>>

\* rem_head of one ring; without a command the call returns, or begins again
Find(t) ==
    LET l == th[t]
        g == l.groups[l.i]
        r == ring[g][l.prio]
    IN  /\ l.pc = "find"
        /\ IF l.i > Len(l.groups)
           THEN Goto(t, "idle") /\ UNCHANGED ring
           ELSE IF r = <<>>
           THEN /\ th' = [th EXCEPT ![t] = IF l.prio = PktinPrio
                                           THEN [@ EXCEPT !.i = @ + 1, !.prio = 0]
                                           ELSE [@ EXCEPT !.prio = @ + 1]]
                /\ UNCHANGED ring
           ELSE /\ ring' = [ring EXCEPT ![g][l.prio] = Tail(r)]
                /\ th' = [th EXCEPT ![t].cur = Head(r),
                                    ![t].pc = IF Head(r) = Pktio THEN "poll" ELSE "deq"]
        /\ UNCHANGED <<queue, pktio, group, thr, enqs>>

\* _odp_sched_queue_deq of one event
Deq(t) ==
    LET q == th[t].cur
    IN  /\ th[t].pc = "deq"
        /\ IF queue[q].status \notin {"notsched", "sched"}
           THEN /\ queue' = IF queue[q].status = "destroyed"
                            THEN [queue EXCEPT ![q] = [status |-> "free", num |-> 0,
                                                       group |-> 0, prio |-> 0]]
                            ELSE queue
                /\ th' = [th EXCEPT ![t] = Search(t)]
           ELSE IF queue[q].num = 0
           THEN /\ queue' = [queue EXCEPT ![q].status = "notsched"]
                /\ th' = [th EXCEPT ![t] = Search(t)]
           ELSE /\ queue' = [queue EXCEPT ![q].num = @ - 1]
                /\ th' = [th EXCEPT ![t].held = q, ![t].cur = None, ![t].pc = "idle"]
        /\ UNCHANGED <<ring, pktio, group, thr, enqs>>

-----------------------------------------------------------------------------
(* Packet input *)

Poll(t) ==
    /\ th[t].pc = "poll"
    /\ \/ pktio = "started" /\ Goto(t, "readd") /\ UNCHANGED enqs
       \/ pktio = "started" /\ enqs < MaxEnq /\ Goto(t, "packet") /\ enqs' = enqs + 1
       \/ pktio = "stop_pending" /\ Goto(t, "finalize") /\ UNCHANGED enqs
    /\ UNCHANGED <<queue, ring, pktio, group, thr>>

\* sched_queue_enq_multi: the status becomes SCHED under the lock, the command follows later
Enqueued(q) ==
    IF queue[q].num = QueueSize THEN queue
    ELSE [queue EXCEPT ![q].num = @ + 1, ![q].status = "sched"]
Wakes(q) == queue[q].num < QueueSize /\ queue[q].status = "notsched"

EnqueuePacket(t) ==
    /\ th[t].pc = "packet"
    /\ queue' = Enqueued(InQueue)
    /\ Goto(t, IF Wakes(InQueue) THEN "addin" ELSE "readd")
    /\ UNCHANGED <<ring, pktio, group, thr, enqs>>

AddIn(t) ==
    /\ th[t].pc = "addin"
    /\ AddTail(InQueue)
    /\ Goto(t, "readd")
    /\ UNCHANGED <<queue, pktio, group, thr, enqs>>

\* The interface is polled again later; this call returns
Readd(t) ==
    /\ th[t].pc = "readd"
    /\ AddTail(Pktio)
    /\ th' = [th EXCEPT ![t].pc = "idle", ![t].cur = None]
    /\ UNCHANGED <<queue, pktio, group, thr, enqs>>

StopFinalize(t) ==
    /\ th[t].pc = "finalize"
    /\ pktio' = IF pktio = "stop_pending" THEN "stopped" ELSE pktio
    /\ th' = [th EXCEPT ![t].pc = "idle", ![t].cur = None]
    /\ UNCHANGED <<queue, ring, group, thr, enqs>>

PktioStart(t) ==
    /\ "pktio_start" \in Calls /\ th[t].pc = "idle"
    /\ pktio = "stopped"
    /\ pktio' = "started"
    /\ th' = [th EXCEPT ![t].pc = "startadd", ![t].cur = Pktio]
    /\ UNCHANGED <<queue, ring, group, thr, enqs>>

StartAdd(t) ==
    /\ th[t].pc = "startadd"
    /\ AddTail(Pktio)
    /\ th' = [th EXCEPT ![t].pc = "idle", ![t].cur = None]
    /\ UNCHANGED <<queue, pktio, group, thr, enqs>>

PktioStop(t) ==
    /\ "pktio_stop" \in Calls /\ th[t].pc = "idle" /\ pktio = "started"
    /\ pktio' = "stop_pending"
    /\ UNCHANGED <<queue, ring, group, thr, th, enqs>>

-----------------------------------------------------------------------------
(* The application *)

Enq(t, q) ==
    /\ th[t].pc = "idle" /\ enqs < MaxEnq
    /\ queue[q].status \in {"notsched", "sched"}
    /\ queue' = Enqueued(q)
    /\ th' = IF Wakes(q) THEN [th EXCEPT ![t].pc = "add", ![t].cur = q] ELSE th
    /\ enqs' = enqs + 1
    /\ UNCHANGED <<ring, pktio, group, thr>>

Add(t) ==
    /\ th[t].pc = "add"
    /\ AddTail(th[t].cur)
    /\ th' = [th EXCEPT ![t].pc = "idle", ![t].cur = None]
    /\ UNCHANGED <<queue, pktio, group, thr, enqs>>

Pause(t) ==
    /\ "pause" \in Calls /\ th[t].pc = "idle"
    /\ th' = [th EXCEPT ![t].pause = ~@]
    /\ UNCHANGED <<queue, ring, pktio, group, thr, enqs>>

QueueCreate(q, g, p) ==
    /\ "create" \in Calls /\ queue[q].status = "free" /\ group[g].allocated
    /\ queue' = [queue EXCEPT ![q] = [status |-> "notsched", num |-> 0, group |-> g, prio |-> p]]
    /\ UNCHANGED <<ring, pktio, group, thr, th, enqs>>

QueueDestroy(q) ==
    /\ "destroy" \in Calls /\ q # InQueue
    /\ queue[q].status \in {"notsched", "sched"} /\ queue[q].num = 0
    /\ queue' = IF queue[q].status = "sched" THEN [queue EXCEPT ![q].status = "destroyed"]
                ELSE [queue EXCEPT ![q] = [status |-> "free", num |-> 0, group |-> 0, prio |-> 0]]
    /\ UNCHANGED <<ring, pktio, group, thr, th, enqs>>

AddGroup(l, g) == [groups |-> Append(l.groups, g), gen |-> l.gen + 1]

RemoveGroup(l, g) ==
    IF Contains(l.groups, g) THEN [groups |-> RemoveFirst(l.groups, g), gen |-> l.gen + 1] ELSE l

GroupJoin(g, t) ==
    /\ "group" \in Calls /\ g # 0 /\ group[g].allocated
    /\ "rejoin" \in Calls \/ t \notin group[g].mask
    /\ thr[t].gen < MaxGen
    /\ group' = [group EXCEPT ![g].mask = @ \cup {t}]
    /\ thr' = [thr EXCEPT ![t] = AddGroup(@, g)]
    /\ UNCHANGED <<queue, ring, pktio, th, enqs>>

\* The mask keeps its threads that are in exactly one of thrmask and the mask of GROUP_ALL
NewMask(g, t) ==
    LET all == group[0].mask
    IN  group[g].mask \cap ((all \ {t}) \cup ({t} \ all))

GroupLeave(g, t) ==
    /\ "group" \in Calls /\ g # 0 /\ group[g].allocated /\ t \in group[g].mask
    /\ thr[t].gen < MaxGen
    /\ group' = [group EXCEPT ![g].mask = NewMask(g, t)]
    /\ thr' = [thr EXCEPT ![t] = RemoveGroup(@, g)]
    /\ UNCHANGED <<queue, ring, pktio, th, enqs>>

GroupCreate(g, mask) ==
    /\ "group" \in Calls /\ g # 0 /\ ~group[g].allocated
    /\ \A t \in Threads : thr[t].gen < MaxGen
    /\ group' = [group EXCEPT ![g] = [allocated |-> TRUE, mask |-> mask]]
    /\ thr' = [t \in Threads |-> IF t \in mask THEN AddGroup(thr[t], g) ELSE thr[t]]
    /\ UNCHANGED <<queue, ring, pktio, th, enqs>>

\* "All queues belonging to the schedule group must be destroyed before"
GroupDestroy(g) ==
    /\ "group" \in Calls /\ g # 0 /\ group[g].allocated
    /\ \A q \in Queues : queue[q].status \in {"notsched", "sched"} => queue[q].group # g
    /\ \A t \in Threads : thr[t].gen < MaxGen
    /\ group' = [group EXCEPT ![g].allocated = FALSE]
    /\ thr' = [t \in Threads |-> IF t \in group[g].mask THEN RemoveGroup(thr[t], g) ELSE thr[t]]
    /\ UNCHANGED <<queue, ring, pktio, th, enqs>>

Step(t) ==
    \/ QueueEmpty(t) \/ AddBack(t) \/ LoadGen(t) \/ Refresh(t) \/ Find(t) \/ Deq(t)
    \/ Poll(t) \/ EnqueuePacket(t) \/ AddIn(t) \/ Readd(t) \/ StopFinalize(t)
    \/ StartAdd(t) \/ Add(t)

Next ==
    \/ \E t \in Threads : ScheduleCall(t) \/ PktioStart(t) \/ PktioStop(t) \/ Pause(t) \/ Step(t)
    \/ \E t \in Threads, q \in Queues : Enq(t, q)
    \/ \E q \in Queues : QueueDestroy(q)
    \/ \E q \in Queues, g \in Groups, p \in 0..1 : QueueCreate(q, g, p)
    \/ \E g \in Groups : GroupDestroy(g)
    \/ \E g \in Groups, t \in Threads : GroupJoin(g, t) \/ GroupLeave(g, t)
    \/ \E g \in Groups, mask \in SUBSET Threads : GroupCreate(g, mask)

Spec == Init /\ [][Next]_vars

\* Threads inside a call go on, and threads keep calling the scheduler
FairSpec == Spec /\ \A t \in Threads : WF_vars(ScheduleCall(t) \/ Step(t))

-----------------------------------------------------------------------------
\* Copies of a command: in rings, and with threads
InRings(c) ==
    UNION {{<<g, p, i>> : i \in {j \in DOMAIN ring[g][p] : ring[g][p][j] = c}} :
              g \in Groups, p \in Prios}
WithThreads(c) ==
    {t \in Threads : th[t].cur = c} \cup {t \in Threads : th[t].held = c}
        \cup {t \in Threads : th[t].pc = "addin" /\ c = InQueue}
Copies(c) == Cardinality(InRings(c)) + Cardinality(WithThreads(c))

\* A queue has one command exactly while its status is SCHED, so that no two threads have
\* events of it and none of its events is left behind; an interface has one while it is
\* started or its stop is pending.  Starts, stops, destroys and enqueues come in between
\* the critical sections and the ring operations.
OneCommand ==
    /\ \A q \in Queues :
           /\ Copies(q) <= 1
           /\ queue[q].status = "sched" => Copies(q) = 1
           /\ queue[q].status \in {"free", "notsched"} => Copies(q) = 0
           /\ queue[q].num > 0 => queue[q].status = "sched"
    /\ Copies(Pktio) = IF pktio = "stopped" THEN 0 ELSE 1

\* The mask of a group and the lists of its threads agree.
MaskMatches ==
    \A g \in Groups, t \in Threads :
        group[g].allocated => (t \in group[g].mask <=> Contains(thr[t].groups, g))

\* A thread whose generation counter is the current one searches its current groups.
FreshGroups == \A t \in Threads : th[t].gen = thr[t].gen => th[t].groups = thr[t].groups

\* An event is scheduled, as long as the threads keep scheduling.
EventsScheduled == \A q \in Queues : queue[q].num > 0 ~> queue[q].num = 0
=============================================================================
