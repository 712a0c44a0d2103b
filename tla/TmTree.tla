-------------------------------- MODULE TmTree --------------------------------
(***************************************************************************)
(* The tree of shapers and schedulers of a traffic manager system:         *)
(* platform/linux-generic/odp_traffic_mngr.c from run_shaper to            *)
(* tm_consume_sent_pkt, and the loop of tm_system_thread that drives it.   *)
(*                                                                         *)
(* Every TM queue and TM node has a shaper, every node also a scheduler    *)
(* with one list of packets per priority.  Only the head packet of a queue *)
(* is in the tree, as a descriptor that is copied from shaper to scheduler *)
(* up to the place where it is delayed (a shaper with a timer), blocked (a *)
(* scheduler with a better packet), or ready to leave (egress).            *)
(*                                                                         *)
(* The token counts of the shapers are abstract: a shaper is red or not.   *)
(* Each step chooses a set of shapers that end it red.  Time (a shaper     *)
(* that is run) can only end the red of a shaper, a packet that is sent    *)
(* can make its shapers red.  The wheel holds the timers; they expire in   *)
(* any order.  The tree and the profiles are fixed.                        *)
(***************************************************************************)
EXTENDS Integers, Sequences, SequencesExt, FiniteSetsExt, Functions

CONSTANTS Queues, Nodes,
          Root,         \* the root node, where the egress is
          NextNode,     \* next_tm_node of the shapers of queues and nodes
          Priority,     \* of the queues
          NumPrio,      \* num_priorities of the schedulers
          Shaped,       \* queues and nodes whose shaper has a profile
          Lens,         \* virtual length of a packet: frame_weight
          MaxPkts,      \* bound: packets
          EpochMod,     \* the epoch of a descriptor has 4 bits
          None          \* EMPTY_PKT_DESC and null pointers

VARIABLES tm,           \* the system: shapers, schedulers, queue objects, egress, wheel,
                        \* the red shapers, and how many packets of a queue were sent
          input,        \* input work queue
          pc,           \* step of the main loop of tm_system_thread
          got           \* history: packets given to odp_tm_enq for every queue

vars == <<tm, input, pc, got>>

Shapers == Queues \cup Nodes
Prios == 0..NumPrio - 1

\* A descriptor: the queue, the epoch, and the length of a packet
Desc(q, epoch, len) == [q |-> q, epoch |-> epoch, len |-> len]

EmptyShaper == [in |-> None, out |-> None, inprio |-> 0, outprio |-> 0,
                callback |-> FALSE, outstanding |-> 0, vft |-> 0, valid |-> FALSE]
EmptySched == [best |-> [p \in Prios |-> None], time |-> [p \in Prios |-> 0],
               list |-> [p \in Prios |-> <<>>], base |-> [p \in Prios |-> 0],
               out |-> None, highest |-> 0]
EmptyQueue == [pkt |-> None, backlog |-> <<>>, epoch |-> 0,
               seq |-> 0, timer |-> None, blocked |-> None]

Init ==
    /\ tm = [sh |-> [x \in Shapers |-> EmptyShaper],
             sc |-> [n \in Nodes |-> EmptySched],
             q  |-> [q \in Queues |-> EmptyQueue],
             egress |-> None, wheel |-> {}, red |-> {},
             sent |-> [q \in Queues |-> 0]]
    /\ input = <<>>
    /\ pc = "timer1"
    /\ got = [q \in Queues |-> 0]

-----------------------------------------------------------------------------
(* Operators of the tree take the system and return [s, change]. *)

Same(s) == [s |-> s, change |-> FALSE]

\* The next timer_seq of a queue: it differs from that of every timer still in the wheel
NewSeq(s, q) ==
    LET used == {w.seq : w \in {v \in s.wheel : v.q = q}}
    IN  Min((0..Cardinality(used)) \ used)

\* delete_timer
DeleteTimer(s, q) ==
    LET x == s.q[q].timer
    IN  IF x = None THEN s
        ELSE [s EXCEPT !.q[q].timer = None, !.q[q].seq = NewSeq(s, q),
                       !.sh[x].outstanding = IF @ # 0 THEN @ - 1 ELSE @,
                       !.sh[x].callback = FALSE]

\* rm_pkt_from_shaper
CancelTimer(s, x, q) ==
    [s EXCEPT !.q[q].timer = None, !.q[q].seq = NewSeq(s, q),
              !.sh[x].outstanding = IF @ # 0 THEN @ - 1 ELSE @,
              !.sh[x].callback = FALSE]
RmFromShaper(s, x, d) ==
    LET o == s.sh[x]
        timed == s.q[d.q].timer = x \/ o.callback
    IN  IF d = None \/ o.in # d \/ (timed /\ s.q[d.q].timer = None) THEN Same(s)
        ELSE [s |-> [(IF timed THEN CancelTimer(s, x, d.q) ELSE s) EXCEPT
                         !.sh[x].in = None, !.sh[x].out = None, !.sh[x].outprio = 0],
              change |-> o.out # None]

\* rm_pkt_from_shaper for a packet that was sent: the tokens of its length are taken
SentFromShaper(s, x, d, red) ==
    [RmFromShaper(s, x, d).s EXCEPT !.red = IF s.sh[x].in # d \/ x \notin red THEN @ ELSE @ \cup {x}]

\* delay_pkt
DelayPkt(s, x, d) ==
    [s |-> [s EXCEPT !.wheel = @ \cup {[q |-> d.q, seq |-> NewSeq(s, d.q)]},
                     !.q[d.q].seq = NewSeq(s, d.q), !.q[d.q].timer = x,
                     !.sh[x].outstanding = @ + 1, !.sh[x].callback = TRUE,
                     !.sh[x].in = d, !.sh[x].out = None, !.sh[x].valid = FALSE],
     change |-> TRUE]

\* run_shaper; a shaper without a profile is green and has no timers.  A delayed packet
\* leaves input_priority as it was.
PassPkt(s, x, d, prio) ==
    LET change == s.sh[x].out # d \/ s.sh[x].outprio # prio
    IN  [s |-> [s EXCEPT !.red = @ \ {x}, !.sh[x].callback = FALSE, !.sh[x].in = d,
                         !.sh[x].out = d, !.sh[x].inprio = prio, !.sh[x].outprio = prio,
                         !.sh[x].valid = @ /\ ~change],
         change |-> change]
ShapePkt(s, x, d, prio, red) ==
    IF x \in s.red \cap red THEN DelayPkt(s, x, d) ELSE PassPkt(s, x, d, prio)
RunShaper(s, x, d, prio, red) ==
    LET timed == x \in Shaped /\ s.sh[x].outstanding # 0 /\ s.sh[x].in # None
    IN  ShapePkt(IF timed THEN RmFromShaper(s, x, s.sh[x].in).s ELSE s, x, d, prio, red)

\* tm_set_finish_time
SetFinishTime(s, n, x, d, prio) ==
    IF s.sh[x].valid THEN s
    ELSE [s EXCEPT !.sh[x].vft = Max({@, s.sc[n].base[prio]}) + d.len,
                   !.sh[x].valid = TRUE]

\* _odp_sorted_list_insert: behind the entries with the same key
Insert(list, time, d) ==
    LET k == Cardinality({i \in DOMAIN list : list[i].time <= time})
    IN  InsertAt(list, k + 1, [time |-> time, d |-> d])

\* The packet that follows the best one of a priority of scheduler o
NextBest(o, p) ==
    IF o.list[p] = <<>> THEN [o EXCEPT !.best[p] = None, !.time[p] = 0]
    ELSE [o EXCEPT !.best[p] = Head(o.list[p]).d, !.time[p] = Head(o.list[p]).time,
                   !.list[p] = Tail(@)]

\* The scheduler of node n becomes o, and its output the best of the highest priority
Reschedule(s, n, o) ==
    LET ready == {i \in Prios : o.best[i] # None}
        d == o.best[Min(ready)]
    IN  IF ready = {} THEN [s EXCEPT !.sc[n] = [o EXCEPT !.out = None, !.highest = 0]]
        ELSE [s EXCEPT !.sc[n] = [o EXCEPT !.out = d, !.highest = Min(ready)],
                       !.q[d.q].blocked = None]


\* rm_pkt_from_sched
RmFromSched(s, n, d, prio, is_sent) ==
    LET o == s.sc[n]
        p == IF is_sent THEN o.highest ELSE prio
        listed == {i \in DOMAIN o.list[p] : o.list[p][i].d = d}
    IN  IF o.best[p] = d
        THEN [s |-> Reschedule(s, n, NextBest([o EXCEPT !.base[p] = IF is_sent THEN o.time[p] ELSE @], p)),
              change |-> TRUE]
        ELSE IF ~is_sent /\ listed # {}
        THEN Same([s EXCEPT !.sc[n].list[p] = RemoveAt(@, Min(listed))])
        ELSE Same(s)

RECURSIVE Demote(_, _, _, _, _, _), DemoteUp(_, _, _, _, _, _, _, _)

\* tm_block_pkt: the packet waits in the scheduler of node n
Block(s, n, d) == [s EXCEPT !.q[d.q].blocked = n]

\* tm_block_pkt of one that was ahead: its copies downstream are removed
DemoteAndBlock(s, n, d, red) ==
    Block(Demote(s, n, s.q[d.q].blocked, s.q[d.q].timer, d, red), n, d)

\* run_sched: the new best packet of its priority becomes the output, unless there is one of
\* a higher priority
BestToOutput(s, n, d, prio, red) ==
    IF \E p \in 0..prio - 1 : s.sc[n].best[p] # None THEN Same(Block(s, n, d))
    ELSE [s |-> [(IF s.sc[n].out = None THEN s ELSE DemoteAndBlock(s, n, s.sc[n].out, red))
                 EXCEPT !.sc[n].highest = prio, !.sc[n].out = d],
          change |-> TRUE]

\* run_sched: behind the best packet of its priority, or in its place
Rank(s, n, d, prio, time, red) ==
    LET o == s.sc[n]
        best == o.best[prio]
        listed(t, e) == [s EXCEPT !.sc[n].list[prio] = Insert(@, t, e)]
    IN  IF best # None /\ o.time[prio] <= time
        THEN Same(Block(listed(time, d), n, d))
        ELSE BestToOutput([(IF best = None THEN s
                            ELSE DemoteAndBlock(listed(o.time[prio], best), n, best, red))
                           EXCEPT !.sc[n].best[prio] = d, !.sc[n].time[prio] = time],
                          n, d, prio, red)
RankShaped(s, x, n, d, prio, red) == Rank(s, n, d, prio, s.sh[x].vft, red)

\* run_sched, the shaper x feeding the node n
RunSched(s, x, n, d, prio, red) ==
    IF \E p \in Prios : s.sc[n].best[p] = d THEN Same(s)
    ELSE RankShaped(SetFinishTime(s, n, x, d, prio), x, n, d, prio, red)

AtEgress(s, x) == IF s.sh[x].out # None THEN [s EXCEPT !.egress = s.sh[x].out] ELSE s

\* The steps the three loops up the tree have in common, after a change c: the output of
\* shaper x goes to the scheduler of node n, and that of the scheduler to the shaper of n
Also(c, r) == [r EXCEPT !.change = @ \/ c]
ToSched(r, x, n, red) ==
    IF r.s.sh[x].out = None THEN r
    ELSE Also(r.change, RunSched(r.s, x, n, r.s.sh[x].out, r.s.sh[x].outprio, red))
ToShaper(r, n, red) ==
    IF r.s.sc[n].out = None THEN r
    ELSE Also(r.change, RunShaper(r.s, n, r.s.sc[n].out, r.s.sc[n].highest, red))
RmIfSched(s, n, d, prio) == IF d = None THEN Same(s) ELSE RmFromSched(s, n, d, prio, FALSE)
RmIfShaper(s, n, d) == IF d = None THEN Same(s) ELSE RmFromShaper(s, n, d)

\* The loop of tm_propagate_pkt_desc: the output of shaper x was (was, wasprio)
RECURSIVE PropagateUp(_, _, _, _, _)
PropagateNode(r, n, prev, red) ==
    IF ~r.change THEN r.s
    ELSE PropagateUp(ToShaper(RmIfShaper(r.s, n, prev), n, red), n,
                     r.s.sh[n].out, r.s.sh[n].outprio, red)
PropagateUp(r, x, was, wasprio, red) ==
    LET n == NextNode[x]
    IN  IF n = Root THEN AtEgress(r.s, x)
        ELSE IF ~r.change THEN r.s
        ELSE PropagateNode(ToSched(RmIfSched(r.s, n, was, wasprio), x, n, red), n,
                           r.s.sc[n].out, red)

\* tm_propagate_pkt_desc
Propagate(s, x, d, prio, red) ==
    PropagateUp(RunShaper(s, x, d, prio, red), x, s.sh[x].out, s.sh[x].outprio, red)

\* The loop of tm_demote_pkt_desc: d is None once the place that holds the packet is passed
DemoteNode(r, n, prev, d, prio, places, red) ==
    LET sh == r.s.sh[n]
    IN  IF d = None /\ ~r.change THEN r.s
        ELSE DemoteUp(ToShaper(RmIfShaper(r.s, n, IF d # None THEN d ELSE prev), n, red), n,
                      sh.out, sh.outprio, IF places.timer = n THEN None ELSE d,
                      IF d # None /\ sh.out = d THEN sh.outprio ELSE prio, places, red)
DemoteUp(r, x, was, wasprio, d, prio, places, red) ==
    LET n == NextNode[x]
    IN  IF n = Root THEN AtEgress(r.s, x)
        ELSE IF d = None /\ ~r.change THEN r.s
        ELSE DemoteNode(ToSched(IF d # None THEN RmFromSched(r.s, n, d, prio, FALSE)
                                ELSE RmIfSched(r.s, n, was, wasprio), x, n, red),
                        n, r.s.sc[n].out, IF places.blocked = n THEN None ELSE d, prio,
                        places, red)

\* Faulty: only the shaper of the node itself drops the packet
Demote_ShaperOnly(s, node, blocked, timer, d, red) ==
    IF (blocked = None /\ timer = None) \/ blocked = node THEN s
    ELSE RmFromShaper(s, node, d).s

\* tm_demote_pkt_desc: remove the packet downstream of a node
Demote(s, node, blocked, timer, d, red) ==
    LET o == s.sh[node]
        r == RmFromShaper(s, node, d)
    IN  IF (blocked = None /\ timer = None) \/ blocked = node THEN s
        ELSE IF timer = node THEN r.s
        ELSE DemoteUp(r, node, o.out, o.outprio, d, IF o.out = d THEN o.outprio ELSE 3,
                      [blocked |-> blocked, timer |-> timer], red)

\* The loop of tm_consume_pkt_desc
RECURSIVE ConsumeUp(_, _, _, _)
ConsumeNode(s, n, d, red) ==
    IF s.sh[n].out # d THEN s
    ELSE ConsumeUp(ToShaper(Same(SentFromShaper(s, n, d, red)), n, red).s, n, d, red)
ConsumeUp(s, x, d, red) ==
    LET n == NextNode[x]
        rm == RmFromSched(s, n, d, s.sc[n].highest, TRUE)
    IN  IF n = Root THEN AtEgress(s, x)
        ELSE IF s.sc[n].out # d THEN s
        ELSE ConsumeNode(ToSched(rm, x, n, red).s, n, d, red)

\* tm_consume_pkt_desc: next, unless None, is the next packet of the queue
ConsumeDesc(s, d, next, red) ==
    LET s1 == SentFromShaper(s, d.q, d, red)
    IN  IF s.sh[d.q].out # d THEN s
        ELSE ConsumeUp(IF next = None THEN s1
                       ELSE RunShaper(s1, d.q, next, Priority[d.q], red).s, d.q, d, red)

\* Faulty: the new head stays in the backlog
Consume_KeepBacklog(s, d, red) ==
    LET q == s.q[d.q]
        next == Desc(d.q, (q.epoch + 1) % EpochMod, Head(q.backlog))
    IN  IF q.backlog = <<>> \/ s.sent[d.q] > MaxPkts THEN ConsumeDesc(s, d, None, red)
        ELSE ConsumeDesc([s EXCEPT !.q[d.q].pkt = next, !.q[d.q].epoch = next.epoch], d, next, red)

\* tm_consume_sent_pkt: the next packet of the queue follows
Consume(s, d, red) ==
    LET q == s.q[d.q]
        next == Desc(d.q, (q.epoch + 1) % EpochMod, Head(q.backlog))
    IN  IF q.backlog = <<>> THEN ConsumeDesc(s, d, None, red)
        ELSE ConsumeDesc([s EXCEPT !.q[d.q].pkt = next, !.q[d.q].epoch = next.epoch,
                                   !.q[d.q].backlog = Tail(@)], d, next, red)

\* tm_send_pkt: at most max packets, as long as there is one at the egress
RECURSIVE SendPkts(_, _, _)
SendPkts(s, max, red) ==
    LET d == s.q[s.egress.q].pkt
    IN  IF max = 0 \/ s.egress = None THEN s
        ELSE IF d = None THEN [s EXCEPT !.egress = None]
        ELSE SendPkts(Consume([s EXCEPT !.egress = None, !.q[d.q].pkt = None,
                                        !.sent[d.q] = @ + 1], d, red), max - 1, red)

-----------------------------------------------------------------------------
(* The main loop; odp_tm_enq puts packets in the input work queue. *)

TmEnq(q, len) ==
    /\ SumFunction(got) < MaxPkts
    /\ input' = Append(input, [q |-> q, len |-> len])
    /\ got' = [got EXCEPT ![q] = @ + 1]
    /\ UNCHANGED <<tm, pc>>

Goto(l) == pc' = l

AtTimers == pc \in {"timer1", "timer2"}

\* tm_process_expired_timers: two timers at most, and none after one that was cancelled
ExpireTimer(w, red) ==
    LET q == w.q
        x == tm.q[q].timer
        gone == [tm EXCEPT !.wheel = @ \ {w}]
        stale == x = None \/ tm.q[q].seq # w.seq
        s == Propagate(DeleteTimer(gone, q), x, tm.sh[x].in, tm.sh[x].inprio, red)
    IN  /\ AtTimers /\ w \in tm.wheel
        /\ tm' = IF stale THEN gone ELSE SendPkts(s, 2, red)
        /\ Goto(IF stale \/ pc = "timer2" THEN "input" ELSE "timer2")
        /\ UNCHANGED <<input, got>>

NoTimer == AtTimers /\ Goto("input") /\ UNCHANGED <<tm, input, got>>

\* tm_process_input_work_queue, for one packet
ProcessInput(red) ==
    LET w == Head(input)
        q == tm.q[w.q]
        d == Desc(w.q, (q.epoch + 1) % EpochMod, w.len)
        head == [tm EXCEPT !.q[w.q].pkt = d, !.q[w.q].epoch = (@ + 1) % EpochMod]
    IN  /\ pc = "input" /\ input # <<>>
        /\ input' = Tail(input)
        /\ tm' = IF q.pkt # None
                 THEN [tm EXCEPT !.q[w.q].backlog = Append(@, w.len)]
                 ELSE Propagate(head, w.q, d, Priority[w.q], red)
        /\ Goto("send")
        /\ UNCHANGED got

NoInput == pc = "input" /\ input = <<>> /\ Goto("send") /\ UNCHANGED <<tm, input, got>>

SendPkt(red) ==
    /\ pc = "send"
    /\ tm' = SendPkts(tm, 1, red)
    /\ Goto("timer1")
    /\ UNCHANGED <<input, got>>

Next ==
    \/ \E q \in Queues, len \in Lens : TmEnq(q, len)
    \/ \E w \in tm.wheel, red \in SUBSET Shaped : ExpireTimer(w, red)
    \/ NoTimer \/ NoInput
    \/ \E red \in SUBSET Shaped : ProcessInput(red) \/ SendPkt(red)

Spec == Init /\ [][Next]_vars

\* One pass of the loop of tm_system_thread, which never stops
Loop == NoTimer \/ NoInput \/ \E red \in SUBSET Shaped : ProcessInput(red) \/ SendPkt(red)

Expirable(q) == AtTimers /\ \E w \in tm.wheel : w.q = q
Expire(q) == \E w \in tm.wheel : w.q = q /\ ExpireTimer(w, {})

\* Weak fairness of the loop, which is always enabled; and strong fairness of the expiry of
\* the timers of a queue, stated with the condition that enables it.  A timer was set for the
\* time its shaper has tokens again (time_till_not_red): not every expiry finds it red.
FairSpec ==
    /\ Spec
    /\ []<><<Loop>>_vars
    /\ \A q \in Queues : []<>Expirable(q) => []<><<Expire(q)>>_vars

-----------------------------------------------------------------------------
Delayed(q) ==
    \E x \in Shaped : /\ tm.q[q].timer = x /\ tm.sh[x].in = tm.q[q].pkt
                      /\ [q |-> q, seq |-> tm.q[q].seq] \in tm.wheel

\* A better packet is the output of the scheduler that holds the packet
Blocked(q) ==
    \E n \in Nodes, p \in Prios :
        /\ \/ tm.sc[n].best[p] = tm.q[q].pkt
           \/ \E i \in DOMAIN tm.sc[n].list[p] : tm.sc[n].list[p][i].d = tm.q[q].pkt
        /\ tm.sc[n].out \notin {None, tm.q[q].pkt}

\* The head packet of a queue is never forgotten: it waits for a timer that will expire, for
\* a better packet of a scheduler, or it is next to leave (delay_pkt, run_sched,
\* tm_demote_pkt_desc and tm_consume_pkt_desc lose no packet between them).
NoStuckPacket ==
    \A q \in Queues : tm.q[q].pkt # None => Delayed(q) \/ Blocked(q) \/ tm.egress = tm.q[q].pkt

\* Every descriptor in the tree is that of the head packet of its queue: a packet that was
\* sent (tm_consume_pkt_desc) or made way for a better one (tm_demote_pkt_desc) leaves no
\* copy behind, whose queue tm_send_pkt would then send a second time or out of turn.
NoStaleDesc ==
    LET Current(d) == d = None \/ tm.q[d.q].pkt = d
    IN  /\ \A x \in Shapers : Current(tm.sh[x].in) /\ Current(tm.sh[x].out)
        /\ \A n \in Nodes, p \in Prios :
               /\ Current(tm.sc[n].best[p]) /\ Current(tm.sc[n].out)
               /\ \A i \in DOMAIN tm.sc[n].list[p] : Current(tm.sc[n].list[p][i].d)
        /\ Current(tm.egress)

\* The packets the shapers feeding the node offer it
Offered(n) == {x \in Shapers : NextNode[x] = n /\ tm.sh[x].out # None}

\* Each scheduler's output is the offered packet of the highest priority and of the smallest
\* virtual finish time among those, whatever the order in which packets were offered, demoted,
\* delayed and sent (run_sched and rm_pkt_from_sched with their best and sorted lists).
SchedulerExact ==
    \A n \in Nodes :
        LET top == Min({tm.sh[x].outprio : x \in Offered(n)})
            best == {x \in Offered(n) : tm.sh[x].outprio = top}
        IN  IF Offered(n) = {} THEN tm.sc[n].out = None
            ELSE \E x \in best : /\ tm.sc[n].out = tm.sh[x].out
                                 /\ \A y \in best : tm.sh[x].vft <= tm.sh[y].vft

\* Every packet is in the input queue, in its TM queue, or was sent, and the packets of a
\* queue leave in the order of their arrival.
PacketsAccounted ==
    \A q \in Queues :
        LET Waiting == Len(SelectSeq(input, LAMBDA w : w.q = q))
            head == IF tm.q[q].pkt = None THEN 0 ELSE 1
        IN  /\ got[q] = tm.sent[q] + head + Len(tm.q[q].backlog) + Waiting
            /\ tm.q[q].pkt # None => tm.q[q].pkt.epoch = (tm.sent[q] + 1) % EpochMod

\* Every packet given to the system is sent in the end.  The bound on packets makes the
\* last of these leads-to about all of them.
AllSent == \A q \in Queues : got[q] # tm.sent[q] ~> got[q] = tm.sent[q]
=============================================================================
