----------------------------- MODULE SchedBasic -----------------------------
(***************************************************************************)
(* The event scheduler of platform/linux-generic/odp_schedule_basic.c      *)
(* together with the scheduled queues of odp_queue_basic.c it serves.      *)
(*                                                                         *)
(* A scheduled queue that holds events is represented in the scheduler by  *)
(* one token: its index, stored in the priority ring of its priority and   *)
(* spread.  A thread that takes the token out of the ring is the only one  *)
(* that may dequeue from the queue.  It puts the token back (parallel and  *)
(* ordered queues), keeps it as its atomic context, or drops it when the   *)
(* queue is empty, in which case the next enqueue makes a new one.         *)
(*                                                                         *)
(* One action is one critical section under a queue lock, one operation on *)
(* a priority ring (a linearizable queue, see RingMpmcRst), or one access  *)
(* to an atomic variable, with the thread-local code around it.            *)
(*                                                                         *)
(* One schedule group is modelled; SchedGroups models the groups.          *)
(***************************************************************************)
EXTENDS Integers, Sequences, FiniteSets

CONSTANTS Threads,        \* threads that call the scheduler
          Queues,         \* entries of the queue table
          NoQueue,        \* not a queue
          NumPrio,        \* priority levels
          NumSpread,      \* config.num_spread
          SpreadThrs,     \* threads of the group in each spread
          LoadBalance,    \* sched->load_balance
          Params,         \* queue parameters the application uses; use says whether it
                          \* enqueues new or forwarded events to such a queue
          Boot,           \* queues created before the run starts: entry -> parameters
          QueueSize,      \* ring_mask + 1 of a queue
          BurstDefault,   \* config.burst_default
          BurstMax,       \* config.burst_max
          MaxNum,         \* largest num of a schedule call
          OrderStashSize, \* config.order_stash_size
          MaxEvents,      \* bound: events the application and packet input create
          Calls           \* API calls the application makes

VARIABLES status, evq, param,      \* queue_entry_t
          spread, poll_pktin,      \* sched->queue[]
          count, mask, ring,       \* prio_q_count, prio_q_mask, prio_q of the group
          ctx, next_ctx, lock,     \* sched->order[]
          pktio, num_pktin,        \* state of the packet interface, open pktin queues
          th,                      \* sched_local of each thread and its local variables
          nev, deqs, via           \* history: events created, events taken from each
                                   \* ordered queue, and for an event enqueued in an
                                   \* ordered context that queue and its place in it

qvars == <<status, evq, param>>
svars == <<spread, poll_pktin>>
pvars == <<count, mask>>
ovars == <<ctx, next_ctx, lock>>
iovars == <<pktio, num_pktin>>
hist == <<nev, deqs, via>>
vars == <<qvars, svars, pvars, ring, ovars, iovars, th, hist>>

Prios == 0..NumPrio - 1
Spreads == 0..NumSpread - 1
Locks == 0..1
NoLock == -1
InfLoad == 2^30          \* UINT32_MAX: above the load of any number of queues
QueueLoad == 256
QueueLoadMargin == 8

Least(a, b) == IF a < b THEN a ELSE b
Take(s, n) == SubSeq(s, 1, Least(n, Len(s)))
Drop(s, n) == SubSeq(s, n + 1, Len(s))
Ordered(q) == param[q].sync = "ordered"
Created(q) == status[q] # "free"
Usable(q) == status[q] \in {"notsched", "sched"}

-----------------------------------------------------------------------------
(* Priority rings and the bookkeeping of spreads *)

Push(p, s, q) == ring' = [ring EXCEPT ![p][s] = Append(@, q)]

BitsOf(cnt) == {s \in Spreads : cnt[s] > 0}

\* allocate_spread: a spread with the fewest queues; ties are broken by a table
\* of random numbers.
MinSpreads(p) == {s \in Spreads : \A r \in Spreads : count[p][s] <= count[p][r]}

SpreadLoad(p, s, n) ==
    IF SpreadThrs[s] = 0 THEN InfLoad
    ELSE ((count[p][s] + n) * QueueLoad) \div SpreadThrs[s]

\* balance_spread: the loop over the other spreads, each compared with the best
\* load found so far.
BalanceSpread(p, cur) ==
    LET best[n \in 0..NumSpread] ==
          IF n = 0 THEN [spr |-> cur, load |-> SpreadLoad(p, cur, 0)]
          ELSE LET s == n - 1
                   load == SpreadLoad(p, s, 1)
               IN  IF s # cur /\ load + QueueLoadMargin < best[n - 1].load
                   THEN [spr |-> s, load |-> load]
                   ELSE best[n - 1]
    IN  best[NumSpread].spr

\* schedule_destroy_queue, called with the queue locked
DestroyQueue(q) ==
    LET p == param[q].prio
        s == spread[q]
    IN  /\ count' = [count EXCEPT ![p][s] = @ - 1]
        /\ mask' = IF count[p][s] = 1 THEN [mask EXCEPT ![p] = @ \ {s}] ELSE mask
        /\ spread' = [spread EXCEPT ![q] = 0]

-----------------------------------------------------------------------------
(* Threads *)

Idle == [pc |-> "app",
         prio |-> 0, i |-> 0, first |-> 0, spr |-> 0,   \* scan position
         bal |-> FALSE, max |-> 0,
         qi |-> NoQueue, rs |-> 0,                      \* token in hand, spread of its ring
         pktin |-> FALSE,                               \* queue_is_pktin when it was taken
         got |-> <<>>, held |-> <<>>,                   \* dequeued, with the application
         stash |-> <<>>,
         sync |-> "none", cq |-> NoQueue, cspr |-> 0,   \* synchronization context
         octx |-> 0, dno |-> 0, in_order |-> FALSE,
         called |-> {}, lk |-> NoLock,
         ostash |-> <<>>,                               \* stashed enqueues
         todo |-> <<>>, cont |-> "app", after |-> "app",
         paused |-> FALSE, left |-> 0]

Become(t, r) == th' = [th EXCEPT ![t] = r]

\* The call returns to the application; the locals of the scan die.
Back(r) == [r EXCEPT !.pc = "app", !.prio = 0, !.i = 0, !.first = 0, !.spr = 0,
                     !.bal = FALSE, !.max = 0, !.qi = NoQueue, !.rs = 0,
                     !.pktin = FALSE, !.got = <<>>]

\* The release of a context is over: a paused thread returns, else it scans.
Resume(r) == IF r.paused THEN Back(r) ELSE [r EXCEPT !.pc = "scan"]

\* i++, spr++ of schedule_grp_prio and, after the last spread, the next priority
\* level of do_schedule.
Advance(r) ==
    IF r.i + 1 < NumSpread
    THEN [r EXCEPT !.pc = "scan", !.i = @ + 1, !.spr = (@ + 1) % NumSpread]
    ELSE IF r.prio + 1 < NumPrio
    THEN [r EXCEPT !.pc = "scan", !.prio = @ + 1, !.i = 0, !.spr = r.first]
    ELSE Back(r)

\* continue without i++: the token is dropped and the same ring is tried again.
Again(r) == [r EXCEPT !.pc = "scan", !.qi = NoQueue, !.rs = 0, !.pktin = FALSE]

\* Events go to the application's array, or to the local stash and from there.
Direct(r, q) == r.max > BurstDefault \/ Ordered(q)
MaxDeq(r, q) == IF Direct(r, q) THEN Least(r.max, BurstMax) ELSE BurstDefault
Deliver(r, q) ==
    Back(IF Direct(r, q)
         THEN [r EXCEPT !.held = r.got]
         ELSE [r EXCEPT !.held = Take(r.got, r.max), !.stash = Drop(r.got, r.max)])

\* What schedule_grp_prio does with events evs of queue r.qi.
Dispatch(r, evs) ==
    LET q == r.qi
        g == [r EXCEPT !.got = evs]
    IN  CASE Ordered(q) -> [g EXCEPT !.pc = "ctx"]
          [] param[q].sync = "atomic" ->
               Deliver([g EXCEPT !.sync = "atomic", !.cq = q, !.cspr = r.rs], q)
          [] OTHER -> [g EXCEPT !.pc = "put"]

\* The next pending queue operation of the thread, or its continuation.
Proceed(r, rest) ==
    [r EXCEPT !.todo = rest,
              !.pc = CASE rest = <<>> -> r.cont
                       [] rest # <<>> /\ Head(rest).evs = <<>> -> "pstart"
                       [] OTHER -> "enq"]

\* Entries in Boot were created by allocate_spread, which keeps the spreads level.
Init ==
    /\ status = [q \in Queues |-> IF q \in DOMAIN Boot THEN "notsched" ELSE "free"]
    /\ evq = [q \in Queues |-> <<>>]
    /\ param = [q \in Queues |-> IF q \in DOMAIN Boot THEN Boot[q] ELSE CHOOSE p \in Params : TRUE]
    /\ spread \in [Queues -> Spreads]
    /\ \A q \in Queues \ DOMAIN Boot : spread[q] = 0
    /\ count = [p \in Prios |-> [s \in Spreads |->
                  Cardinality({q \in DOMAIN Boot : param[q].prio = p /\ spread[q] = s})]]
    /\ \A p \in Prios : \A r, s \in Spreads : count[p][r] <= count[p][s] + 1
    /\ mask = [p \in Prios |-> BitsOf(count[p])]
    /\ ring = [p \in Prios |-> [s \in Spreads |-> <<>>]]
    /\ poll_pktin = [q \in Queues |-> FALSE]
    /\ ctx = [q \in Queues |-> 0] /\ next_ctx = [q \in Queues |-> 0]
    /\ lock = [q \in Queues |-> [l \in Locks |-> 0]]
    /\ pktio = "opened" /\ num_pktin = 0
    /\ th = [t \in Threads |-> Idle]
    /\ nev = 0 /\ deqs = [q \in Queues |-> 0] /\ via = [e \in 1..MaxEvents |-> <<>>]

-----------------------------------------------------------------------------
(* Scheduling: do_schedule and schedule_grp_prio *)

\* Events pre-scheduled into the stash are returned first.
CopyFromStash(t, n) ==
    /\ th[t].pc = "app" /\ th[t].lk = NoLock
    /\ th[t].stash # <<>>
    /\ th' = [th EXCEPT ![t].held = Take(th[t].stash, n), ![t].stash = Drop(@, n)]
    /\ UNCHANGED <<qvars, svars, pvars, ring, ovars, iovars, hist>>

\* The call releases the context of the previous one, an atomic context by
\* putting the token back, and starts the scan.
ReleaseAtomic(t) ==
    LET q == th[t].cq IN
    /\ th[t].sync = "atomic"
    /\ Push(param[q].prio, th[t].cspr, q)

NoContext(r) == [r EXCEPT !.sync = "none", !.cq = NoQueue, !.cspr = 0]

ScheduleCall(t, n, first, balance) ==
    LET r == [th[t] EXCEPT !.held = <<>>, !.max = n, !.first = first, !.spr = first,
                           !.bal = balance]
    IN  /\ th[t].pc = "app" /\ th[t].lk = NoLock
        /\ th[t].stash = <<>>
        /\ balance => LoadBalance
        /\ \/ ReleaseAtomic(t) /\ Become(t, Resume(NoContext(r)))
           \/ /\ th[t].sync = "ordered"
              /\ Become(t, [r EXCEPT !.pc = "rel_order", !.after = "scan"])
              /\ UNCHANGED ring
           \/ /\ th[t].sync = "none"
              /\ Become(t, Resume(r))
              /\ UNCHANGED ring
        /\ UNCHANGED <<qvars, svars, pvars, ovars, iovars, hist>>

\* One look at the ring of the current priority and spread.  The mask is read
\* without the lock just before.
Scan(t) ==
    LET r == th[t]
        visible == r.spr \in mask[r.prio]
    IN  /\ r.pc = "scan"
        /\ \/ /\ ~visible \/ ring[r.prio][r.spr] = <<>>
              /\ Become(t, Advance(r))
              /\ UNCHANGED ring
           \/ /\ visible /\ ring[r.prio][r.spr] # <<>>
              /\ Become(t, [r EXCEPT !.pc = IF r.bal THEN "balance" ELSE "deq",
                                     !.qi = Head(ring[r.prio][r.spr]), !.rs = r.spr,
                                     !.pktin = poll_pktin[Head(ring[r.prio][r.spr])]])
              /\ ring' = [ring EXCEPT ![r.prio][r.spr] = Tail(@)]
        /\ UNCHANGED <<qvars, svars, pvars, ovars, iovars, hist>>

\* Faulty form: the token goes back to the ring it came from.
Balance_StaleRing(t) ==
    LET r == th[t]
        new == BalanceSpread(r.prio, r.spr)
        moved == [count[r.prio] EXCEPT ![new] = @ + 1, ![r.spr] = @ - 1]
    IN  /\ r.pc = "balance"
        /\ Become(t, [r EXCEPT !.pc = "deq"])
        /\ IF new = r.spr THEN UNCHANGED <<spread, pvars>>
           ELSE /\ spread' = [spread EXCEPT ![r.qi] = new]
                /\ count' = [count EXCEPT ![r.prio] = moved]
                /\ mask' = [mask EXCEPT ![r.prio] = BitsOf(moved)]
        /\ UNCHANGED <<qvars, poll_pktin, ring, ovars, iovars, hist>>

\* "Update queue spread before dequeue": the holder of the token moves the queue
\* to a less loaded spread.
Balance(t) ==
    LET r == th[t]
        new == BalanceSpread(r.prio, r.spr)
        moved == [count[r.prio] EXCEPT ![new] = @ + 1, ![r.spr] = @ - 1]
    IN  /\ r.pc = "balance"
        /\ Become(t, [r EXCEPT !.pc = "deq", !.rs = new])
        /\ \/ new = r.spr /\ UNCHANGED <<spread, pvars>>
           \/ /\ new # r.spr
              /\ spread' = [spread EXCEPT ![r.qi] = new]
              /\ count' = [count EXCEPT ![r.prio] = moved]
              /\ mask' = [mask EXCEPT ![r.prio] =
                            (@ \cup {new}) \ (IF moved[r.spr] = 0 THEN {r.spr} ELSE {})]
        /\ UNCHANGED <<qvars, poll_pktin, ring, ovars, iovars, hist>>

\* Faulty form: a destroyed queue is skipped and never freed.
DeqDestroyed_Keep(t) ==
    /\ th[t].pc = "deq" /\ ~Usable(th[t].qi)
    /\ Become(t, Again(th[t]))
    /\ UNCHANGED <<qvars, svars, pvars, ring, ovars, iovars, hist>>

\* _odp_sched_queue_deq, one critical section under the queue lock
DeqDestroyed(t) ==
    LET q == th[t].qi IN
    /\ th[t].pc = "deq" /\ ~Usable(q)
    /\ status' = [status EXCEPT ![q] = "free"]
    /\ IF status[q] = "destroyed" THEN DestroyQueue(q) ELSE UNCHANGED <<spread, pvars>>
    /\ Become(t, Again(th[t]))
    /\ UNCHANGED <<evq, param, poll_pktin, ring, ovars, iovars, hist>>

DeqEmpty(t) ==
    LET q == th[t].qi IN
    /\ th[t].pc = "deq" /\ Usable(q) /\ evq[q] = <<>>
    /\ \/ /\ th[t].pktin
          /\ th' = [th EXCEPT ![t].pc = "poll"]
          /\ UNCHANGED status
       \/ /\ ~th[t].pktin
          /\ status' = [status EXCEPT ![q] = "notsched"]
          /\ Become(t, Again(th[t]))
    /\ UNCHANGED <<evq, param, svars, pvars, ring, ovars, iovars, hist>>

DeqEvents(t) ==
    LET q == th[t].qi
        n == MaxDeq(th[t], q)
    IN  /\ th[t].pc = "deq" /\ Usable(q) /\ evq[q] # <<>>
        /\ evq' = [evq EXCEPT ![q] = Drop(@, n)]
        /\ deqs' = IF Ordered(q) THEN [deqs EXCEPT ![q] = @ + Len(Take(evq[q], n))] ELSE deqs
        /\ Become(t, Dispatch([th[t] EXCEPT !.dno = IF Ordered(q) THEN deqs[q] ELSE 0],
                              Take(evq[q], n)))
        /\ UNCHANGED <<status, param, svars, pvars, ring, ovars, iovars, nev, via>>

\* A new ordered context, taken before the token goes back into the ring.
NewContext(t) ==
    LET q == th[t].qi IN
    /\ th[t].pc = "ctx"
    /\ next_ctx' = [next_ctx EXCEPT ![q] = @ + 1]
    /\ th' = [th EXCEPT ![t].octx = next_ctx[q], ![t].cq = q, ![t].sync = "ordered",
                        ![t].pc = "put"]
    /\ UNCHANGED <<qvars, svars, pvars, ring, ctx, lock, iovars, hist>>

\* "Continue scheduling": the token goes back; events, if any, are returned.
PutBack(t) ==
    LET r == th[t] IN
    /\ r.pc = "put"
    /\ Push(r.prio, r.rs, r.qi)
    /\ Become(t, IF r.got = <<>> THEN [Advance(r) EXCEPT !.qi = NoQueue, !.rs = 0, !.pktin = FALSE]
                 ELSE Deliver(r, r.qi))
    /\ UNCHANGED <<qvars, svars, pvars, ovars, iovars, hist>>

-----------------------------------------------------------------------------
(* Packet input queues: poll_pktin, pktio start and stop *)

\* poll_pktin of an empty packet input queue; the token stays in the thread's hand.
PollNothing(t) ==
    /\ th[t].pc = "poll" /\ pktio # "stop_pending"
    /\ th' = [th EXCEPT ![t].pc = "put"]
    /\ UNCHANGED <<qvars, svars, pvars, ring, ovars, iovars, hist>>

\* Packets of an ordered queue are enqueued and scheduled later; others are
\* dispatched right away.
PollPackets(t, n) ==
    LET q == th[t].qi
        pkts == [i \in 1..n |-> nev + i]
    IN  /\ th[t].pc = "poll" /\ pktio = "started"
        /\ n <= MaxDeq(th[t], q) /\ nev + n <= MaxEvents
        /\ nev' = nev + n
        /\ Become(t, IF Ordered(q)
                     THEN [th[t] EXCEPT !.todo = <<[q |-> q, evs |-> pkts]>>, !.pc = "enq",
                                        !.cont = "put"]
                     ELSE Dispatch(th[t], pkts))
        /\ UNCHANGED <<qvars, svars, pvars, ring, ovars, iovars, deqs, via>>

\* The interface stops: three separate steps, each under its own lock.
PollStopped(t) ==
    /\ th[t].pc = "poll" /\ pktio = "stop_pending"
    /\ num_pktin' = num_pktin - 1
    /\ th' = [th EXCEPT ![t].pc = "unsched", ![t].left = num_pktin - 1]
    /\ UNCHANGED <<qvars, svars, pvars, ring, ovars, pktio, hist>>

Unschedule(t) ==
    /\ th[t].pc = "unsched"
    /\ status' = [status EXCEPT ![th[t].qi] = "notsched"]
    /\ Become(t, [Again(th[t]) EXCEPT !.pc = IF th[t].left = 0 THEN "finalize" ELSE "scan",
                                      !.left = 0])
    /\ UNCHANGED <<evq, param, svars, pvars, ring, ovars, iovars, hist>>

\* _odp_sched_cb_pktio_stop_finalize
StopFinalize(t) ==
    /\ th[t].pc = "finalize"
    /\ pktio' = IF pktio = "stop_pending" THEN "stopped" ELSE pktio
    /\ th' = [th EXCEPT ![t].pc = "scan"]
    /\ UNCHANGED <<qvars, svars, pvars, ring, ovars, num_pktin, hist>>

PktinQueues == {q \in Queues : Created(q) /\ param[q].pktin}

\* odp_pktio_start and schedule_pktio_start, which visits the queues one by one
PktioStart(t, order) ==
    /\ \/ "pktio_start" \in Calls /\ pktio = "opened"
       \/ "pktio_restart" \in Calls /\ pktio = "stopped"
    /\ th[t].pc = "app"
    /\ PktinQueues # {}
    /\ pktio' = "started"
    /\ num_pktin' = Cardinality(PktinQueues)
    /\ Become(t, [th[t] EXCEPT !.todo = [i \in DOMAIN order |-> [q |-> order[i], evs |-> <<>>]],
                               !.pc = "pstart", !.cont = "app"])
    /\ UNCHANGED <<qvars, svars, pvars, ring, ovars, hist>>

StartPolling(t) ==
    LET q == Head(th[t].todo).q IN
    /\ th[t].pc = "pstart"
    /\ poll_pktin' = [poll_pktin EXCEPT ![q] = TRUE]
    /\ status' = [status EXCEPT ![q] = "sched"]
    /\ th' = [th EXCEPT ![t].pc = "sched_queue"]
    /\ UNCHANGED <<evq, param, spread, pvars, ring, ovars, iovars, hist>>

\* _pktio_stop of an interface in scheduled mode
PktioStop(t) ==
    /\ "pktio_stop" \in Calls
    /\ th[t].pc = "app" /\ pktio = "started"
    /\ pktio' = "stop_pending"
    /\ UNCHANGED <<qvars, svars, pvars, ring, ovars, num_pktin, th, hist>>

-----------------------------------------------------------------------------
(* Enqueue: sched_queue_enq_multi and schedule_ord_enq_multi *)

OwnTurn(r) == ctx[r.cq] = r.octx

\* In an ordered context the operation is done at once when it is this context's
\* turn, put off when there is room in the ordered stash, and else waits.
OrdEnqStash(r, op) ==
    IF r.sync = "ordered" /\ ~r.in_order /\ param[op.q].order = "keep"
    THEN CASE OwnTurn(r) ->
                [r EXCEPT !.in_order = TRUE, !.todo = Append(r.ostash, op), !.ostash = <<>>,
                          !.pc = "enq", !.cont = "app"]
           [] ~OwnTurn(r) /\ Len(r.ostash) < OrderStashSize ->
                [r EXCEPT !.ostash = Append(@, op)]
           [] OTHER -> [r EXCEPT !.todo = <<op>>, !.pc = "order_wait", !.cont = "app"]
    ELSE [r EXCEPT !.todo = <<op>>, !.pc = "enq", !.cont = "app"]

\* schedule_ord_enq_multi_no_stash, in use when order_stash_size is zero
OrdEnqNoStash(r, op) ==
    LET go == [r EXCEPT !.todo = <<op>>, !.pc = "enq", !.cont = "app"]
    IN  IF r.sync = "ordered" /\ ~r.in_order /\ param[op.q].order = "keep"
        THEN IF OwnTurn(r) THEN [go EXCEPT !.in_order = TRUE] ELSE [go EXCEPT !.pc = "order_wait"]
        ELSE go

OrdEnq(r, op) == IF OrderStashSize = 0 THEN OrdEnqNoStash(r, op) ELSE OrdEnqStash(r, op)

\* An enqueue call of the application.  In an ordered context, via notes the place
\* of each event in the order that the destination queue has to keep.
EnqCall(t, op) ==
    /\ th[t].pc = "app"
    /\ Usable(op.q)
    /\ via' = IF th[t].sync = "ordered" /\ param[op.q].order = "keep"
              THEN [e \in 1..MaxEvents |->
                      IF \E i \in DOMAIN op.evs : op.evs[i] = e
                      THEN <<th[t].cq, th[t].dno + CHOOSE i \in DOMAIN op.evs : op.evs[i] = e>>
                      ELSE via[e]]
              ELSE via

\* The application creates an event and enqueues it.
EnqNew(t, q) ==
    LET op == [q |-> q, evs |-> <<nev + 1>>] IN
    /\ "new" \in param[q].use /\ nev < MaxEvents
    /\ EnqCall(t, op)
    /\ nev' = nev + 1
    /\ Become(t, OrdEnq(th[t], op))
    /\ UNCHANGED <<qvars, svars, pvars, ring, ovars, iovars, deqs>>

\* The application forwards the first n events it received.  Bound: it forwards
\* an event once.
Forward(t, q, n) ==
    LET op == [q |-> q, evs |-> Take(th[t].held, n)] IN
    /\ "forward" \in param[q].use /\ n <= Len(th[t].held)
    /\ \A i \in DOMAIN op.evs : via[op.evs[i]] = <<>>
    /\ EnqCall(t, op)
    /\ Become(t, OrdEnq([th[t] EXCEPT !.held = Drop(@, n),
                                      !.dno = IF th[t].sync = "ordered" THEN @ + n ELSE 0], op))
    /\ UNCHANGED <<qvars, svars, pvars, ring, ovars, iovars, nev, deqs>>

\* The wait of schedule_ord_enq_multi ends; the stashed operations go first.
OrderWait(t) ==
    /\ th[t].pc = "order_wait" /\ OwnTurn(th[t])
    /\ th' = [th EXCEPT ![t].in_order = TRUE, ![t].todo = th[t].ostash \o @,
                        ![t].ostash = <<>>, ![t].pc = "enq"]
    /\ UNCHANGED <<qvars, svars, pvars, ring, ovars, iovars, hist>>

\* Faulty form: every enqueue inserts the queue, or none does.
Enq_AlwaysWake(t) ==
    LET op == Head(th[t].todo) IN
    /\ th[t].pc = "enq"
    /\ evq' = [evq EXCEPT ![op.q] = @ \o Take(op.evs, QueueSize - Len(@))]
    /\ status' = [status EXCEPT ![op.q] = "sched"]
    /\ th' = [th EXCEPT ![t].pc = "sched_queue"]
    /\ UNCHANGED <<param, svars, pvars, ring, ovars, iovars, hist>>

\* Faulty form: an enqueue does not schedule the queue.
Enq_NoWake(t) ==
    LET op == Head(th[t].todo) IN
    /\ th[t].pc = "enq"
    /\ evq' = [evq EXCEPT ![op.q] = @ \o Take(op.evs, QueueSize - Len(@))]
    /\ Become(t, Proceed(th[t], Tail(th[t].todo)))
    /\ UNCHANGED <<status, param, svars, pvars, ring, ovars, iovars, hist>>

\* The critical section of an enqueue.  Events that do not fit are dropped.
Enq(t) ==
    LET op == Head(th[t].todo)
        fit == Take(op.evs, QueueSize - Len(evq[op.q]))
        wake == fit # <<>> /\ status[op.q] = "notsched"
    IN  /\ th[t].pc = "enq"
        /\ evq' = [evq EXCEPT ![op.q] = @ \o fit]
        /\ \/ /\ wake
              /\ status' = [status EXCEPT ![op.q] = "sched"]
              /\ th' = [th EXCEPT ![t].pc = "sched_queue"]
           \/ /\ ~wake
              /\ Become(t, Proceed(th[t], Tail(th[t].todo)))
              /\ UNCHANGED status
        /\ UNCHANGED <<param, svars, pvars, ring, ovars, iovars, hist>>

\* schedule_sched_queue, after the queue has been unlocked
SchedQueue(t) ==
    LET q == Head(th[t].todo).q IN
    /\ th[t].pc = "sched_queue"
    /\ Push(param[q].prio, spread[q], q)
    /\ Become(t, Proceed(th[t], Tail(th[t].todo)))
    /\ UNCHANGED <<qvars, svars, pvars, ovars, iovars, hist>>

-----------------------------------------------------------------------------
(* Ordered contexts and ordered locks *)

\* Faulty form: the stash is released out of turn; unused locks are not passed.
ReleaseOrdered_NoWait(t) ==
    LET r == th[t] IN
    /\ r.pc = "rel_order"
    /\ Become(t, Proceed([r EXCEPT !.called = {}, !.in_order = FALSE, !.sync = "none",
                                   !.ostash = <<>>, !.cont = "order_done"],
                         r.ostash))
    /\ UNCHANGED <<qvars, svars, pvars, ring, ovars, iovars, hist>>

\* Faulty form: order locks that were not used are not passed on.
ReleaseOrdered_LocksKept(t) ==
    th[t].pc = "rel_order" /\ OwnTurn(th[t]) /\ ReleaseOrdered_NoWait(t)

\* release_ordered: wait for the turn, pass the locks not used, do the stashed
\* enqueues, then let the next context continue.
ReleaseOrdered(t) ==
    LET r == th[t] IN
    /\ r.pc = "rel_order" /\ OwnTurn(r)
    /\ lock' = [lock EXCEPT ![r.cq] =
                  [l \in Locks |-> IF l < param[r.cq].locks /\ l \notin r.called
                                   THEN r.octx + 1 ELSE @[l]]]
    /\ Become(t, Proceed([r EXCEPT !.called = {}, !.in_order = FALSE, !.sync = "none",
                                   !.ostash = <<>>, !.cont = "order_done"],
                         r.ostash))
    /\ UNCHANGED <<qvars, svars, pvars, ring, ctx, next_ctx, iovars, hist>>

OrderDone(t) ==
    LET r == [th[t] EXCEPT !.cq = NoQueue, !.octx = 0, !.dno = 0, !.cont = "app",
                           !.after = "app"]
    IN  /\ th[t].pc = "order_done"
        /\ ctx' = [ctx EXCEPT ![th[t].cq] = @ + 1]
        /\ Become(t, IF th[t].after = "scan" THEN Resume(r) ELSE Back(r))
        /\ UNCHANGED <<qvars, svars, pvars, ring, next_ctx, lock, iovars, hist>>

\* odp_schedule_release_atomic and odp_schedule_release_ordered
ReleaseCall(t) ==
    /\ "release" \in Calls
    /\ th[t].pc = "app" /\ th[t].lk = NoLock /\ th[t].stash = <<>>
    /\ \/ ReleaseAtomic(t) /\ Become(t, NoContext(th[t]))
       \/ /\ th[t].sync = "ordered"
          /\ th' = [th EXCEPT ![t].pc = "rel_order", ![t].after = "app"]
          /\ UNCHANGED ring
    /\ UNCHANGED <<qvars, svars, pvars, ovars, iovars, hist>>

\* Each lock may be used once per context, and one lock at a time.
OrderLockCall(t, l) ==
    /\ "order_lock" \in Calls
    /\ th[t].pc = "app" /\ th[t].sync = "ordered" /\ th[t].lk = NoLock
    /\ l < param[th[t].cq].locks /\ l \notin th[t].called
    /\ th' = [th EXCEPT ![t].pc = "lock_wait", ![t].lk = l]
    /\ UNCHANGED <<qvars, svars, pvars, ring, ovars, iovars, hist>>

\* Faulty form: a later context may pass.
OrderLock_NoTurn(t) ==
    /\ th[t].pc = "lock_wait"
    /\ lock[th[t].cq][th[t].lk] <= th[t].octx
    /\ th' = [th EXCEPT ![t].pc = "app", ![t].called = @ \cup {th[t].lk}]
    /\ UNCHANGED <<qvars, svars, pvars, ring, ovars, iovars, hist>>

OrderLock(t) ==
    /\ th[t].pc = "lock_wait"
    /\ lock[th[t].cq][th[t].lk] = th[t].octx
    /\ th' = [th EXCEPT ![t].pc = "app", ![t].called = @ \cup {th[t].lk}]
    /\ UNCHANGED <<qvars, svars, pvars, ring, ovars, iovars, hist>>

OrderUnlock(t) ==
    /\ th[t].pc = "app" /\ th[t].lk # NoLock
    /\ lock' = [lock EXCEPT ![th[t].cq][th[t].lk] = th[t].octx + 1]
    /\ th' = [th EXCEPT ![t].lk = NoLock]
    /\ UNCHANGED <<qvars, svars, pvars, ring, ctx, next_ctx, iovars, hist>>

\* odp_schedule_pause and odp_schedule_resume
SetPause(t, on) ==
    /\ "pause" \in Calls
    /\ th[t].pc = "app" /\ th[t].paused # on
    /\ th' = [th EXCEPT ![t].paused = on]
    /\ UNCHANGED <<qvars, svars, pvars, ring, ovars, iovars, hist>>

-----------------------------------------------------------------------------
(* Creating and destroying queues *)

\* queue_create with schedule_create_queue.  Nobody has the handle before the
\* call returns, so the two parts are one step.
QueueCreate(t, q, p) ==
    /\ "create" \in Calls
    /\ th[t].pc = "app" /\ status[q] = "free"
    /\ status' = [status EXCEPT ![q] = "notsched"]
    /\ evq' = [evq EXCEPT ![q] = <<>>]
    /\ param' = [param EXCEPT ![q] = p]
    /\ \E s \in MinSpreads(p.prio) :
         /\ spread' = [spread EXCEPT ![q] = s]
         /\ count' = [count EXCEPT ![p.prio][s] = @ + 1]
         /\ mask' = [mask EXCEPT ![p.prio] = @ \cup {s}]
    /\ poll_pktin' = [poll_pktin EXCEPT ![q] = FALSE]
    /\ ctx' = [ctx EXCEPT ![q] = 0] /\ next_ctx' = [next_ctx EXCEPT ![q] = 0]
    /\ lock' = [lock EXCEPT ![q] = [l \in Locks |-> 0]]
    /\ deqs' = [deqs EXCEPT ![q] = 0]
    /\ UNCHANGED <<ring, iovars, th, nev, via>>

\* "Application must ensure that no other operations on this queue are invoked in
\* parallel": no enqueue is running or stashed, and no ordered context is open.
InUse(q) ==
    \E u \in Threads :
      \/ \E i \in DOMAIN th[u].todo : th[u].todo[i].q = q
      \/ \E i \in DOMAIN th[u].ostash : th[u].ostash[i].q = q
      \/ th[u].cq = q /\ Ordered(q)

QueueDestroy(t, q) ==
    /\ "destroy" \in Calls
    /\ th[t].pc = "app" /\ Usable(q) /\ evq[q] = <<>>
    /\ ~InUse(q) /\ ~param[q].pktin
    /\ \/ /\ status[q] = "notsched"
          /\ status' = [status EXCEPT ![q] = "free"]
          /\ DestroyQueue(q)
       \/ /\ status[q] = "sched"
          /\ status' = [status EXCEPT ![q] = "destroyed"]
          /\ UNCHANGED <<spread, pvars>>
    /\ UNCHANGED <<evq, param, poll_pktin, ring, ovars, iovars, th, hist>>

-----------------------------------------------------------------------------
Schedule(t) ==
    \/ \E n \in 1..MaxNum : CopyFromStash(t, n)
    \/ \E n \in 1..MaxNum, s \in Spreads, b \in BOOLEAN : ScheduleCall(t, n, s, b)

App(t) ==
    \/ Schedule(t) \/ ReleaseCall(t) \/ OrderUnlock(t) \/ PktioStop(t)
    \/ \E q \in Queues :
         \/ EnqNew(t, q) \/ QueueDestroy(t, q)
         \/ \E n \in 1..MaxNum : Forward(t, q, n)
         \/ \E p \in Params : QueueCreate(t, q, p)
    \/ \E l \in Locks : OrderLockCall(t, l)
    \/ \E on \in BOOLEAN : SetPause(t, on)
    \/ \E order \in [1..Cardinality(PktinQueues) -> PktinQueues] :
         Cardinality({order[i] : i \in DOMAIN order}) = Len(order) /\ PktioStart(t, order)

Step(t) ==
    \/ Scan(t) \/ Balance(t) \/ DeqDestroyed(t) \/ DeqEmpty(t) \/ DeqEvents(t)
    \/ NewContext(t) \/ PutBack(t)
    \/ PollNothing(t) \/ PollStopped(t) \/ Unschedule(t) \/ StopFinalize(t) \/ StartPolling(t)
    \/ \E n \in 1..MaxNum : PollPackets(t, n)
    \/ OrderWait(t) \/ Enq(t) \/ SchedQueue(t)
    \/ ReleaseOrdered(t) \/ OrderDone(t) \/ OrderLock(t)

Next == \E t \in Threads : App(t) \/ Step(t)

Spec == Init /\ [][Next]_vars

\* A thread inside the scheduler keeps running.  The application gives back the
\* locks it takes and calls the scheduler again and again, as its threads do.
FairSpec == Spec /\ \A t \in Threads :
    WF_vars(Step(t)) /\ WF_vars(OrderUnlock(t)) /\ WF_vars(Schedule(t))
-----------------------------------------------------------------------------
(* Properties *)

PCs == {"app", "scan", "balance", "deq", "ctx", "put", "poll", "unsched", "finalize", "pstart",
        "enq", "sched_queue", "order_wait", "rel_order", "order_done", "lock_wait"}
Events == 1..MaxEvents
EnqOps == [q : Queues, evs : Seq(Events)]
MaybeQueue == Queues \cup {NoQueue}

TypeOK ==
    /\ status \in [Queues -> {"free", "destroyed", "notsched", "sched"}]
    /\ evq \in [Queues -> Seq(Events)]
    /\ param \in [Queues -> Params]
    /\ spread \in [Queues -> Spreads] /\ poll_pktin \in [Queues -> BOOLEAN]
    /\ count \in [Prios -> [Spreads -> Nat]] /\ mask \in [Prios -> SUBSET Spreads]
    /\ ring \in [Prios -> [Spreads -> Seq(Queues)]]
    /\ ctx \in [Queues -> Nat] /\ next_ctx \in [Queues -> Nat]
    /\ lock \in [Queues -> [Locks -> Nat]]
    /\ pktio \in {"opened", "started", "stop_pending", "stopped"} /\ num_pktin \in Nat
    /\ th \in [Threads ->
         [pc : PCs, prio : Prios, i : Spreads, first : Spreads, spr : Spreads, bal : BOOLEAN,
          max : 0..MaxNum, qi : MaybeQueue, rs : Spreads, pktin : BOOLEAN, got : Seq(Events), held : Seq(Events),
          stash : Seq(Events), sync : {"none", "atomic", "ordered"}, cq : MaybeQueue,
          cspr : Spreads, octx : Nat, dno : Nat, in_order : BOOLEAN, called : SUBSET Locks,
          lk : Locks \cup {NoLock}, ostash : Seq(EnqOps), todo : Seq(EnqOps),
          cont : {"app", "put", "order_done"}, after : {"app", "scan"}, paused : BOOLEAN,
          left : Nat]]
    /\ nev \in 0..MaxEvents /\ deqs \in [Queues -> Nat]

\* Where the token of queue q is: in a priority ring, in the hand of a thread that
\* is scheduling, with the holder of the atomic context, or with the thread that
\* has woken the queue and not yet called schedule_sched_queue.
InRing(q) == {<<p, s, i>> \in Prios \X Spreads \X (1..Cardinality(Queues) + 1) :
                i <= Len(ring[p][s]) /\ ring[p][s][i] = q}
InHand(q) == {t \in Threads : th[t].qi = q}
InContext(q) == {t \in Threads : th[t].sync = "atomic" /\ th[t].cq = q}
InWakeup(q) == {t \in Threads : th[t].pc = "sched_queue" /\ Head(th[t].todo).q = q}
Tokens(q) == Cardinality(InRing(q)) + Cardinality(InHand(q)) + Cardinality(InContext(q))
               + Cardinality(InWakeup(q))

\* A queue in state SCHED or DESTROYED has exactly one token in the whole system
\* and a queue in another state has none, although the token is inserted and taken
\* outside the queue lock under which the state changes.
OneToken ==
    \A q \in Queues : Tokens(q) = IF status[q] \in {"sched", "destroyed"} THEN 1 ELSE 0

\* Events are never left in a queue that the scheduler does not know of: no
\* enqueue falls between the dequeue that finds the queue empty and NOTSCHED.
NoEventStranded ==
    \A q \in Queues : evq[q] # <<>> => status[q] = "sched"

\* "Events from an atomic queue can be scheduled only to a single thread at a
\* time": two threads never hold the atomic context of one queue.
AtomicExclusive ==
    \A q \in Queues : Cardinality(InContext(q)) <= 1

\* A token in a ring can be found: it is in the ring of the queue's own priority
\* and spread, and the mask bit that lets threads look there is set.  The masks
\* and counts agree with the queues, whoever moves, creates or destroys them.
TokenFindable ==
    /\ \A p \in Prios, s \in Spreads :
         /\ \A i \in DOMAIN ring[p][s] :
              LET q == ring[p][s][i] IN p = param[q].prio /\ s = spread[q] /\ s \in mask[p]
         /\ count[p][s] = Cardinality({q \in Queues :
                                        Created(q) /\ param[q].prio = p /\ spread[q] = s})
    /\ \A p \in Prios : mask[p] = BitsOf(count[p])

\* "Two events enqueued by different threads have the same mutual order as the
\* scheduling synchronization contexts of the enqueuing threads", those of one
\* thread the order of its calls, and contexts the order of the events in their
\* queue: no destination queue ever holds events of an ordered queue in another
\* order, with any mix of stashed, waiting and direct enqueues.
OrderKept ==
    \A q \in Queues : \A i, j \in DOMAIN evq[q] :
      LET a == via[evq[q][i]]
          b == via[evq[q][j]]
      IN  i < j /\ a # <<>> /\ b # <<>> /\ a[1] = b[1] => a[2] <= b[2]

\* "Threads enter the critical section in the order determined by the context":
\* a thread is in an ordered lock only when every earlier context of the queue has
\* been in the lock and left it, or is released.
Inside(t, q, l) == th[t].cq = q /\ th[t].lk = l /\ th[t].pc # "lock_wait"
OrderLockInOrder ==
    \A q \in Queues, l \in Locks : \A t, u \in Threads :
      Inside(t, q, l) /\ t # u /\ th[u].sync = "ordered" /\ th[u].cq = q
          /\ th[u].octx <= th[t].octx
        => l \in th[u].called /\ ~Inside(u, q, l)

\* "Call stop_finalize when we have stopped polling all pktin queues of the
\* pktio": a stopped interface has no packet input queue left in the scheduler.
StopIsFinal ==
    pktio = "stopped" => \A q \in PktinQueues : status[q] # "sched"

\* Every event put into a queue is taken out by some thread.
EventsScheduled ==
    \A q \in Queues : evq[q] # <<>> ~> evq[q] = <<>>

\* A thread that waits for its turn to release, to enqueue or to lock gets it.
OrderWaitEnds ==
    \A t \in Threads :
      th[t].pc \in {"rel_order", "order_wait", "lock_wait"} ~> th[t].pc \in {"app", "scan"}

\* A queue destroyed while its token was in the scheduler is freed by the thread
\* that meets the token.
DestroyedIsFreed ==
    \A q \in Queues : status[q] = "destroyed" ~> status[q] = "free"
=============================================================================
