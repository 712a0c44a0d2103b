------------------------------- MODULE TimerDpdk -------------------------------
(***************************************************************************)
(* Timers of platform/linux-dpdk/odp_timer.c: one pool, whose timers are   *)
(* started, restarted, cancelled, acknowledged and freed by application    *)
(* threads while other threads run the expired ones (timer_cb).            *)
(*                                                                         *)
(* The DPDK timer below is external: pending when reset, running from its  *)
(* expiry to the return of the callback.  A running one can be neither     *)
(* reset nor stopped by another core.                                      *)
(*                                                                         *)
(* A section under timer->lock is one step.  What the code reads or writes *)
(* outside of it is a step of its own: periodic_ticks in                   *)
(* odp_timer_periodic_ack, tmo_event in odp_timer_periodic_cancel.         *)
(***************************************************************************)
EXTENDS Integers, FiniteSets

CONSTANTS Timers, Events, Apps,
          Pollers,      \* threads that call _odp_timer_run_inline
          PoolTypes,    \* of ODP_TIMER_TYPE_PERIODIC: subset of BOOLEAN
          None          \* ODP_EVENT_INVALID

VARIABLES periodic,     \* timer_pool->periodic
          tm,           \* timer_entry_t: state, tmo_event, cancelled (periodic_ticks)
          rte,          \* DPDK timers: "stop", "pending" or "running"
          free,         \* free_timer ring
          cb,           \* pollers in timer_cb
          app,          \* application threads in a call
          has,          \* events the application holds
          queued,       \* timeout queue: number of entries for every event
          owner,        \* timer field of the timeout header
          live          \* periodic timers started whose final timeout is not acknowledged

vars == <<periodic, tm, rte, free, cb, app, has, queued, owner, live>>

Idle == [pc |-> "idle", t |-> None, ev |-> None]

Init ==
    /\ periodic \in PoolTypes
    /\ tm = [t \in Timers |-> [state |-> "NOT_TICKING", ev |-> None, cancelled |-> FALSE]]
    /\ rte = [t \in Timers |-> "stop"]
    /\ free = Timers
    /\ cb = [p \in Pollers |-> Idle]
    /\ app = [a \in Apps |-> Idle]
    /\ has = Events
    /\ queued = [e \in Events |-> 0]
    /\ owner = [e \in Events |-> None]
    /\ live = {}

Unused(t) == \A a \in Apps : app[a].t # t

-----------------------------------------------------------------------------
(* rte_timer_manage and timer_cb *)

Expire(p, t) ==
    /\ cb[p].pc = "idle" /\ rte[t] = "pending"
    /\ rte' = [rte EXCEPT ![t] = "running"]
    /\ cb' = [cb EXCEPT ![p] = [pc |-> "lock", t |-> t, ev |-> None]]
    /\ UNCHANGED <<periodic, tm, free, app, has, queued, owner, live>>

CbLock(p) ==
    LET t == cb[p].t
    IN  /\ cb[p].pc = "lock"
        /\ IF tm[t].state # "TICKING"
           THEN /\ cb' = [cb EXCEPT ![p].pc = "end"]
                /\ UNCHANGED tm
           ELSE /\ cb' = [cb EXCEPT ![p].pc = "enq", ![p].ev = tm[t].ev]
                /\ tm' = [tm EXCEPT ![t].state = "EXPIRED",
                                    ![t].ev = IF periodic THEN @ ELSE None]
        /\ UNCHANGED <<periodic, rte, free, app, has, queued, owner, live>>

CbEnq(p) ==
    /\ cb[p].pc = "enq"
    /\ queued' = [queued EXCEPT ![cb[p].ev] = @ + 1]
    /\ cb' = [cb EXCEPT ![p].pc = "end", ![p].ev = None]
    /\ UNCHANGED <<periodic, tm, rte, free, app, has, owner, live>>

CbEnd(p) ==
    /\ cb[p].pc = "end"
    /\ rte' = [rte EXCEPT ![cb[p].t] = "stop"]
    /\ cb' = [cb EXCEPT ![p] = Idle]
    /\ UNCHANGED <<periodic, tm, free, app, has, queued, owner, live>>

-----------------------------------------------------------------------------
(* The application *)

Alloc(t) ==
    /\ t \in free
    /\ free' = free \ {t}
    /\ tm' = [tm EXCEPT ![t].state = "NOT_TICKING", ![t].ev = None]
    /\ UNCHANGED <<periodic, rte, cb, app, has, queued, owner, live>>

\* odp_timer_free is refused while the timer ticks.  The application does not free a timer
\* another thread uses, nor a periodic one before its final timeout.
Free(t) ==
    /\ t \notin free /\ Unused(t) /\ t \notin live
    /\ tm[t].state # "TICKING"
    /\ free' = free \cup {t}
    /\ UNCHANGED <<periodic, tm, rte, cb, app, has, queued, owner, live>>

\* Faulty form: a timer whose callback runs is taken for armed.
Armed_Always(t, e) ==
    /\ rte' = [rte EXCEPT ![t] = IF @ = "running" THEN @ ELSE "pending"]
    /\ tm' = [tm EXCEPT ![t].state = "TICKING", ![t].ev = e]
    /\ owner' = [owner EXCEPT ![e] = t]

\* The armed timer of timer_set.  A failed reset is retried while the state is EXPIRED,
\* and is a failure of the call otherwise: no step in both cases.
Armed(t, e) ==
    /\ rte[t] # "running"
    /\ rte' = [rte EXCEPT ![t] = "pending"]
    /\ tm' = [tm EXCEPT ![t].state = "TICKING", ![t].ev = e]
    /\ owner' = [owner EXCEPT ![e] = t]

TimerStart(t, e) ==
    /\ ~periodic /\ t \notin free /\ e \in has
    /\ tm[t].ev = None
    /\ Armed(t, e)
    /\ has' = has \ {e}
    /\ UNCHANGED <<periodic, free, cb, app, queued, live>>

Restart(t) ==
    /\ ~periodic /\ t \notin free
    /\ tm[t].ev # None
    /\ Armed(t, tm[t].ev)
    /\ UNCHANGED <<periodic, free, cb, app, has, queued, live>>

Cancel(t) ==
    /\ ~periodic /\ t \notin free
    /\ tm[t].state = "TICKING" /\ rte[t] # "running"
    /\ rte' = [rte EXCEPT ![t] = "stop"]
    /\ has' = has \cup {tm[t].ev}
    /\ tm' = [tm EXCEPT ![t].state = "NOT_TICKING", ![t].ev = None]
    /\ UNCHANGED <<periodic, free, cb, app, queued, owner, live>>

\* A timeout leaves the queue: an event of its own, or one to acknowledge.
Receive(e) ==
    /\ ~periodic /\ queued[e] > 0
    /\ queued' = [queued EXCEPT ![e] = @ - 1]
    /\ has' = has \cup {e}
    /\ UNCHANGED <<periodic, tm, rte, free, cb, app, owner, live>>

\* The application starts a periodic timer when no call of it is left from before.
PeriodicStart(t, e) ==
    /\ periodic /\ t \notin free \cup live /\ Unused(t) /\ e \in has
    /\ tm[t].ev = None
    /\ rte[t] # "running"
    /\ rte' = [rte EXCEPT ![t] = "pending"]
    /\ tm' = [tm EXCEPT ![t] = [state |-> "TICKING", ev |-> e, cancelled |-> FALSE]]
    /\ owner' = [owner EXCEPT ![e] = t]
    /\ has' = has \ {e}
    /\ live' = live \cup {t}
    /\ UNCHANGED <<periodic, free, cb, app, queued>>

\* odp_timer_periodic_ack reads periodic_ticks first
PeriodicReceive(a, e) ==
    /\ periodic /\ app[a].pc = "idle" /\ queued[e] > 0
    /\ queued' = [queued EXCEPT ![e] = @ - 1]
    /\ app' = [app EXCEPT ![a] = [pc |-> "ack", t |-> owner[e], ev |-> e]]
    /\ UNCHANGED <<periodic, tm, rte, free, cb, has, owner, live>>

AckFinal(a) ==
    LET t == app[a].t
    IN  /\ app[a].pc = "ack" /\ tm[t].cancelled
        /\ tm' = [tm EXCEPT ![t].ev = None]
        /\ has' = has \cup {app[a].ev}
        /\ live' = live \ {t}
        /\ app' = [app EXCEPT ![a] = Idle]
        /\ UNCHANGED <<periodic, rte, free, cb, queued, owner>>

AckContinue(a) ==
    /\ app[a].pc = "ack" /\ ~tm[app[a].t].cancelled
    /\ app' = [app EXCEPT ![a].pc = "rearm"]
    /\ UNCHANGED <<periodic, tm, rte, free, cb, has, queued, owner, live>>

AckRearm(a) ==
    /\ app[a].pc = "rearm"
    /\ tm[app[a].t].ev # None
    /\ Armed(app[a].t, tm[app[a].t].ev)
    /\ app' = [app EXCEPT ![a] = Idle]
    /\ UNCHANGED <<periodic, free, cb, has, queued, live>>

\* The next period is too near: the timeout is sent at once to catch up.
AckTooNear(a) ==
    /\ app[a].pc = "rearm"
    /\ queued' = [queued EXCEPT ![app[a].ev] = @ + 1]
    /\ app' = [app EXCEPT ![a] = Idle]
    /\ UNCHANGED <<periodic, tm, rte, free, cb, has, owner, live>>

\* odp_timer_periodic_cancel reads tmo_event before it takes the lock
PeriodicCancel(a, t) ==
    /\ periodic /\ app[a].pc = "idle" /\ t \in live /\ ~tm[t].cancelled
    /\ app' = [app EXCEPT ![a] = [pc |-> "cancel", t |-> t, ev |-> tm[t].ev]]
    /\ UNCHANGED <<periodic, tm, rte, free, cb, has, queued, owner, live>>

\* Faulty form: the timer is not marked as cancelled.
CancelLock_NoMark(a) ==
    LET t == app[a].t
        stopped == rte[t] # "running"
        send == stopped /\ tm[t].state = "TICKING"
    IN  /\ app[a].pc = "cancel"
        /\ rte' = [rte EXCEPT ![t] = IF stopped THEN "stop" ELSE @]
        /\ tm' = [tm EXCEPT ![t] = IF send
                                   THEN [state |-> "NOT_TICKING", ev |-> None, cancelled |-> TRUE]
                                   ELSE @]
        /\ queued' = IF send THEN [queued EXCEPT ![app[a].ev] = @ + 1] ELSE queued
        /\ app' = [app EXCEPT ![a] = Idle]
        /\ UNCHANGED <<periodic, free, cb, has, owner, live>>

CancelLock(a) ==
    LET t == app[a].t
        stopped == rte[t] # "running"
        send == stopped /\ tm[t].state = "TICKING"
    IN  /\ app[a].pc = "cancel"
        /\ rte' = [rte EXCEPT ![t] = IF stopped THEN "stop" ELSE @]
        /\ tm' = [tm EXCEPT ![t] = IF send
                                   THEN [state |-> "NOT_TICKING", ev |-> None, cancelled |-> TRUE]
                                   ELSE [@ EXCEPT !.cancelled = TRUE]]
        /\ queued' = IF send THEN [queued EXCEPT ![app[a].ev] = @ + 1] ELSE queued
        /\ app' = [app EXCEPT ![a] = Idle]
        /\ UNCHANGED <<periodic, free, cb, has, owner, live>>

-----------------------------------------------------------------------------
Next ==
    \/ \E p \in Pollers, t \in Timers : Expire(p, t)
    \/ \E p \in Pollers : CbLock(p) \/ CbEnq(p) \/ CbEnd(p)
    \/ \E t \in Timers : Alloc(t) \/ Free(t) \/ Restart(t) \/ Cancel(t)
    \/ \E t \in Timers, e \in Events : TimerStart(t, e) \/ PeriodicStart(t, e)
    \/ \E e \in Events : Receive(e)
    \/ \E a \in Apps :
           \/ \E e \in Events : PeriodicReceive(a, e)
           \/ AckFinal(a) \/ AckContinue(a) \/ AckRearm(a) \/ AckTooNear(a)
           \/ \E t \in Timers : PeriodicCancel(a, t)
           \/ CancelLock(a)

Callback(p) == CbLock(p) \/ CbEnq(p) \/ CbEnd(p)

Acknowledge(a) ==
    AckFinal(a) \/ AckContinue(a) \/ AckRearm(a) \/ AckTooNear(a) \/ CancelLock(a)

Spec == Init /\ [][Next]_vars

\* When Expire and PeriodicReceive are enabled
Expirable(t) == rte[t] = "pending" /\ \E p \in Pollers : cb[p].pc = "idle"
Receivable(e) == periodic /\ queued[e] > 0 /\ \E a \in Apps : app[a].pc = "idle"

\* Timers are polled, in the order of their expiry, and timeouts received, in the order of
\* the queue, and acknowledged: none waits for ever behind others.
FairSpec ==
    /\ Spec
    /\ \A t \in Timers :
           []<>Expirable(t) => []<><<\E p \in Pollers : Expire(p, t)>>_vars
    /\ \A e \in Events :
           []<>Receivable(e) => []<><<\E a \in Apps : PeriodicReceive(a, e)>>_vars
    /\ \A p \in Pollers : WF_vars(Callback(p))
    /\ \A a \in Apps : WF_vars(Acknowledge(a))

-----------------------------------------------------------------------------
TypeOK ==
    /\ periodic \in BOOLEAN
    /\ tm \in [Timers -> [state : {"NOT_TICKING", "EXPIRED", "TICKING"},
                          ev : Events \cup {None}, cancelled : BOOLEAN]]
    /\ rte \in [Timers -> {"stop", "pending", "running"}]
    /\ free \subseteq Timers /\ has \subseteq Events /\ live \subseteq Timers
    /\ queued \in [Events -> 0..1]

\* timer_cb never finds that its "Timer has been cancelled or freed": whoever cancels, frees
\* or restarts an expiring timer is refused, so the timeout the application counts on comes.
CallbackFindsTicking ==
    \A p \in Pollers : cb[p].pc = "lock" => tm[cb[p].t].state = "TICKING"

Holders(e) ==
    LET count(S) == Cardinality(S)
    IN  queued[e]
        + (IF e \in has THEN 1 ELSE 0)
        + count({p \in Pollers : cb[p].ev = e})
        + count({a \in Apps : app[a].ev = e /\ app[a].pc # "cancel"})
        + count({t \in Timers : tm[t].state = "TICKING" /\ tm[t].ev = e})

\* A timeout event is in one place: with the application, in an armed timer, in a callback
\* or in the queue.  None is lost, none is delivered twice, whatever cancels, restarts,
\* acknowledgements and expiries race.
EventInOnePlace == \A e \in Events : Holders(e) = 1

\* The two notions of an active timer agree: a timer ticks exactly while its DPDK timer is
\* pending, or has expired and its callback has not taken the lock yet.  No restart or
\* acknowledgement that races with the callback leaves a timer that never expires.
TickingIsPending ==
    \A t \in Timers :
        tm[t].state = "TICKING" <=>
            \/ rte[t] = "pending"
            \/ \E p \in Pollers : cb[p].pc = "lock" /\ cb[p].t = t

\* A cancelled periodic timer ends: once odp_timer_periodic_cancel has returned, its final
\* timeout comes and is acknowledged with 2, even if an acknowledgement was under way.
CancelEnds ==
    \A t \in Timers, a \in Apps :
        (app[a].pc = "cancel" /\ app[a].t = t) ~> t \notin live
=============================================================================
