----------------------------- MODULE TimerGeneric -----------------------------
(***************************************************************************)
(* Timers of a timer pool: platform/linux-generic/odp_timer.c, built with  *)
(* 128-bit atomics.                                                        *)
(*                                                                         *)
(* A timer is a pair (expiration tick, timeout event) that calls and scans *)
(* replace with one 128-bit compare-and-swap or exchange; they read its    *)
(* two halves one after the other before that.  A scan also reads the      *)
(* queue of the timer, which is outside the pair, and trusts it when its   *)
(* compare-and-swap succeeds.                                              *)
(*                                                                         *)
(* Threads use the timer as the API allows: a timer is started or freed    *)
(* when it is inactive, and restarted or cancelled at any time.            *)
(***************************************************************************)
EXTENDS Integers, FiniteSets

CONSTANTS Timers, Events, Queues, Scanners, Apps,
          Periodic,     \* kinds of pools: subset of BOOLEAN
          MinRel,       \* min_rel_tck; 1 if the pool has none: calls take time
          Period,       \* periodic_ticks
          MaxTime,      \* bound on the clock
          None

VARIABLES periodic, now,
          tb,           \* tick_buf: [exp, inactive, ev]
          queue,        \* queue of a timer
          cancelled,    \* PERIODIC_CANCELLED
          scan, app,    \* the threads
          has,          \* events the application holds
          queued,       \* queue in which an event waits, or None
          hdr,          \* timer, expiration of the timeout event
          dest,         \* history: queue of the timer when the event was set
          due,          \* history: tick the event was last set to
          resets        \* history: times the timer was set since its cancel, or -1

vars == <<periodic, now, tb, queue, cancelled, scan, app, has, queued, hdr, dest, due, resets>>

Unused == [exp |-> MaxTime + 1, inactive |-> TRUE, ev |-> None]
Inactive == [exp |-> 0, inactive |-> TRUE, ev |-> None]
Idle == [pc |-> "idle", t |-> None, exp |-> 0, tick |-> 0, inactive |-> TRUE, ev |-> None,
         queue |-> None]

Init ==
    /\ periodic \in Periodic
    /\ now = 0
    /\ tb = [t \in Timers |-> Unused]
    /\ queue = [t \in Timers |-> None]
    /\ cancelled = [t \in Timers |-> FALSE]
    /\ scan = [s \in Scanners |-> Idle]
    /\ app = [a \in Apps |-> Idle]
    /\ has = Events
    /\ queued = [e \in Events |-> None]
    /\ hdr = [e \in Events |-> [t |-> None, exp |-> 0]]
    /\ dest = [e \in Events |-> None]
    /\ due = [e \in Events |-> 0]
    /\ resets = [t \in Timers |-> -1]

Tick == now < MaxTime /\ now' = now + 1
        /\ UNCHANGED <<periodic, tb, queue, cancelled, scan, app, has, queued, hdr, dest, due, resets>>

-----------------------------------------------------------------------------
(* timer_pool_scan and timer_expire; tick is the time at the start of a scan *)

ScanRead(s, t) ==
    /\ scan[s].pc = "idle" /\ ~tb[t].inactive /\ tb[t].exp <= now
    /\ scan' = [scan EXCEPT ![s] = [Idle EXCEPT !.pc = "queue", !.t = t, !.exp = tb[t].exp]]
    /\ UNCHANGED <<periodic, now, tb, queue, cancelled, app, has, queued, hdr, dest, due, resets>>

ScanQueue(s) ==
    /\ scan[s].pc = "queue"
    /\ scan' = [scan EXCEPT ![s].pc = "event", ![s].queue = queue[scan[s].t]]
    /\ UNCHANGED <<periodic, now, tb, queue, cancelled, app, has, queued, hdr, dest, due, resets>>

ScanEvent(s) ==
    /\ scan[s].pc = "event"
    /\ scan' = [scan EXCEPT ![s].pc = "cas", ![s].ev = tb[scan[s].t].ev]
    /\ UNCHANGED <<periodic, now, tb, queue, cancelled, app, has, queued, hdr, dest, due, resets>>

Pair(exp, inactive, ev) == [exp |-> exp, inactive |-> inactive, ev |-> ev]

\* Faulty: only the event is compared
ScanCas_EventOnly(s) ==
    LET t == scan[s].t
        ok == tb[t].ev = scan[s].ev /\ ~tb[t].inactive
    IN  /\ scan[s].pc = "cas"
        /\ tb' = IF ok THEN [tb EXCEPT ![t].inactive = TRUE, ![t].ev = None] ELSE tb
        /\ scan' = [scan EXCEPT ![s] = IF ok /\ @.ev # None THEN [@ EXCEPT !.pc = "enq"] ELSE Idle]
        /\ UNCHANGED <<periodic, now, queue, cancelled, app, has, queued, hdr, dest, due, resets>>

ScanCas(s) ==
    LET t == scan[s].t
        ok == tb[t] = Pair(scan[s].exp, FALSE, scan[s].ev)
    IN  /\ scan[s].pc = "cas"
        /\ tb' = IF ok THEN [tb EXCEPT ![t].inactive = TRUE, ![t].ev = None] ELSE tb
        /\ scan' = [scan EXCEPT ![s] = IF ok /\ @.ev # None THEN [@ EXCEPT !.pc = "enq"] ELSE Idle]
        /\ UNCHANGED <<periodic, now, queue, cancelled, app, has, queued, hdr, dest, due, resets>>

ScanEnq(s) ==
    LET e == scan[s].ev
    IN  /\ scan[s].pc = "enq"
        /\ hdr' = [hdr EXCEPT ![e].exp = scan[s].exp]
        /\ queued' = [queued EXCEPT ![e] = scan[s].queue]
        /\ scan' = [scan EXCEPT ![s] = Idle]
        /\ UNCHANGED <<periodic, now, tb, queue, cancelled, app, has, dest, due, resets>>

-----------------------------------------------------------------------------
(* Calls; an application thread is in one call at a time *)

Call(a, pc, t, ev, exp) ==
    app' = [app EXCEPT ![a] = [Idle EXCEPT !.pc = pc, !.t = t, !.ev = ev, !.exp = exp]]
Return(a) == app' = [app EXCEPT ![a] = Idle]

NoCall(t) == \A a \in Apps : app[a].t # t

\* A timer the application may still use
InUse(t) == queue[t] # None /\ \A a \in Apps : app[a].t = t => app[a].pc # "free"

\* The application knows the timer as stopped: no event of it is on the way
Stopped(t) ==
    /\ queue[t] # None /\ NoCall(t) /\ tb[t].inactive
    /\ \A e \in Events : hdr[e].t = t => e \in has

Alloc(t, q) ==
    /\ queue[t] = None /\ NoCall(t)
    /\ queue' = [queue EXCEPT ![t] = q]
    /\ tb' = [tb EXCEPT ![t] = Inactive]
    /\ UNCHANGED <<periodic, now, cancelled, scan, app, has, queued, hdr, dest, due, resets>>

\* odp_timer_free: unused, and then without a queue and in the free list
Free(a, t) ==
    /\ app[a].pc = "idle" /\ Stopped(t)
    /\ tb' = [tb EXCEPT ![t] = Unused]
    /\ Call(a, "free", t, None, 0)
    /\ UNCHANGED <<periodic, now, queue, cancelled, scan, has, queued, hdr, dest, due, resets>>

FreeEnd(a) ==
    /\ app[a].pc = "free"
    /\ queue' = [queue EXCEPT ![app[a].t] = None]
    /\ Return(a)
    /\ UNCHANGED <<periodic, now, tb, cancelled, scan, has, queued, hdr, dest, due, resets>>

\* Ticks that are neither too near nor too far
Ticks == {exp \in now + MinRel..MaxTime : periodic => exp <= now + Period}

\* odp_timer_start and odp_timer_periodic_start read the time, and swap the pair later
TimerStart(a, t, e, exp) ==
    /\ app[a].pc = "idle" /\ Stopped(t) /\ e \in has
    /\ exp \in Ticks
    /\ cancelled' = [cancelled EXCEPT ![t] = FALSE]
    /\ resets' = [resets EXCEPT ![t] = -1]
    /\ has' = has \ {e}
    /\ Call(a, "start", t, e, exp)
    /\ UNCHANGED <<periodic, now, tb, queue, scan, queued, hdr, dest, due>>

\* timer_reset with a new event; an event it replaces is freed
Swap(t, e, exp) ==
    /\ tb' = [tb EXCEPT ![t] = Pair(exp, FALSE, e)]
    /\ hdr' = [hdr EXCEPT ![e].t = t]
    /\ dest' = [dest EXCEPT ![e] = queue[t]]
    /\ due' = [due EXCEPT ![e] = exp]
    /\ resets' = [resets EXCEPT ![t] = IF @ \in {0, 1} THEN @ + 1 ELSE @]
    /\ has' = has \cup ({tb[t].ev} \ {None})

StartSwap(a) ==
    /\ app[a].pc = "start"
    /\ Swap(app[a].t, app[a].ev, app[a].exp)
    /\ Return(a)
    /\ UNCHANGED <<periodic, now, queue, cancelled, scan, queued>>

\* odp_timer_restart
Restart(a, t, exp) ==
    /\ ~periodic /\ app[a].pc = "idle" /\ InUse(t)
    /\ exp \in Ticks
    /\ Call(a, "restart", t, None, exp)
    /\ UNCHANGED <<periodic, now, tb, queue, cancelled, scan, has, queued, hdr, dest, due, resets>>

\* Read of the pair by timer_reset and timer_cancel; the tick first, and then the event
ReadTick(a) ==
    /\ app[a].pc \in {"restart", "cancel"}
    /\ app' = [app EXCEPT ![a].pc = IF @ = "cancel" THEN "cancel2" ELSE "restart2",
                          ![a].tick = tb[app[a].t].exp, ![a].inactive = tb[app[a].t].inactive]
    /\ UNCHANGED <<periodic, now, tb, queue, cancelled, scan, has, queued, hdr, dest, due, resets>>

ReadEvent(a) ==
    /\ app[a].pc \in {"restart2", "cancel2"}
    /\ app' = [app EXCEPT ![a].pc = IF @ = "cancel2" THEN "cancel3" ELSE "restart3",
                          ![a].ev = tb[app[a].t].ev]
    /\ UNCHANGED <<periodic, now, tb, queue, cancelled, scan, has, queued, hdr, dest, due, resets>>

\* A compare-and-swap that fails returns the pair it found
Old(a) == Pair(app[a].tick, app[a].inactive, app[a].ev)
Reload(a) ==
    LET p == tb[app[a].t]
    IN  app' = [app EXCEPT ![a].tick = p.exp, ![a].inactive = p.inactive, ![a].ev = p.ev]

RestartCas(a) ==
    LET t == app[a].t
    IN  /\ app[a].pc = "restart3"
        /\ \/ app[a].ev = None /\ Return(a) /\ UNCHANGED <<tb, due>>
           \/ /\ app[a].ev # None /\ tb[t] = Old(a)
              /\ tb' = [tb EXCEPT ![t] = Pair(app[a].exp, FALSE, app[a].ev)]
              /\ due' = [due EXCEPT ![app[a].ev] = app[a].exp]
              /\ Return(a)
           \/ app[a].ev # None /\ tb[t] # Old(a) /\ Reload(a) /\ UNCHANGED <<tb, due>>
        /\ UNCHANGED <<periodic, now, queue, cancelled, scan, has, queued, hdr, dest, resets>>

\* odp_timer_cancel and odp_timer_periodic_cancel
Cancel(a, t) ==
    /\ app[a].pc = "idle" /\ InUse(t) /\ ~cancelled[t]
    /\ Call(a, "cancel", t, None, 0)
    /\ UNCHANGED <<periodic, now, tb, queue, cancelled, scan, has, queued, hdr, dest, due, resets>>

\* The event timer_cancel returns goes to the caller; a periodic cancel marks the timer
Cancelled(a, ev) ==
    IF periodic THEN app' = [app EXCEPT ![a].pc = "mark", ![a].ev = ev] /\ UNCHANGED has
    ELSE Return(a) /\ has' = has \cup ({ev} \ {None})

\* Faulty: the event read is taken without a comparison
CancelCas_NoCas(a) ==
    LET t == app[a].t
    IN  /\ app[a].pc = "cancel3"
        /\ \/ app[a].inactive /\ Cancelled(a, None) /\ UNCHANGED tb
           \/ /\ ~app[a].inactive
              /\ tb' = [tb EXCEPT ![t] = Inactive]
              /\ Cancelled(a, app[a].ev)
        /\ UNCHANGED <<periodic, now, queue, cancelled, scan, queued, hdr, dest, due, resets>>

CancelCas(a) ==
    LET t == app[a].t
    IN  /\ app[a].pc = "cancel3"
        /\ \/ app[a].inactive /\ Cancelled(a, None) /\ UNCHANGED tb
           \/ /\ ~app[a].inactive /\ tb[t] = Old(a)
              /\ tb' = [tb EXCEPT ![t] = Inactive]
              /\ Cancelled(a, app[a].ev)
           \/ ~app[a].inactive /\ tb[t] # Old(a) /\ Reload(a) /\ UNCHANGED <<tb, has>>
        /\ UNCHANGED <<periodic, now, queue, cancelled, scan, queued, hdr, dest, due, resets>>

CancelMark(a) ==
    LET t == app[a].t
    IN  /\ app[a].pc = "mark"
        /\ cancelled' = [cancelled EXCEPT ![t] = TRUE]
        /\ queued' = IF app[a].ev = None THEN queued
                     ELSE [queued EXCEPT ![app[a].ev] = queue[t]]
        /\ resets' = [resets EXCEPT ![t] = 0]
        /\ Return(a)
        /\ UNCHANGED <<periodic, now, tb, queue, scan, has, hdr, dest, due>>

-----------------------------------------------------------------------------
Receive(e) ==
    /\ ~periodic /\ queued[e] # None
    /\ queued' = [queued EXCEPT ![e] = None]
    /\ has' = has \cup {e}
    /\ UNCHANGED <<periodic, now, tb, queue, cancelled, scan, app, hdr, dest, due, resets>>

\* A periodic timeout is received and acknowledged: odp_timer_periodic_ack reads the mark, ...
Ack(a, e) ==
    /\ periodic /\ app[a].pc = "idle" /\ queued[e] # None
    /\ queued' = [queued EXCEPT ![e] = None]
    /\ IF cancelled[hdr[e].t]
       THEN has' = has \cup {e} /\ UNCHANGED app
       ELSE UNCHANGED has /\ Call(a, "ack", hdr[e].t, e, hdr[e].exp + Period)
    /\ UNCHANGED <<periodic, now, tb, queue, cancelled, scan, hdr, dest, due, resets>>

\* ... and sets the timer again
AckSwap(a) ==
    /\ app[a].pc = "ack" /\ app[a].exp <= MaxTime
    /\ Swap(app[a].t, app[a].ev, app[a].exp)
    /\ Return(a)
    /\ UNCHANGED <<periodic, now, queue, cancelled, scan, queued>>

Next ==
    \/ Tick
    \/ \E s \in Scanners :
           \/ \E t \in Timers : ScanRead(s, t)
           \/ ScanQueue(s) \/ ScanEvent(s) \/ ScanCas(s) \/ ScanEnq(s)
    \/ \E t \in Timers, q \in Queues : Alloc(t, q)
    \/ \E e \in Events : Receive(e)
    \/ \E a \in Apps :
           \/ \E t \in Timers : Free(a, t) \/ Cancel(a, t)
           \/ \E t \in Timers, e \in Events, exp \in 0..MaxTime : TimerStart(a, t, e, exp)
           \/ \E t \in Timers, exp \in 0..MaxTime : Restart(a, t, exp)
           \/ \E e \in Events : Ack(a, e)
           \/ FreeEnd(a) \/ StartSwap(a) \/ AckSwap(a) \/ ReadTick(a) \/ ReadEvent(a)
           \/ RestartCas(a) \/ CancelCas(a) \/ CancelMark(a)

Spec == Init /\ [][Next]_vars

-----------------------------------------------------------------------------
Holders(e) ==
    (IF e \in has THEN 1 ELSE 0)
    + (IF queued[e] # None THEN 1 ELSE 0)
    + Cardinality({t \in Timers : tb[t].ev = e})
    + Cardinality({s \in Scanners : scan[s].pc = "enq" /\ scan[s].ev = e})
    + Cardinality({a \in Apps : app[a].pc \in {"start", "ack", "mark"} /\ app[a].ev = e})

\* A timeout event is in one place: with the application, in a timer, in the hands of one
\* scan or one call, or in a queue.  Torn reads of the pair and races of scans, cancels,
\* restarts and acknowledgements neither lose nor duplicate it.
EventInOnePlace == \A e \in Events : Holders(e) = 1

\* A timeout goes to the queue its timer had when it was set: the queue a scan reads outside
\* the pair is that of the timer it then expires, although the timer may be cancelled, freed
\* and allocated for another queue in between (timer_expire, odp_timer_free).
RightQueue == \A e \in Events : queued[e] # None => queued[e] = dest[e]

\* A timeout that is delivered carries the tick it was last set to, and not before that time:
\* a restart that succeeded is never overtaken by the expiration it replaced (timer_reset).
LastExpiration ==
    \A e \in Events :
        queued[e] # None /\ ~cancelled[hdr[e].t] => hdr[e].exp = due[e] /\ due[e] <= now

\* Once odp_timer_periodic_cancel has returned, the timer is set at most once more, by an
\* acknowledgement that read the mark before it was made.
CancelHolds == \A t \in Timers : resets[t] <= 1
=============================================================================
