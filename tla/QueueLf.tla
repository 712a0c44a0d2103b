------------------------------- MODULE QueueLf -------------------------------
(***************************************************************************)
(* Lock-free plain queue: platform/linux-generic/odp_queue_lf.c.           *)
(*                                                                         *)
(* An event is put into any empty node with a counter taken beforehand;    *)
(* the head is the node with the lowest counter.  Threads read the nodes   *)
(* one by one and decide with a 128-bit compare-and-swap.  Counters are    *)
(* unique, so an event is known by its counter and an empty node is 0.     *)
(***************************************************************************)
EXTENDS Integers, FiniteSets

CONSTANTS Enqueuers, Dequeuers, RingSize, EnqRetries, DeqRetries,
          MaxEnq        \* bound on the number of enqueues

VARIABLES node, enqCounter, enq, deq,
          done,         \* history: events whose enqueue returned success
          taken,        \* history: events dequeued
          before,       \* history: done when the enqueue of an event began
          missed        \* history: the last dequeue without an event had no reason for it

vars == <<node, enqCounter, enq, deq, done, taken, before, missed>>

Idx == 0..RingSize - 1
Counters == 1..MaxEnq
Infinity == MaxEnq + 1      \* lowest = -1

EnqIdle == [pc |-> "idle", counter |-> 0, idx |-> 0, i |-> 0, retry |-> 0]
DeqIdle == [pc |-> "idle", lowest |-> Infinity, old |-> 0, i |-> 0, end |-> 0, found |-> FALSE,
            retry |-> 0, had |-> {}, gone |-> {}]

Init ==
    /\ node = [i \in Idx |-> 0]
    /\ enqCounter = 1
    /\ enq = [t \in Enqueuers |-> EnqIdle]
    /\ deq = [t \in Dequeuers |-> DeqIdle]
    /\ done = {} /\ taken = {}
    /\ before = [c \in Counters |-> {}]
    /\ missed = FALSE

-----------------------------------------------------------------------------
Enq(t) ==
    /\ enq[t].pc = "idle" /\ enqCounter <= MaxEnq
    /\ enqCounter' = enqCounter + 1
    /\ enq' = [enq EXCEPT ![t] = [EnqIdle EXCEPT !.pc = "find", !.counter = enqCounter]]
    /\ before' = [before EXCEPT ![enqCounter] = done]
    /\ UNCHANGED <<node, deq, done, taken, missed>>

\* Look for an empty node; idx runs on from where the last search ended
EnqFind(t) ==
    LET e == enq[t]
    IN  /\ e.pc = "find"
        /\ enq' = [enq EXCEPT ![t] =
               CASE node[e.idx] = 0     -> [e EXCEPT !.pc = "cas"]
                 [] e.i = RingSize - 1  -> EnqIdle       \* full
                 [] OTHER -> [e EXCEPT !.idx = (@ + 1) % RingSize, !.i = @ + 1]]
        /\ UNCHANGED <<node, enqCounter, deq, done, taken, before, missed>>

EnqCas(t) ==
    LET e == enq[t]
    IN  /\ e.pc = "cas"
        /\ IF node[e.idx] = 0
           THEN /\ node' = [node EXCEPT ![e.idx] = e.counter]
                /\ done' = done \cup {e.counter}
                /\ enq' = [enq EXCEPT ![t] = EnqIdle]
           ELSE /\ enq' = [enq EXCEPT ![t] =
                       IF e.retry + 1 = EnqRetries THEN EnqIdle
                       ELSE [e EXCEPT !.pc = "find", !.idx = (@ + 1) % RingSize,
                                      !.i = 0, !.retry = @ + 1]]
                /\ UNCHANGED <<node, done>>
        /\ UNCHANGED <<enqCounter, deq, taken, before, missed>>

-----------------------------------------------------------------------------
Deq(t) ==
    /\ deq[t].pc = "idle"
    /\ deq' = [deq EXCEPT ![t] =
           [DeqIdle EXCEPT !.pc = "find", !.had = done \ taken, !.gone = taken]]
    /\ UNCHANGED <<node, enqCounter, enq, done, taken, before, missed>>

Lower(d) == node[d.i] # 0 /\ node[d.i] < d.lowest
Found(d) == [d EXCEPT !.lowest = node[d.i], !.old = d.i, !.end = d.i, !.found = TRUE]
NoEvent(t) ==
    /\ deq' = [deq EXCEPT ![t] = DeqIdle]
    /\ missed' = /\ deq[t].had \ taken # {}
                 /\ Cardinality(taken \ deq[t].gone) < DeqRetries

\* Faulty: the nodes before the lowest one are not searched again
DeqFind_Once(t) ==
    LET d == deq[t]
        f == IF Lower(d) THEN Found(d) ELSE d
    IN  /\ d.pc = "find"
        /\ IF d.i < RingSize - 1
           THEN deq' = [deq EXCEPT ![t] = [f EXCEPT !.i = @ + 1]] /\ UNCHANGED missed
           ELSE IF ~f.found THEN NoEvent(t)
           ELSE deq' = [deq EXCEPT ![t] = [f EXCEPT !.pc = "cas"]] /\ UNCHANGED missed
        /\ UNCHANGED <<node, enqCounter, enq, done, taken, before>>

DeqFind(t) ==
    LET d == deq[t]
        f == IF Lower(d) THEN Found(d) ELSE d
    IN  /\ d.pc = "find"
        /\ IF d.i < RingSize - 1
           THEN deq' = [deq EXCEPT ![t] = [f EXCEPT !.i = @ + 1]] /\ UNCHANGED missed
           ELSE IF ~f.found THEN NoEvent(t)
           ELSE deq' = [deq EXCEPT ![t] = [f EXCEPT !.i = 0,
                            !.pc = IF f.end = 0 THEN "cas" ELSE "again"]] /\ UNCHANGED missed
        /\ UNCHANGED <<node, enqCounter, enq, done, taken, before>>

\* Second search, up to the node found by the first
DeqAgain(t) ==
    LET d == deq[t]
        f == IF Lower(d) THEN [d EXCEPT !.lowest = node[d.i], !.old = d.i] ELSE d
    IN  /\ d.pc = "again"
        /\ deq' = [deq EXCEPT ![t] = [f EXCEPT !.i = @ + 1,
                                       !.pc = IF d.i + 1 = d.end THEN "cas" ELSE @]]
        /\ UNCHANGED <<node, enqCounter, enq, done, taken, before, missed>>

Retry(d) == [d EXCEPT !.pc = "find", !.i = 0, !.retry = @ + 1, !.found = FALSE,
                      !.lowest = Infinity]

DeqCas(t) ==
    LET d == deq[t]
    IN  /\ d.pc = "cas"
        /\ IF node[d.old] = d.lowest
           THEN /\ node' = [node EXCEPT ![d.old] = 0]
                /\ taken' = taken \cup {d.lowest}
                /\ deq' = [deq EXCEPT ![t] = DeqIdle]
                /\ UNCHANGED missed
           ELSE /\ IF d.retry + 1 = DeqRetries THEN NoEvent(t)
                   ELSE deq' = [deq EXCEPT ![t] = Retry(d)] /\ UNCHANGED missed
                /\ UNCHANGED <<node, taken>>
        /\ UNCHANGED <<enqCounter, enq, done, before>>

Next ==
    \/ \E t \in Enqueuers : Enq(t) \/ EnqFind(t) \/ EnqCas(t)
    \/ \E t \in Dequeuers : Deq(t) \/ DeqFind(t) \/ DeqAgain(t) \/ DeqCas(t)

Spec == Init /\ [][Next]_vars

-----------------------------------------------------------------------------
\* An event whose enqueue succeeded is in one node until it is dequeued, and an event that
\* was refused is in none.
NothingLost ==
    /\ taken \subseteq done
    /\ \A c \in Counters :
           Cardinality({i \in Idx : node[i] = c}) = IF c \in done \ taken THEN 1 ELSE 0

\* Events leave in order: one enqueued before the enqueue of another began is dequeued
\* before it, although dequeues search nodes that change under them.
FifoKept == \A c \in taken : before[c] \subseteq taken

\* A dequeue that returns nothing missed no event that was in the queue all the time, or
\* lost each of its attempts to a dequeue that took an event.
NullJustified == ~missed
=============================================================================
