----------------------------- MODULE RingMpmcRst -----------------------------
(***************************************************************************)
(* The restricted size multi-producer multi-consumer ring of               *)
(* platform/linux-generic/include/odp_ring_mpmc_rst_internal.h, which      *)
(* holds the tokens of the schedulers and the objects of a stash.          *)
(*                                                                         *)
(* Its enqueue never fails: it reserves slots first and then waits for     *)
(* readers to leave them.  "Ring size must be larger than the maximum      *)
(* number of data items that will be stored on it": the users keep a fixed *)
(* set of items, each in the ring or with the thread that took it, and     *)
(* this module models that use.                                            *)
(*                                                                         *)
(* As in RingMpmc, counters count items and the code sees them modulo      *)
(* CounterMod.                                                             *)
(***************************************************************************)
EXTENDS Integers, Sequences, FiniteSets

CONSTANTS Threads, Tokens,
          Size,        \* ring_mask + 1, more than the number of items
          CounterMod,  \* 2^32 in the code
          MaxBurst,    \* largest num of a multi call
          Start,       \* value of the counters when the run starts
          MaxEnq       \* bound: no enqueue call starts after so many items

VARIABLES w_head, w_tail, r_head, r_tail, data,
          pc, op, num, head,   \* locals; head is old_head in the enqueue
          buf,                 \* items the call moves
          own                  \* items each thread has taken and not put back

counters == <<w_head, w_tail, r_head, r_tail>>
vars == <<counters, data, pc, op, num, head, buf, own>>

U32(c) == c % CounterMod
Dist(a, b) == (U32(a) - U32(b)) % CounterMod
Slot(c) == c % Size
Elems(s) == {s[i] : i \in DOMAIN s}
Bursts(S) == {s \in UNION {[1..n -> S] : n \in 1..MaxBurst} : Cardinality(Elems(s)) = Len(s)}

Goto(t, label) == pc' = [pc EXCEPT ![t] = label]

Return(t) ==
    /\ Goto(t, "idle")
    /\ op' = [op EXCEPT ![t] = "multi"]
    /\ num' = [num EXCEPT ![t] = 0]
    /\ head' = [head EXCEPT ![t] = Start]
    /\ buf' = [buf EXCEPT ![t] = <<>>]

\* The items are with the threads that will put them into the ring.
Init ==
    /\ w_head = Start /\ w_tail = Start /\ r_head = Start /\ r_tail = Start
    /\ data \in {[s \in 0..Size - 1 |-> x] : x \in {CHOOSE x \in Tokens : TRUE}}
    /\ pc = [t \in Threads |-> "idle"] /\ op = [t \in Threads |-> "multi"]
    /\ num = [t \in Threads |-> 0] /\ head = [t \in Threads |-> Start]
    /\ buf = [t \in Threads |-> <<>>]
    /\ own \in [Threads -> SUBSET Tokens]
    /\ \A x \in Tokens : Cardinality({t \in Threads : x \in own[t]}) = 1

-----------------------------------------------------------------------------
\* fetch_inc or fetch_add of w_head: the call takes its slots at once.
EnqReserve(t, items) ==
    /\ pc[t] = "idle" /\ w_head - Start < MaxEnq
    /\ Elems(items) \subseteq own[t]
    /\ head' = [head EXCEPT ![t] = w_head]
    /\ w_head' = w_head + Len(items)
    /\ num' = [num EXCEPT ![t] = Len(items)]
    /\ buf' = [buf EXCEPT ![t] = items]
    /\ own' = [own EXCEPT ![t] = @ \ Elems(items)]
    /\ Goto(t, "enq_room")
    /\ UNCHANGED <<w_tail, r_head, r_tail, data, op>>

\* "Wait for the last reader to finish": only the first slot is asked about.
EnqRoom(t) ==
    /\ pc[t] = "enq_room"
    /\ Dist(head[t] + 1, r_tail) < Size
    /\ Goto(t, "enq_write")
    /\ UNCHANGED <<counters, data, op, num, head, buf, own>>

EnqWrite(t) ==
    /\ pc[t] = "enq_write"
    /\ data' = [s \in 0..Size - 1 |->
                  IF \E i \in 1..num[t] : s = Slot(head[t] + i)
                  THEN buf[t][CHOOSE i \in 1..num[t] : s = Slot(head[t] + i)]
                  ELSE data[s]]
    /\ Goto(t, "enq_tail")
    /\ UNCHANGED <<counters, op, num, head, buf, own>>

\* Faulty form: the tail is stored without waiting for earlier writers.
EnqPublish_NoWait(t) ==
    /\ pc[t] = "enq_tail"
    /\ w_tail' = head[t] + num[t]
    /\ Return(t)
    /\ UNCHANGED <<w_head, r_head, r_tail, data, own>>

EnqPublish(t) ==
    /\ pc[t] = "enq_tail"
    /\ U32(w_tail) = U32(head[t])
    /\ w_tail' = w_tail + num[t]
    /\ Return(t)
    /\ UNCHANGED <<w_head, r_head, r_tail, data, own>>

-----------------------------------------------------------------------------
\* The single item forms take the same steps as the multi forms with num = 1.
DeqLoadHead(t, o, n) ==
    /\ pc[t] = "idle"
    /\ op' = [op EXCEPT ![t] = o]
    /\ num' = [num EXCEPT ![t] = n]
    /\ head' = [head EXCEPT ![t] = r_head]
    /\ Goto(t, "deq_tail")
    /\ UNCHANGED <<counters, data, buf, own>>

DeqLoadTail(t) ==
    LET avail == Dist(w_tail, head[t])
    IN  /\ pc[t] = "deq_tail"
        /\ \/ /\ IF op[t] = "batch" THEN avail < num[t] ELSE avail = 0
              /\ Return(t)
           \/ /\ IF op[t] = "batch" THEN avail >= num[t] ELSE avail # 0
              /\ num' = [num EXCEPT ![t] = IF avail < @ THEN avail ELSE @]
              /\ Goto(t, "deq_cas")
              /\ UNCHANGED <<op, head, buf>>
        /\ UNCHANGED <<counters, data, own>>

\* A failed CAS loads the current head, and the loop reads the tail again.
DeqCas(t) ==
    /\ pc[t] = "deq_cas"
    /\ \/ /\ U32(r_head) = U32(head[t])
          /\ r_head' = r_head + num[t]
          /\ Goto(t, "deq_read")
          /\ UNCHANGED head
       \/ /\ U32(r_head) # U32(head[t])
          /\ head' = [head EXCEPT ![t] = r_head]
          /\ Goto(t, "deq_tail")
          /\ UNCHANGED r_head
    /\ UNCHANGED <<w_head, w_tail, r_tail, data, op, num, buf, own>>

DeqRead(t) ==
    /\ pc[t] = "deq_read"
    /\ buf' = [buf EXCEPT ![t] = [i \in 1..num[t] |-> data[Slot(head[t] + i)]]]
    /\ Goto(t, "deq_wait")
    /\ UNCHANGED <<counters, data, op, num, head, own>>

DeqRelease(t) ==
    /\ pc[t] = "deq_wait"
    /\ U32(r_tail) = U32(head[t])
    /\ r_tail' = r_tail + num[t]
    /\ own' = [own EXCEPT ![t] = @ \cup Elems(buf[t])]
    /\ Return(t)
    /\ UNCHANGED <<w_head, w_tail, r_head, data>>

-----------------------------------------------------------------------------
Call(t) == \/ \E items \in Bursts(own[t]) : EnqReserve(t, items)
           \/ \E o \in {"multi", "batch"}, n \in 1..MaxBurst : DeqLoadHead(t, o, n)

Step(t) == \/ EnqRoom(t) \/ EnqWrite(t) \/ EnqPublish(t)
           \/ DeqLoadTail(t) \/ DeqCas(t) \/ DeqRead(t) \/ DeqRelease(t)

Next == \E t \in Threads : Call(t) \/ Step(t)
Spec == Init /\ [][Next]_vars

\* A thread inside a call keeps running.
FairSpec == Spec /\ \A t \in Threads : WF_vars(Step(t))
-----------------------------------------------------------------------------
(* Properties *)

TypeOK ==
    /\ counters \in Nat \X Nat \X Nat \X Nat
    /\ data \in [0..Size - 1 -> Tokens]
    /\ pc \in [Threads -> {"idle", "enq_room", "enq_write", "enq_tail",
                           "deq_tail", "deq_cas", "deq_read", "deq_wait"}]
    /\ op \in [Threads -> {"multi", "batch"}]
    /\ num \in [Threads -> 0..MaxBurst] /\ head \in [Threads -> Nat]
    /\ buf \in [Threads -> Seq(Tokens)] /\ own \in [Threads -> SUBSET Tokens]

\* The items of the ring proper: stored and not yet claimed by a reader.
Stored == {data[Slot(c)] : c \in r_head + 1..w_tail}

\* The items a call has in its hands: a writer's that are not yet published and a
\* reader's that it has claimed.
InFlight(t) ==
    IF pc[t] \in {"deq_read", "deq_wait"} THEN {data[Slot(head[t] + i)] : i \in 1..num[t]}
    ELSE Elems(buf[t])

\* No item is lost or duplicated: each is in exactly one place, the ring, a call
\* or a thread, whatever calls overlap.  For the schedulers this is what keeps a
\* queue from being served twice or forgotten.
Conserved ==
    /\ w_tail - r_head = Cardinality(Stored)
    /\ \A x \in Tokens :
         Cardinality({t \in Threads : x \in own[t] \cup InFlight(t)})
           + (IF x \in Stored THEN 1 ELSE 0) = 1
    /\ \A t \in Threads : own[t] \cap InFlight(t) = {}

\* A writer and a reader, or two of them, are never at the same slot, though an
\* enqueue reserves slots without looking and a multi enqueue asks about its
\* first slot only.
Owned(t) == IF pc[t] \in {"enq_write", "enq_tail", "deq_read", "deq_wait"}
            THEN {Slot(head[t] + i) : i \in 1..num[t]} ELSE {}
NoSlotConflict == \A t, u \in Threads : t # u => Owned(t) \cap Owned(u) = {}

\* A thread waits for readers to leave a slot, or spins on a tail.
Spins(t) == pc[t] \in {"enq_room", "enq_tail", "deq_wait"}
=============================================================================
