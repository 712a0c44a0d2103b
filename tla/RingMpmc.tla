------------------------------ MODULE RingMpmc ------------------------------
(***************************************************************************)
(* The lock-free multi-producer multi-consumer ring of                     *)
(* platform/linux-generic/include/odp_ring_mpmc_internal.h.                *)
(*                                                                         *)
(* Each thread runs one call at a time.  A call is the sequence of its     *)
(* accesses to the four shared counters: load the head, load the opposite  *)
(* tail, compare-and-swap the head, copy the data, wait for its turn and   *)
(* store the tail.  One action models one such access.  The copy loop is   *)
(* one action; NoSlotConflict states that no other thread touches the      *)
(* slots meanwhile, which is what makes that granularity exact.            *)
(*                                                                         *)
(* A counter variable counts every item since initialisation.  The 32-bit  *)
(* register of the code holds that count modulo CounterMod, and every      *)
(* comparison or subtraction of the code is made on the registers.         *)
(***************************************************************************)
EXTENDS Integers, Sequences

CONSTANTS Threads,     \* threads that use the ring
          Size,        \* number of slots, ring_mask + 1
          CounterMod,  \* 2^32 in the code
          Data,        \* values stored in the ring
          MaxBurst,    \* largest num of a multi or batch call
          Start,       \* value of the counters when the run starts (0 after init)
          MaxEnq       \* bound: no enqueue call starts after so many items

ASSUME SizeAssumption == Size \in Nat \ {0}
ASSUME ModAssumption == CounterMod \in Nat /\ 2 * Size <= CounterMod
ASSUME BurstAssumption == MaxBurst \in Nat \ {0}
ASSUME StartAssumption == Start \in Nat /\ MaxEnq \in Nat

VARIABLES w_head, w_tail, r_head, r_tail,  \* ring->r, as item counts
          ring_data,                       \* slots
          pc,                              \* next access of the thread
          op,                              \* which variant of enq or deq runs
          num, old,                        \* locals num and old_head
          buf,                             \* the caller's data array
          claim                            \* history: items a dequeue took by its CAS

counters == <<w_head, w_tail, r_head, r_tail>>
vars == <<w_head, w_tail, r_head, r_tail, ring_data, pc, op, num, old, buf, claim>>

Ops == {"single", "multi", "batch"}
Bursts == UNION {[1..n -> Data] : n \in 1..MaxBurst}
Results == {<<>>} \cup Bursts

EnqOwner == {"enq_write", "enq_wait"}
DeqOwner == {"deq_read", "deq_wait"}
PCs == {"idle", "enq_head", "enq_tail", "enq_cas", "deq_head", "deq_tail", "deq_cas"}
         \cup EnqOwner \cup DeqOwner

\* The register of a count, and the unsigned difference of two registers.
U32(c) == c % CounterMod
Dist(a, b) == (U32(a) - U32(b)) % CounterMod
Slot(c) == c % Size

\* Faulty forms of the two room computations.
NumFree_OneTooMany(head, tail) == (Size + 1 - Dist(head, tail)) % CounterMod
NumFree_OneTooFew(head, tail) == (Size - 1 - Dist(head, tail)) % CounterMod

\* num_free and num_data
NumFree(head, tail) == (Size - Dist(head, tail)) % CounterMod
NumData(head, tail) == Dist(tail, head)

\* The items at positions c+1 .. c+n of the ring.
Items(c, n) == [i \in 1..n |-> ring_data[Slot(c + i)]]

Goto(t, label) == pc' = [pc EXCEPT ![t] = label]

\* The call returns and its locals die.
Return(t) ==
    /\ Goto(t, "idle")
    /\ op' = [op EXCEPT ![t] = "single"]
    /\ num' = [num EXCEPT ![t] = 0]
    /\ old' = [old EXCEPT ![t] = Start]
    /\ buf' = [buf EXCEPT ![t] = <<>>]
    /\ claim' = [claim EXCEPT ![t] = <<>>]

Init ==
    /\ w_head = Start /\ w_tail = Start /\ r_head = Start /\ r_tail = Start
    /\ ring_data \in [0..Size - 1 -> Data]
    /\ pc = [t \in Threads |-> "idle"]
    /\ op = [t \in Threads |-> "single"]
    /\ num = [t \in Threads |-> 0]
    /\ old = [t \in Threads |-> Start]
    /\ buf = [t \in Threads |-> <<>>]
    /\ claim = [t \in Threads |-> <<>>]

-----------------------------------------------------------------------------
(* Enqueue *)

EnqCall(t, o, items) ==
    /\ pc[t] = "idle"
    /\ w_head - Start < MaxEnq
    /\ o = "single" => Len(items) = 1
    /\ op' = [op EXCEPT ![t] = o]
    /\ num' = [num EXCEPT ![t] = Len(items)]
    /\ buf' = [buf EXCEPT ![t] = items]
    /\ Goto(t, "enq_head")
    /\ UNCHANGED <<counters, ring_data, old, claim>>

EnqLoadHead(t) ==
    /\ pc[t] = "enq_head"
    /\ old' = [old EXCEPT ![t] = w_head]
    /\ Goto(t, "enq_tail")
    /\ UNCHANGED <<counters, ring_data, op, num, buf, claim>>

\* The room a call insists on: a batch is stored whole or not at all.
Wanted(t) == IF op[t] = "batch" THEN num[t] ELSE 1

\* Faulty form: the number of free slots does not limit the call.
EnqLoadTail_NoFullCheck(t) ==
    LET free == NumFree(old[t], r_tail)
    IN  /\ pc[t] = "enq_tail"
        /\ num' = [num EXCEPT ![t] = IF @ > free THEN free ELSE @]
        /\ Goto(t, "enq_cas")
        /\ UNCHANGED <<counters, ring_data, op, old, buf, claim>>

EnqLoadTail(t) ==
    LET free == NumFree(old[t], r_tail)
    IN  /\ pc[t] = "enq_tail"
        /\ \/ /\ free < Wanted(t)
              /\ Return(t)
           \/ /\ free >= Wanted(t)
              /\ num' = [num EXCEPT ![t] = IF @ > free THEN free ELSE @]
              /\ Goto(t, "enq_cas")
              /\ UNCHANGED <<op, old, buf, claim>>
        /\ UNCHANGED <<counters, ring_data>>

EnqCas(t) ==
    /\ pc[t] = "enq_cas"
    /\ \/ /\ U32(w_head) = U32(old[t])
          /\ w_head' = w_head + num[t]
          /\ Goto(t, "enq_write")
       \/ /\ U32(w_head) # U32(old[t])
          /\ Goto(t, "enq_head")
          /\ UNCHANGED w_head
    /\ UNCHANGED <<w_tail, r_head, r_tail, ring_data, op, num, old, buf, claim>>

EnqWrite(t) ==
    /\ pc[t] = "enq_write"
    /\ ring_data' = [s \in 0..Size - 1 |->
                       IF \E i \in 1..num[t] : s = Slot(old[t] + i)
                       THEN buf[t][CHOOSE i \in 1..num[t] : s = Slot(old[t] + i)]
                       ELSE ring_data[s]]
    /\ Goto(t, "enq_wait")
    /\ UNCHANGED <<counters, op, num, old, buf, claim>>

\* Faulty form: the tail is stored without waiting for earlier writers.
EnqPublish_NoWait(t) ==
    /\ pc[t] = "enq_wait"
    /\ w_tail' = old[t] + num[t]
    /\ Return(t)
    /\ UNCHANGED <<w_head, r_head, r_tail, ring_data>>

\* Faulty form: the loop compares the tail with new_head and writes the data again
\* while it spins.
EnqPublish_NewHead(t) ==
    /\ pc[t] = "enq_wait"
    /\ IF U32(w_tail) = U32(old[t] + num[t])
       THEN /\ w_tail' = w_tail + num[t]
            /\ Return(t)
       ELSE /\ Goto(t, "enq_write")
            /\ UNCHANGED <<w_tail, op, num, old, buf, claim>>
    /\ UNCHANGED <<w_head, r_head, r_tail, ring_data>>

EnqPublish(t) ==
    /\ pc[t] = "enq_wait"
    /\ U32(w_tail) = U32(old[t])
    /\ w_tail' = w_tail + num[t]
    /\ Return(t)
    /\ UNCHANGED <<w_head, r_head, r_tail, ring_data>>

-----------------------------------------------------------------------------
(* Dequeue *)

DeqCall(t, o, n) ==
    /\ pc[t] = "idle"
    /\ o = "single" => n = 1
    /\ op' = [op EXCEPT ![t] = o]
    /\ num' = [num EXCEPT ![t] = n]
    /\ buf' = [buf EXCEPT ![t] = <<>>]
    /\ Goto(t, "deq_head")
    /\ UNCHANGED <<counters, ring_data, old, claim>>

DeqLoadHead(t) ==
    /\ pc[t] = "deq_head"
    /\ old' = [old EXCEPT ![t] = r_head]
    /\ Goto(t, "deq_tail")
    /\ UNCHANGED <<counters, ring_data, op, num, buf, claim>>

DeqLoadTail(t) ==
    LET avail == NumData(old[t], w_tail)
    IN  /\ pc[t] = "deq_tail"
        /\ \/ /\ avail < Wanted(t)
              /\ Return(t)
           \/ /\ avail >= Wanted(t)
              /\ num' = [num EXCEPT ![t] = IF @ > avail THEN avail ELSE @]
              /\ Goto(t, "deq_cas")
              /\ UNCHANGED <<op, old, buf, claim>>
        /\ UNCHANGED <<counters, ring_data>>

DeqCas(t) ==
    /\ pc[t] = "deq_cas"
    /\ \/ /\ U32(r_head) = U32(old[t])
          /\ r_head' = r_head + num[t]
          /\ claim' = [claim EXCEPT ![t] = Items(r_head, num[t])]
          /\ Goto(t, "deq_read")
       \/ /\ U32(r_head) # U32(old[t])
          /\ Goto(t, "deq_head")
          /\ UNCHANGED <<r_head, claim>>
    /\ UNCHANGED <<w_head, w_tail, r_tail, ring_data, op, num, old, buf>>

DeqRead(t) ==
    /\ pc[t] = "deq_read"
    /\ buf' = [buf EXCEPT ![t] = Items(old[t], num[t])]
    /\ Goto(t, "deq_wait")
    /\ UNCHANGED <<counters, ring_data, op, num, old, claim>>

DeqRelease(t) ==
    /\ pc[t] = "deq_wait"
    /\ U32(r_tail) = U32(old[t])
    /\ r_tail' = r_tail + num[t]
    /\ Return(t)
    /\ UNCHANGED <<w_head, w_tail, r_head, ring_data>>

-----------------------------------------------------------------------------
Call(t) == \E o \in Ops : \/ \E items \in Bursts : EnqCall(t, o, items)
                          \/ \E n \in 1..MaxBurst : DeqCall(t, o, n)

Step(t) == \/ EnqLoadHead(t) \/ EnqLoadTail(t) \/ EnqCas(t) \/ EnqWrite(t) \/ EnqPublish(t)
           \/ DeqLoadHead(t) \/ DeqLoadTail(t) \/ DeqCas(t) \/ DeqRead(t) \/ DeqRelease(t)

Next == \E t \in Threads : Call(t) \/ Step(t)

Spec == Init /\ [][Next]_vars

\* A thread inside a call keeps running: the code never blocks or sleeps there.
FairSpec == Spec /\ \A t \in Threads : WF_vars(Step(t))
-----------------------------------------------------------------------------
(* Properties *)

TypeOK ==
    /\ w_head \in Nat /\ w_tail \in Nat /\ r_head \in Nat /\ r_tail \in Nat
    /\ ring_data \in [0..Size - 1 -> Data]
    /\ pc \in [Threads -> PCs]
    /\ op \in [Threads -> Ops]
    /\ num \in [Threads -> 0..MaxBurst]
    /\ \A t \in Threads : pc[t] # "idle" => num[t] > 0
    /\ old \in [Threads -> Nat]
    /\ buf \in [Threads -> Seq(Data)]
    /\ claim \in [Threads -> Seq(Data)]

\* The slots a thread owns between its successful CAS and its tail store.
Owned(t) == {Slot(old[t] + i) : i \in 1..num[t]}

\* "When CAS operation succeeds, this thread owns data between old and new
\* w_head": no two threads that are past their CAS ever hold the same slot,
\* writer against writer, reader against reader or writer against reader.
NoSlotConflict ==
    \A t, u \in Threads :
        t # u /\ {pc[t], pc[u]} \subseteq (EnqOwner \cup DeqOwner) => Owned(t) \cap Owned(u) = {}

\* The four counters never overtake each other, however stale the values the
\* threads computed their CAS from: at most Size items are stored or in flight.
CountersOrdered ==
    /\ r_tail <= r_head /\ r_head <= w_tail /\ w_tail <= w_head
    /\ w_head <= r_tail + Size

\* A dequeue returns exactly the items that were at the front when its CAS
\* succeeded, although it copies them later: no writer reused the slots.
ReadsWhatItClaimed ==
    \A t \in Threads : pc[t] = "deq_wait" => buf[t] = claim[t]

\* A call that returns zero is right at that instant: "This avoids returning
\* zero when the ring is not actually full" (and for dequeue, not empty).
ZeroIsJustified ==
    [][\A t \in Threads :
         /\ pc[t] = "enq_tail" /\ pc'[t] = "idle" => Size - (w_head - r_tail) < Wanted(t)
         /\ pc[t] = "deq_tail" /\ pc'[t] = "idle" => w_tail - r_head < Wanted(t)]_vars

\* A thread spins on a tail until the calls before it have stored theirs.
Spins(t) == pc[t] \in {"enq_wait", "deq_wait"}

\* The ring is a FIFO queue whose enqueues take effect at the w_tail store and
\* whose dequeues take effect at the r_head CAS, for concurrent callers.
Abstract == INSTANCE Fifo WITH
    Capacity <- Size,
    q <- Items(r_head, w_tail - r_head),
    taken <- claim

RefinesFifo == Abstract!Spec
-----------------------------------------------------------------------------
(* The inductive invariant behind CountersOrdered and NoSlotConflict *)

\* Threads past their CAS hold pairwise disjoint intervals between tail and head.
EnqIntervals ==
    /\ \A t \in Threads : pc[t] \in EnqOwner =>
         w_tail <= old[t] /\ old[t] + num[t] <= w_head
    /\ \A t, u \in Threads : t # u /\ pc[t] \in EnqOwner /\ pc[u] \in EnqOwner =>
         old[t] + num[t] <= old[u] \/ old[u] + num[u] <= old[t]

DeqIntervals ==
    /\ \A t \in Threads : pc[t] \in DeqOwner =>
         r_tail <= old[t] /\ old[t] + num[t] <= r_head
    /\ \A t, u \in Threads : t # u /\ pc[t] \in DeqOwner /\ pc[u] \in DeqOwner =>
         old[t] + num[t] <= old[u] \/ old[u] + num[u] <= old[t]

\* A loaded head is never ahead of the counter, and the room or data computed
\* from it is still there when the CAS is tried.
EnqSnapshots ==
    \A t \in Threads :
      /\ pc[t] \in {"enq_tail", "enq_cas"} => old[t] <= w_head
      /\ pc[t] = "enq_cas" => old[t] + num[t] <= r_tail + Size

DeqSnapshots ==
    \A t \in Threads :
      /\ pc[t] \in {"deq_tail", "deq_cas"} => old[t] <= r_head
      /\ pc[t] = "deq_cas" => old[t] + num[t] <= w_tail

\* The caller's array holds at least the items that will be stored.
BufferHolds ==
    \A t \in Threads :
      pc[t] \in {"enq_head", "enq_tail", "enq_cas"} \cup EnqOwner => num[t] <= Len(buf[t])

ClaimIntact ==
    \A t \in Threads : pc[t] = "deq_read" => claim[t] = Items(old[t], num[t])

IInv ==
    /\ TypeOK /\ CountersOrdered
    /\ EnqIntervals /\ DeqIntervals
    /\ EnqSnapshots /\ DeqSnapshots
    /\ BufferHolds /\ ClaimIntact /\ ReadsWhatItClaimed

\* The condition under which a 32-bit compare-and-swap cannot be fooled: no
\* thread sleeps between loading a head and its CAS while the counter goes
\* almost once around.
NoStall ==
    \A t \in Threads :
      /\ pc[t] \in {"enq_tail", "enq_cas"} => w_head - old[t] < CounterMod - Size
      /\ pc[t] \in {"deq_tail", "deq_cas"} => w_tail - old[t] < CounterMod
=============================================================================
