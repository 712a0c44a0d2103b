--------------------------- MODULE RingMpmcProofs ---------------------------
(***************************************************************************)
(* Proofs about RingMpmc for every number of threads, ring size, counter   *)
(* width and burst size.                                                   *)
(***************************************************************************)
EXTENDS RingMpmc, ModArith

USE SizeAssumption, ModAssumption, BurstAssumption, StartAssumption

\* A negative number less than M below zero wraps to the top of the range.
LEMMA ModNegative ==
    ASSUME NEW M \in Nat \ {0}, NEW a \in Int, -M <= a, a < 0
    PROVE  a % M = a + M
  BY Z3

\* num_free of the code is the real room, even when the readers' tail has
\* already passed the stale head it is computed from.
LEMMA NumFreeExact ==
    ASSUME NEW h \in Nat, NEW l \in Nat, h - l <= Size, l - h < CounterMod - Size
    PROVE  NumFree(h, l) = Size - (h - l)
<1>1. Dist(h, l) = (h - l) % CounterMod
  <2>1. CounterMod \in Nat \ {0} /\ h \in Int /\ l \in Int
    OBVIOUS
  <2> QED BY ONLY <2>1, ModSub, Zenon DEF Dist, U32
<1>2. CASE h >= l
  <2>1. Dist(h, l) = h - l
    BY <1>1, <1>2, ModSmall
  <2> QED BY <2>1, <1>2, ModSmall DEF NumFree
<1>3. CASE h < l
  <2>1. Dist(h, l) = h - l + CounterMod
    BY <1>1, <1>3, ModNegative
  <2>2. (Size - Dist(h, l)) % CounterMod = Size - Dist(h, l) + CounterMod
    BY <2>1, <1>3, ModNegative, SMTT(60)
  <2> QED BY <2>1, <2>2 DEF NumFree
<1> QED BY <1>2, <1>3

\* num_data of the code is the real amount of data behind the head.
LEMMA NumDataExact ==
    ASSUME NEW h \in Nat, NEW l \in Nat, h <= l, l - h < CounterMod
    PROVE  NumData(h, l) = l - h
<1>1. CounterMod \in Nat \ {0} /\ h \in Int /\ l \in Int
  OBVIOUS
<1>2. Dist(l, h) = (l - h) % CounterMod
  BY ONLY <1>1, ModSub, Zenon DEF Dist, U32
<1>3. (l - h) % CounterMod = l - h
  BY ModSmall
<1> QED BY <1>2, <1>3 DEF NumData

\* Registers less than a full turn apart are equal only if the counts are.
LEMMA RegisterEqual ==
    ASSUME NEW a \in Nat, NEW b \in Nat, a <= b, b - a < CounterMod, U32(a) = U32(b)
    PROVE  a = b
<1>1. CounterMod \in Nat \ {0} /\ a \in Int /\ b \in Int
  OBVIOUS
<1> QED BY <1>1, ModInj, Zenon DEF U32

\* Positions less than Size apart are in different slots.
LEMMA SlotsDiffer ==
    ASSUME NEW a \in Nat, NEW b \in Nat, a < b, b - a < Size
    PROVE  Slot(a) # Slot(b)
<1>1. Size \in Nat \ {0} /\ a \in Int /\ b \in Int /\ a <= b /\ a # b
  OBVIOUS
<1> QED BY <1>1, ModInj, Zenon DEF Slot

\* A slot number is an index of the data array.
LEMMA SlotType ==
    ASSUME NEW a \in Nat
    PROVE  Slot(a) \in 0..Size - 1
  BY ModLe DEF Slot

\* What a dequeue copies is a sequence of values.
LEMMA ItemsType ==
    ASSUME TypeOK, NEW c \in Nat, NEW n \in Nat
    PROVE  Items(c, n) \in Seq(Data) /\ DOMAIN Items(c, n) = 1..n
<1>1. \A i \in 1..n : ring_data[Slot(c + i)] \in Data
  BY SlotType DEF TypeOK
<1> QED BY <1>1 DEF Items

-----------------------------------------------------------------------------
\* The initial ring satisfies the inductive invariant.
LEMMA InitIInv == Init => IInv
<1> SUFFICES ASSUME Init PROVE IInv
  OBVIOUS
<1> USE DEF Init
<1>1. TypeOK
  BY DEF TypeOK, PCs, Ops
<1>2. CountersOrdered
  BY DEF CountersOrdered
<1>3. EnqIntervals /\ DeqIntervals
  BY DEF EnqIntervals, DeqIntervals, EnqOwner, DeqOwner
<1>4. EnqSnapshots /\ DeqSnapshots
  BY DEF EnqSnapshots, DeqSnapshots
<1>5. BufferHolds /\ ClaimIntact /\ ReadsWhatItClaimed
  BY DEF BufferHolds, ClaimIntact, ReadsWhatItClaimed, EnqOwner
<1> QED BY <1>1, <1>2, <1>3, <1>4, <1>5 DEF IInv

\* Starting an enqueue keeps the invariant.
LEMMA EnqCallIInv ==
    ASSUME IInv, NoStall, NEW t \in Threads, NEW o \in Ops, NEW items \in Bursts, EnqCall(t, o, items)
    PROVE  IInv'
<1> USE DEF IInv, EnqCall, counters, Goto
<1>a. items \in Seq(Data) /\ Len(items) \in 1..MaxBurst
  BY DEF Bursts
<1>1. TypeOK'
  BY <1>a DEF TypeOK, PCs, Ops, EnqOwner, DeqOwner
<1>2. CountersOrdered'
  BY DEF CountersOrdered, TypeOK
<1>3. EnqIntervals'
  BY DEF EnqIntervals, TypeOK, EnqOwner
<1>4. DeqIntervals'
  BY DEF DeqIntervals, TypeOK, DeqOwner
<1>5. EnqSnapshots'
  BY DEF EnqSnapshots, TypeOK, CountersOrdered
<1>6. DeqSnapshots'
  BY DEF DeqSnapshots, TypeOK, CountersOrdered
<1>7. BufferHolds'
  BY <1>a DEF BufferHolds, TypeOK, EnqOwner
<1>8. ClaimIntact'
  BY DEF ClaimIntact, TypeOK, Items
<1>9. ReadsWhatItClaimed'
  BY DEF ReadsWhatItClaimed, TypeOK
<1> QED BY <1>1, <1>2, <1>3, <1>4, <1>5, <1>6, <1>7, <1>8, <1>9

\* Starting a dequeue keeps the invariant.
LEMMA DeqCallIInv ==
    ASSUME IInv, NoStall, NEW t \in Threads, NEW o \in Ops, NEW n \in 1..MaxBurst, DeqCall(t, o, n)
    PROVE  IInv'
<1> USE DEF IInv, DeqCall, counters, Goto
<1>1. TypeOK'
  BY DEF TypeOK, PCs, Ops, EnqOwner, DeqOwner
<1>2. CountersOrdered'
  BY DEF CountersOrdered, TypeOK
<1>3. EnqIntervals'
  BY DEF EnqIntervals, TypeOK, EnqOwner
<1>4. DeqIntervals'
  BY DEF DeqIntervals, TypeOK, DeqOwner
<1>5. EnqSnapshots'
  BY DEF EnqSnapshots, TypeOK, CountersOrdered
<1>6. DeqSnapshots'
  BY DEF DeqSnapshots, TypeOK, CountersOrdered
<1>7. BufferHolds'
  BY DEF BufferHolds, TypeOK, EnqOwner
<1>8. ClaimIntact'
  BY DEF ClaimIntact, TypeOK, Items
<1>9. ReadsWhatItClaimed'
  BY DEF ReadsWhatItClaimed, TypeOK
<1> QED BY <1>1, <1>2, <1>3, <1>4, <1>5, <1>6, <1>7, <1>8, <1>9

\* Loading the head in enq keeps the invariant.
LEMMA EnqLoadHeadIInv ==
    ASSUME IInv, NoStall, NEW t \in Threads, EnqLoadHead(t)
    PROVE  IInv'
<1> USE DEF IInv, EnqLoadHead, counters, Goto
<1>1. TypeOK'
  BY DEF TypeOK, PCs, Ops, EnqOwner, DeqOwner
<1>2. CountersOrdered'
  BY DEF CountersOrdered, TypeOK
<1>3. EnqIntervals'
  BY SMTT(60) DEF EnqIntervals, TypeOK, EnqOwner
<1>4. DeqIntervals'
  BY SMTT(60) DEF DeqIntervals, TypeOK, DeqOwner
<1>5. EnqSnapshots'
  BY DEF EnqSnapshots, TypeOK, CountersOrdered
<1>6. DeqSnapshots'
  BY DEF DeqSnapshots, TypeOK, CountersOrdered
<1>7. BufferHolds'
  BY DEF BufferHolds, TypeOK, EnqOwner
<1>8. ClaimIntact'
  BY DEF ClaimIntact, TypeOK, Items
<1>9. ReadsWhatItClaimed'
  BY DEF ReadsWhatItClaimed, TypeOK
<1> QED BY <1>1, <1>2, <1>3, <1>4, <1>5, <1>6, <1>7, <1>8, <1>9

\* Loading the head in deq keeps the invariant.
LEMMA DeqLoadHeadIInv ==
    ASSUME IInv, NoStall, NEW t \in Threads, DeqLoadHead(t)
    PROVE  IInv'
<1> USE DEF IInv, DeqLoadHead, counters, Goto
<1>1. TypeOK'
  BY DEF TypeOK, PCs, Ops, EnqOwner, DeqOwner
<1>2. CountersOrdered'
  BY DEF CountersOrdered, TypeOK
<1>3. EnqIntervals'
  BY DEF EnqIntervals, TypeOK, EnqOwner
<1>4. DeqIntervals'
  BY DEF DeqIntervals, TypeOK, DeqOwner
<1>5. EnqSnapshots'
  BY DEF EnqSnapshots, TypeOK, CountersOrdered
<1>6. DeqSnapshots'
  BY DEF DeqSnapshots, TypeOK, CountersOrdered
<1>7. BufferHolds'
  BY DEF BufferHolds, TypeOK, EnqOwner
<1>8. ClaimIntact'
  BY DEF ClaimIntact, TypeOK, Items
<1>9. ReadsWhatItClaimed'
  BY DEF ReadsWhatItClaimed, TypeOK
<1> QED BY <1>1, <1>2, <1>3, <1>4, <1>5, <1>6, <1>7, <1>8, <1>9

\* The locals of a running call have their types.
LEMMA LocalTypes ==
    ASSUME TypeOK, NEW t \in Threads
    PROVE  /\ old[t] \in Nat /\ op[t] \in Ops /\ num[t] \in Nat /\ pc[t] \in PCs
           /\ pc[t] # "idle" => num[t] \in 1..MaxBurst
           /\ w_head \in Nat /\ w_tail \in Nat /\ r_head \in Nat /\ r_tail \in Nat
<1>1. num[t] \in 0..MaxBurst /\ (pc[t] # "idle" => num[t] > 0)
  BY DEF TypeOK
<1>2. old[t] \in Nat /\ op[t] \in Ops /\ pc[t] \in PCs
  BY DEF TypeOK
<1> QED BY <1>1, <1>2 DEF TypeOK

\* Returning without touching the ring keeps the invariant.
LEMMA ReturnIInv ==
    ASSUME IInv, NEW t \in Threads, Return(t), UNCHANGED <<counters, ring_data>>
    PROVE  IInv'
<1> USE DEF IInv, counters, Goto, Return
<1>a. \A u \in Threads : pc'[u] \in EnqOwner =>
        u # t /\ pc[u] \in EnqOwner /\ old'[u] = old[u] /\ num'[u] = num[u]
  BY DEF TypeOK, EnqOwner
<1>b. \A u \in Threads : pc'[u] \in DeqOwner =>
        u # t /\ pc[u] \in DeqOwner /\ old'[u] = old[u] /\ num'[u] = num[u]
  BY DEF TypeOK, DeqOwner
<1>1. TypeOK'
  BY DEF TypeOK, PCs, Ops, EnqOwner, DeqOwner
<1>2. CountersOrdered'
  BY DEF CountersOrdered, TypeOK
<1>3. EnqIntervals'
  BY <1>a DEF EnqIntervals
<1>4. DeqIntervals'
  BY <1>b DEF DeqIntervals
<1>5. EnqSnapshots'
  BY DEF EnqSnapshots, TypeOK, CountersOrdered
<1>6. DeqSnapshots'
  BY DEF DeqSnapshots, TypeOK, CountersOrdered
<1>7. BufferHolds'
  BY DEF BufferHolds, TypeOK, EnqOwner
<1>8. ClaimIntact'
  BY DEF ClaimIntact, TypeOK, Items
<1>9. ReadsWhatItClaimed'
  BY DEF ReadsWhatItClaimed, TypeOK
<1> QED BY <1>1, <1>2, <1>3, <1>4, <1>5, <1>6, <1>7, <1>8, <1>9 DEF IInv

\* Loading r_tail and computing the room keeps the invariant.
LEMMA EnqLoadTailIInv ==
    ASSUME IInv, NoStall, NEW t \in Threads, EnqLoadTail(t)
    PROVE  IInv'
<1> USE DEF IInv, counters, Goto
<1> DEFINE room == NumFree(old[t], r_tail)
<1>1. pc[t] = "enq_tail" /\ old[t] \in Nat /\ num[t] \in 1..MaxBurst /\ op[t] \in Ops
  BY LocalTypes DEF EnqLoadTail
<1>2. r_tail \in Nat /\ w_tail \in Nat /\ r_head \in Nat /\ w_head \in Nat
  BY DEF TypeOK
<1>3. room = Size - (old[t] - r_tail) /\ Size - (old[t] - r_tail) \in Nat
  <2>1. old[t] - r_tail <= Size /\ r_tail - old[t] < CounterMod - Size
    BY <1>1, <1>2 DEF CountersOrdered, EnqSnapshots, NoStall
  <2> QED BY <1>1, <1>2, <2>1, NumFreeExact
<1>4. Wanted(t) \in 1..MaxBurst
  BY <1>1 DEF Wanted
<1>5. CASE room < Wanted(t)
  <2>1. Return(t) /\ UNCHANGED <<counters, ring_data>>
    BY <1>3, <1>4, <1>5 DEF EnqLoadTail
  <2> QED BY <2>1, ReturnIInv
<1>6. CASE ~(room < Wanted(t))
  <2> DEFINE k == IF num[t] > room THEN room ELSE num[t]
  <2>a. /\ num' = [num EXCEPT ![t] = k]
        /\ pc' = [pc EXCEPT ![t] = "enq_cas"]
        /\ UNCHANGED <<w_head, w_tail, r_head, r_tail, ring_data, op, old, buf, claim>>
    BY <1>3, <1>4, <1>6 DEF EnqLoadTail
  <2>b. k \in 1..num[t] /\ old[t] + k <= r_tail + Size
    BY <1>1, <1>2, <1>3, <1>4, <1>6
  <2> HIDE DEF k, room
  <2>1. TypeOK'
    BY <2>a, <2>b, <1>1 DEF TypeOK, PCs, Ops, EnqOwner, DeqOwner
  <2>2. CountersOrdered'
    BY <2>a, <2>b, <1>1 DEF CountersOrdered, TypeOK
  <2>3. EnqIntervals'
    BY <2>a, <2>b, <1>1 DEF EnqIntervals, TypeOK, EnqOwner
  <2>4. DeqIntervals'
    BY <2>a, <2>b, <1>1 DEF DeqIntervals, TypeOK, DeqOwner
  <2>5. EnqSnapshots'
    BY <2>a, <2>b, <1>1 DEF EnqSnapshots, TypeOK, CountersOrdered
  <2>6. DeqSnapshots'
    BY <2>a, <2>b, <1>1 DEF DeqSnapshots, TypeOK, CountersOrdered
  <2>7. BufferHolds'
    BY <2>a, <2>b, <1>1 DEF BufferHolds, TypeOK, EnqOwner
  <2>8. ClaimIntact'
    BY <2>a, <2>b, <1>1 DEF ClaimIntact, TypeOK, Items
  <2>9. ReadsWhatItClaimed'
    BY <2>a, <2>b, <1>1 DEF ReadsWhatItClaimed, TypeOK
  <2> QED BY <2>1, <2>2, <2>3, <2>4, <2>5, <2>6, <2>7, <2>8, <2>9 DEF IInv
<1> QED BY <1>5, <1>6

\* Loading w_tail and computing the data keeps the invariant.
LEMMA DeqLoadTailIInv ==
    ASSUME IInv, NoStall, NEW t \in Threads, DeqLoadTail(t)
    PROVE  IInv'
<1> USE DEF IInv, counters, Goto
<1> DEFINE room == NumData(old[t], w_tail)
<1>1. pc[t] = "deq_tail" /\ old[t] \in Nat /\ num[t] \in 1..MaxBurst /\ op[t] \in Ops
  BY LocalTypes DEF DeqLoadTail
<1>2. r_tail \in Nat /\ w_tail \in Nat /\ r_head \in Nat /\ w_head \in Nat
  BY DEF TypeOK
<1>3. room = w_tail - old[t] /\ w_tail - old[t] \in Nat
  <2>1. old[t] <= w_tail /\ w_tail - old[t] < CounterMod
    BY <1>1, <1>2 DEF CountersOrdered, DeqSnapshots, NoStall
  <2> QED BY <1>1, <1>2, <2>1, NumDataExact
<1>4. Wanted(t) \in 1..MaxBurst
  BY <1>1 DEF Wanted
<1>5. CASE room < Wanted(t)
  <2>1. Return(t) /\ UNCHANGED <<counters, ring_data>>
    BY <1>3, <1>4, <1>5 DEF DeqLoadTail
  <2> QED BY <2>1, ReturnIInv
<1>6. CASE ~(room < Wanted(t))
  <2> DEFINE k == IF num[t] > room THEN room ELSE num[t]
  <2>a. /\ num' = [num EXCEPT ![t] = k]
        /\ pc' = [pc EXCEPT ![t] = "deq_cas"]
        /\ UNCHANGED <<w_head, w_tail, r_head, r_tail, ring_data, op, old, buf, claim>>
    BY <1>3, <1>4, <1>6 DEF DeqLoadTail
  <2>b. k \in 1..num[t] /\ old[t] + k <= w_tail
    BY <1>1, <1>2, <1>3, <1>4, <1>6
  <2> HIDE DEF k, room
  <2>1. TypeOK'
    BY <2>a, <2>b, <1>1 DEF TypeOK, PCs, Ops, EnqOwner, DeqOwner
  <2>2. CountersOrdered'
    BY <2>a, <2>b, <1>1 DEF CountersOrdered, TypeOK
  <2>3. EnqIntervals'
    BY <2>a, <2>b, <1>1 DEF EnqIntervals, TypeOK, EnqOwner
  <2>4. DeqIntervals'
    BY <2>a, <2>b, <1>1 DEF DeqIntervals, TypeOK, DeqOwner
  <2>5. EnqSnapshots'
    BY <2>a, <2>b, <1>1 DEF EnqSnapshots, TypeOK, CountersOrdered
  <2>6. DeqSnapshots'
    BY <2>a, <2>b, <1>1 DEF DeqSnapshots, TypeOK, CountersOrdered
  <2>7. BufferHolds'
    BY <2>a, <2>b, <1>1 DEF BufferHolds, TypeOK, EnqOwner
  <2>8. ClaimIntact'
    BY <2>a, <2>b, <1>1 DEF ClaimIntact, TypeOK, Items
  <2>9. ReadsWhatItClaimed'
    BY <2>a, <2>b, <1>1 DEF ReadsWhatItClaimed, TypeOK
  <2> QED BY <2>1, <2>2, <2>3, <2>4, <2>5, <2>6, <2>7, <2>8, <2>9 DEF IInv
<1> QED BY <1>5, <1>6

\* The CAS on w_head keeps the invariant: when it succeeds the head is the loaded one.
LEMMA EnqCasIInv ==
    ASSUME IInv, NoStall, NEW t \in Threads, EnqCas(t)
    PROVE  IInv'
<1> USE DEF IInv, counters, Goto
<1>1. pc[t] = "enq_cas" /\ old[t] \in Nat /\ num[t] \in 1..MaxBurst /\ w_head \in Nat
  BY LocalTypes DEF EnqCas
<1>2. CASE U32(w_head) # U32(old[t])
  <2>a. /\ pc' = [pc EXCEPT ![t] = "enq_head"]
        /\ UNCHANGED <<w_head, w_tail, r_head, r_tail, ring_data, op, num, old, buf, claim>>
    BY <1>2 DEF EnqCas
  <2>1. TypeOK'
    BY <1>1, <2>a DEF TypeOK, PCs, Ops, EnqOwner, DeqOwner
  <2>2. CountersOrdered'
    BY <1>1, <2>a DEF CountersOrdered, TypeOK
  <2>3. EnqIntervals'
    BY <1>1, <2>a DEF EnqIntervals, TypeOK, EnqOwner
  <2>4. DeqIntervals'
    BY <1>1, <2>a DEF DeqIntervals, TypeOK, DeqOwner
  <2>5. EnqSnapshots'
    BY <1>1, <2>a DEF EnqSnapshots, TypeOK, CountersOrdered
  <2>6. DeqSnapshots'
    BY <1>1, <2>a DEF DeqSnapshots, TypeOK, CountersOrdered
  <2>7. BufferHolds'
    BY <1>1, <2>a DEF BufferHolds, TypeOK, EnqOwner
  <2>8. ClaimIntact'
    BY <1>1, <2>a DEF ClaimIntact, TypeOK, Items
  <2>9. ReadsWhatItClaimed'
    BY <1>1, <2>a DEF ReadsWhatItClaimed, TypeOK
  <2> QED BY <2>1, <2>2, <2>3, <2>4, <2>5, <2>6, <2>7, <2>8, <2>9 DEF IInv
<1>3. CASE U32(w_head) = U32(old[t])
  <2>a. w_head = old[t]
    BY <1>1, <1>3, RegisterEqual DEF TypeOK, EnqSnapshots, NoStall
  <2>b. /\ pc' = [pc EXCEPT ![t] = "enq_write"]
        /\ w_head' = old[t] + num[t]
        /\ UNCHANGED <<w_tail, r_head, r_tail, ring_data, op, num, old, buf>>
    BY <1>3, <2>a DEF EnqCas
  <2>c. UNCHANGED claim
    BY <1>3 DEF EnqCas
  <2>e. \A u \in Threads : u # t /\ pc'[u] \in EnqOwner =>
          pc[u] \in EnqOwner /\ old[u] + num[u] <= old[t] /\ w_tail <= old[u]
    BY <2>a, <2>b DEF TypeOK, EnqIntervals
  <2>1. TypeOK'
    BY <1>1, <2>a, <2>b, <2>c DEF TypeOK, PCs, Ops, EnqOwner, DeqOwner
  <2>2. CountersOrdered'
    BY <1>1, <2>a, <2>b, <2>c DEF CountersOrdered, TypeOK, EnqSnapshots
  <2>3. EnqIntervals'
    <3>1. ASSUME NEW u \in Threads, pc'[u] \in EnqOwner
          PROVE  w_tail' <= old'[u] /\ old'[u] + num'[u] <= w_head'
      <4>1. old[u] \in Nat /\ num[u] \in Nat /\ w_tail \in Nat /\ w_tail <= w_head
        BY LocalTypes DEF CountersOrdered
      <4> QED BY <1>1, <2>a, <2>b, <2>e, <3>1, <4>1
    <3>2. ASSUME NEW u \in Threads, NEW v \in Threads, u # v,
                 pc'[u] \in EnqOwner, pc'[v] \in EnqOwner
          PROVE  old'[u] + num'[u] <= old'[v] \/ old'[v] + num'[v] <= old'[u]
      <4>1. CASE u = t
        BY <2>b, <2>e, <3>2, <4>1
      <4>2. CASE v = t
        BY <2>b, <2>e, <3>2, <4>2
      <4>3. CASE u # t /\ v # t
        BY <2>b, <2>e, <3>2, <4>3 DEF EnqIntervals
      <4> QED BY <4>1, <4>2, <4>3
    <3> QED BY <3>1, <3>2 DEF EnqIntervals
  <2>4. DeqIntervals'
    BY <1>1, <2>a, <2>b, <2>c DEF DeqIntervals, TypeOK, DeqOwner
  <2>5. EnqSnapshots'
    BY <1>1, <2>a, <2>b, <2>c DEF EnqSnapshots, TypeOK, CountersOrdered
  <2>6. DeqSnapshots'
    BY <1>1, <2>a, <2>b, <2>c DEF DeqSnapshots, TypeOK, CountersOrdered
  <2>7. BufferHolds'
    BY <1>1, <2>a, <2>b, <2>c DEF BufferHolds, TypeOK, EnqOwner
  <2>8. ClaimIntact'
    BY <1>1, <2>a, <2>b, <2>c DEF ClaimIntact, TypeOK, Items
  <2>9. ReadsWhatItClaimed'
    BY <1>1, <2>a, <2>b, <2>c DEF ReadsWhatItClaimed, TypeOK
  <2> QED BY <2>1, <2>2, <2>3, <2>4, <2>5, <2>6, <2>7, <2>8, <2>9 DEF IInv
<1> QED BY <1>2, <1>3

\* The CAS on r_head keeps the invariant: when it succeeds the head is the loaded one.
LEMMA DeqCasIInv ==
    ASSUME IInv, NoStall, NEW t \in Threads, DeqCas(t)
    PROVE  IInv'
<1> USE DEF IInv, counters, Goto
<1>1. pc[t] = "deq_cas" /\ old[t] \in Nat /\ num[t] \in 1..MaxBurst /\ r_head \in Nat
  BY LocalTypes DEF DeqCas
<1>2. CASE U32(r_head) # U32(old[t])
  <2>a. /\ pc' = [pc EXCEPT ![t] = "deq_head"]
        /\ UNCHANGED <<w_head, w_tail, r_head, r_tail, ring_data, op, num, old, buf, claim>>
    BY <1>2 DEF DeqCas
  <2>1. TypeOK'
    BY <1>1, <2>a DEF TypeOK, PCs, Ops, EnqOwner, DeqOwner
  <2>2. CountersOrdered'
    BY <1>1, <2>a DEF CountersOrdered, TypeOK
  <2>3. EnqIntervals'
    BY <1>1, <2>a DEF EnqIntervals, TypeOK, EnqOwner
  <2>4. DeqIntervals'
    BY <1>1, <2>a DEF DeqIntervals, TypeOK, DeqOwner
  <2>5. EnqSnapshots'
    BY <1>1, <2>a DEF EnqSnapshots, TypeOK, CountersOrdered
  <2>6. DeqSnapshots'
    BY <1>1, <2>a DEF DeqSnapshots, TypeOK, CountersOrdered
  <2>7. BufferHolds'
    BY <1>1, <2>a DEF BufferHolds, TypeOK, EnqOwner
  <2>8. ClaimIntact'
    BY <1>1, <2>a DEF ClaimIntact, TypeOK, Items
  <2>9. ReadsWhatItClaimed'
    BY <1>1, <2>a DEF ReadsWhatItClaimed, TypeOK
  <2> QED BY <2>1, <2>2, <2>3, <2>4, <2>5, <2>6, <2>7, <2>8, <2>9 DEF IInv
<1>3. CASE U32(r_head) = U32(old[t])
  <2>a. r_head = old[t]
    BY <1>1, <1>3, RegisterEqual DEF CountersOrdered, TypeOK, DeqSnapshots, NoStall
  <2>b. /\ pc' = [pc EXCEPT ![t] = "deq_read"]
        /\ r_head' = old[t] + num[t]
        /\ UNCHANGED <<w_head, w_tail, r_tail, ring_data, op, num, old, buf>>
    BY <1>3, <2>a DEF DeqCas
  <2>c. claim' = [claim EXCEPT ![t] = Items(old[t], num[t])]
    BY <1>3, <2>a DEF DeqCas
  <2>d. Items(old[t], num[t]) \in Seq(Data)
    BY <1>1, ItemsType
  <2>e. \A u \in Threads : u # t /\ pc'[u] \in DeqOwner =>
          pc[u] \in DeqOwner /\ old[u] + num[u] <= old[t] /\ r_tail <= old[u]
    BY <2>a, <2>b DEF TypeOK, DeqIntervals
  <2>1. TypeOK'
    BY <1>1, <2>a, <2>b, <2>c, <2>d DEF TypeOK, PCs, Ops, EnqOwner, DeqOwner
  <2>2. CountersOrdered'
    BY <1>1, <2>a, <2>b, <2>c DEF CountersOrdered, TypeOK, DeqSnapshots
  <2>3. EnqIntervals'
    BY <1>1, <2>a, <2>b, <2>c DEF EnqIntervals, TypeOK, EnqOwner
  <2>4. DeqIntervals'
    <3>1. ASSUME NEW u \in Threads, pc'[u] \in DeqOwner
          PROVE  r_tail' <= old'[u] /\ old'[u] + num'[u] <= r_head'
      <4>1. old[u] \in Nat /\ num[u] \in Nat /\ r_tail \in Nat /\ r_tail <= r_head
        BY LocalTypes DEF CountersOrdered
      <4> QED BY <1>1, <2>a, <2>b, <2>e, <3>1, <4>1
    <3>2. ASSUME NEW u \in Threads, NEW v \in Threads, u # v,
                 pc'[u] \in DeqOwner, pc'[v] \in DeqOwner
          PROVE  old'[u] + num'[u] <= old'[v] \/ old'[v] + num'[v] <= old'[u]
      <4>1. CASE u = t
        BY <2>b, <2>e, <3>2, <4>1
      <4>2. CASE v = t
        BY <2>b, <2>e, <3>2, <4>2
      <4>3. CASE u # t /\ v # t
        BY <2>b, <2>e, <3>2, <4>3 DEF DeqIntervals
      <4> QED BY <4>1, <4>2, <4>3
    <3> QED BY <3>1, <3>2 DEF DeqIntervals
  <2>5. EnqSnapshots'
    BY <1>1, <2>a, <2>b, <2>c DEF EnqSnapshots, TypeOK, CountersOrdered
  <2>6. DeqSnapshots'
    BY <1>1, <2>a, <2>b, <2>c DEF DeqSnapshots, TypeOK, CountersOrdered
  <2>7. BufferHolds'
    BY <1>1, <2>a, <2>b, <2>c DEF BufferHolds, TypeOK, EnqOwner
  <2>8. ClaimIntact'
    BY <1>1, <2>a, <2>b, <2>c DEF ClaimIntact, TypeOK, Items
  <2>9. ReadsWhatItClaimed'
    BY <1>1, <2>a, <2>b, <2>c DEF ReadsWhatItClaimed, TypeOK
  <2> QED BY <2>1, <2>2, <2>3, <2>4, <2>5, <2>6, <2>7, <2>8, <2>9 DEF IInv
<1> QED BY <1>2, <1>3

\* Copying the data out keeps the invariant.
LEMMA DeqReadIInv ==
    ASSUME IInv, NoStall, NEW t \in Threads, DeqRead(t)
    PROVE  IInv'
<1> USE DEF IInv, counters, Goto
<1>a. Items(old[t], num[t]) \in Seq(Data)
  BY ItemsType DEF TypeOK
<1> USE DEF DeqRead
<1>1. TypeOK'
  BY <1>a DEF TypeOK, PCs, Ops, EnqOwner, DeqOwner
<1>2. CountersOrdered'
  BY DEF CountersOrdered, TypeOK
<1>3. EnqIntervals'
  BY DEF EnqIntervals, TypeOK, EnqOwner
<1>4. DeqIntervals'
  BY DEF DeqIntervals, TypeOK, DeqOwner
<1>5. EnqSnapshots'
  BY DEF EnqSnapshots, TypeOK, CountersOrdered
<1>6. DeqSnapshots'
  BY DEF DeqSnapshots, TypeOK, CountersOrdered
<1>7. BufferHolds'
  BY DEF BufferHolds, TypeOK, EnqOwner
<1>8. ClaimIntact'
  BY DEF ClaimIntact, TypeOK, Items
<1>9. ReadsWhatItClaimed'
  BY DEF ReadsWhatItClaimed, TypeOK, ClaimIntact
<1> QED BY <1>1, <1>2, <1>3, <1>4, <1>5, <1>6, <1>7, <1>8, <1>9 DEF IInv

\* Storing w_tail keeps the invariant: the thread holds the first open interval.
LEMMA EnqPublishIInv ==
    ASSUME IInv, NoStall, NEW t \in Threads, EnqPublish(t)
    PROVE  IInv'
<1> USE DEF IInv, counters, Goto
<1>a. pc[t] = "enq_wait" /\ old[t] \in Nat /\ num[t] \in 1..MaxBurst /\ w_tail \in Nat
  BY LocalTypes DEF EnqPublish
<1>b. w_tail = old[t]
  BY <1>a, RegisterEqual DEF EnqPublish, TypeOK, CountersOrdered, EnqIntervals, EnqOwner
<1>c. /\ w_tail' = old[t] + num[t]
      /\ Return(t)
      /\ UNCHANGED <<w_head, r_head, r_tail, ring_data>>
  BY <1>b DEF EnqPublish
<1>d. \A u \in Threads : pc'[u] \in EnqOwner =>
        /\ u # t /\ pc[u] \in EnqOwner /\ old'[u] = old[u] /\ num'[u] = num[u]
        /\ old[t] + num[t] <= old[u]
  <2>1. "idle" \notin EnqOwner /\ pc[t] \in EnqOwner
    BY <1>a DEF EnqOwner
  <2> SUFFICES ASSUME NEW u \in Threads, pc'[u] \in EnqOwner
               PROVE  /\ u # t /\ pc[u] \in EnqOwner /\ old'[u] = old[u] /\ num'[u] = num[u]
                      /\ old[t] + num[t] <= old[u]
    OBVIOUS
  <2>2. u # t /\ pc[u] \in EnqOwner /\ old'[u] = old[u] /\ num'[u] = num[u]
    BY <1>c, <2>1 DEF Return, TypeOK
  <2>3. num[u] \in 1..MaxBurst /\ old[u] \in Nat
    BY <2>1, <2>2, LocalTypes
  <2> QED BY <1>a, <1>b, <2>1, <2>2, <2>3 DEF EnqIntervals
<1> USE DEF Return
<1>1. TypeOK'
  BY <1>a, <1>b, <1>c DEF TypeOK, PCs, Ops, EnqOwner, DeqOwner
<1>2. CountersOrdered'
  <2>1. r_tail <= r_head /\ r_head <= w_tail /\ w_tail <= w_head /\ w_head <= r_tail + Size
    BY DEF CountersOrdered
  <2>2. old[t] + num[t] <= w_head
    BY <1>a DEF EnqIntervals, EnqOwner
  <2>3. r_head \in Nat /\ w_tail \in Nat /\ w_head \in Nat /\ r_tail \in Nat
    BY LocalTypes
  <2> HIDE DEF IInv, Return
  <2> QED BY <1>a, <1>b, <1>c, <2>1, <2>2, <2>3 DEF CountersOrdered
<1>3. EnqIntervals'
  BY <1>a, <1>b, <1>c, <1>d DEF EnqIntervals, TypeOK
<1>4. DeqIntervals'
  BY <1>a, <1>b, <1>c, SMTT(60) DEF DeqIntervals, TypeOK, DeqOwner
<1>5. EnqSnapshots'
  BY <1>a, <1>b, <1>c DEF EnqSnapshots, TypeOK, CountersOrdered
<1>6. DeqSnapshots'
  BY <1>a, <1>b, <1>c, SMTT(60) DEF DeqSnapshots, TypeOK, CountersOrdered
<1>7. BufferHolds'
  BY <1>a, <1>b, <1>c DEF BufferHolds, TypeOK, EnqOwner
<1>8. ClaimIntact'
  BY <1>a, <1>b, <1>c DEF ClaimIntact, TypeOK, Items
<1>9. ReadsWhatItClaimed'
  BY <1>a, <1>b, <1>c DEF ReadsWhatItClaimed, TypeOK
<1> QED BY <1>1, <1>2, <1>3, <1>4, <1>5, <1>6, <1>7, <1>8, <1>9 DEF IInv

\* Storing r_tail keeps the invariant: the thread holds the first open interval.
LEMMA DeqReleaseIInv ==
    ASSUME IInv, NoStall, NEW t \in Threads, DeqRelease(t)
    PROVE  IInv'
<1> USE DEF IInv, counters, Goto
<1>a. pc[t] = "deq_wait" /\ old[t] \in Nat /\ num[t] \in 1..MaxBurst /\ r_tail \in Nat
  BY LocalTypes DEF DeqRelease
<1>b. r_tail = old[t]
  BY <1>a, RegisterEqual DEF DeqRelease, TypeOK, CountersOrdered, DeqIntervals, DeqOwner
<1>c. /\ r_tail' = old[t] + num[t]
      /\ Return(t)
      /\ UNCHANGED <<w_head, w_tail, r_head, ring_data>>
  BY <1>b DEF DeqRelease
<1>d. \A u \in Threads : pc'[u] \in DeqOwner =>
        /\ u # t /\ pc[u] \in DeqOwner /\ old'[u] = old[u] /\ num'[u] = num[u]
        /\ old[t] + num[t] <= old[u]
  <2>1. "idle" \notin DeqOwner /\ pc[t] \in DeqOwner
    BY <1>a DEF DeqOwner
  <2> SUFFICES ASSUME NEW u \in Threads, pc'[u] \in DeqOwner
               PROVE  /\ u # t /\ pc[u] \in DeqOwner /\ old'[u] = old[u] /\ num'[u] = num[u]
                      /\ old[t] + num[t] <= old[u]
    OBVIOUS
  <2>2. u # t /\ pc[u] \in DeqOwner /\ old'[u] = old[u] /\ num'[u] = num[u]
    BY <1>c, <2>1 DEF Return, TypeOK
  <2>3. num[u] \in 1..MaxBurst /\ old[u] \in Nat
    BY <2>1, <2>2, LocalTypes
  <2> QED BY <1>a, <1>b, <2>1, <2>2, <2>3, SMTT(60) DEF DeqIntervals
<1> USE DEF Return
<1>1. TypeOK'
  BY <1>a, <1>b, <1>c DEF TypeOK, PCs, Ops, EnqOwner, DeqOwner
<1>2. CountersOrdered'
  <2>1. r_tail <= r_head /\ r_head <= w_tail /\ w_tail <= w_head /\ w_head <= r_tail + Size
    BY DEF CountersOrdered
  <2>2. old[t] + num[t] <= r_head
    BY <1>a DEF DeqIntervals, DeqOwner
  <2>3. r_head \in Nat /\ w_tail \in Nat /\ w_head \in Nat /\ r_tail \in Nat
    BY LocalTypes
  <2> HIDE DEF IInv, Return
  <2> QED BY <1>a, <1>b, <1>c, <2>1, <2>2, <2>3 DEF CountersOrdered
<1>3. EnqIntervals'
  BY <1>a, <1>b, <1>c, SMTT(60) DEF EnqIntervals, TypeOK, EnqOwner
<1>4. DeqIntervals'
  BY <1>a, <1>b, <1>c, <1>d DEF DeqIntervals, TypeOK
<1>5. EnqSnapshots'
  <2> SUFFICES ASSUME NEW u \in Threads
               PROVE  /\ pc'[u] \in {"enq_tail", "enq_cas"} => old'[u] <= w_head
                      /\ pc'[u] = "enq_cas" => old'[u] + num'[u] <= r_tail' + Size
    BY <1>c DEF EnqSnapshots
  <2>1. CASE u = t
    BY <2>1, <1>c DEF TypeOK
  <2>2. CASE u # t
    <3>1. pc'[u] = pc[u] /\ old'[u] = old[u] /\ num'[u] = num[u]
      BY <2>2, <1>c DEF TypeOK
    <3>2. old[u] \in Nat /\ num[u] \in Nat
      BY LocalTypes
    <3>3. /\ pc[u] \in {"enq_tail", "enq_cas"} => old[u] <= w_head
          /\ pc[u] = "enq_cas" => old[u] + num[u] <= old[t] + Size
      BY <1>b DEF EnqSnapshots
    <3>4. r_tail' = old[t] + num[t]
      BY <1>c
    <3> HIDE DEF IInv, Return
    <3> QED BY <1>a, <3>1, <3>2, <3>3, <3>4
  <2> QED BY <2>1, <2>2
<1>6. DeqSnapshots'
  BY <1>a, <1>b, <1>c DEF DeqSnapshots, TypeOK, CountersOrdered
<1>7. BufferHolds'
  BY <1>a, <1>b, <1>c DEF BufferHolds, TypeOK, EnqOwner
<1>8. ClaimIntact'
  BY <1>a, <1>b, <1>c DEF ClaimIntact, TypeOK, Items
<1>9. ReadsWhatItClaimed'
  BY <1>a, <1>b, <1>c DEF ReadsWhatItClaimed, TypeOK
<1> QED BY <1>1, <1>2, <1>3, <1>4, <1>5, <1>6, <1>7, <1>8, <1>9 DEF IInv

\* Writing the data keeps the invariant: no slot being read is touched.
LEMMA EnqWriteIInv ==
    ASSUME IInv, NoStall, NEW t \in Threads, EnqWrite(t)
    PROVE  IInv'
<1> USE DEF IInv, counters, Goto
<1>a. num[t] <= Len(buf[t]) /\ num[t] \in Nat /\ old[t] \in Nat /\ buf[t] \in Seq(Data)
  BY DEF EnqWrite, BufferHolds, EnqOwner, TypeOK
<1>b. /\ pc[t] = "enq_write" /\ pc' = [pc EXCEPT ![t] = "enq_wait"]
      /\ UNCHANGED <<w_head, w_tail, r_head, r_tail, op, num, old, buf, claim>>
  BY DEF EnqWrite
<1>1. TypeOK'
  <2>1. \A i \in 1..num[t] : buf[t][i] \in Data
    BY <1>a
  <2>2. \A s \in 0..Size - 1 : ring_data'[s] \in Data
    BY <2>1 DEF TypeOK, EnqWrite
  <2>3. ring_data' \in [0..Size - 1 -> Data]
    BY <2>2 DEF EnqWrite
  <2> QED BY <2>3, <1>b DEF TypeOK, PCs, Ops, EnqOwner, DeqOwner
<1>2. CountersOrdered'
  BY <1>b DEF CountersOrdered, TypeOK
<1>3. EnqIntervals'
  BY <1>b DEF EnqIntervals, TypeOK, EnqOwner
<1>4. DeqIntervals'
  BY <1>b DEF DeqIntervals, TypeOK, DeqOwner
<1>5. EnqSnapshots'
  BY <1>b DEF EnqSnapshots, TypeOK, CountersOrdered
<1>6. DeqSnapshots'
  BY <1>b DEF DeqSnapshots, TypeOK, CountersOrdered
<1>7. BufferHolds'
  BY <1>b DEF BufferHolds, TypeOK, EnqOwner
<1>8. ClaimIntact'
  <2> SUFFICES ASSUME NEW u \in Threads, pc'[u] = "deq_read"
               PROVE  claim'[u] = Items(old[u], num[u])'
    BY DEF ClaimIntact
  <2>1. u # t /\ pc[u] = "deq_read" /\ claim[u] = Items(old[u], num[u])
    BY <1>b DEF ClaimIntact, TypeOK
  <2>2. ASSUME NEW j \in 1..num[u]
        PROVE  ring_data'[Slot(old[u] + j)] = ring_data[Slot(old[u] + j)]
    <3>1. old[u] + j \in Nat /\ r_tail < old[u] + j /\ old[u] + j <= r_head
      BY <2>1 DEF DeqIntervals, DeqOwner, TypeOK
    <3>2. ASSUME NEW i \in 1..num[t] PROVE Slot(old[u] + j) # Slot(old[t] + i)
      <4>1. old[t] + i \in Nat /\ w_tail < old[t] + i /\ old[t] + i <= w_head
        BY <1>b, SMTT(60) DEF EnqIntervals, EnqOwner, TypeOK
      <4>2. old[u] + j < old[t] + i /\ (old[t] + i) - (old[u] + j) < Size
        <5>1. r_head <= w_tail /\ w_head <= r_tail + Size
          BY DEF CountersOrdered
        <5>2. old[u] \in Nat /\ old[t] \in Nat /\ j \in Int /\ i \in Int
          BY LocalTypes
        <5>3. r_tail \in Nat /\ r_head \in Nat /\ w_tail \in Nat /\ w_head \in Nat
          BY LocalTypes
        <5> HIDE DEF IInv
        <5> QED BY <3>1, <4>1, <5>1, <5>2, <5>3
      <4> QED BY <3>1, <4>1, <4>2, SlotsDiffer
    <3>3. Slot(old[u] + j) \in 0..Size - 1
      BY <3>1, SlotType
    <3> QED BY <3>2, <3>3 DEF EnqWrite
  <2>3. Items(old[u], num[u])' = [j \in 1..num[u] |-> ring_data'[Slot(old[u] + j)]]
    BY <1>b DEF Items
  <2>4. Items(old[u], num[u]) = [j \in 1..num[u] |-> ring_data[Slot(old[u] + j)]]
    BY DEF Items
  <2> QED BY <1>b, <2>1, <2>2, <2>3, <2>4
<1>9. ReadsWhatItClaimed'
  BY <1>b DEF ReadsWhatItClaimed, TypeOK
<1> QED BY <1>1, <1>2, <1>3, <1>4, <1>5, <1>6, <1>7, <1>8, <1>9 DEF IInv

-----------------------------------------------------------------------------
\* Every step of every thread keeps the inductive invariant as long as no
\* thread sleeps through a whole turn of the counters.
LEMMA NextIInv == IInv /\ NoStall /\ [Next]_vars => IInv'
<1> SUFFICES ASSUME IInv, NoStall, [Next]_vars PROVE IInv'
  OBVIOUS
<1>1. CASE UNCHANGED vars
  BY <1>1 DEF vars, IInv, TypeOK, CountersOrdered, EnqIntervals, DeqIntervals, EnqSnapshots,
              DeqSnapshots, BufferHolds, ClaimIntact, ReadsWhatItClaimed, Items
<1>2. ASSUME NEW t \in Threads, Call(t) PROVE IInv'
  BY <1>2, EnqCallIInv, DeqCallIInv DEF Call
<1>3. ASSUME NEW t \in Threads, Step(t) PROVE IInv'
  BY <1>3, EnqLoadHeadIInv, EnqLoadTailIInv, EnqCasIInv, EnqWriteIInv, EnqPublishIInv,
     DeqLoadHeadIInv, DeqLoadTailIInv, DeqCasIInv, DeqReadIInv, DeqReleaseIInv DEF Step
<1> QED BY <1>1, <1>2, <1>3 DEF Next

\* The invariant gives slot ownership: all positions held by threads past their
\* CAS lie within one turn of the ring, and different positions are different slots.
LEMMA IInvNoSlotConflict == IInv => NoSlotConflict
<1> SUFFICES ASSUME IInv, NEW t \in Threads, NEW u \in Threads, t # u,
                    pc[t] \in EnqOwner \cup DeqOwner, pc[u] \in EnqOwner \cup DeqOwner,
                    NEW i \in 1..num[t], NEW j \in 1..num[u],
                    Slot(old[t] + i) = Slot(old[u] + j)
             PROVE  FALSE
  BY DEF NoSlotConflict, Owned
<1>1. old[t] \in Nat /\ old[u] \in Nat /\ num[t] \in Nat /\ num[u] \in Nat
  BY LocalTypes DEF IInv
<1>2. r_tail \in Nat /\ r_head \in Nat /\ w_tail \in Nat /\ w_head \in Nat
  BY LocalTypes DEF IInv
<1>3. r_tail <= r_head /\ r_head <= w_tail /\ w_tail <= w_head /\ w_head <= r_tail + Size
  BY DEF IInv, CountersOrdered
<1>4. ASSUME NEW v \in Threads PROVE
        /\ pc[v] \in EnqOwner => w_tail <= old[v] /\ old[v] + num[v] <= w_head
        /\ pc[v] \in DeqOwner => r_tail <= old[v] /\ old[v] + num[v] <= r_head
  BY DEF IInv, EnqIntervals, DeqIntervals
<1>5. old[t] + num[t] <= old[u] \/ old[u] + num[u] <= old[t]
  <2>1. CASE pc[t] \in EnqOwner /\ pc[u] \in EnqOwner
    BY <2>1 DEF IInv, EnqIntervals
  <2>2. CASE pc[t] \in DeqOwner /\ pc[u] \in DeqOwner
    BY <2>2 DEF IInv, DeqIntervals
  <2>3. CASE pc[t] \in EnqOwner /\ pc[u] \in DeqOwner
    BY <2>3, <1>1, <1>2, <1>3, <1>4
  <2>4. CASE pc[t] \in DeqOwner /\ pc[u] \in EnqOwner
    BY <2>4, <1>1, <1>2, <1>3, <1>4
  <2> QED BY <2>1, <2>2, <2>3, <2>4
<1>6. ASSUME NEW v \in {t, u} PROVE r_tail <= old[v] /\ old[v] + num[v] <= r_tail + Size
  BY <1>1, <1>2, <1>3, <1>4
<1>7. CASE old[t] + i < old[u] + j
  <2>1. (old[u] + j) - (old[t] + i) < Size
    BY <1>1, <1>2, <1>6
  <2> QED BY <1>1, <1>7, <2>1, SlotsDiffer
<1>8. CASE old[u] + j < old[t] + i
  <2>1. (old[t] + i) - (old[u] + j) < Size
    BY <1>1, <1>2, <1>6
  <2> QED BY <1>1, <1>8, <2>1, SlotsDiffer
<1>9. old[t] + i # old[u] + j
  BY <1>1, <1>5
<1> QED BY <1>1, <1>7, <1>8, <1>9

\* For every number of threads, ring size, burst size and counter width: the
\* types hold, the counters stay ordered with at most Size items between the
\* readers' tail and the writers' head, no two threads own the same slot, and a
\* dequeue returns what its CAS claimed -- unless a thread sleeps between its
\* load and its CAS while the counter goes around.
THEOREM RingMpmcSafety ==
    Spec /\ []NoStall => [](TypeOK /\ CountersOrdered /\ NoSlotConflict /\ ReadsWhatItClaimed)
<1>1. Init => IInv
  BY InitIInv
<1>2. IInv /\ NoStall /\ [Next]_vars => IInv'
  BY NextIInv
<1>3. IInv => TypeOK /\ CountersOrdered /\ NoSlotConflict /\ ReadsWhatItClaimed
  BY IInvNoSlotConflict DEF IInv
<1> QED BY <1>1, <1>2, <1>3, PTL DEF Spec

\* The only step that moves a thread off the load of a tail is that load.
LEMMA LoadTailMoves ==
    ASSUME TypeOK, [Next]_vars, NEW t \in Threads, pc'[t] # pc[t]
    PROVE  /\ pc[t] = "enq_tail" => EnqLoadTail(t)
           /\ pc[t] = "deq_tail" => DeqLoadTail(t)
<1>1. PICK u \in Threads : Call(u) \/ Step(u)
  BY DEF Next, vars
<1>2. \E label : pc' = [pc EXCEPT ![u] = label]
  <2>1. CASE Call(u)
    BY <2>1 DEF Call, EnqCall, DeqCall, Goto
  <2>2. CASE Step(u)
    BY <2>2 DEF Step, EnqLoadHead, EnqLoadTail, EnqCas, EnqWrite, EnqPublish, DeqLoadHead,
                DeqLoadTail, DeqCas, DeqRead, DeqRelease, Goto, Return
  <2> QED BY <1>1, <2>1, <2>2
<1>3. u = t
  BY <1>2 DEF TypeOK
<1>4. CASE Call(t)
  BY <1>4 DEF Call, EnqCall, DeqCall
<1>5. CASE Step(t)
  <2>1. EnqLoadHead(t) => pc[t] = "enq_head"
    BY DEF EnqLoadHead
  <2>2. EnqLoadTail(t) => pc[t] = "enq_tail"
    BY DEF EnqLoadTail
  <2>3. EnqCas(t) \/ EnqWrite(t) \/ EnqPublish(t) => pc[t] \in {"enq_cas", "enq_write", "enq_wait"}
    BY DEF EnqCas, EnqWrite, EnqPublish
  <2>4. DeqLoadHead(t) => pc[t] = "deq_head"
    BY DEF DeqLoadHead
  <2>5. DeqLoadTail(t) => pc[t] = "deq_tail"
    BY DEF DeqLoadTail
  <2>6. DeqCas(t) \/ DeqRead(t) \/ DeqRelease(t) => pc[t] \in {"deq_cas", "deq_read", "deq_wait"}
    BY DEF DeqCas, DeqRead, DeqRelease
  <2> QED BY <1>5, <2>1, <2>2, <2>3, <2>4, <2>5, <2>6 DEF Step
<1> QED BY <1>1, <1>3, <1>4, <1>5

\* For every instance: an enqueue that returns zero found the ring without the
\* room it wanted at that very step, and a dequeue found it without the data.
THEOREM RingMpmcZeroIsJustified == Spec /\ []NoStall => ZeroIsJustified
<1> DEFINE Zero(t) ==
      /\ pc[t] = "enq_tail" /\ pc'[t] = "idle" => Size - (w_head - r_tail) < Wanted(t)
      /\ pc[t] = "deq_tail" /\ pc'[t] = "idle" => w_tail - r_head < Wanted(t)
<1>1. ASSUME IInv, NoStall, [Next]_vars, NEW t \in Threads PROVE Zero(t)
  <2>1. old[t] \in Nat /\ w_head \in Nat /\ w_tail \in Nat /\ r_head \in Nat /\ r_tail \in Nat
    BY <1>1, LocalTypes DEF IInv
  <2>2. r_tail <= r_head /\ r_head <= w_tail /\ w_tail <= w_head /\ w_head <= r_tail + Size
    BY <1>1 DEF IInv, CountersOrdered
  <2>3. pc[t] # "idle" => Wanted(t) \in 1..MaxBurst
    BY <1>1, LocalTypes DEF IInv, Wanted
  <2>4. ASSUME pc[t] = "enq_tail", pc'[t] = "idle" PROVE Size - (w_head - r_tail) < Wanted(t)
    <3>1. NumFree(old[t], r_tail) < Wanted(t)
      <4>1. EnqLoadTail(t)
        BY <1>1, <2>4, LoadTailMoves DEF IInv
      <4> QED BY <1>1, <2>4, <4>1 DEF EnqLoadTail, Goto, IInv, TypeOK
    <3>2. old[t] <= w_head /\ w_head - old[t] < CounterMod - Size
      BY <1>1, <2>4 DEF IInv, EnqSnapshots, NoStall
    <3>3. NumFree(old[t], r_tail) = Size - (old[t] - r_tail)
      <4>1. old[t] - r_tail <= Size /\ r_tail - old[t] < CounterMod - Size
        BY <2>1, <2>2, <3>2
      <4> QED BY <2>1, <4>1, NumFreeExact
    <3> QED BY <2>1, <2>3, <2>4, <3>1, <3>2, <3>3
  <2>5. ASSUME pc[t] = "deq_tail", pc'[t] = "idle" PROVE w_tail - r_head < Wanted(t)
    <3>1. NumData(old[t], w_tail) < Wanted(t)
      <4>1. DeqLoadTail(t)
        BY <1>1, <2>5, LoadTailMoves DEF IInv
      <4> QED BY <1>1, <2>5, <4>1 DEF DeqLoadTail, Goto, IInv, TypeOK
    <3>2. old[t] <= r_head /\ w_tail - old[t] < CounterMod
      BY <1>1, <2>5 DEF IInv, DeqSnapshots, NoStall
    <3>3. NumData(old[t], w_tail) = w_tail - old[t]
      BY <2>1, <2>2, <3>2, NumDataExact
    <3> QED BY <2>1, <2>3, <2>5, <3>1, <3>2, <3>3
  <2> QED BY <2>4, <2>5
<1>2. IInv /\ NoStall /\ [Next]_vars => [\A t \in Threads : Zero(t)]_vars
  BY <1>1
<1>3. Init => IInv
  BY InitIInv
<1>4. IInv /\ NoStall /\ [Next]_vars => IInv'
  BY NextIInv
<1> QED BY <1>2, <1>3, <1>4, PTL DEF Spec, ZeroIsJustified
=============================================================================
