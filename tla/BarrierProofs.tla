---------------------------- MODULE BarrierProofs ----------------------------
(***************************************************************************)
(* No thread leaves a round of the barrier early, for any number of        *)
(* threads and rounds.                                                     *)
(***************************************************************************)
EXTENDS Barrier, FiniteSetTheorems, TLAPS

\* Numbers of threads: a set of threads that is not all of them is smaller than count.
LEMMA CountFacts ==
    /\ Count \in Nat /\ Count > 0
    /\ \A S \in SUBSET Threads :
           /\ IsFiniteSet(S) /\ Cardinality(S) \in Nat /\ Cardinality(S) <= Count
           /\ S # Threads => Cardinality(S) < Count
  <1>1. Count \in Nat /\ Count > 0
    BY ThreadsAssumption, FS_CardinalityType, FS_EmptySet DEF Count
  <1>2. ASSUME NEW S \in SUBSET Threads
        PROVE  /\ IsFiniteSet(S) /\ Cardinality(S) \in Nat /\ Cardinality(S) <= Count
               /\ S # Threads => Cardinality(S) < Count
    <2>1. IsFiniteSet(S) /\ Cardinality(S) <= Count /\ (Count = Cardinality(S) => Threads = S)
      BY ThreadsAssumption, FS_Subset DEF Count
    <2>2. Cardinality(S) \in Nat
      BY <2>1, FS_CardinalityType
    <2> QED
      BY <1>1, <2>1, <2>2
  <1> QED
    BY <1>1, <1>2

\* Between wraps the counter tells the half: it is below count exactly in the first one.
LEMMA CounterTellsHalf ==
    ASSUME TypeOK, NEW r \in 0..MaxRounds, NEW first \in BOOLEAN, Base(r, first)
    PROVE  /\ ~Wrapping => (bar < Count) = first
           /\ Wrapping => bar = 2 * Count /\ first /\ bar >= Count
           /\ ~Wrapping => bar = (IF first THEN 0 ELSE Count) + Cardinality(Entered(r))
           /\ Cardinality(Entered(r)) \in Nat /\ Cardinality(Entered(r)) < Count
           /\ Entered(r) \in SUBSET Threads
  <1>1. Entered(r) \in SUBSET Threads
    BY DEF Entered
  <1>2. Cardinality(Entered(r)) \in Nat /\ Cardinality(Entered(r)) < Count
    BY <1>1, CountFacts DEF Base
  <1>3. Wrapping => first /\ Cardinality(Entered(r)) = 0
    BY FS_EmptySet DEF Base
  <1>4. bar = (IF first THEN 0 ELSE Count) + Cardinality(Entered(r))
             + (IF Wrapping THEN 2 * Count ELSE 0)
    BY DEF Base
  <1> QED
    BY <1>1, <1>2, <1>3, <1>4, CountFacts

\* The strengthened invariant holds at the start.
LEMMA InitInv == Init => IInv
  <1> SUFFICES ASSUME Init PROVE IInv
    OBVIOUS
  <1>1. TypeOK
    BY DEF Init, TypeOK
  <1>2. Entered(0) = {} /\ ~Wrapping
    BY DEF Init, Entered, Wrapping
  <1>3. Base(0, TRUE)
    BY <1>2, FS_EmptySet, ThreadsAssumption, CountFacts DEF Init, Base
  <1>4. 0 \in 0..MaxRounds
    BY RoundsAssumption
  <1> QED
    BY <1>1, <1>3, <1>4, Zenon DEF IInv

\* A thread that adds one to the count keeps the invariant.
LEMMA EnterInv ==
    ASSUME IInv, NEW t \in Threads, Enter(t)
    PROVE  IInv'
  <1>1. PICK r \in 0..MaxRounds, first \in BOOLEAN : Base(r, first)
    BY DEF IInv
  <1> DEFINE E == Entered(r)
             last == bar = 2 * Count - 1
  <1>2. TypeOK /\ th[t].pc = "out" /\ th[t].round < MaxRounds
    BY DEF IInv, Enter
  <1>3. th[t].round = r /\ ~Wrapping
    BY <1>1, <1>2 DEF Base
  <1>4. /\ (bar < Count) = first
        /\ bar = (IF first THEN 0 ELSE Count) + Cardinality(E)
        /\ Cardinality(E) \in Nat /\ Cardinality(E) < Count
        /\ E \in SUBSET Threads
    BY <1>1, <1>2, <1>3, CounterTellsHalf
  <1>5. th' = [th EXCEPT ![t] = [pc |-> IF last THEN "wrap" ELSE "wait",
                                 round |-> r + 1, wasless |-> first]]
    BY <1>3, <1>4 DEF Enter
  <1>6. TypeOK'
    BY <1>2, <1>5, RoundsAssumption DEF TypeOK, Enter
  <1>7. \A u \in Threads : u # t => th'[u] = th[u]
    BY <1>2, <1>5 DEF TypeOK
  <1>8. th'[t] = [pc |-> IF last THEN "wrap" ELSE "wait", round |-> r + 1, wasless |-> first]
    BY <1>2, <1>5 DEF TypeOK
  <1>9. Entered(r)' = E \cup {t} /\ t \notin E
    BY <1>3, <1>7, <1>8 DEF Entered
  <1>10. Cardinality(Entered(r)') = Cardinality(E) + 1
    BY <1>4, <1>9, FS_AddElement, CountFacts
  <1>11. bar' = (IF first THEN 0 ELSE Count) + Cardinality(Entered(r)')
    BY <1>4, <1>10, CountFacts DEF Enter
  <1>12. Entered(r)' \in SUBSET Threads
    BY <1>4, <1>9
  <1>13. last <=> ~first /\ Entered(r)' = Threads
    <2>1. Cardinality(Entered(r)') = Count <=> Entered(r)' = Threads
      BY <1>12, CountFacts DEF Count
    <2>2. last <=> ~first /\ Cardinality(Entered(r)') = Count
      BY <1>4, <1>10, CountFacts
    <2> QED
      BY <2>1, <2>2
  <1>14. CASE Entered(r)' # Threads
    <2>1. th'[t].pc = "wait" /\ ~Wrapping'
      BY <1>3, <1>7, <1>8, <1>13, <1>14 DEF Wrapping
    <2>2. Base(r, first)'
      BY <1>1, <1>7, <1>8, <1>11, <1>14, <2>1, CountFacts, <1>10, <1>4 DEF Base, Wrapping
    <2> QED
      BY <1>6, <2>2 DEF IInv
  <1>15. CASE Entered(r)' = Threads
    <2>1. \A u \in Threads : th'[u].round = r + 1
      BY <1>15 DEF Entered
    <2>2. \A u \in Threads : u # t => th'[u].pc = "wait" /\ th'[u].wasless = first
      BY <1>1, <1>7, <2>1 DEF Base
    <2>3. Entered(r + 1)' = {}
      BY <2>1 DEF Entered
    <2>4. bar' = (IF first THEN Count ELSE 2 * Count)
      BY <1>11, <1>15, CountFacts DEF Count
    <2>5. r + 1 \in 0..MaxRounds
      BY <1>2, <1>3, RoundsAssumption
    <2>6. r + 1 # r + 2 /\ r + 1 \in {r + 1, r + 2}
      BY RoundsAssumption
    <2>7. CASE first
      <3>1. th'[t].pc = "wait" /\ th'[t].wasless = TRUE
        BY <1>8, <1>13, <2>7
      <3>2. ~Wrapping'
        BY <2>2, <3>1 DEF Wrapping
      <3>3. \A u \in Threads : th'[u].pc = "wait" /\ th'[u].wasless = TRUE
        BY <2>2, <2>7, <3>1
      <3>4. Base(r + 1, FALSE)'
        <4>1. bar' = Count + Cardinality(Entered(r + 1)') + 0
          BY <2>3, <2>4, <2>7, FS_EmptySet, CountFacts
        <4>2. Entered(r + 1)' # Threads /\ \A u \in Threads : th'[u].round # (r + 1) + 1
          BY <2>1, <2>3, ThreadsAssumption
        <4>3. \A u \in Threads : th'[u].pc # "wrap" /\ th'[u].wasless = TRUE
          BY <3>3
        <4> QED
          BY <2>1, <3>2, <4>1, <4>2, <4>3 DEF Base
      <3> QED
        BY <1>6, <2>5, <3>4 DEF IInv
    <2>8. CASE ~first
      <3>1. th'[t].pc = "wrap" /\ th'[t].wasless = FALSE
        BY <1>8, <1>13, <1>15, <2>8
      <3>2. Wrapping'
        BY <3>1 DEF Wrapping
      <3>3. \A u \in Threads : u # t => th'[u].pc = "wait" /\ th'[u].wasless = FALSE
        BY <2>2, <2>8
      <3>4. Base(r + 1, TRUE)'
        <4>1. bar' = 0 + Cardinality(Entered(r + 1)') + 2 * Count
          BY <2>3, <2>4, <2>8, FS_EmptySet, CountFacts
        <4>2. Entered(r + 1)' # Threads /\ \A u \in Threads : th'[u].round # (r + 1) + 1
          BY <2>1, <2>3, ThreadsAssumption
        <4>3. \A u \in Threads : th'[u].pc # "out" /\ th'[u].wasless = FALSE
          BY <3>1, <3>3
        <4>4. \A u \in Threads : th'[u].pc = "wrap" => u = t
          BY <3>3
        <4> QED
          BY <2>1, <2>3, <3>2, <4>1, <4>2, <4>3, <4>4 DEF Base
      <3> QED
        BY <1>6, <2>5, <3>4 DEF IInv
    <2> QED
      BY <2>7, <2>8
  <1> QED
    BY <1>14, <1>15

\* The last thread of a cycle takes the whole cycle off the count and keeps the invariant:
\* no other thread has left in between.
LEMMA WrapInv ==
    ASSUME IInv, NEW t \in Threads, Wrap(t)
    PROVE  IInv'
  <1>1. PICK r \in 0..MaxRounds, first \in BOOLEAN : Base(r, first)
    BY DEF IInv
  <1>2. TypeOK /\ th[t].pc = "wrap" /\ Wrapping
    BY DEF IInv, Wrap, Wrapping
  <1>3. bar = 2 * Count /\ first /\ Entered(r) = {}
    <2>1. Wrapping => bar = 2 * Count /\ first
      BY <1>1, <1>2, CounterTellsHalf
    <2>2. Wrapping => Entered(r) = {}
      BY <1>1 DEF Base
    <2> QED
      BY <1>2, <2>1, <2>2, Zenon
  <1>4. bar' = 0 /\ th' = [th EXCEPT ![t].pc = "out"]
    BY <1>3, CountFacts DEF Wrap, Leave
  <1>5. TypeOK'
    BY <1>2, <1>4 DEF TypeOK
  <1>6. \A u \in Threads : /\ th'[u].round = th[u].round /\ th'[u].wasless = th[u].wasless
                           /\ th'[u].pc = IF u = t THEN "out" ELSE th[u].pc
    BY <1>2, <1>4 DEF TypeOK
  <1>7. Entered(r)' = {} /\ ~Wrapping'
    BY <1>1, <1>2, <1>3, <1>6 DEF Entered, Wrapping, Base
  <1>8. Base(r, first)'
    <2>1. Cardinality(Entered(r)') = 0 /\ Entered(r)' # Threads
      BY <1>7, FS_EmptySet, ThreadsAssumption
    <2>2. bar' = (IF first THEN 0 ELSE Count) + Cardinality(Entered(r)')
                 + (IF Wrapping' THEN 2 * Count ELSE 0)
      BY <1>3, <1>4, <1>7, <2>1
    <2>3. \A u \in Threads : th'[u].round \in {r, r + 1}
      BY <1>1, <1>6 DEF Base
    <2>4. \A u \in Threads : th'[u].round # r + 1
      BY <1>7 DEF Entered
    <2>5. \A u \in Threads : th'[u].round = r /\ th'[u].pc = "wait" => th'[u].wasless = ~first
      BY <1>1, <1>6 DEF Base
    <2> QED
      BY <1>7, <2>1, <2>2, <2>3, <2>4, <2>5 DEF Base, Wrapping
  <1> QED
    BY <1>5, <1>8 DEF IInv

\* A thread that leaves keeps the invariant.
LEMMA PassInv ==
    ASSUME IInv, NEW t \in Threads, Pass(t)
    PROVE  IInv'
  <1>1. PICK r \in 0..MaxRounds, first \in BOOLEAN : Base(r, first)
    BY DEF IInv
  <1>2. TypeOK /\ th[t].pc = "wait" /\ (bar < Count) # th[t].wasless
    BY DEF IInv, Pass
  <1>3. /\ ~Wrapping => (bar < Count) = first
        /\ Wrapping => first /\ bar >= Count
    BY <1>1, <1>2, CounterTellsHalf
  <1>4. bar \in Nat /\ Count \in Nat
    BY <1>2, CountFacts DEF TypeOK
  <1>5. th[t].round = r /\ th[t].wasless = ~first
    <2>1. CASE th[t].round = r + 1
      <3>1. th[t].wasless = first /\ t \in Entered(r)
        BY <1>1, <2>1 DEF Base, Entered
      <3>2. ~Wrapping
        BY <1>1, <3>1 DEF Base
      <3> QED
        BY <1>2, <1>3, <3>1, <3>2
    <2>2. CASE th[t].round = r
      BY <1>1, <1>2, <2>2 DEF Base
    <2> QED
      BY <1>1, <2>1, <2>2 DEF Base
  <1>6. ~Wrapping
    <2> SUFFICES ASSUME Wrapping PROVE FALSE
      OBVIOUS
    <2>1. first /\ ~(bar < Count)
      BY <1>3, <1>4
    <2> QED
      BY <1>2, <1>5, <2>1
  <1>7. bar' = bar /\ th' = [th EXCEPT ![t].pc = "out"]
    BY DEF Pass, Leave
  <1>8. TypeOK'
    BY <1>2, <1>7 DEF TypeOK
  <1>9. \A u \in Threads : /\ th'[u].round = th[u].round /\ th'[u].wasless = th[u].wasless
                           /\ th'[u].pc = IF u = t THEN "out" ELSE th[u].pc
    BY <1>2, <1>7 DEF TypeOK
  <1>10. Entered(r)' = Entered(r) /\ ~Wrapping'
    BY <1>6, <1>9 DEF Entered, Wrapping
  <1>11. r # r + 1
    BY RoundsAssumption
  <1>12. Base(r, first)'
    BY <1>1, <1>5, <1>6, <1>7, <1>9, <1>10, <1>11 DEF Base
  <1> QED
    BY <1>8, <1>12 DEF IInv

\* The inductive invariant of the barrier.
THEOREM BarrierInvariant == Spec => []IInv
  <1>1. IInv /\ [Next]_vars => IInv'
    <2> SUFFICES ASSUME IInv, [Next]_vars PROVE IInv'
      OBVIOUS
    <2>1. CASE UNCHANGED vars
      <3>1. bar' = bar /\ th' = th
        BY <2>1 DEF vars
      <3>2. TypeOK'
        BY <3>1 DEF IInv, TypeOK
      <3>3. PICK r \in 0..MaxRounds, first \in BOOLEAN : Base(r, first)
        BY DEF IInv
      <3>4. Entered(r)' = Entered(r) /\ Wrapping' = Wrapping
        BY <3>1 DEF Entered, Wrapping
      <3>5. Base(r, first)'
        BY <3>1, <3>3, <3>4 DEF Base
      <3> QED
        BY <3>2, <3>5 DEF IInv
    <2>2. ASSUME NEW t \in Threads, Enter(t) PROVE IInv'
      BY <2>2, EnterInv
    <2>3. ASSUME NEW t \in Threads, Wrap(t) PROVE IInv'
      BY <2>3, WrapInv
    <2>4. ASSUME NEW t \in Threads, Pass(t) PROVE IInv'
      BY <2>4, PassInv
    <2> QED
      BY <2>1, <2>2, <2>3, <2>4 DEF Next
  <1> QED
    BY InitInv, <1>1, PTL DEF Spec

\* For every number of threads, nobody leaves a round of odp_barrier_wait before all have
\* entered it.
THEOREM BarrierNobodyEarly == Spec => []NobodyEarly
  <1>1. IInv => NobodyEarly
    <2> SUFFICES ASSUME IInv, NEW t \in Threads, NEW u \in Threads, th[t].pc = "out"
                 PROVE  th[u].round >= th[t].round
      BY DEF NobodyEarly
    <2>1. PICK r \in 0..MaxRounds, first \in BOOLEAN : Base(r, first)
      BY DEF IInv
    <2>2. th[t].round = r /\ th[u].round \in {r, r + 1}
      BY <2>1 DEF Base
    <2> QED
      BY <2>2, RoundsAssumption
  <1> QED
    BY BarrierInvariant, <1>1, PTL
=============================================================================
