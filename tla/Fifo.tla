-------------------------------- MODULE Fifo --------------------------------
(***************************************************************************)
(* What a ring or queue promises its users: a bounded first-in first-out   *)
(* queue.  An enqueue appends a burst in one step, a dequeue takes a burst *)
(* off the front in one step and keeps it until the caller has it.         *)
(***************************************************************************)
EXTENDS Naturals, Sequences

CONSTANTS Threads, Data, Capacity

VARIABLES q,      \* the queued items, oldest first
          taken   \* the items a thread's running dequeue has removed

Init ==
    /\ q = <<>>
    /\ taken = [t \in Threads |-> <<>>]

Enqueue ==
    \E n \in 1..Capacity :
        /\ Len(q) + n <= Capacity
        /\ \E items \in [1..n -> Data] : q' = q \o items
        /\ UNCHANGED taken

Dequeue(t) ==
    \E n \in 1..Len(q) :
        /\ taken[t] = <<>>
        /\ taken' = [taken EXCEPT ![t] = SubSeq(q, 1, n)]
        /\ q' = SubSeq(q, n + 1, Len(q))

Deliver(t) ==
    /\ taken[t] # <<>>
    /\ taken' = [taken EXCEPT ![t] = <<>>]
    /\ UNCHANGED q

Next == Enqueue \/ \E t \in Threads : Dequeue(t) \/ Deliver(t)

Spec == Init /\ [][Next]_<<q, taken>>
=============================================================================
