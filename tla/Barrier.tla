------------------------------- MODULE Barrier -------------------------------
(***************************************************************************)
(* odp_barrier_wait: platform/linux-generic/odp_barrier.c.  The counter    *)
(* cycles through 0..2*count-1, one half for each round.  The last thread  *)
(* of the second half wraps it in another atomic operation.  Fast threads  *)
(* are in the next round while slow ones have not yet seen the last end.   *)
(***************************************************************************)
EXTENDS Integers, FiniteSets

CONSTANTS Threads,
          MaxRounds     \* bound on the rounds of a thread

ASSUME ThreadsAssumption == IsFiniteSet(Threads) /\ Threads # {}
ASSUME RoundsAssumption == MaxRounds \in Nat

VARIABLES bar, th

vars == <<bar, th>>

Count == Cardinality(Threads)

Init ==
    /\ bar = 0
    /\ th = [t \in Threads |-> [pc |-> "out", round |-> 0, wasless |-> FALSE]]

Enter(t) ==
    /\ th[t].pc = "out" /\ th[t].round < MaxRounds
    /\ bar' = bar + 1
    /\ th' = [th EXCEPT ![t] = [pc |-> IF bar = 2 * Count - 1 THEN "wrap" ELSE "wait",
                                round |-> @.round + 1, wasless |-> bar < Count]]

Leave(t) == th' = [th EXCEPT ![t].pc = "out"]

Wrap(t) == th[t].pc = "wrap" /\ bar' = bar - 2 * Count /\ Leave(t)

\* Faulty: waiting ends when the counter is a multiple of count
Pass_Full(t) == th[t].pc = "wait" /\ bar % Count = 0 /\ Leave(t) /\ UNCHANGED bar

\* Faulty: the half on entry is not remembered
Pass_NoHalf(t) == th[t].pc = "wait" /\ bar >= Count /\ Leave(t) /\ UNCHANGED bar

Pass(t) == th[t].pc = "wait" /\ (bar < Count) # th[t].wasless /\ Leave(t) /\ UNCHANGED bar

Next == \E t \in Threads : Enter(t) \/ Wrap(t) \/ Pass(t)

Spec == Init /\ [][Next]_vars
FairSpec == Spec /\ \A t \in Threads : WF_vars(Wrap(t)) /\ WF_vars(Pass(t))

-----------------------------------------------------------------------------
TypeOK ==
    /\ bar \in Nat
    /\ th \in [Threads -> [pc : {"out", "wait", "wrap"}, round : Nat, wasless : BOOLEAN]]

\* No thread leaves a round before all threads have entered it.
NobodyEarly ==
    \A t, u \in Threads : th[t].pc = "out" => th[u].round >= th[t].round

\* The inductive invariant.  r is the last round all threads have entered, and first tells
\* the half of the cycle the next round is in.  The counter is at the start of that half plus
\* the number of threads in round r + 1, but for a wrap to come.
Entered(r) == {t \in Threads : th[t].round = r + 1}
Wrapping == \E t \in Threads : th[t].pc = "wrap"

Base(r, first) ==
    /\ \A t \in Threads : th[t].round \in {r, r + 1}
    /\ Entered(r) # Threads
    /\ \A t \in Threads : th[t].round = r + 1 => th[t].pc = "wait" /\ th[t].wasless = first
    /\ \A t \in Threads : th[t].round = r /\ th[t].pc = "wait" => th[t].wasless = ~first
    /\ bar = (IF first THEN 0 ELSE Count) + Cardinality(Entered(r))
             + (IF Wrapping THEN 2 * Count ELSE 0)
    /\ Wrapping => first /\ Entered(r) = {} /\ \A t \in Threads : th[t].pc # "out"
    /\ \A t, u \in Threads : th[t].pc = "wrap" /\ th[u].pc = "wrap" => t = u

IInv == TypeOK /\ \E r \in 0..MaxRounds, first \in BOOLEAN : Base(r, first)

\* When all threads have entered a round, each of them leaves it; a slow thread is not
\* trapped by fast ones that go on to the next rounds.
RoundEnds ==
    \A t \in Threads :
        (th[t].pc # "out" /\ \A u \in Threads : th[u].round >= th[t].round) ~> th[t].pc = "out"
=============================================================================
