------------------------------ MODULE InitTerm ------------------------------
(* odp_init_global, odp_init_local and their counterparts, odp_init.c.  The *)
(* modules of ODP are initialized one by one, each may fail, and a switch   *)
(* with fall-through terminates those that were: from the case of the last  *)
(* stage, or all.  Threads initialize and terminate concurrently once the   *)
(* global part is done.                                                     *)
EXTENDS Integers, Sequences, FiniteSets, SequencesExt

CONSTANTS Threads,
          LocalFails,   \* modules whose local initialization may fail
          TermFails,    \* modules whose local termination may fail
          MaxCalls      \* bound: calls of odp_init_local

VARIABLES glob,     \* "init", "ready", "failed" or "done"
          up,       \* the modules that are initialized, oldest first
          eal,      \* whether rte_eal_init failed
          loc,      \* each thread: its state, modules, what is to be terminated, return code
          count,    \* threads, as odp_thread.c counts them
          calls

vars == <<glob, up, eal, loc, count, calls>>

\* The order of odp_init_global
GlobalOrder ==
    <<"libconfig", "cpumask", "dpdk", "sysinfo", "cpu_cycles", "time", "ishm", "global_rw",
      "hash", "thread", "pool", "event_validation", "stash", "queue", "sched", "pktio",
      "timer", "crypto", "comp", "classification", "traffic_mngr", "name_table",
      "ipsec_events", "ipsec_sad", "ipsec", "dma", "ml">>

\* The order of the cases of term_global that call something
GlobalTerm ==
    <<"ml", "dma", "ipsec", "ipsec_sad", "ipsec_events", "name_table", "traffic_mngr",
      "classification", "comp", "crypto", "timer", "pktio", "sched", "queue", "stash",
      "event_validation", "pool", "thread", "hash", "global_rw", "ishm", "time", "sysinfo",
      "cpumask", "libconfig">>

\* The same for odp_init_local and term_local
LocalOrder == <<"ishm", "thread", "pktio", "timer", "random", "crypto", "pool", "queue", "sched">>
LocalTerm == <<"sched", "queue", "pool", "crypto", "random", "timer", "thread", "ishm">>

\* What a switch calls: everything from the case on, nothing if there is no such case.  The
\* case of cpu_cycles is that of sysinfo, and the one of dpdk does not exist: cpumask is the
\* last stage then.
From(cases, stage) ==
    IF stage = "all" THEN cases
    ELSE LET i == SelectInSeq(cases, LAMBDA c : c = stage)
         IN  IF i = 0 THEN <<>> ELSE SubSeq(cases, i, Len(cases))
Case(stage) == IF stage = "cpu_cycles" THEN "sysinfo" ELSE IF stage = "dpdk" THEN "cpumask" ELSE stage
LastStage(mods) == IF mods = <<>> THEN "none" ELSE Case(Last(mods))

\* A module that has something to terminate
Terminable(cases, mods) == SelectSeq(mods, LAMBDA m : m \in ToSet(cases))
Without(mods, gone) == SelectSeq(mods, LAMBDA m : m \notin ToSet(gone))

Down == [pc |-> "down", mods |-> <<>>, todo |-> <<>>, rc |-> 0, called |-> FALSE]

Init ==
    /\ glob = "init" /\ up = <<>> /\ eal = FALSE
    /\ loc = [t \in Threads |-> Down]
    /\ count = 0 /\ calls = 0
-----------------------------------------------------------------------------
(* Global *)

GlobalStage ==
    LET m == GlobalOrder[Len(up) + 1]
    IN  /\ glob = "init" /\ Len(up) < Len(GlobalOrder)
        /\ up' = Append(up, m)
        /\ glob' = IF m = Last(GlobalOrder) THEN "ready" ELSE "init"
        /\ UNCHANGED <<eal, loc, count, calls>>

\* init_failed; a failure of _odp_init_dpdk returns at once
GlobalFail ==
    LET m == GlobalOrder[Len(up) + 1]
    IN  /\ glob = "init" /\ Len(up) < Len(GlobalOrder)
        /\ glob' = "failed" /\ eal' = (m = "dpdk")
        /\ up' = IF m = "dpdk" THEN up ELSE Without(up, From(GlobalTerm, LastStage(up)))
        /\ UNCHANGED <<loc, count, calls>>

\* odp_term_global, to be called when all threads have terminated
TermGlobal ==
    /\ glob = "ready" /\ \A t \in Threads : loc[t].pc = "down"
    /\ glob' = "done"
    /\ up' = Without(up, From(GlobalTerm, "all"))
    /\ UNCHANGED <<eal, loc, count, calls>>
-----------------------------------------------------------------------------
(* Local *)

Same == UNCHANGED <<glob, up, eal>>

\* odp_init_local; a thread whose initialization failed has called it already
InitLocal(t) ==
    /\ glob = "ready" /\ loc[t].pc = "down" /\ calls < MaxCalls
    /\ calls' = calls + 1
    /\ loc' = [loc EXCEPT ![t] = IF @.called THEN [@ EXCEPT !.rc = -1]
                                 ELSE [Down EXCEPT !.pc = "init", !.called = TRUE]]
    /\ Same /\ UNCHANGED count

LocalStage(t) ==
    LET m == LocalOrder[Len(loc[t].mods) + 1]
    IN  /\ loc[t].pc = "init"
        /\ loc' = [loc EXCEPT ![t].mods = Append(@, m),
                              ![t].pc = IF m = Last(LocalOrder) THEN "up" ELSE "init"]
        /\ count' = IF m = "thread" THEN count + 1 ELSE count
        /\ Same /\ UNCHANGED calls


\* init_fail
LocalFail(t) ==
    LET m == LocalOrder[Len(loc[t].mods) + 1]
    IN  /\ loc[t].pc = "init" /\ m \in LocalFails
        /\ loc' = [loc EXCEPT ![t].pc = "term", ![t].rc = -1,
                              ![t].todo = From(LocalTerm, LastStage(loc[t].mods))]
        /\ Same /\ UNCHANGED <<count, calls>>

\* odp_term_local
TermLocal(t) ==
    /\ loc[t].pc = "up"
    /\ loc' = [loc EXCEPT ![t].pc = "term", ![t].called = FALSE, ![t].rc = 0,
                          ![t].todo = From(LocalTerm, "all")]
    /\ Same /\ UNCHANGED <<count, calls>>

\* One case of term_local.  A failure is remembered and the rest is terminated all the same;
\* otherwise the return code tells whether other threads are left.
TermCase(t, ok) ==
    LET m == Head(loc[t].todo)
        left == IF m = "thread" THEN count - 1 ELSE count
        rc == IF ~ok THEN -1
              ELSE IF m = "thread" /\ loc[t].rc = 0 THEN IF left = 0 THEN 0 ELSE 1
              ELSE loc[t].rc
    IN  /\ loc[t].pc = "term" /\ loc[t].todo # <<>>
        /\ ok \/ m \in TermFails
        /\ loc' = [loc EXCEPT ![t].todo = Tail(@), ![t].rc = rc,
                              ![t].mods = Without(@, <<m>>)]
        /\ count' = left
        /\ Same /\ UNCHANGED calls

\* term_local returns; the return code of a failed odp_init_local stays -1
TermReturn(t) ==
    /\ loc[t].pc = "term" /\ loc[t].todo = <<>>
    /\ loc' = [loc EXCEPT ![t].pc = "down"]
    /\ Same /\ UNCHANGED <<count, calls>>

Next ==
    \/ GlobalStage \/ GlobalFail \/ TermGlobal
    \/ \E t \in Threads : \/ InitLocal(t) \/ LocalStage(t) \/ LocalFail(t) \/ TermLocal(t)
                          \/ TermReturn(t) \/ \E ok \in BOOLEAN : TermCase(t, ok)

Spec == Init /\ [][Next]_vars
-----------------------------------------------------------------------------
(* Properties *)

\* What a thread still has to terminate is what it has initialized, latest first, whichever
\* module failed and while other threads come and go; a thread that is down has nothing left
LocalExact ==
    \A t \in Threads :
        LET mods == Terminable(LocalTerm, loc[t].mods)
        IN  /\ loc[t].pc = "term" => loc[t].todo = Reverse(mods)
            /\ loc[t].pc = "down" => mods = <<>>
            /\ loc[t].pc = "up" => loc[t].mods = LocalOrder

\* A failed odp_init_global and an odp_term_global leave nothing initialized, except that a
\* failure of rte_eal_init leaves what came before it
GlobalExact ==
    glob \in {"failed", "done"} =>
        Terminable(GlobalTerm, up) = IF eal THEN <<"libconfig", "cpumask">> ELSE <<>>

\* The threads that are counted are those between their initialization and termination, so
\* that a return code of 0 is given to a thread only when no other is left
CountExact == count = Cardinality({t \in Threads : "thread" \in ToSet(loc[t].mods)})
=============================================================================
