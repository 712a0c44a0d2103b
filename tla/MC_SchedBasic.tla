---------------------------- MODULE MC_SchedBasic ----------------------------
(* SchedBasic with one atomic queue that is an input queue of an interface and *)
(* into which the application enqueues too.                                    *)
EXTENDS SchedBasic, MC_SchedParams

SharedParams == {PktinShared}
Symmetry == Permutations(Threads)
=============================================================================
