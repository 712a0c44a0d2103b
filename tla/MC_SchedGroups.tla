---------------------------- MODULE MC_SchedGroups ----------------------------
(* SchedGroups with groups that are created with the default levels or with one. *)
EXTENDS SchedGroups, MC_SchedParams

OneConfig == {ConfigAll}
AnyParams == {{}, {0}}
=============================================================================
