------------------------------- MODULE MCData -------------------------------
(***************************************************************************)
(* The components that only work on data, checked one at a time: the       *)
(* stream transforms and the CPU statistics share nothing.                 *)
(***************************************************************************)
EXTENDS Transforms, ProcStat

VARIABLE checked    \* the one that moves

DataInit ==
    /\ TransformInit /\ ProcStatInit
    /\ \/ checked = "transform"
       \/ checked = "stat" /\ mode = Line(FALSE)

DataNext ==
    /\ UNCHANGED checked
    /\ \/ checked = "transform" /\ TransformNext /\ UNCHANGED procStat
       \/ checked = "stat" /\ ProcStatNext /\ UNCHANGED transform

DataSpec == DataInit /\ [][DataNext]_<<checked, transform, procStat>>
=============================================================================
