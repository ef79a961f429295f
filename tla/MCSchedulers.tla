---------------------------- MODULE MCSchedulers ----------------------------
(* Schedulers with small sets for TLC. *)
EXTENDS Schedulers

\* No definition that Schedulers evaluates CHOOSEs a descriptor (HandlerThread does,
\* for alarms that no action of Schedulers sets).
Symmetry == Permutations(Desc \ {Idle, Main})

MCWaitQueue == AlarmAddr \cup {edf_ready, edf_wait, sem}
MCSlice     == T(0, 3)
MCThreshold == T(0, 1)
Both        == {SCHED_RR, SCHED_EDF}
MCJobs      == {<<2, 3, EDF_TERMINATE>>, <<3, 4, EDF_SKIP>>}
=============================================================================
