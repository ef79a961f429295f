----------------------------- MODULE MCMonitors -----------------------------
(* Monitors with small sets for TLC. *)
EXTENDS Monitors

\* Monitors, and descriptors other than those of the first two threads, are
\* interchangeable.
Symmetry == Permutations(Desc \ {Idle, Main}) \cup Permutations(Mon)
=============================================================================
