----------------------------- MODULE MCThreads ------------------------------
(* Threads with small sets for TLC. *)
EXTENDS Threads

\* Descriptors other than those of the first two threads are interchangeable.
Symmetry == Permutations(Desc \ {Idle, Main})
=============================================================================
