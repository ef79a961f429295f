----------------------------- MODULE MCMessages -----------------------------
(* Messages with small sets for TLC. *)
EXTENDS Messages

\* Every descriptor has a queue of its own besides the global queues.
WaitQueues == MsgQ \cup Desc

\* Descriptors other than those of the first two threads are interchangeable.
Symmetry == Permutations(Desc \ {Idle, Main})
=============================================================================
