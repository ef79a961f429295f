---------------------------- MODULE MCSemaphores ----------------------------
(* Semaphores with small sets for TLC. *)
EXTENDS Semaphores

\* Descriptors other than those of the first two threads are interchangeable.
Symmetry == Permutations(Desc \ {Idle, Main})

\* A semaphore may be initialised below zero: nothing in sys__sem_init forbids it.
InitialValues == {-1, 1}
=============================================================================
