------------------------- MODULE CountingSemaphore --------------------------
(***************************************************************************)
(* What a semaphore promises its users, without threads' states,           *)
(* priorities or scheduling: a value and the waiting threads in order.     *)
(* sys__sem_init/destroy/post/wait of kernel/semaphore.c implement it.     *)
(***************************************************************************)
EXTENDS Integers, Sequences

CONSTANTS Thread, InitialValue

VARIABLES
  exists,    \* the semaphore is initialised
  value,
  waiting    \* threads blocked on it, in the order they will be released

vars == <<exists, value, waiting>>

Init == /\ exists = FALSE
        /\ value = 0
        /\ waiting = <<>>

Create == /\ ~exists
          /\ exists' = TRUE
          /\ value' \in InitialValue
          /\ waiting' = <<>>

\* Every waiting thread goes on.
Destroy == /\ exists
           /\ exists' = FALSE
           /\ waiting' = <<>>
           /\ value' = value

\* A thread takes a unit, if there is one; otherwise it waits, as the last one.
Take == /\ exists /\ value > 0
        /\ value' = value - 1
        /\ UNCHANGED <<exists, waiting>>

Wait == /\ exists /\ value <= 0
        /\ \E t \in Thread : waiting' = Append(waiting, t)
        /\ UNCHANGED <<exists, value>>

\* A unit is given to the thread that waits longest, or kept if nobody waits.
Give == /\ exists
        /\ IF waiting = <<>> THEN value' = value + 1 /\ waiting' = waiting
                             ELSE value' = value     /\ waiting' = Tail(waiting)
        /\ UNCHANGED exists

\* A waiting thread is cancelled.
Withdraw ==
  /\ \E i \in 1 .. Len(waiting) :
       waiting' = [j \in 1 .. Len(waiting) - 1 |-> waiting[IF j < i THEN j ELSE j + 1]]
  /\ UNCHANGED <<exists, value>>

Next == Create \/ Destroy \/ Take \/ Wait \/ Give \/ Withdraw

Spec == Init /\ [][Next]_vars
=============================================================================
