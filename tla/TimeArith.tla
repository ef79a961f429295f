----------------------------- MODULE TimeArith ------------------------------
(***************************************************************************)
(* time_t and the three operations on it (lib/types.h).  A time is a pair  *)
(* of seconds and nanoseconds; NSEC stands for the 1000000000 nanoseconds  *)
(* of a second, so that a small instance meets the carries and borrows.    *)
(***************************************************************************)
EXTENDS Integers

CONSTANT NSEC   \* nanoseconds in a second

ASSUME NSECAssumption == NSEC \in Nat \ {0, 1}

\* Both members are signed; no operation below makes nsec negative or greater
\* than NSEC, and time_add may leave it equal to NSEC.
Time  == [sec : Int, nsec : 0 .. NSEC]
T(sec, nsec) == [sec |-> sec, nsec |-> nsec]
ZeroTime     == T(0, 0)

\* The time a pair stands for, in nanoseconds.
Value(t) == t.sec * NSEC + t.nsec

\* The one pair with nsec below NSEC that stands for v nanoseconds: how programs
\* write a time.
Normal(v) == T(v \div NSEC, v % NSEC)

\* Mutation: the carry is forgotten.
time_add_noCarry(a, b) == T(a.sec + b.sec, a.nsec + b.nsec)

\* A sum of exactly NSEC is left as it is ( > , not >= ).
time_add(a, b) ==
  IF a.nsec + b.nsec > NSEC
  THEN T(a.sec + b.sec + 1, a.nsec + b.nsec - NSEC)
  ELSE T(a.sec + b.sec, a.nsec + b.nsec)

time_sub(a, b) ==
  IF a.nsec >= b.nsec
  THEN T(a.sec - b.sec, a.nsec - b.nsec)
  ELSE T(a.sec - (b.sec + 1), a.nsec + NSEC - b.nsec)

time_cmp(a, b) ==
  CASE a.sec < b.sec -> -1
    [] a.sec > b.sec -> 1
    [] a.sec = b.sec /\ a.nsec < b.nsec -> -1
    [] a.sec = b.sec /\ a.nsec > b.nsec -> 1
    [] a.sec = b.sec /\ a.nsec = b.nsec -> 0

\* Half of a time, as both subsystems compute their thresholds from the timer's
\* shortest interval.
HalfTime(t) ==
  T(t.sec \div 2, t.nsec \div 2 + (IF t.sec % 2 = 1 THEN NSEC \div 2 ELSE 0))
=============================================================================
