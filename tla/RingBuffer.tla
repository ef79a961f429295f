----------------------------- MODULE RingBuffer ------------------------------
(***************************************************************************)
(* What a driver's circular buffer is to its users: a queue of at most     *)
(* Capacity items, in the order they came in.  Items that come from the    *)
(* line push the oldest ones out of a full input buffer; of items put in   *)
(* by a program, those an output buffer has no room for are refused.  All  *)
(* that leaves the queue otherwise is given to somebody, once, unless the  *)
(* device is set up again.                                                 *)
(***************************************************************************)
EXTENDS Integers, Sequences

CONSTANTS
  Capacity,
  Overwrites    \* an input buffer: the oldest items go

VARIABLES
  set_up,       \* a program has asked for the device to be set up
  offered,      \* what a program has put in
  line,         \* what has arrived and is not in the queue yet
  queue,
  given         \* what has left the queue

vars == <<line, queue, given>>

Init == queue = <<>> /\ given = <<>>

Kept(s) ==
  IF Len(s) <= Capacity THEN s
  ELSE IF Overwrites THEN SubSeq(s, Len(s) - Capacity + 1, Len(s))
  ELSE SubSeq(s, 1, Capacity)

From(s, n) == SubSeq(s, n + 1, Len(s))

Arrive ==
  /\ Len(line') >= Len(line) /\ SubSeq(line', 1, Len(line)) = line
  /\ queue' = queue /\ given' = <<>>

\* The first items, if any, are given away, and the others stay.
Take(all) == \E n \in 0 .. Len(all) : queue' = From(all, n) /\ given' = SubSeq(all, 1, n)

\* Items come in, from the line or from a program; then some may be taken.
Receive ==
  \E n \in 0 .. Len(line) :
    line' = From(line, n) /\ Take(Kept(queue \o SubSeq(line, 1, n)))

Put == line' = line /\ Take(Kept(queue \o offered'))

Reset == set_up' /\ queue' = <<>> /\ line' = <<>> /\ given' = <<>>

Next == Arrive \/ Receive \/ Put \/ Reset

Spec == Init /\ [][Next]_vars
=============================================================================
