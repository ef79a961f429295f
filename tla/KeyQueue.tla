------------------------------ MODULE KeyQueue -------------------------------
(***************************************************************************)
(* The keyboard's buffer: a RingBuffer whose reader says, by the flags of  *)
(* the call, which keystroke it wants.  It is the only one that passes     *)
(* items over, and only as its flags say.                                  *)
(***************************************************************************)
EXTENDS RingBuffer

CONSTANTS
  Short(_),   \* an item for a reader with ONLY_ASCII,
  Nothing     \* and what it is if there is nothing in it for such a reader

VARIABLE
  asked       \* the flags of the read that is the step; it is one if "READ" is there

\* The first keystroke that suits the reader, from the oldest or from the last one on;
\* if none does, the last.  Those before it are gone, or all are.
Pick ==
  LET Suits(i) == "ONLY_ASCII" \in asked' => Short(queue[i]) # Nothing
      item(i)  == IF "ONLY_ASCII" \in asked' THEN Short(queue[i]) ELSE queue[i]
  IN  \E n \in (IF "ONLY_LAST" \in asked' THEN Len(queue) ELSE 1) .. Len(queue) :
        /\ n = Len(queue) \/ Suits(n)
        /\ "ONLY_LAST" \in asked' \/ \A i \in 1 .. n - 1 : ~Suits(i)
        /\ given' = IF item(n) = Nothing THEN <<>> ELSE <<item(n)>>
        /\ queue' = IF "CLEAR_BUFFER" \in asked' THEN <<>> ELSE From(queue, n)
        /\ line' = line

KeyNext == IF "READ" \in asked' /\ queue # <<>> THEN Pick ELSE Next

KeySpec == Init /\ [][KeyNext]_vars
=============================================================================
