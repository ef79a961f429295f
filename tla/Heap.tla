-------------------------------- MODULE Heap --------------------------------
(***************************************************************************)
(* What an allocator promises to its callers: alloc gives a block of the   *)
(* size asked for, of memory that is in no other block, or nothing; what   *)
(* the caller writes into its blocks remains there until it frees them.    *)
(***************************************************************************)
EXTENDS Integers, TLC

CONSTANTS
  Mem,     \* the addresses of the words of the memory
  Word,    \* the size of a word
  Sizes,   \* sizes callers ask for
  Data     \* what they write

VARIABLES
  blocks,   \* the blocks callers have: where they begin, and their size
  content   \* what the words of the blocks hold

Words(b) == {a \in Mem : b.at <= a /\ a < b.at + b.size}

Init == blocks = {} /\ content = <<>>

Alloc ==
  \E b \in [at : Mem, size : Sizes] :
    /\ blocks' = blocks \cup {b}
    /\ Words(b) \cap DOMAIN content = {}
    /\ b.at + b.size - 1 \in UNION {a .. a + Word - 1 : a \in Words(b)}
    /\ \E v \in Data : content' = [a \in Words(b) |-> v] @@ content

Free ==
  \E b \in blocks :
    /\ blocks' = blocks \ {b}
    /\ content' = [a \in DOMAIN content \ Words(b) |-> content[a]]

Next == Alloc \/ Free

Spec == Init /\ [][Next]_<<blocks, content>>
=============================================================================
