------------------------------ MODULE Allocators ------------------------------
(***************************************************************************)
(* A caller of one of the two allocators (the kernel and the stacks use    *)
(* ff_simple, programs use gma; either can be configured for both): it     *)
(* asks for blocks of various sizes, writes into them and frees them, in   *)
(* any order.                                                              *)
(***************************************************************************)
EXTENDS FirstFit, Gma, TLC

CONSTANTS
  Sizes,      \* the sizes the caller asks for
  Data        \* the words it writes into its blocks

ASSUME AllocatorsAssumption == Sizes \subseteq Nat \ {0} /\ Data \subseteq Nat

Addr == WordsOf(IF FfsSize < Size THEN Size ELSE FfsSize)

VARIABLES
  allocator,   \* "ffs" or "gma"
  m,           \* its pool
  blocks       \* what the caller has: [at, size]

vars == <<allocator, m, blocks>>

Init ==
  /\ allocator \in {"ffs", "gma"}
  /\ m = IF allocator = "ffs" THEN ffs_init ELSE gma_init
  /\ blocks = {}

Words(b) == {a \in Addr : b.at <= a /\ a < b.at + b.size}

\* The caller writes into all of its new block.
Fill(p, b, w) ==
  [p EXCEPT !.mem = [a \in DOMAIN @ |-> IF a \in Words(b) THEN w ELSE @[a]]]

Give(r, n, w) ==
  LET b == [at |-> r.ret, size |-> n]
  IN  IF r.ret = NULL THEN m' = m /\ UNCHANGED blocks
      ELSE m' = Fill(r.m, b, w) /\ blocks' = blocks \cup {b}

alloc ==
  /\ \E n \in Sizes, w \in Data :
       Give(IF allocator = "ffs" THEN ffs_alloc(m, n) ELSE gma_alloc(m, n), n, w)
  /\ UNCHANGED allocator

free ==
  /\ \E b \in blocks :
       /\ m' = IF allocator = "ffs" THEN ffs_free(m, b.at) ELSE gma_free(m, b.at)
       /\ blocks' = blocks \ {b}
  /\ UNCHANGED allocator

Next == alloc \/ free

Spec == Init /\ [][Next]_vars

-----------------------------------------------------------------------------
(***************************************************************************)
(* What is kept in the memory itself remains consistent: chunks follow     *)
(* each other from border to border, free neighbours are merged, and the   *)
(* lists (and bitmaps) have exactly the free chunks.                       *)
(***************************************************************************)
PoolSound == IF allocator = "ffs" THEN FfsSound(m) ELSE GmaSound(m)

(***************************************************************************)
(* Nothing is returned only if nothing large enough is free: first-fit     *)
(* finds a chunk of exactly the size; gma needs one from the next list.    *)
(***************************************************************************)
FitIsFound ==
  \A n \in Sizes :
    IF allocator = "ffs"
    THEN ffs_alloc(m, n).ret = NULL => FfsExhausted(m, n)
    ELSE gma_alloc(m, n).ret = NULL => GmaExhausted(m, n)

(***************************************************************************)
(* Either allocator is a heap: blocks are disjoint and large enough, and   *)
(* what the caller has written into one is there until it is freed.        *)
(***************************************************************************)
content == [a \in UNION {Words(b) : b \in blocks} |-> m.mem[a]]

H == INSTANCE Heap WITH Mem <- Addr

ImplementsHeap == H!Spec
=============================================================================
