------------------------------ MODULE FirstFit ------------------------------
(***************************************************************************)
(* The first-fit allocator (lib/mm/ff_simple.c), which the kernel uses for *)
(* its heap and for the stacks of a process.  A pool m is its list of free *)
(* chunks and the words of its memory: the allocator keeps its structure   *)
(* in the memory it gives out, and finds it again from addresses.  Words   *)
(* are numbers; the lowest bit of a size marks the chunk as used.          *)
(***************************************************************************)
EXTENDS MemPool

CONSTANT FfsSize   \* the size of the memory it is given

ASSUME FirstFitAssumption == FfsSize \in Nat /\ FfsSize >= 9 * Word /\ FfsSize % Word = 0

FfsAddr == WordsOf(FfsSize)

HEADER_SIZE == 4 * Word       \* size, prev and next, and the tail's size

MARK_USED(w)  == w - (w % 2) + 1
MARK_FREE(w)  == w - (w % 2)
CHECK_FREE(w) == w % 2 = 0

GET_SIZE(m, c)  == m.mem[c] - (m.mem[c] % 2)
GET_AFTER(m, c) == c + GET_SIZE(m, c)
\* the chunk whose tail is at t
GET_HDR(m, t)   == t - GET_SIZE(m, t) + Word

SetSize(m, c, n) == [m EXCEPT !.mem[c] = n]
CLONE_SIZE_TO_TAIL(m, c) == [m EXCEPT !.mem[GET_AFTER(m, c) - Word] = m.mem[c]]

\* The list's links, in the second and third word of a free chunk.
ffs_prev(m, c) == m.mem[c + Word]
ffs_next(m, c) == m.mem[c + 2 * Word]

-----------------------------------------------------------------------------
\* ffs_remove_chunk
ffs_remove_chunk(m, c) ==
  LET m1 == IF c = m.first THEN [m EXCEPT !.first = ffs_next(m, c)]
            ELSE [m EXCEPT !.mem[ffs_prev(m, c) + 2 * Word] = ffs_next(m, c)]
  IN  IF ffs_next(m, c) = NULL THEN m1
      ELSE [m1 EXCEPT !.mem[ffs_next(m, c) + Word] = ffs_prev(m, c)]

\* Mutation: the chunk that was first keeps its link to what was before it.
ffs_insert_chunk_oneWay(m, c) ==
  [m EXCEPT !.mem[c + 2 * Word] = m.first, !.mem[c + Word] = NULL, !.first = c]

\* ffs_insert_chunk: at the head.
ffs_insert_chunk(m, c) ==
  LET m1 == [m EXCEPT !.mem[c + 2 * Word] = m.first, !.mem[c + Word] = NULL]
      m2 == IF m.first = NULL THEN m1 ELSE [m1 EXCEPT !.mem[m.first + Word] = c]
  IN  [m2 EXCEPT !.first = c]

\* ffs_init: the pool's descriptor is its first word; used chunks of one word are
\* put on both sides of the free one.
ffs_init ==
  LET start == Base + Word
      chunk == start + Word
      size  == Base + FfsSize - start - 2 * Word
      m     == [first |-> NULL,
                mem |-> [a \in FfsAddr |-> IF a \in {start, chunk + size} THEN MARK_USED(Word)
                                        ELSE 0]]
  IN  ffs_insert_chunk(CLONE_SIZE_TO_TAIL(SetSize(m, chunk, size), chunk), chunk)

\* The chunk size for a request.
FfsChunkSize(n) ==
  IF n + 2 * Word < HEADER_SIZE THEN HEADER_SIZE ELSE ALIGN_FW(n + 2 * Word)

\* Mutation: the first chunk of the list is taken, whatever its size.
FirstFitting_any(m, size) == m.first

\* The first chunk of the list that is large enough.
FirstFitting(m, size) ==
  LET search[c \in FfsAddr \cup {NULL}] ==
        IF c = NULL THEN NULL
        ELSE IF m.mem[c] >= size THEN c ELSE search[ffs_next(m, c)]
  IN  search[m.first]

\* ffs_alloc: of a chunk that is large enough for two, the first part remains free.
ffs_alloc(m, n) ==
  LET size  == FfsChunkSize(n)
      iter  == FirstFitting(m, size)
      part  == CLONE_SIZE_TO_TAIL(SetSize(m, iter, m.mem[iter] - size), iter)
      split == m.mem[iter] >= size + HEADER_SIZE
      chunk == IF split THEN GET_AFTER(part, iter) ELSE iter
      m1    == IF split THEN SetSize(part, chunk, size) ELSE ffs_remove_chunk(m, iter)
      m2    == SetSize(m1, chunk, MARK_USED(m1.mem[chunk]))
  IN  IF iter = NULL THEN [m |-> m, ret |-> NULL]
      ELSE [m |-> CLONE_SIZE_TO_TAIL(m2, chunk), ret |-> chunk + Word]

\* The two joins of ffs_free: the new state and the chunk that results.
JoinLeft(m, c) ==
  LET before == GET_HDR(m, c - Word)
      m1     == ffs_remove_chunk(m, before)
  IN  IF ~CHECK_FREE(m.mem[c - Word]) THEN [m |-> m, c |-> c]
      ELSE [m |-> SetSize(m1, before, m1.mem[before] + m1.mem[c]), c |-> before]

JoinRight(m, c) ==
  LET after == GET_AFTER(m, c)
      m1    == ffs_remove_chunk(m, after)
  IN  IF ~CHECK_FREE(m.mem[after]) THEN m
      ELSE SetSize(m1, c, m1.mem[c] + m1.mem[after])

\* ffs_free
ffs_free(m, address) ==
  LET c == address - Word
      l == JoinLeft(SetSize(m, c, MARK_FREE(m.mem[c])), c)
  IN  CLONE_SIZE_TO_TAIL(ffs_insert_chunk(JoinRight(l.m, l.c), l.c), l.c)

-----------------------------------------------------------------------------
(***************************************************************************)
(* What the words say: the chunks one finds going from border to border,   *)
(* those that are free, and those in the list of free chunks.              *)
(***************************************************************************)
FirstChunk == Base + 2 * Word
FfsLastBorder == Base + FfsSize - Word

FfsChunks(m) ==
  LET from[c \in FfsAddr \cup {Base + FfsSize}] ==
        IF c >= FfsLastBorder \/ GET_SIZE(m, c) = 0 THEN {}
        ELSE {c} \cup (IF GET_AFTER(m, c) \in FfsAddr THEN from[GET_AFTER(m, c)] ELSE {})
  IN  from[FirstChunk]

FfsFreeChunks(m) == {c \in FfsChunks(m) : CHECK_FREE(m.mem[c])}

\* Every chunk ends where another begins, with its size at both ends; no two free
\* ones are neighbours; the list links the free ones, in both directions.
FfsSound(m) ==
  LET cs == FfsChunks(m)
      fs == FfsFreeChunks(m)
  IN  /\ \A c \in cs : /\ GET_AFTER(m, c) \in cs \cup {FfsLastBorder}
                       /\ m.mem[GET_AFTER(m, c) - Word] = m.mem[c]
                       /\ c \in fs => GET_AFTER(m, c) \notin fs
      /\ m.mem[FfsLastBorder] = MARK_USED(Word)
      /\ \A c \in fs : /\ ffs_next(m, c) \in fs \cup {NULL}
                       /\ IF ffs_prev(m, c) = NULL THEN m.first = c
                          ELSE ffs_prev(m, c) \in fs /\ ffs_next(m, ffs_prev(m, c)) = c
      /\ m.first \in fs \cup {NULL} /\ (m.first = NULL => fs = {})

\* No free chunk is large enough for n.
FfsExhausted(m, n) == \A c \in FfsFreeChunks(m) : GET_SIZE(m, c) < FfsChunkSize(n)
=============================================================================
