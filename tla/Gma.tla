-------------------------------- MODULE Gma ---------------------------------
(***************************************************************************)
(* The Grid Memory Allocator (lib/mm/gma.c, gma.h), the allocator of user  *)
(* programs: two-level segregated lists of free chunks.  The pool m is its *)
(* bitmaps and its memory, in which the heads of the lists come first.  A  *)
(* chunk's address c is that of the word before it, in which the size of   *)
(* the chunk before is kept if that one is free.  Words are numbers; the   *)
(* two lowest bits of a size say that the chunk (CINUSE) and the one       *)
(* before it (BINUSE) are in use, the lowest bit of a chunk's prev that it *)
(* is the first in its list.                                               *)
(***************************************************************************)
EXTENDS MemPool, FiniteSets

CONSTANTS
  Size,             \* the size of the memory it is given
  L,                \* there are 2^L lists on a level
  min_chunk_size    \* no chunk is smaller

ASSUME GmaAssumption ==
  /\ L \in 2 .. 6 /\ Size \in Nat /\ Size % Word = 0
  /\ min_chunk_size >= 4 * Word /\ min_chunk_size >= 2 ^ L

GmaAddr == WordsOf(Size)

BINUSE == 1
CINUSE == 2

BORDER_CHUNK_SIZE == Word
EXACT_LIMIT_SIZE  == 2 ^ (2 * L - 2)

msb_index(n) == CHOOSE i \in 0 .. 31 : 2 ^ i <= n /\ n < 2 ^ (i + 1)
lsb_index(bits) == CHOOSE i \in bits : \A j \in bits : i <= j

SL_DIM == 2 ^ L
fl_min == msb_index(min_chunk_size)
fl_max == msb_index(Size)
Levels == 0 .. fl_max - fl_min

\* Where gma_init puts the heads of the lists and, behind them, the chunks.
ListBase   == Base + Word * (fl_max - fl_min + 1)
List(fl, sl) == ListBase + Word * (fl * SL_DIM + sl)
FirstAddr  == ListBase + Word * SL_DIM * (fl_max - fl_min + 1)

Write(m, a, w) == [m EXCEPT !.mem[a] = w]

SizeWord(m, c)        == m.mem[c + Word]
GET_CHUNK_SIZE(m, c)  == SizeWord(m, c) - (SizeWord(m, c) % 4)
GET_CHUNK_INUSE(m, c) == SizeWord(m, c) % 4 >= CINUSE
GET_CHUNK_BINUSE(m, c) == SizeWord(m, c) % 2 = BINUSE
GET_CHUNK_AFTER(m, c) == c + GET_CHUNK_SIZE(m, c)

SET_CHUNK_SIZE(m, c, n) == Write(m, c + Word, n + (SizeWord(m, c) % 4))
SET_CHUNK_INUSE(m, c) ==
  IF GET_CHUNK_INUSE(m, c) THEN m ELSE Write(m, c + Word, SizeWord(m, c) + CINUSE)
CLEAR_CHUNK_INUSE(m, c) ==
  IF GET_CHUNK_INUSE(m, c) THEN Write(m, c + Word, SizeWord(m, c) - CINUSE) ELSE m
SET_CHUNK_BINUSE(m, c) ==
  IF GET_CHUNK_BINUSE(m, c) THEN m ELSE Write(m, c + Word, SizeWord(m, c) + BINUSE)
CLEAR_CHUNK_BINUSE(m, c) ==
  IF GET_CHUNK_BINUSE(m, c) THEN Write(m, c + Word, SizeWord(m, c) - BINUSE) ELSE m

SET_CHUNK_IN_USE(m, c) ==
  LET m1 == SET_CHUNK_INUSE(m, c) IN SET_CHUNK_BINUSE(m1, GET_CHUNK_AFTER(m1, c))

\* The size is kept behind the chunk too.
CLONE_CHUNK_SIZE(m, c) == Write(m, GET_CHUNK_AFTER(m, c), SizeWord(m, c))

JOIN_CHUNKS(m, c1, c2) ==
  SET_CHUNK_SIZE(m, c1, GET_CHUNK_SIZE(m, c1) + GET_CHUNK_SIZE(m, c2))

GET_CHUNK_PREV(m, c) == m.mem[c + 2 * Word]
NEXT(m, c) == m.mem[c + 3 * Word]
IS_CHUNK_FIRST_IN_LIST(m, c) == GET_CHUNK_PREV(m, c) % 2 = 1

-----------------------------------------------------------------------------
(***************************************************************************)
(* get_indexes: the list a chunk of a size belongs to, and the one that is *)
(* searched, whose chunks are all large enough, or the next with chunks.   *)
(***************************************************************************)
Level(size) == msb_index(size) - fl_min
Step(size)  == 2 ^ (msb_index(size) - L)
Slot(size)  == (size \div Step(size)) - SL_DIM

SearchSize(size) == IF size >= EXACT_LIMIT_SIZE THEN size + Step(size) - 1 ELSE size

\* Mutation: the next level is skipped.
RowsAbove_skip(m, fl) == {i \in m.FL_bitmap : i > fl + 1}

\* Higher levels that have chunks.
RowsAbove(m, fl) == {i \in m.FL_bitmap : i > fl}

\* The list to take a chunk from, or none.
SearchIndexes(m, size0) ==
  LET size == SearchSize(size0)
      fl   == Level(size)
      row  == {j \in m.SL_bitmap[fl] : j >= Slot(size)}
      rows == RowsAbove(m, fl)
  IN  IF msb_index(size) > fl_max THEN {}
      ELSE IF row # {} THEN {<<fl, lsb_index(row)>>}
      ELSE IF rows # {} THEN {<<lsb_index(rows), lsb_index(m.SL_bitmap[lsb_index(rows)])>>}
      ELSE {}

set_list_have_chunks(m, fl, sl) ==
  [m EXCEPT !.SL_bitmap[fl] = @ \cup {sl}, !.FL_bitmap = @ \cup {fl}]

clear_list_have_chunks(m, fl, sl) ==
  LET left == m.SL_bitmap[fl] \ {sl}
  IN  [m EXCEPT !.SL_bitmap[fl] = left,
                !.FL_bitmap = IF left = {} THEN @ \ {fl} ELSE @]

\* insert_chunk_in_list: at the head; prev is the head's address, and the F bit.
insert_chunk_in_list(m, list, c) ==
  LET m1 == Write(m, c + 3 * Word, m.mem[list])
      m2 == IF m.mem[list] = NULL THEN m1 ELSE Write(m1, m.mem[list] + 2 * Word, c)
      m3 == Write(Write(m2, list, c), c + 2 * Word, list + 1)
      m4 == CLEAR_CHUNK_INUSE(m3, c)
      m5 == CLONE_CHUNK_SIZE(m4, c)
  IN  CLEAR_CHUNK_BINUSE(m5, GET_CHUNK_AFTER(m5, c))

insert_chunk_in_free_list(m, c) ==
  LET size == GET_CHUNK_SIZE(m, c)
  IN  set_list_have_chunks(insert_chunk_in_list(m, List(Level(size), Slot(size)), c),
                           Level(size), Slot(size))

\* remove_chunk_from_list: the new state, and whether the list is now empty.
remove_chunk_from_list(m, c) ==
  LET list == GET_CHUNK_PREV(m, c) - 1
      n    == NEXT(m, c)
      m1   == Write(m, list, n)
      m2   == Write(m, GET_CHUNK_PREV(m, c) + 3 * Word, n)
  IN  IF IS_CHUNK_FIRST_IN_LIST(m, c)
      THEN IF n = NULL THEN [m |-> m1, empty |-> TRUE]
           ELSE [m |-> Write(m1, n + 2 * Word, list + 1), empty |-> FALSE]
      ELSE IF n = NULL THEN [m |-> m2, empty |-> FALSE]
           ELSE [m |-> Write(m2, n + 2 * Word, GET_CHUNK_PREV(m, c)), empty |-> FALSE]

remove_chunk_from_free_list(m, c) ==
  LET size == GET_CHUNK_SIZE(m, c)
      r    == remove_chunk_from_list(m, c)
  IN  IF r.empty THEN clear_list_have_chunks(r.m, Level(size), Slot(size)) ELSE r.m

remove_first_chunk_from_free_list(m, fl, sl) ==
  LET r == remove_chunk_from_list(m, m.mem[List(fl, sl)])
  IN  IF r.empty THEN clear_list_have_chunks(r.m, fl, sl) ELSE r.m

-----------------------------------------------------------------------------
\* split_chunk_at: the remainder's flags are clear, those of the chunk remain.
split_chunk_at(m, c, size) ==
  LET rest == c + size
      m1   == CLONE_CHUNK_SIZE(Write(m, rest + Word, GET_CHUNK_SIZE(m, c) - size), rest)
  IN  CLONE_CHUNK_SIZE(SET_CHUNK_SIZE(m1, c, size), c)

GmaChunkSize(n) ==
  IF ALIGN_FW(n + Word) < min_chunk_size THEN min_chunk_size ELSE ALIGN_FW(n + Word)

\* gma_alloc
gma_alloc(m, n) ==
  LET size == GmaChunkSize(n)
      found == SearchIndexes(m, size)
      at   == CHOOSE i \in found : TRUE
      c    == m.mem[List(at[1], at[2])]
      m1   == remove_first_chunk_from_free_list(m, at[1], at[2])
      m2   == IF GET_CHUNK_SIZE(m1, c) >= size + min_chunk_size
              THEN insert_chunk_in_free_list(split_chunk_at(m1, c, size), c + size)
              ELSE m1
  IN  IF found = {} THEN [m |-> m, ret |-> NULL]
      ELSE [m |-> SET_CHUNK_IN_USE(m2, c), ret |-> c + 2 * Word]

\* The two joins of gma_free.
JoinBefore(m, c) ==
  LET before == c - (m.mem[c] - (m.mem[c] % 4))
      m1     == remove_chunk_from_free_list(m, before)
  IN  IF GET_CHUNK_BINUSE(m, c) \/ GET_CHUNK_INUSE(m, before) THEN [m |-> m, c |-> c]
      ELSE [m |-> JOIN_CHUNKS(m1, before, c), c |-> before]

JoinAfter(m, c) ==
  LET after == GET_CHUNK_AFTER(m, c)
      m1    == remove_chunk_from_free_list(m, after)
  IN  IF GET_CHUNK_INUSE(m, after) THEN m ELSE JOIN_CHUNKS(m1, c, after)

\* gma_free; its ASSERTs are on the chunk that is freed.
gma_free(m, address) ==
  LET c == address - 2 * Word
      l == JoinBefore(CLEAR_CHUNK_INUSE(m, c), c)
      m1 == JoinAfter(l.m, l.c)
  IN  IF ~GET_CHUNK_INUSE(m, c) \/ GET_CHUNK_SIZE(m, c) = BORDER_CHUNK_SIZE
      THEN [m EXCEPT !.halted = TRUE]
      ELSE insert_chunk_in_free_list(m1, l.c)

\* gma_init, with the first chunk made by make_first_chunk: in use, between borders.
make_first_chunk(m, addr, size) ==
  LET m1 == Write(m, addr, BORDER_CHUNK_SIZE + CINUSE)
      m2 == Write(m1, addr + Word, size - 2 * BORDER_CHUNK_SIZE + CINUSE + BINUSE)
  IN  Write(m2, addr + size - Word, BORDER_CHUNK_SIZE + CINUSE + BINUSE)

gma_init ==
  LET m == [mem |-> [a \in GmaAddr |-> 0], FL_bitmap |-> {}, SL_bitmap |-> [i \in Levels |-> {}],
            halted |-> FALSE]
  IN  gma_free(make_first_chunk(m, FirstAddr, Base + Size - FirstAddr), FirstAddr + 2 * Word)

-----------------------------------------------------------------------------
\* What the words say, as in FirstFit.
GmaLastBorder == Base + Size - 2 * Word

GmaChunks(m) ==
  LET from[c \in GmaAddr] ==
        IF c >= GmaLastBorder \/ GET_CHUNK_SIZE(m, c) = 0 THEN {}
        ELSE {c} \cup (IF GET_CHUNK_AFTER(m, c) \in GmaAddr THEN from[GET_CHUNK_AFTER(m, c)]
                       ELSE {})
  IN  from[FirstAddr]

GmaFreeChunks(m) == {c \in GmaChunks(m) : ~GET_CHUNK_INUSE(m, c)}

\* Chunks follow each other up to the border, each knows whether the one before is
\* free, and then its size; no two free ones are neighbours.
Tiled(m) ==
  LET cs == GmaChunks(m)
  IN  /\ GET_CHUNK_BINUSE(m, FirstAddr)
      /\ \A c \in cs :
           LET after == GET_CHUNK_AFTER(m, c)
           IN  /\ after \in cs \cup {GmaLastBorder}
               /\ GET_CHUNK_BINUSE(m, after) <=> GET_CHUNK_INUSE(m, c)
               /\ ~GET_CHUNK_INUSE(m, c) =>
                    /\ GET_CHUNK_INUSE(m, after)
                    /\ m.mem[after] - (m.mem[after] % 4) = GET_CHUNK_SIZE(m, c)

\* Each free chunk is linked in the list for its size; the bitmaps name the lists
\* that are not empty.
Listed(m) ==
  LET fs == GmaFreeChunks(m)
      In(c) == List(Level(GET_CHUNK_SIZE(m, c)), Slot(GET_CHUNK_SIZE(m, c)))
  IN  /\ \A c \in fs :
           /\ NEXT(m, c) # NULL => NEXT(m, c) \in fs /\ In(NEXT(m, c)) = In(c)
           /\ IF IS_CHUNK_FIRST_IN_LIST(m, c)
              THEN GET_CHUNK_PREV(m, c) = In(c) + 1 /\ m.mem[In(c)] = c
              ELSE GET_CHUNK_PREV(m, c) \in fs /\ NEXT(m, GET_CHUNK_PREV(m, c)) = c
      /\ \A i \in Levels :
           /\ i \in m.FL_bitmap <=> m.SL_bitmap[i] # {}
           /\ \A j \in 0 .. SL_DIM - 1 :
                /\ j \in m.SL_bitmap[i] <=> m.mem[List(i, j)] # NULL
                /\ m.mem[List(i, j)] # NULL => /\ m.mem[List(i, j)] \in fs
                                               /\ In(m.mem[List(i, j)]) = List(i, j)

GmaSound(m) == ~m.halted /\ Tiled(m) /\ Listed(m)

\* No free chunk is large enough for n rounded up to the next list.
GmaExhausted(m, n) ==
  \A c \in GmaFreeChunks(m) : GET_CHUNK_SIZE(m, c) < GmaChunkSize(n) + Step(GmaChunkSize(n))
=============================================================================
