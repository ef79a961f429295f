------------------------------- MODULE MemPool -------------------------------
(* The memory an allocator manages: words at the multiples of the word size. *)
EXTENDS Integers

CONSTANTS
  Word,   \* sizeof(size_t)
  Base    \* where the memory begins

ASSUME MemPoolAssumption == Word = 4 /\ Base \in Nat \ {0} /\ Base % Word = 0

NULL == 0

\* The words of a memory of size bytes.
WordsOf(size) == {a \in Base .. Base + size - 1 : a % Word = 0}

\* ALIGN_FW, CHUNK_ALIGN_FW
ALIGN_FW(n) == ((n + Word - 1) \div Word) * Word
=============================================================================
