SPECIFICATION Spec
CONSTANTS
  Word = 4
  Base = 4
  Size = 160
  FfsSize = 84
  L = 2
  min_chunk_size = 16
  Sizes = {4, 18, 40}
  Data = {3}
INVARIANTS PoolSound FitIsFound
PROPERTY ImplementsHeap
CHECK_DEADLOCK FALSE
