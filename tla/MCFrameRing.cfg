CONSTANTS
  N <- MCN
  Part = {p, q}
  MaxFrame = 7
  MaxBurst = 4
  Lead = 2
SPECIFICATION Spec
INVARIANTS Exclusive MarkIsWriters
PROPERTIES InOrder EveryFrameShown HandlerEnds
