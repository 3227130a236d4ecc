CONSTANTS
  N <- MCN
  Ts <- MCTs
  Blk = {b1, b2}
  Sys = {h}
  Zero = z
  Data = {z, d}
SPECIFICATION Spec
INVARIANTS SealedKept
PROPERTY Conceals
