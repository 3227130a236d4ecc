CONSTANTS
  PktNum = 25
  DifSeqs = {10, 12}
  Fracs <- MCFracs
  NBlocks <- MCNBlocks
  MaxLaidOut = 2
SPECIFICATION PackSpec
CHECK_DEADLOCK FALSE
INVARIANTS InOrder Fits
