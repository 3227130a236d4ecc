CONSTANTS
  SeqMod = 5
  LostHalf = 8388608
  ShowEvery = 3
  MaxSent = 7
SPECIFICATION Spec
CHECK_DEADLOCK FALSE
INVARIANTS LossesCounted CountersAgree ScreenAccurate
