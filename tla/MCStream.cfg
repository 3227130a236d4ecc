CONSTANTS
  Frame <- MCFrame
  DIFblocks_in_pkt = 3
  MAX_PACKET_LENGTH = 300
  Redundancies = {0, 1}
  FlagSets <- MCFlagSets
  Rates = {1, 2, 3}
  MaxFrame = 4
  MaxTrouble = 2
  N = 3
SPECIFICATION StreamSpec
CHECK_DEADLOCK FALSE
INVARIANTS Stamped NothingLost OneInRate PicturesArrive SoundsArrive SoundsKept NeverBack LossExplained HandOvers
