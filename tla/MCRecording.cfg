CONSTANTS
  Platforms = {"netbsd", "freebsd4", "linux", "macosX"}
  Parts = 3
  Cycle = 3
  MaxFrame = 4
  Asked = {0, 1, 2}
  Numbering = {"all", "body", "none"}
  OldLengths = {0, 8}
  MaxMissing = 1
  EndParts = {2, 3}
SPECIFICATION RecordingSpec
CHECK_DEADLOCK FALSE
INVARIANTS PlaysBack SavesNearly
PROPERTIES SavesAsked PlaysAll Conceals
