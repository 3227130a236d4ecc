CONSTANTS
  Platforms = {"linux", "freebsd4", "macosX"}
  Jitter = 1
  Ready = 1
  MaxFrame = 7
SPECIFICATION Spec
INVARIANTS MuteRule LipSync
PROPERTIES FallsSilent
