CONSTANTS
  Failures = {"fork", "device"}
  Signals = {"terminal"}
SPECIFICATION Spec
CHECK_DEADLOCK FALSE
INVARIANT KillsOnlyOther
