CONSTANTS
  Failures = {"socket", "shmget", "fork", "device", "attach parent", "attach child", "read", "write"}
  Signals = {"terminal", "parent", "child"}
SPECIFICATION Spec
CHECK_DEADLOCK FALSE
INVARIANTS KillsOther
PROPERTIES InterruptCleans NeverAlone
