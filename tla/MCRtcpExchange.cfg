CONSTANTS
  r1 = r1
  r2 = r2
  Receivers <- MCReceivers
  Interval = 1
  Period = 3
  Blocks = 3
  Cap = 2
SPECIFICATION RtcpSpec
CHECK_DEADLOCK FALSE
INVARIANTS OneReportEach
PROPERTIES ReportsKeepComing SRsRead StreamRead
