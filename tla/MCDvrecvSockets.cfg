CONSTANTS
  Groups = {"group", "group6", "host", "unknown"}
  GroupFamily <- MCGroupFamily
  IsGroup = {"group", "group6"}
  Ports = {8, 9, 10}
  MaxPort = 10
  Inet6 = TRUE
SPECIFICATION SocketsSpec
CHECK_DEADLOCK FALSE
INVARIANTS SelectSees
