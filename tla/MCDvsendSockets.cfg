CONSTANTS
  Dests <- MCDests
  Family <- MCFamily
  Multicast <- MCMulticast
  Ports = {6000}
  Ttls = {300}
  Interfaces = {"addr"}
  Addresses = {"addr"}
  Options = {"R", "6", "d", "m"}
  MaxDest = 2
  MaxAudio = 1
  MaxFd = 7
SPECIFICATION SocketsSpec
CHECK_DEADLOCK FALSE
INVARIANTS HeardAlone OwnOptions
PROPERTIES Settles
