CONSTANTS
  Octets = 3
  OctetBits = 2
  Iface = {0, 1}
  Files <- TwoMasks
  MyIp <- OwnIps
  Hosts <- TheHosts
  Mac = {m1, m2}
  Empty = Empty
  Dests <- SomeDests
  Ttls = {1, 2}
  MaxPackets = 1
  MaxUnasked = 0
SPECIFICATION Spec
INVARIANTS LongestWins
CHECK_DEADLOCK FALSE
