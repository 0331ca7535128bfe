CONSTANTS
  Octets = 2
  OctetBits = 2
  Iface = {0, 1}
  Files <- TwoFiles
  MyIp <- OwnIps
  Hosts <- TheHosts
  Mac = {m1, m2}
  Empty = Empty
  Dests <- SomeDests
  Ttls = {1, 2}
  MaxPackets = 3
  MaxUnasked = 2
SPECIFICATION FairSpec
INVARIANTS EmptyMeansAsked LookupFindsEntry
PROPERTIES SentToOwner ImplementsForwarding QueueDrains
CHECK_DEADLOCK FALSE
