CONSTANTS
  Octets = 2
  OctetBits = 2
  Iface = {0, 1}
  Files <- SomeFiles
  MyIp <- OwnIps
  Hosts <- TheHosts
  Mac = {1}
  Dests <- SomeDests
  Ttls = {1, 2}
  MaxPackets = 4
  MaxUnasked = 1
SPECIFICATION FairSpec
INVARIANTS OneFate SentByRoute WaitingIsAsked LookupFindsRoute
PROPERTIES QueueDrains
CHECK_DEADLOCK FALSE
