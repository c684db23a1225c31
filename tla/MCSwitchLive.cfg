\* Liveness: two connections, one on a stream protocol.
SPECIFICATION FairSpec
CONSTANTS
  c1 = c1
  m1 = m1
  m2 = m2
  Clients = {c1, c2}
  StreamClients = {c2}
  HTTPClients = {c2}
  GatewayThreads = {}
  Macs = {m1, m2}
  GatewayMac = gw
  Broadcast = bcast
  SrcMacs <- OwnMacs
  MaxConns = 2
  MaxBuffered = 1
  None = None
PROPERTIES
  DroppedConnFinishes
  GatewayGetsItsFrames
  
CHECK_DEADLOCK FALSE
