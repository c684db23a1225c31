\* A failed write, a frame already read, and a unicast to its sender.
SPECIFICATION Spec
CONSTANTS
  c1 = c1
  m1 = m1
  m2 = m2
  Clients = {c1, c2}
  StreamClients = {c2}
  HTTPClients = {c1, c2}
  GatewayThreads = {g1}
  Macs = {m1, m2}
  GatewayMac = gw
  Broadcast = bcast
  SrcMacs <- OwnMacs
  MaxConns = 2
  MaxBuffered = 1
  None = None
INVARIANTS
  NeverPanics
