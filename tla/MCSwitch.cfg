\* Two connections, one on a stream protocol; an address that moves between them; a goroutine of the stack.
SPECIFICATION Spec
CONSTANTS
  c1 = c1
  m1 = m1
  m2 = m2
  Clients = {c1, c2}
  StreamClients = {c2}
  HTTPClients = {c1}
  GatewayThreads = {g1}
  Macs = {m1, m2}
  GatewayMac = gw
  Broadcast = bcast
  SrcMacs <- MovingMac
  MaxConns = 2
  MaxBuffered = 1
  None = None
INVARIANTS
  TypeOK
  ConnTableMatchesGoroutines
  NoBroadcastEcho
  PanicNeedsDroppedConn
  CamPointsToServedConn
  TxTargetsConnected
PROPERTIES
  CamForgetsOnlyDeparted
