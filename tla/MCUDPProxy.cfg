\* A proxy of Expose with two clients and Close, or a flow; three backend connections over time.
SPECIFICATION FairSpec
CONSTANTS
  Peers = {p1, p2}
  Conns = {k1, k2, k3}
  Uses = {"expose", "flow"}
  FlowPeer = p1
  None = None
INVARIANTS
  TypeOK
  TableMatchesReplyLoops
  NoOrphanConn
  LostDatagramIsLast
PROPERTIES
  CloseReleasesAll
  ExposedDatagramRead
  SilentFlowReleased
CHECK_DEADLOCK FALSE
