\* A flow out of the virtual network after its read deadline has passed.
SPECIFICATION FairSpec
CONSTANTS
  Peers = {p1}
  Conns = {k1, k2, k3}
  Uses = {"flow"}
  FlowPeer = p1
  None = None
PROPERTIES
  FlowDatagramRead
CHECK_DEADLOCK FALSE
