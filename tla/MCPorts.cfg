\* tcp and unix: two addresses of one port, proxies over SSH with two clients each.
SPECIFICATION Spec
CONSTANTS
  a = a
  b = b
  Locals = {a, b, z}
  OSAddr <- TwoSpellings
  PortZero = {z}
  Protocols = {"tcp", "unix"}
  Forwards <- Configurations
  Listeners = {l1, l2}
  Accepted = {x1, x2}
  None = None
INVARIANTS
  TableMatchesListeners
  OneTunnelPerProxy
  TunnelEndsWithProxy
SYMMETRY Symmetry
CHECK_DEADLOCK FALSE
