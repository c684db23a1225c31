\* Two handlers, one listing, an adder, three zones added over time.
SPECIFICATION FairSpec
CONSTANTS
  inner = inner
  outer = outer
  nInner = nInner
  nOuter = nOuter
  nElse = nElse
  ip1 = ip1
  ip2 = ip2
  ip3 = ip3
  Handlers = {h1, h2}
  Listers = {r1}
  Adders = {w1}
  Names = {nInner, nOuter, nElse}
  ZoneNames = {inner, outer}
  InZone <- MCInZone
  IPs = {ip1, ip2, ip3, NoIP}
  NoIP = NoIP
  Configured <- MCConfigured
  Requests <- MCRequests
  Queries <- MCQueries
  MaxAdds = 3
  None = None
PROPERTIES
  ImplementsZoneHistory
  WaitsOnlyForLookups
