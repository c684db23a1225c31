\* Three guests, two free addresses behind a static lease, and a restart.
SPECIFICATION Spec
CONSTANTS
  s1 = s1
  Guests = {g1, g2, g3}
  Macs = {g1, g2, g3, s1, gw}
  NoMac = NoMac
  Count = 5
  GatewayIP = 1
  GatewayMac = gw
  StaticLeases <- OneStaticLease
  AskTypes = {"discover", "other"}
  MaxEpoch = 1
  MaxInFlight = 2
INVARIANTS
  TypeOK
  NoAddressConflict
  ReservedAddressesKept
  OneAddressPerGuest
  RefusedOnlyWhenFull
PROPERTIES
  ImplementsLeaseBook
SYMMETRY Symmetry
