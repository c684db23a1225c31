\* unix: a proxy that is exposed twice.
SPECIFICATION Spec
CONSTANTS
  a = a
  b = b
  Locals = {a}
  OSAddr <- TwoSpellings
  PortZero = {}
  Protocols = {"unix"}
  Forwards <- NothingConfigured
  Listeners = {l1, l2}
  Accepted = {}
  None = None
INVARIANTS
  EveryListenerIsRegistered
CHECK_DEADLOCK FALSE
