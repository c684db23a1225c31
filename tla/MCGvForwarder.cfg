CONSTANTS
  Base = 3
  MTU = 1
  HeaderBytes = 2
  GuestFrames <- MCGuestFrames
  HostFrames <- MCHostFrames
  Protocols = {"hyperkit"}
  MaxSessions = 2
  MaxFrames = 2
SPECIFICATION FairSpec
INVARIANTS
  LeakBound
  WedgedOnlyOutOfStep
  FramesArriveWhole
  PanicsOnlyOnOversize
PROPERTIES
  LossEndsSession
  SentFramesArrive
CHECK_DEADLOCK FALSE
