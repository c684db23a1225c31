\* Three command lines of gvproxy that use every kind of service, one of win-sshproxy.
SPECIFICATION FairSpec
CONSTANTS
  Configurations <- CommandLines
  MaxGuests = 2
INVARIANTS
  TypeOK
  ExitCleansUp
  GroupEndsForGood
  WaitEndsOnCancel
PROPERTIES
  ShutdownCompletes
