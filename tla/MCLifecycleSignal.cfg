\* A signal to a gvproxy that listens for Hyperkit.
SPECIFICATION FairSpec
CONSTANTS
  Configurations <- Hyperkit
  MaxGuests = 1
PROPERTIES
  SignalEndsProcess
