SPECIFICATION FairSpec
CONSTANTS
  ann = ann
  bob = bob
  None = None
  Users <- TwoPeople
  Registered = {}
  MaxTaps = 3
  MaxForms = 2
  MaxScreens = 2
  MaxFaults = 2
INVARIANTS
  Profiles
  SessionAgrees
PROPERTIES
  NoWayBack
  RegistrationEnds
CHECK_DEADLOCK FALSE
