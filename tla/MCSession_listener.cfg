SPECIFICATION Spec
CONSTANTS
  ann = ann
  bob = bob
  None = None
  Users <- TwoPeople
  Registered <- OnlyAnn
  MaxTaps = 1
  MaxForms = 1
  MaxScreens = 2
  MaxFaults = 0
INVARIANTS
  ListenerHasUser
CHECK_DEADLOCK FALSE
