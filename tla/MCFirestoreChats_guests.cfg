SPECIFICATION Spec
CONSTANTS
  ann = ann
  bob = bob
  cat = cat
  dan = dan
  d1 = d1
  d2 = d2
  d3 = d3
  None = None
  Users <- FourUsers
  Devices <- ThreeDevices
  Home <- OwnDevices
  Newcomers <- OneNewcomer
  MaxOps = 3
  MaxFaults = 0
  MaxSwitches = 1
INVARIANTS
  TypeOK
  
  ListedTwice
  AcceptLosesNothing
  Consent
  Addressed
  OneRequestOneCopy
CHECK_DEADLOCK FALSE
