SPECIFICATION FairSpec
CONSTANTS
  ann = ann
  bob = bob
  cat = cat
  dan = dan
  d1 = d1
  d2 = d2
  d3 = d3
  None = None
  Users <- TwoUsers
  Devices <- TwoDevices
  Home <- OwnDevice
  Newcomers = {}
  MaxOps = 3
  MaxFaults = 2
  MaxSwitches = 0
INVARIANTS
  SentIsDelivered
  AcceptLosesNothing
  SuccessIsTrue
PROPERTIES
  Implements
  AcceptOpensChat
CHECK_DEADLOCK FALSE
