SPECIFICATION FairSpec
CONSTANTS
  ann = ann
  bob = bob
  None = None
  Users <- TwoUsers
  First = ann
  MaxPendingWrites = 2
  MaxWrites = 3
  MaxMoves = 2
  MaxFaults = 1
INVARIANTS
  Sound
  Correlated
  AnswersAreTrue
PROPERTIES
  Implements
  Drains
CHECK_DEADLOCK FALSE
