SPECIFICATION Spec
CONSTANTS
  ann = ann
  bob = bob
  cat = cat
  None = None
  Ids <- ThreeFriends
  Contents = {"old", "new"}
  First = "old"
  MaxChanges = 2
INVARIANTS
  ListsStand
PROPERTIES
  ArrivalIsAnnounced
CHECK_DEADLOCK FALSE
