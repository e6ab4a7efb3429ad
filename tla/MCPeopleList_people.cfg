SPECIFICATION Spec
CONSTANTS
  me = me
  ann = ann
  bob = bob
  None = None
  Ids <- ThreePeople
  Contents = {"old", "new"}
  Me <- me
  First = "old"
  MaxChanges = 3
INVARIANTS
  PeopleStand
