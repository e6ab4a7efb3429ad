SPECIFICATION FairSpec
CONSTANTS
  MaxMessages = 2
  MaxDate = 2
  MaxScreens = 2
INVARIANTS
  ScreenStands
  NothingForgotten
PROPERTIES
  EverythingShown
CHECK_DEADLOCK FALSE
