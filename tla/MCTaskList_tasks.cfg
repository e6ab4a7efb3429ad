SPECIFICATION FairSpec
CONSTANTS
  shop = shop
  call = call
  home = home
  None = None
  Titles <- TwoTitles
  Places <- OnePlace
  MaxSaves = 3
INVARIANTS
  RowsHold
  NoTwins
PROPERTIES
  NothingLost
  SavedIsListed
