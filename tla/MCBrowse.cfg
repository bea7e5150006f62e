SPECIFICATION MCBrowseSpec
CONSTANTS
  Device = {v1}
  TokenLife = 1
  Rows = 3
  PageSize = 1
INVARIANTS PagesShowLists
CHECK_DEADLOCK FALSE
