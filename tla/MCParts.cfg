SPECIFICATION PartsSpec
CONSTANTS
  k1 = k1
  k2 = k2
  k3 = k3
  k4 = k4
  Key = {k1, k2, k3, k4}
  Entry <- MCEntry
  MemMax = 4
  SmallMax = 2
  Doc = {d1, d2}
  NoFrag = none
  Frag = {none, fragment}
  Offset = {0, 1}
  Width = {1, 2}
  MaxHistory = 3
  CanFail = FALSE
  IMG_CONCURRENT = 2
  IMG_REDIRECT_MAX = 1
  MAX_PAGE_IMAGES = 4
  MAX_IMAGE_TOTAL = 3
  Pixels = {1, 2}
  MaxDoc = 2
  ImgFaults = {"multi", "init", "add"}
  MaxLinks = 2
  FieldLists <- MCFieldLists
  MaxLayout = 3
CHECK_DEADLOCK FALSE
INVARIANTS LruCovers MemBounded NoStaleLanding ConcurrencyBound SlotsFilled EditorsOfPage ScreenShowsPage
PROPERTIES PutSurvives KeepsHistory
