SPECIFICATION EndingsSpec
CONSTANTS
  Doc = {d1, d2}
  NoFrag = none
  Frag = {none, f1}
  Offset = {0}
  Width = {1, 2}
  MaxHistory = 2
  CanFail = TRUE
  IMG_CONCURRENT = 1
  IMG_REDIRECT_MAX = 1
  MAX_PAGE_IMAGES = 2
  MAX_IMAGE_TOTAL = 2
  Pixels = {1}
  MaxDoc = 3
  ImgFaults = {"init"}
  k1 = k1
  k2 = k2
  k3 = k3
  p1 = p1
  DiskKey = {k1, k2, k3}
  Body <- MCBody
  Proc = {p1}
  DiskMax = 4
  Batch = 2
  MaxDiskClock = 0
  Faults = {"io", "busy", "prepare"}
INVARIANTS ImagesOfPage
PROPERTIES PageSettles LeftPageKept OperationsEnd
CHECK_DEADLOCK FALSE
