SPECIFICATION SessionSpec
CONSTANTS
  Doc = {d1, d2}
  NoFrag = none
  Frag = {none, f1}
  Offset = {0, 1}
  Width = {1, 2}
  MaxHistory = 2
  CanFail = TRUE
PROPERTIES KeepsHistory
