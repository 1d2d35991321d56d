SPECIFICATION CoreSpec
CONSTANTS
  Client = {a, b}
  a = a
  b = b
  Ops <- MCOps
  max_contexts = 2
  MAX_RUNTIME_SLOTS = 3
  command_capacity = 2
  MaxContext = 2
  MaxNav = 2
  MaxCommands = 4
  Items = {"image", "script", "inline"}
  LoadsFail = TRUE
CHECK_DEADLOCK FALSE
INVARIANTS OneTerminal NotStranded AppliedToOwn
PROPERTIES OwnWorkSurvives EverythingEnds
